---------------------------- MODULE MCCatalogScan -----------------------------
(* CatalogScan on two shares, three directories and a file; name b is hidden. *)
EXTENDS CatalogScan

CONSTANTS movies, music, season, film, a, b

MCShares == <<"Movies", "Music">>

Option(recursive, follow, hidden) ==
  [recursive |-> recursive, follow |-> follow, hidden |-> hidden]

SomeOptions == {Option(TRUE, FALSE, TRUE), Option(TRUE, TRUE, TRUE),
                Option(FALSE, TRUE, FALSE)}

Following == {Option(TRUE, TRUE, TRUE)}

File(x) == [node |-> x, link |-> FALSE]
Link(x) == [node |-> x, link |-> TRUE]

Empty == [d \in Dirs |-> [n \in Names |-> Absent]]

\* an empty directory in a share
Bare == [Empty EXCEPT ![movies][a] = File(season)]

\* a directory with a file in it, below one of the shares
Nested == [Bare EXCEPT ![season][a] = File(film)]

\* the same, with a second name for the directory
Alias == [Nested EXCEPT ![movies][b] = Link(season)]

\* a link from below to the top, and one to the file
Cycle == [Nested EXCEPT ![season][b] = Link(movies), ![music][a] = Link(film)]

\* links that lead from one share into the other
Across == [Empty EXCEPT ![movies][a] = Link(music), ![music][a] = File(season),
                        ![music][b] = File(film), ![season][a] = Link(movies)]

NoLocks == {{}}
SomeLocks == {{}, {season}}

AllDisks == {Bare, Nested, Alias, Cycle, Across}
Aliases == {Alias}

===============================================================================

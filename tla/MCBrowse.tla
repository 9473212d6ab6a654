-------------------------------- MODULE MCBrowse -------------------------------
(* Browse on a small instance: two shares that may be renamed or dropped, and *)
(* a share whose files come and go.                                           *)
EXTENDS Browse

\* IDs: the root 0, the shares 1 and 2, the files 3, 4 and 5.
Dir(t) == [parent |-> 0, container |-> TRUE, title |-> t, stamp |-> 1]
File(t, s) == [parent |-> 1, container |-> FALSE, title |-> t, stamp |-> s]

\* The catalog whose shares have titles t1 and t2 and whose share 1 has the
\* files listed in order.
Cat(t1, t2, stampOf, order) ==
  LET files == {order[i] : i \in 1 .. Len(order)} IN
  [entries |-> [o \in {1, 2} \cup files |->
                  CASE o = 1 -> Dir(t1) [] o = 2 -> Dir(t2)
                    [] OTHER -> File(9 - o, stampOf[o])],
   children |-> [d \in {0, 1, 2} |->
                   CASE d = 0 -> IF t1 < t2 THEN <<1, 2>> ELSE <<2, 1>>
                     [] d = 1 -> order [] d = 2 -> <<>>]]

Old == [o \in Ids |-> 1]
Rewritten == [Old EXCEPT ![3] = 2]

OneShare ==
  [entries |-> [o \in {2} |-> Dir(2)],
   children |-> [d \in {0, 2} |-> IF d = 0 THEN <<2>> ELSE <<>>]]

SomeCatalogs ==
  {Cat(1, 2, Old, <<5, 4, 3>>),        \* the file with the last ID sorts first
   Cat(1, 2, Old, <<5, 3>>),           \* one is removed
   Cat(1, 2, Rewritten, <<5, 4, 3>>),  \* one is written anew
   Cat(3, 4, Old, <<5, 4, 3>>),        \* the shares are renamed
   OneShare}

Ask(o, flag, count, criteria) ==
  [ObjectID |-> o, BrowseFlag |-> flag, RequestedCount |-> count,
   SortCriteria |-> criteria, Filter |-> "*"]

SomeWanted ==
  {Ask(d, "BrowseDirectChildren", n, "") : d \in {0, 1}, n \in {0, 1, 2}}
  \cup {Ask(d, "BrowseDirectChildren", 1, s) : d \in {0, 1}, s \in {"+dc:title", "-dc:title"}}
  \cup {Ask(o, "BrowseMetadata", 0, "") : o \in {0, 1, 4}}
  \cup {Ask(4, "BrowseDirectChildren", 0, ""), Ask(1, "BrowseDirectChildren", 1, "dc:date"),
        Ask(1, "Search", 1, ""), Ask(0, "BrowseDirectChildren", Bad, "")}

===============================================================================

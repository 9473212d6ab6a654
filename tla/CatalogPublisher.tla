---------------------------- MODULE CatalogPublisher ---------------------------
(***************************************************************************)
(* What the scanner promises the rest of the server: one catalog is        *)
(* current; another one takes its place whole, is visible before it is     *)
(* announced, and is announced before the next one follows.  A scan that   *)
(* finds nothing new publishes nothing.  Scanner keeps this promise,       *)
(* Events and Browse rely on it.                                           *)
(***************************************************************************)
VARIABLES
  up,       \* the server has a first catalog
  catalog,  \* what the request handlers read
  owed      \* a new catalog is visible and not yet announced

vars == <<up, catalog, owed>>

Init == owed = FALSE

\* The first scan; nobody can have subscribed yet.
Start ==
  /\ ~ up
  /\ up' = TRUE
  /\ UNCHANGED owed

Publish ==
  /\ up /\ ~ owed
  /\ catalog' # catalog
  /\ owed' = TRUE
  /\ up' = up

Announce ==
  /\ owed
  /\ owed' = FALSE
  /\ up' = up /\ UNCHANGED catalog

Next == Start \/ Publish \/ Announce

Spec == Init /\ [][Next]_vars

FairSpec == Spec /\ WF_vars(Announce)

===============================================================================

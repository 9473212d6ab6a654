--------------------------------- MODULE Browse --------------------------------
(***************************************************************************)
(* ContentDirectory control: the handler of http.rs:217-247 with Browse and*)
(* GetSystemUpdateID of soap.rs, reading catalogs that the scanner         *)
(* replaces at any moment (CatalogPublisher), and control points that page *)
(* through a container and start over when they are told of a change.      *)
(*                                                                         *)
(* A catalog is the entries and children of catalog.rs:20-21.  An entry's  *)
(* stamp stands for its modification time and size.  Hashes are perfect:   *)
(* a fingerprint is the value that is hashed.  A request is well-formed    *)
(* XML; an argument that is missing or does not parse is Bad.  Of a DIDL   *)
(* object the rows keep what Browse takes from the entry itself; child     *)
(* counts and bookmarks come on top and may change under the same update   *)
(* ID.                                                                     *)
(***************************************************************************)
EXTENDS Integers, Sequences, FiniteSets

CONSTANTS
  Ids, Root,  \* object IDs, in their order, and the ID of the root
  Catalogs,   \* the catalogs that scans may produce
  Clients,    \* control points, all of them subscribed
  Wanted,     \* what they may list: the arguments of Browse but StartingIndex
  Bad,        \* an argument that is missing or malformed
  MaxPublish  \* bound: how many catalogs follow the first one

IsCatalog(cat) ==
  /\ DOMAIN cat.entries \subseteq Ids \ {Root}
  /\ \A o \in DOMAIN cat.entries :
       cat.entries[o] \in [parent: Ids, container: BOOLEAN, title: Nat, stamp: Nat]
  /\ DOMAIN cat.children = {Root} \cup {o \in DOMAIN cat.entries : cat.entries[o].container}
  /\ \A d \in DOMAIN cat.children : cat.children[d] \in Seq(DOMAIN cat.entries)

ASSUME IdsAssumption == Ids \subseteq Nat /\ Root \in Ids /\ Bad \notin Nat
ASSUME CatalogsAssumption == \A cat \in Catalogs : IsCatalog(cat)
ASSUME WantedAssumption ==
  \A w \in Wanted :
    /\ DOMAIN w = {"ObjectID", "BrowseFlag", "RequestedCount", "SortCriteria", "Filter"}
    /\ w.RequestedCount \in Nat \cup {Bad}

VARIABLES
  catalog,    \* what shared_catalog points to
  owed,       \* it is visible but not yet announced
  published,  \* history: every catalog so far
  changes,    \* how many have been published after the first
  \* each control point
  want,       \* the arguments of its listing
  pc,         \* "idle", "asking", "replying", "done", "refused"
  snapshot,   \* the catalog its request in progress has read
  shown,      \* the rows it has, in the order they came
  updateIds,  \* the UpdateIDs that came with them
  notices     \* control points an event is on its way to

publisherVars == <<catalog, owed, published, changes>>
clientVars == <<want, pc, snapshot, shown, updateIds>>
vars == <<publisherVars, clientVars, notices>>

-------------------------------------------------------------------------------
(* What a catalog answers (catalog.rs:112-145).                           *)

IsContainer(cat, o) == o \in DOMAIN cat.children

Row(cat, o) ==
  [id |-> o, title |-> cat.entries[o].title, stamp |-> cat.entries[o].stamp]

\* The children of a container, in the order of sort_children.
Rows(cat, d) == [i \in 1 .. Len(cat.children[d]) |-> Row(cat, cat.children[d][i])]

\* content_fingerprint
SystemUpdateId(cat) == [system |-> cat.entries]

\* Slips a maintainer could make; the runs show that each is noticed.
Bug_TitlesForgotten(cat, o) ==
  [object |-> o,
   children |-> IF IsContainer(cat, o)
                  THEN [i \in 1 .. Len(cat.children[o]) |-> cat.children[o][i]]
                  ELSE <<>>]

Bug_ReadUnpublished == CHOOSE cat \in Catalogs : TRUE

Bug_CountSelf(rows) == Len(rows) + 1

\* object_update_id: of a container, what its children are; of an item, or of
\* an ID that is not there, that of the whole catalog.
ObjectUpdateId(cat, o) ==
  IF IsContainer(cat, o) THEN [object |-> o, children |-> Rows(cat, o)]
                         ELSE SystemUpdateId(cat)

\* The order of titles, ties broken by ID.
Before(r, q) == r.title < q.title \/ (r.title = q.title /\ r.id < q.id)

\* The rows by title: the k-th has k - 1 rows before it.
ByTitle(rows) ==
  LET all == {rows[i] : i \in 1 .. Len(rows)} IN
  [k \in 1 .. Len(rows) |->
     CHOOSE r \in all : Cardinality({q \in all : Before(q, r)}) = k - 1]

Backwards(rows) == [k \in 1 .. Len(rows) |-> rows[Len(rows) + 1 - k]]

Sorted(rows, criteria) ==
  IF criteria = "" THEN rows
  ELSE IF criteria = "+dc:title" THEN ByTitle(rows) ELSE Backwards(ByTitle(rows))

\* All that w lists in cat.
Listing(cat, w) ==
  IF w.BrowseFlag = "BrowseMetadata"
    THEN <<IF w.ObjectID = Root THEN [id |-> Root] ELSE Row(cat, w.ObjectID)>>
    ELSE Sorted(Rows(cat, w.ObjectID), w.SortCriteria)

\* skip(starting_index), take(requested_count)
Page(rows, start, count) ==
  SubSeq(rows, start + 1,
         IF count = 0 \/ start + count > Len(rows) THEN Len(rows) ELSE start + count)

TotalMatches(rows) == Len(rows)

-------------------------------------------------------------------------------
(* soap.rs:120-197                                                        *)

Missing(w) == \E arg \in DOMAIN w : w[arg] = Bad

\* The error of Browse, in the order of its checks, or 0.
Fault(cat, w) ==
  IF Missing(w) THEN 402
  ELSE IF w.SortCriteria \notin {"", "+dc:title", "-dc:title"} THEN 709
  ELSE IF w.BrowseFlag = "BrowseMetadata" THEN
    IF w.ObjectID \in DOMAIN cat.entries \cup {Root} THEN 0 ELSE 701
  ELSE IF w.BrowseFlag = "BrowseDirectChildren" THEN
    IF IsContainer(cat, w.ObjectID) THEN 0 ELSE 701
  ELSE 402

\* Browse of w, from StartingIndex start on.
Result(cat, w, start) ==
  IF w.BrowseFlag = "BrowseMetadata" THEN Listing(cat, w)
  ELSE Page(Listing(cat, w), start, w.RequestedCount)

-------------------------------------------------------------------------------
Publisher == INSTANCE CatalogPublisher WITH up <- TRUE

Init ==
  /\ catalog \in Catalogs /\ owed = FALSE /\ published = {catalog} /\ changes = 0
  /\ want = [c \in Clients |-> Bad]
  /\ pc = [c \in Clients |-> "idle"]
  /\ snapshot = [c \in Clients |-> catalog]
  /\ shown = [c \in Clients |-> <<>>]
  /\ updateIds = [c \in Clients |-> {}]
  /\ notices = {}

\* A rescan found something else.
Publish ==
  /\ changes < MaxPublish /\ changes' = changes + 1
  /\ catalog' \in Catalogs
  /\ Publisher!Publish
  /\ published' = published \cup {catalog'}
  /\ UNCHANGED <<clientVars, notices>>

\* Every subscriber is sent the new SystemUpdateID.
Announce ==
  /\ Publisher!Announce
  /\ notices' = Clients
  /\ UNCHANGED <<published, changes, clientVars>>

-------------------------------------------------------------------------------
\* A control point begins to list w.
Begin(c, w) ==
  /\ pc[c] = "idle"
  /\ want' = [want EXCEPT ![c] = w]
  /\ pc' = [pc EXCEPT ![c] = "asking"]
  /\ UNCHANGED <<publisherVars, snapshot, shown, updateIds, notices>>

\* The event is delivered: a listing that was begun is begun anew.
Hear(c) ==
  /\ c \in notices
  /\ notices' = notices \ {c}
  /\ IF pc[c] = "idle" THEN UNCHANGED clientVars
     ELSE /\ pc' = [pc EXCEPT ![c] = "asking"]
          /\ shown' = [shown EXCEPT ![c] = <<>>]
          /\ updateIds' = [updateIds EXCEPT ![c] = {}]
          /\ UNCHANGED <<want, snapshot>>
  /\ UNCHANGED publisherVars

\* read_catalog
CurrentCatalog == catalog

\* The handler has the request and clones the Arc of the catalog...
ReadCatalog(c) ==
  /\ pc[c] = "asking"
  /\ pc' = [pc EXCEPT ![c] = "replying"]
  /\ snapshot' = [snapshot EXCEPT ![c] = CurrentCatalog]
  /\ UNCHANGED <<publisherVars, want, shown, updateIds, notices>>

\* ... waits for the bookmarks, and answers from its clone.  The control point
\* asks for the next page until it has TotalMatches rows.
Reply(c) ==
  LET cat == snapshot[c]
      w == want[c]
      rows == shown[c] \o Result(cat, w, Len(shown[c])) IN
  /\ pc[c] = "replying"
  /\ IF Fault(cat, w) # 0
       THEN /\ pc' = [pc EXCEPT ![c] = "refused"]
            /\ UNCHANGED <<shown, updateIds>>
       ELSE /\ shown' = [shown EXCEPT ![c] = rows]
            /\ updateIds' = [updateIds EXCEPT ![c] = @ \cup {ObjectUpdateId(cat, w.ObjectID)}]
            /\ pc' = [pc EXCEPT ![c] =
                        IF Len(rows) >= TotalMatches(Listing(cat, w))
                          THEN "done" ELSE "asking"]
  /\ UNCHANGED <<publisherVars, want, snapshot, notices>>

Next ==
  \/ Publish \/ Announce
  \/ \E c \in Clients :
       \/ \E w \in Wanted : Begin(c, w)
       \/ Hear(c) \/ ReadCatalog(c) \/ Reply(c)

Spec == Init /\ [][Next]_vars

\* The server's tasks run; events arrive, and control points read on.
Fairness ==
  /\ WF_vars(Announce)
  /\ \A c \in Clients :
       WF_vars(Hear(c)) /\ WF_vars(ReadCatalog(c)) /\ WF_vars(Reply(c))

FairSpec == Spec /\ Fairness

-------------------------------------------------------------------------------
(* Properties.                                                            *)

\* All that can be shown of a catalog.
AllRows ==
  UNION {LET rows == Listing(p[1], p[2]) IN {rows[i] : i \in 1 .. Len(rows)} :
           p \in {q \in Catalogs \X Wanted : Fault(q[1], q[2]) = 0}}

AllUpdateIds ==
  {ObjectUpdateId(p[1], p[2].ObjectID) : p \in Catalogs \X Wanted}

TypeOK ==
  /\ catalog \in Catalogs /\ catalog \in published
  /\ owed \in BOOLEAN /\ changes \in Nat
  /\ published \subseteq Catalogs
  /\ want \in [Clients -> Wanted \cup {Bad}]
  /\ pc \in [Clients -> {"idle", "asking", "replying", "done", "refused"}]
  /\ \A c \in Clients : pc[c] # "idle" => want[c] \in Wanted
  /\ snapshot \in [Clients -> published]
  /\ shown \in [Clients -> Seq(AllRows)]
  /\ updateIds \in [Clients -> SUBSET AllUpdateIds]
  /\ notices \subseteq Clients

\* A control point that pages through a container while scans replace the
\* catalog can trust equal UpdateIDs (soap.rs:174-186, catalog.rs:130): then its
\* pages are those of one catalog, in order, none twice and none left out, and
\* when it has TotalMatches rows it has them all; be it that other catalogs
\* came and went in between.
PagesAgree ==
  \A c \in Clients : \A u \in updateIds[c] : updateIds[c] = {u} =>
    \E cat \in published :
      LET rows == Listing(cat, want[c]) IN
      /\ Fault(cat, want[c]) = 0
      /\ Len(shown[c]) <= Len(rows)
      /\ shown[c] = SubSeq(rows, 1, Len(shown[c]))
      /\ pc[c] = "done" => shown[c] = rows

\* What a control point shows is what the server has now.
UpToDate(c) ==
  \/ pc[c] = "idle"
  \/ pc[c] = "done" /\ Fault(catalog, want[c]) = 0
       /\ shown[c] = Listing(catalog, want[c])
  \/ pc[c] = "refused" /\ Fault(catalog, want[c]) # 0

\* Paging ends, and whatever is published while a control point pages, it ends
\* with the catalog that came last: the event follows the catalog
\* (http.rs:706-707), each page counts the whole container (soap.rs:163), and a
\* page before its end is not empty.
CacheCatchesUp == \A c \in Clients : <>[] UpToDate(c)

===============================================================================

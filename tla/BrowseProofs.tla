------------------------------ MODULE BrowseProofs -----------------------------
(***************************************************************************)
(* Theorems about Browse, for every set of catalogs, of control points and *)
(* of listings, and any number of publications.                            *)
(***************************************************************************)
EXTENDS Browse, SequenceTheorems, TLAPS

\* What Browse has seen of its arguments when it answers.
LEMMA Accepted ==
  ASSUME NEW cat, NEW w \in Wanted, Fault(cat, w) = 0
  PROVE  /\ w.RequestedCount \in Nat
         /\ w.SortCriteria \in {"", "+dc:title", "-dc:title"}
         /\ w.BrowseFlag # "BrowseMetadata" => IsContainer(cat, w.ObjectID)
<1>1. ASSUME Missing(w) PROVE FALSE
  <2>1. Fault(cat, w) = 402
    BY <1>1, Zenon DEF Fault
  <2>2. QED
    BY <2>1
<1>2. w.RequestedCount \in Nat
  BY <1>1, WantedAssumption DEF Missing
<1>3. ASSUME w.SortCriteria \notin {"", "+dc:title", "-dc:title"} PROVE FALSE
  <2>1. Fault(cat, w) = 709
    BY <1>1, <1>3, Zenon DEF Fault
  <2>2. QED
    BY <2>1
<1>4. ASSUME w.BrowseFlag # "BrowseMetadata", ~ IsContainer(cat, w.ObjectID)
      PROVE  FALSE
  <2>1. Fault(cat, w) = IF w.BrowseFlag = "BrowseDirectChildren"
                          THEN IF IsContainer(cat, w.ObjectID) THEN 0 ELSE 701
                          ELSE 402
    BY <1>1, <1>3, <1>4, Zenon DEF Fault
  <2>2. CASE w.BrowseFlag = "BrowseDirectChildren"
    <3>1. Fault(cat, w) = 701
      BY <1>4, <2>1, <2>2, Zenon
    <3>2. QED
      BY <3>1
  <2>3. CASE w.BrowseFlag # "BrowseDirectChildren"
    <3>1. Fault(cat, w) = 402
      BY <2>1, <2>3, Zenon
    <3>2. QED
      BY <3>1
  <2>4. QED
    BY <2>2, <2>3
<1>5. QED
  BY <1>2, <1>3, <1>4

\* Whatever can be listed is a sequence, and its rows are among AllRows.
LEMMA ListingIsSeq ==
  ASSUME NEW cat \in Catalogs, NEW w \in Wanted, Fault(cat, w) = 0
  PROVE  Listing(cat, w) \in Seq(AllRows)
<1> DEFINE L == Listing(cat, w)
<1>1. \A i \in 1 .. Len(L) : L[i] \in AllRows
  <2>1. <<cat, w>> \in {q \in Catalogs \X Wanted : Fault(q[1], q[2]) = 0}
    OBVIOUS
  <2>2. {L[i] : i \in 1 .. Len(L)} \subseteq AllRows
    BY <2>1 DEF AllRows
  <2>3. QED
    BY <2>2
<1>2. \E n \in Nat : DOMAIN L = 1 .. n /\ L = [i \in 1 .. n |-> L[i]]
  <2>1. CASE w.BrowseFlag = "BrowseMetadata"
    <3>1. PICK x : L = <<x>>
      BY <2>1 DEF Listing
    <3>2. DOMAIN L = 1 .. 1 /\ L = [i \in 1 .. 1 |-> L[i]]
      BY <3>1
    <3>3. QED
      BY <3>2
  <2>2. CASE w.BrowseFlag # "BrowseMetadata"
    <3> DEFINE rows == Rows(cat, w.ObjectID)
               n == Len(cat.children[w.ObjectID])
    <3>1. /\ IsContainer(cat, w.ObjectID)
          /\ w.SortCriteria \in {"", "+dc:title", "-dc:title"}
      BY <2>2, Accepted
    <3>2. n \in Nat
      <4>1. cat.children[w.ObjectID] \in Seq(DOMAIN cat.entries)
        BY <3>1, CatalogsAssumption DEF IsContainer, IsCatalog
      <4>2. QED
        BY <4>1
    <3>3. rows = [i \in 1 .. n |-> rows[i]] /\ Len(rows) = n
      BY <3>2 DEF Rows
    <3>4. CASE w.SortCriteria = ""
      <4>1. L = rows
        BY <2>2, <3>4 DEF Listing, Sorted
      <4>2. QED
        BY <4>1, <3>2, <3>3
    <3>5. ByTitle(rows) = [i \in 1 .. n |-> ByTitle(rows)[i]] /\ Len(ByTitle(rows)) = n
      <4> DEFINE all == {rows[i] : i \in 1 .. Len(rows)}
                 kth(k) == CHOOSE r \in all : Cardinality({q \in all : Before(q, r)}) = k - 1
      <4>1. ByTitle(rows) = [k \in 1 .. n |-> kth(k)]
        BY <3>3 DEF ByTitle
      <4> HIDE DEF kth
      <4>2. QED
        BY <4>1, <3>2
    <3>6. CASE w.SortCriteria = "+dc:title"
      <4>1. L = ByTitle(rows)
        BY <2>2, <3>6 DEF Listing, Sorted
      <4>2. QED
        BY <4>1, <3>2, <3>5
    <3>7. CASE w.SortCriteria = "-dc:title"
      <4>1. L = Backwards(ByTitle(rows))
        BY <2>2, <3>7 DEF Listing, Sorted
      <4>2. L = [i \in 1 .. n |-> L[i]]
        BY <4>1, <3>5 DEF Backwards
      <4>3. QED
        BY <4>2, <3>2
    <3>8. QED
      BY <3>1, <3>4, <3>6, <3>7
  <2>3. QED
    BY <2>1, <2>2
<1>3. QED
  <2>1. PICK n \in Nat : DOMAIN L = 1 .. n /\ L = [i \in 1 .. n |-> L[i]]
    BY <1>2
  <2>2. Len(L) = n
    BY <2>1
  <2>3. L \in [1 .. n -> AllRows]
    BY <1>1, <2>1, <2>2
  <2>4. QED
    BY <2>3

\* A page begins where the control point stands.
LEMMA PageIsSeq ==
  ASSUME NEW S, NEW rows \in Seq(S), NEW start \in Nat, NEW count \in Nat
  PROVE  Page(rows, start, count) \in Seq(S)
<1> DEFINE m == IF count = 0 \/ start + count > Len(rows) THEN Len(rows) ELSE start + count
<1>1. m \in Nat /\ m <= Len(rows)
  OBVIOUS
<1>2. \A i \in start + 1 .. m : rows[i] \in S
  BY <1>1
<1>3. SubSeq(rows, start + 1, m) \in Seq(S)
  BY <1>1, <1>2
<1>4. QED
  BY <1>3 DEF Page

\* A page after the first n rows makes a longer prefix.
LEMMA PagesJoin ==
  ASSUME NEW S, NEW rows \in Seq(S), NEW n \in Nat, n <= Len(rows), NEW count \in Nat
  PROVE  \E m \in n .. Len(rows) :
           SubSeq(rows, 1, n) \o Page(rows, n, count) = SubSeq(rows, 1, m)
<1> DEFINE m == IF count = 0 \/ n + count > Len(rows) THEN Len(rows) ELSE n + count
<1>1. m \in Nat /\ n <= m /\ m <= Len(rows)
  OBVIOUS
<1> DEFINE P == SubSeq(rows, 1, n)
           Q == SubSeq(rows, n + 1, m)
           R == SubSeq(rows, 1, m)
<1> HIDE DEF m
<1>2. P \in Seq(S) /\ Len(P) = n /\ \A i \in 1 .. n : P[i] = rows[i]
  BY <1>1
<1>3. Q \in Seq(S) /\ Len(Q) = m - n /\ \A i \in 1 .. m - n : Q[i] = rows[n + i]
  BY <1>1
<1>4. R \in Seq(S) /\ Len(R) = m /\ \A i \in 1 .. m : R[i] = rows[i]
  BY <1>1
<1> HIDE DEF P, Q, R
<1>5. P \o Q \in Seq(S) /\ Len(P \o Q) = m
  BY <1>1, <1>2, <1>3
<1>6. \A i \in 1 .. m : (P \o Q)[i] = rows[i]
  <2> TAKE i \in 1 .. m
  <2>1. CASE i <= n
    BY <1>1, <1>2, <1>3, <2>1
  <2>2. CASE i > n
    <3>1. (P \o Q)[i] = Q[i - n]
      BY <1>1, <1>2, <1>3, <2>2
    <3>2. i - n \in 1 .. m - n
      BY <1>1, <2>2
    <3>3. QED
      BY <3>1, <3>2, <1>3
  <2>3. i <= n \/ i > n
    BY <1>1
  <2>4. QED
    BY <2>1, <2>2, <2>3
<1>7. P \o Q = R
  BY <1>4, <1>5, <1>6, SeqEqual
<1>8. Page(rows, n, count) = Q
  BY DEF Page, Q, m
<1>9. QED
  BY <1>1, <1>7, <1>8 DEF P, R

\* The handlers, the publisher and the control points keep to their types:
\* what a control point shows are rows that some Browse returned.
THEOREM TypeCorrect == Spec => []TypeOK
<1>0. <<>> \in Seq(AllRows)
  OBVIOUS
<1>1. Init => TypeOK
  <2> SUFFICES ASSUME Init PROVE TypeOK
    OBVIOUS
  <2>1. shown \in [Clients -> Seq(AllRows)]
    BY <1>0 DEF Init
  <2>2. pc \in [Clients -> {"idle", "asking", "replying", "done", "refused"}]
    BY DEF Init
  <2>3. updateIds \in [Clients -> SUBSET AllUpdateIds]
    BY DEF Init
  <2>4. QED
    BY <2>1, <2>2, <2>3 DEF Init, TypeOK
<1>2. TypeOK /\ [Next]_vars => TypeOK'
  <2> SUFFICES ASSUME TypeOK, [Next]_vars PROVE TypeOK'
    OBVIOUS
  <2> USE DEF publisherVars, clientVars
  <2>1. CASE Publish
    <3>1. snapshot' \in [Clients -> published']
      BY <2>1 DEF TypeOK, Publish, Publisher!Publish
    <3>2. catalog' \in Catalogs /\ owed' \in BOOLEAN /\ changes' \in Nat
      BY <2>1 DEF TypeOK, Publish, Publisher!Publish
    <3>3. QED
      BY <2>1, <3>1, <3>2 DEF TypeOK, Publish
  <2>2. CASE Announce
    BY <2>2 DEF TypeOK, Announce, Publisher!Announce
  <2>3. ASSUME NEW c \in Clients, NEW w \in Wanted, Begin(c, w) PROVE TypeOK'
    BY <2>3 DEF TypeOK, Begin
  <2>4. ASSUME NEW c \in Clients, Hear(c) PROVE TypeOK'
    <3>1. shown' \in [Clients -> Seq(AllRows)]
      BY <2>4, <1>0 DEF TypeOK, Hear
    <3>2. pc' \in [Clients -> {"idle", "asking", "replying", "done", "refused"}]
          /\ \A d \in Clients : pc'[d] # "idle" => pc[d] # "idle"
      BY <2>4 DEF TypeOK, Hear
    <3>3. UNCHANGED <<publisherVars, want, snapshot>> /\ notices' \subseteq Clients
      BY <2>4 DEF TypeOK, Hear
    <3>4. updateIds' \in [Clients -> SUBSET AllUpdateIds]
      BY <2>4 DEF TypeOK, Hear
    <3>5. QED
      BY <3>1, <3>2, <3>3, <3>4 DEF TypeOK
  <2>5. ASSUME NEW c \in Clients, ReadCatalog(c) PROVE TypeOK'
    BY <2>5 DEF TypeOK, ReadCatalog, CurrentCatalog
  <2>6. ASSUME NEW c \in Clients, Reply(c) PROVE TypeOK'
    <3>1. pc' \in [Clients -> {"idle", "asking", "replying", "done", "refused"}]
          /\ \A d \in Clients : pc'[d] # "idle" => pc[d] # "idle"
      BY <2>6 DEF TypeOK, Reply
    <3>2. shown' \in [Clients -> Seq(AllRows)]
      <4>1. CASE Fault(snapshot[c], want[c]) # 0
        BY <2>6, <4>1 DEF TypeOK, Reply
      <4>2. CASE Fault(snapshot[c], want[c]) = 0
        <5>1. want[c] \in Wanted /\ snapshot[c] \in Catalogs
          BY <2>6 DEF TypeOK, Reply
        <5>2. Listing(snapshot[c], want[c]) \in Seq(AllRows)
          BY <4>2, <5>1, ListingIsSeq
        <5>3. shown[c] \in Seq(AllRows) /\ Len(shown[c]) \in Nat
          BY DEF TypeOK
        <5>4. Result(snapshot[c], want[c], Len(shown[c])) \in Seq(AllRows)
          BY <4>2, <5>1, <5>2, <5>3, PageIsSeq, Accepted DEF Result
        <5>5. shown[c] \o Result(snapshot[c], want[c], Len(shown[c])) \in Seq(AllRows)
          BY <5>3, <5>4
        <5>6. shown' = [shown EXCEPT ![c] =
                          shown[c] \o Result(snapshot[c], want[c], Len(shown[c]))]
          BY <2>6, <4>2 DEF Reply
        <5>7. QED
          BY <5>5, <5>6 DEF TypeOK
      <4>3. QED
        BY <4>1, <4>2
    <3>3. UNCHANGED <<publisherVars, want, snapshot, notices>>
      BY <2>6 DEF Reply
    <3>4. updateIds' \in [Clients -> SUBSET AllUpdateIds]
      <4>1. ObjectUpdateId(snapshot[c], want[c].ObjectID) \in AllUpdateIds
        <5>1. <<snapshot[c], want[c]>> \in Catalogs \X Wanted
          BY <2>6 DEF TypeOK, Reply
        <5>2. QED
          BY <5>1 DEF AllUpdateIds
      <4> DEFINE v == ObjectUpdateId(snapshot[c], want[c].ObjectID)
      <4> HIDE DEF v
      <4>2. updateIds' = updateIds \/ updateIds' = [updateIds EXCEPT ![c] = @ \cup {v}]
        BY <2>6 DEF Reply, v
      <4>3. updateIds[c] \cup {v} \in SUBSET AllUpdateIds
        BY <4>1 DEF TypeOK, v
      <4>4. QED
        BY <4>2, <4>3 DEF TypeOK
    <3>5. QED
      BY <3>1, <3>2, <3>3, <3>4 DEF TypeOK
  <2>7. CASE UNCHANGED vars
    BY <2>7 DEF TypeOK, vars
  <2>8. QED
    BY <2>1, <2>2, <2>3, <2>4, <2>5, <2>6, <2>7 DEF Next
<1>3. QED
  BY <1>1, <1>2, PTL DEF Spec

-------------------------------------------------------------------------------
(* The pages of a listing.                                                 *)

\* The children of a container are in its UpdateID: two catalogs that give it
\* the same one list the same.
LEMMA SameUpdateIdSameListing ==
  ASSUME NEW cat \in Catalogs, NEW other \in Catalogs, NEW w \in Wanted,
         w.BrowseFlag # "BrowseMetadata",
         Fault(cat, w) = 0, Fault(other, w) = 0,
         ObjectUpdateId(cat, w.ObjectID) = ObjectUpdateId(other, w.ObjectID)
  PROVE  Listing(cat, w) = Listing(other, w)
<1> DEFINE o == w.ObjectID
<1>1. IsContainer(cat, o) /\ IsContainer(other, o)
  BY Accepted
<1>2. [object |-> o, children |-> Rows(cat, o)] = [object |-> o, children |-> Rows(other, o)]
  BY <1>1 DEF ObjectUpdateId
<1>3. Rows(cat, o) = Rows(other, o)
  BY <1>2
<1>4. QED
  BY <1>3 DEF Listing

\* The rows of c are the first ones of its listing in cat, and came with the
\* UpdateID that its object has in cat.
ShowsPrefix(c, cat) ==
  /\ Fault(cat, want[c]) = 0
  /\ updateIds[c] = {ObjectUpdateId(cat, want[c].ObjectID)}
  /\ Len(shown[c]) <= Len(Listing(cat, want[c]))
  /\ shown[c] = SubSeq(Listing(cat, want[c]), 1, Len(shown[c]))
  /\ pc[c] = "done" => shown[c] = Listing(cat, want[c])

\* One page is all there is of BrowseMetadata.
PagesInv ==
  \A c \in Clients :
    /\ updateIds[c] = {} => shown[c] = <<>> /\ pc[c] # "done"
    /\ pc[c] = "idle" => updateIds[c] = {}
    /\ want[c].BrowseFlag = "BrowseMetadata" /\ pc[c] \in {"asking", "replying"}
         => updateIds[c] = {}
    /\ \A u \in updateIds[c] : updateIds[c] = {u}
         => \E cat \in published : ShowsPrefix(c, cat)

\* A prefix of a sequence, as the pages build it.
LEMMA Prefixes ==
  ASSUME NEW S, NEW L \in Seq(S)
  PROVE  /\ <<>> \o L = L
         /\ SubSeq(L, 1, 0) = <<>>
         /\ SubSeq(L, 1, Len(L)) = L
         /\ \A m \in 0 .. Len(L) : Len(SubSeq(L, 1, m)) = m
<1>1. <<>> \in Seq(S) /\ Len(L) \in Nat /\ SubSeq(L, 1, 0) \in Seq(S)
  OBVIOUS
<1>2. <<>> \o L = L
  BY <1>1, SeqEqual
<1>3. SubSeq(L, 1, Len(L)) = L
  BY <1>1, SeqEqual
<1>4. SubSeq(L, 1, 0) = <<>>
  BY <1>1, SeqEqual
<1>5. \A m \in 0 .. Len(L) : Len(SubSeq(L, 1, m)) = m
  BY <1>1
<1>6. QED
  BY <1>2, <1>3, <1>4, <1>5

\* A page leaves a control point with a prefix of what its snapshot lists, if
\* all its pages had one UpdateID.
LEMMA ReplyAddsAPage ==
  ASSUME TypeOK, PagesInv, NEW c \in Clients, Reply(c),
         Fault(snapshot[c], want[c]) = 0, NEW u, updateIds'[c] = {u}
  PROVE  ShowsPrefix(c, snapshot[c])'
<1> DEFINE w == want[c]
           v == ObjectUpdateId(snapshot[c], w.ObjectID)
           L == Listing(snapshot[c], w)
<1>1. /\ w \in Wanted /\ snapshot[c] \in Catalogs /\ pc[c] = "replying"
      /\ w.RequestedCount \in Nat
      /\ shown[c] \in Seq(AllRows) /\ Len(shown[c]) \in Nat
      /\ L \in Seq(AllRows) /\ Len(L) \in Nat
  <2>1. w \in Wanted /\ snapshot[c] \in Catalogs /\ pc[c] = "replying"
    BY DEF TypeOK, Reply
  <2>2. shown[c] \in Seq(AllRows)
    BY DEF TypeOK
  <2>3. L \in Seq(AllRows)
    BY <2>1, ListingIsSeq
  <2>4. Len(shown[c]) \in Nat /\ Len(L) \in Nat
    BY <2>2, <2>3
  <2>5. w.RequestedCount \in Nat
    BY <2>1, Accepted
  <2>6. QED
    BY <2>1, <2>2, <2>3, <2>4, <2>5
<1>2. /\ shown'[c] = shown[c] \o Result(snapshot[c], w, Len(shown[c]))
      /\ updateIds'[c] = updateIds[c] \cup {v}
      /\ pc'[c] = IF Len(shown'[c]) >= Len(L) THEN "done" ELSE "asking"
      /\ want'[c] = w /\ snapshot'[c] = snapshot[c]
  <2>1. shown'[c] = shown[c] \o Result(snapshot[c], w, Len(shown[c]))
    BY DEF Reply, TypeOK
  <2>2. updateIds'[c] = updateIds[c] \cup {v}
    BY DEF Reply, TypeOK
  <2>3. pc'[c] = IF Len(shown'[c]) >= Len(L) THEN "done" ELSE "asking"
    BY <2>1 DEF Reply, TypeOK, TotalMatches
  <2>4. want'[c] = w /\ snapshot'[c] = snapshot[c]
    BY DEF Reply, TypeOK
  <2>5. QED
    BY <2>1, <2>2, <2>3, <2>4
<1> HIDE DEF L, v
<1>3. ASSUME w.BrowseFlag # "BrowseMetadata", NEW n \in 0 .. Len(L),
             shown[c] = SubSeq(L, 1, n), Len(shown[c]) = n
      PROVE  \E m \in 0 .. Len(L) : shown'[c] = SubSeq(L, 1, m)
  <2>1. PICK m \in n .. Len(L) :
          SubSeq(L, 1, n) \o Page(L, n, w.RequestedCount) = SubSeq(L, 1, m)
    <3>1. n \in Nat /\ n <= Len(L)
      BY <1>1
    <3>2. QED
      BY <1>1, <3>1, PagesJoin
  <2>2. shown'[c] = SubSeq(L, 1, m)
    <3>1. Result(snapshot[c], w, n) = Page(L, n, w.RequestedCount)
      BY <1>3 DEF Result, L
    <3>2. QED
      BY <1>2, <1>3, <2>1, <3>1
  <2>3. QED
    BY <1>1, <2>2
<1>4. \E m \in 0 .. Len(L) : shown'[c] = SubSeq(L, 1, m)
  <2>1. CASE updateIds[c] = {}
    <3>1. shown[c] = <<>>
      BY <2>1 DEF PagesInv
    <3>2. CASE w.BrowseFlag = "BrowseMetadata"
      <4>1. shown'[c] = <<>> \o L
        BY <1>2, <3>1, <3>2 DEF Result, L
      <4>2. QED
        BY <1>1, <4>1, Prefixes
    <3>3. CASE w.BrowseFlag # "BrowseMetadata"
      BY <1>1, <1>3, <3>1, <3>3, Prefixes
    <3>4. QED
      BY <3>2, <3>3
  <2>2. CASE updateIds[c] # {}
    <3>1. updateIds[c] = {v}
      <4>1. v = u /\ updateIds[c] \subseteq {u}
        BY <1>2
      <4>2. QED
        BY <2>2, <4>1
    <3>2. PICK cat \in published : ShowsPrefix(c, cat)
      BY <3>1 DEF PagesInv
    <3>3. w.BrowseFlag # "BrowseMetadata"
      BY <1>1, <2>2 DEF PagesInv
    <3>4. cat \in Catalogs /\ v = ObjectUpdateId(cat, w.ObjectID)
      BY <3>1, <3>2 DEF ShowsPrefix, TypeOK, v
    <3>5. Listing(cat, w) = L
      BY <1>1, <3>2, <3>3, <3>4, SameUpdateIdSameListing
         DEF ShowsPrefix, L, v
    <3>6. shown[c] = SubSeq(L, 1, Len(shown[c])) /\ Len(shown[c]) <= Len(L)
      BY <3>2, <3>5 DEF ShowsPrefix
    <3>7. QED
      BY <1>1, <1>3, <3>3, <3>6
  <2>3. QED
    BY <2>1, <2>2
<1>5. PICK m \in 0 .. Len(L) : shown'[c] = SubSeq(L, 1, m)
  BY <1>4
<1>6. Len(shown'[c]) = m
  BY <1>1, <1>5, Prefixes
<1>7. pc'[c] = "done" => shown'[c] = L
  BY <1>1, <1>2, <1>5, <1>6, Prefixes
<1>8. updateIds'[c] = {v}
  BY <1>2
<1>9. QED
  <2>1. shown'[c] = SubSeq(L, 1, Len(shown'[c])) /\ Len(shown'[c]) <= Len(L)
    BY <1>1, <1>5, <1>6
  <2>2. want'[c] = w /\ snapshot'[c] = snapshot[c]
    BY <1>2
  <2>3. QED
    BY <1>7, <1>8, <2>1, <2>2 DEF ShowsPrefix, L, v

\* BrowseMetadata is answered in one page.
LEMMA MetadataIsOnePage ==
  ASSUME TypeOK, PagesInv, NEW c \in Clients, Reply(c),
         Fault(snapshot[c], want[c]) = 0, want[c].BrowseFlag = "BrowseMetadata"
  PROVE  pc'[c] = "done"
<1>1. shown[c] = <<>>
  BY DEF PagesInv, Reply
<1>2. PICK x : Listing(snapshot[c], want[c]) = <<x>>
  BY DEF Listing
<1>3. shown[c] \o Result(snapshot[c], want[c], Len(shown[c])) = <<x>>
  <2>1. Result(snapshot[c], want[c], Len(shown[c])) = <<x>>
    BY <1>2 DEF Result
  <2>2. <<x>> \in Seq({x})
    OBVIOUS
  <2>3. QED
    BY <1>1, <2>1, <2>2, Prefixes
<1>4. Len(<<x>>) = 1
  OBVIOUS
<1>5. QED
  BY <1>2, <1>3, <1>4 DEF Reply, TypeOK, TotalMatches

\* Equal UpdateIDs mean one catalog: whatever scans publish while a control
\* point pages, pages that came with the same UpdateID are the first rows of one
\* listing, and all of it when the control point has TotalMatches rows
\* (soap.rs:174-186, catalog.rs:130-145).
THEOREM PagesOfOneCatalog == Spec => []PagesAgree
<1>1. Init => PagesInv
  BY DEF Init, PagesInv
<1>2. TypeOK /\ PagesInv /\ [Next]_vars => PagesInv'
  <2> SUFFICES ASSUME TypeOK, PagesInv, [Next]_vars PROVE PagesInv'
    OBVIOUS
  <2> USE DEF publisherVars, clientVars
  <2>1. CASE Publish
    BY <2>1 DEF PagesInv, ShowsPrefix, Publish
  <2>2. CASE Announce
    BY <2>2 DEF PagesInv, ShowsPrefix, Announce
  <2>3. ASSUME NEW c \in Clients, NEW w \in Wanted, Begin(c, w) PROVE PagesInv'
    BY <2>3 DEF PagesInv, ShowsPrefix, Begin, TypeOK
  <2>4. ASSUME NEW c \in Clients, Hear(c) PROVE PagesInv'
    <3>1. CASE pc[c] = "idle"
      BY <2>4, <3>1 DEF PagesInv, ShowsPrefix, Hear
    <3>2. CASE pc[c] # "idle"
      <4>1. /\ pc'[c] = "asking" /\ shown'[c] = <<>> /\ updateIds'[c] = {}
            /\ UNCHANGED <<want, published>>
        BY <2>4, <3>2 DEF Hear, TypeOK
      <4>2. ASSUME NEW d \in Clients, d # c
            PROVE  /\ pc'[d] = pc[d] /\ shown'[d] = shown[d]
                   /\ updateIds'[d] = updateIds[d]
        BY <2>4, <3>2, <4>2 DEF Hear, TypeOK
      <4>3. QED
        BY <4>1, <4>2 DEF PagesInv, ShowsPrefix
    <3>3. QED
      BY <3>1, <3>2
  <2>5. ASSUME NEW c \in Clients, ReadCatalog(c) PROVE PagesInv'
    BY <2>5 DEF PagesInv, ShowsPrefix, ReadCatalog, TypeOK
  <2>6. ASSUME NEW c \in Clients, Reply(c) PROVE PagesInv'
    <3>1. CASE Fault(snapshot[c], want[c]) # 0
      <4>1. /\ UNCHANGED <<shown, updateIds, want, published>>
            /\ pc' = [pc EXCEPT ![c] = "refused"] /\ pc[c] = "replying"
        BY <2>6, <3>1 DEF Reply
      <4>2. QED
        BY <4>1 DEF PagesInv, ShowsPrefix, TypeOK
    <3>2. CASE Fault(snapshot[c], want[c]) = 0
      <4>1. updateIds'[c] # {} /\ pc'[c] # "idle" /\ snapshot[c] \in published'
            /\ snapshot'[c] = snapshot[c] /\ want'[c] = want[c]
        <5>1. updateIds'[c] = updateIds[c] \cup {ObjectUpdateId(snapshot[c], want[c].ObjectID)}
          BY <2>6, <3>2 DEF Reply, TypeOK
        <5>2. pc'[c] = "done" \/ pc'[c] = "asking"
          BY <2>6, <3>2 DEF Reply, TypeOK
        <5>3. snapshot[c] \in published'
              /\ snapshot'[c] = snapshot[c] /\ want'[c] = want[c]
          BY <2>6 DEF Reply, TypeOK
        <5>4. QED
          BY <5>1, <5>2, <5>3
      <4>2. ASSUME NEW u, updateIds'[c] = {u}
            PROVE  \E cat \in published' : ShowsPrefix(c, cat)'
        <5>1. ShowsPrefix(c, snapshot[c])'
          BY <2>6, <3>2, <4>2, ReplyAddsAPage
        <5>2. QED
          BY <4>1, <5>1 DEF ShowsPrefix
      <4>3. want[c].BrowseFlag = "BrowseMetadata" => pc'[c] = "done"
        BY <2>6, <3>2, MetadataIsOnePage
      <4>4. ASSUME NEW d \in Clients, d # c
            PROVE  /\ want'[d] = want[d] /\ pc'[d] = pc[d]
                   /\ shown'[d] = shown[d] /\ updateIds'[d] = updateIds[d]
        BY <2>6, <4>4 DEF Reply, TypeOK
      <4>5. published' = published
        BY <2>6 DEF Reply
      <4>6. ASSUME NEW d \in Clients, d # c, NEW cat
            PROVE  ShowsPrefix(d, cat) => ShowsPrefix(d, cat)'
        BY <4>4, <4>6 DEF ShowsPrefix
      <4>7. ASSUME NEW d \in Clients, d # c
            PROVE  /\ updateIds'[d] = {} => shown'[d] = <<>> /\ pc'[d] # "done"
                   /\ pc'[d] = "idle" => updateIds'[d] = {}
                   /\ want'[d].BrowseFlag = "BrowseMetadata"
                        /\ pc'[d] \in {"asking", "replying"} => updateIds'[d] = {}
        BY <4>4, <4>7 DEF PagesInv
      <4>8. ASSUME NEW d \in Clients, d # c, NEW u \in updateIds'[d], updateIds'[d] = {u}
            PROVE  \E cat \in published' : ShowsPrefix(d, cat)'
        <5>1. PICK cat \in published : ShowsPrefix(d, cat)
          BY <4>4, <4>8 DEF PagesInv
        <5>2. QED
          BY <4>5, <4>6, <4>8, <5>1
      <4>9. QED
        BY <4>1, <4>2, <4>3, <4>7, <4>8 DEF PagesInv
    <3>3. QED
      BY <3>1, <3>2
  <2>7. CASE UNCHANGED vars
    BY <2>7 DEF PagesInv, ShowsPrefix, vars
  <2>8. QED
    BY <2>1, <2>2, <2>3, <2>4, <2>5, <2>6, <2>7 DEF Next
<1>3. PagesInv => PagesAgree
  BY DEF PagesInv, ShowsPrefix, PagesAgree
<1>4. QED
  BY <1>1, <1>2, <1>3, TypeCorrect, PTL DEF Spec

==================================================

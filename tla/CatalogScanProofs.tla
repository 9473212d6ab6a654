--------------------------- MODULE CatalogScanProofs ---------------------------
(***************************************************************************)
(* Theorems about CatalogScan for any disk, any options and any changes:   *)
(* the catalog is a tree at every moment, and only a name that was made    *)
(* again while its directory was read makes a scan fail with a collision.  *)
(***************************************************************************)
EXTENDS CatalogScan, SequenceTheorems, TLAPS

Paths == Seq(Names)

\* A path, its parent, and its last name.
LEMMA PathFacts ==
  ASSUME NEW p \in Paths, NEW n \in Names
  PROVE  /\ Append(p, n) \in Paths
         /\ Append(p, n) # <<>>
         /\ Append(p, n) # p
         /\ Front(Append(p, n)) = p
         /\ \A q \in Paths, m \in Names :
              Append(p, n) = Append(q, m) => p = q /\ n = m
<1> USE DEF Paths
<1>1. /\ Append(p, n) \in Paths
      /\ Len(Append(p, n)) = Len(p) + 1
      /\ \A i \in 1 .. Len(p) : Append(p, n)[i] = p[i]
  BY AppendProperties
<1>2. Len(p) \in Nat /\ Len(<<>>) = 0
  BY LenProperties
<1>3. Append(p, n) # <<>> /\ Append(p, n) # p
  BY <1>1, <1>2
<1>4. Front(Append(p, n)) = p
  <2> DEFINE q == SubSeq(Append(p, n), 1, Len(p))
  <2>1. \A i \in 1 .. Len(p) : Append(p, n)[i] \in Names
    BY <1>1, ElementOfSeq
  <2>2. /\ q \in Paths
        /\ Len(q) = IF 1 <= Len(p) THEN Len(p) - 1 + 1 ELSE 0
        /\ \A i \in 1 .. Len(p) - 1 + 1 : q[i] = Append(p, n)[1 + i - 1]
    <3> HIDE DEF q
    <3> Len(p) \in Int /\ 1 \in Int
      BY <1>2
    <3> QED
      BY <2>1, <1>2, SubSeqProperties DEF q
  <2>3. Len(q) = Len(p) /\ \A i \in 1 .. Len(p) : q[i] = p[i]
    <3> HIDE DEF q
    <3> QED
      BY <2>2, <1>1, <1>2
  <2>4. q = p
    <3> HIDE DEF q
    <3> QED
      BY <2>2, <2>3, SeqEqual
  <2>5. QED
    BY <2>4, <1>1, <1>2 DEF Front
<1>5. QED
  BY <1>1, <1>3, <1>4, AppendInjective

\* What pending.push adds to the stack, if anything.
LEMMA PushFacts ==
  ASSUME NEW path \in Paths, pending \in Seq(Paths)
  PROVE  /\ Push(path) \in Seq(Paths)
         /\ \A i \in 1 .. Len(Push(path)) :
              \/ i \in 1 .. Len(pending) /\ Push(path)[i] = pending[i]
              \/ /\ opts.recursive /\ i = Len(pending) + 1
                 /\ Push(path)[i] = path
<1>1. CASE opts.recursive
  <2>1. /\ Append(pending, path) \in Seq(Paths)
        /\ Len(Append(pending, path)) = Len(pending) + 1
        /\ \A i \in 1 .. Len(pending) : Append(pending, path)[i] = pending[i]
        /\ Append(pending, path)[Len(pending) + 1] = path
    BY AppendProperties
  <2>2. Len(pending) \in Nat
    BY LenProperties
  <2>3. QED
    BY <1>1, <2>1, <2>2 DEF Push
<1>2. CASE ~ opts.recursive
  BY <1>2 DEF Push
<1>3. QED
  BY <1>1, <1>2

\* What pending.pop leaves on the stack.
LEMMA PopFacts ==
  ASSUME pending \in Seq(Paths), pending # <<>>
  PROVE  /\ pending[Len(pending)] \in Paths
         /\ Len(pending) \in 1 .. Len(pending)
         /\ Popped \in Seq(Paths)
         /\ \A i \in 1 .. Len(Popped) :
              /\ i \in 1 .. Len(pending) /\ i # Len(pending)
              /\ Popped[i] = pending[i]
<1>1. Len(pending) \in Nat \ {0}
  BY EmptySeq, LenProperties
<1>2. pending[Len(pending)] \in Paths
  BY <1>1, ElementOfSeq
<1>3. \A i \in 1 .. Len(pending) - 1 : pending[i] \in Paths
  BY <1>1, ElementOfSeq
<1>4. /\ Popped \in Seq(Paths)
      /\ Len(Popped) = IF 1 <= Len(pending) - 1 THEN Len(pending) - 1 - 1 + 1 ELSE 0
      /\ \A i \in 1 .. Len(pending) - 1 - 1 + 1 : Popped[i] = pending[1 + i - 1]
  <2>1. 1 \in Int /\ Len(pending) - 1 \in Int
    BY <1>1
  <2>2. QED
    BY <1>3, <2>1, SubSeqProperties DEF Popped
<1>5. QED
  BY <1>1, <1>2, <1>4

-------------------------------------------------------------------------------
(* Types.                                                                  *)

\* What a step of the disk does to the variables it may touch.
LEMMA ChangeFacts ==
  ASSUME TypeOK, NEW places \in SUBSET Places, NEW made \in SUBSET Places,
         NEW gone, NEW tree \in [Dirs -> [Names -> Items]],
         Change(places, made, tree, gone)
  PROVE  /\ disk' \in [Dirs -> [Names -> Items]]
         /\ changes' \in Nat \ {0}
         /\ touched' \in SUBSET Places
         /\ listing' \in SUBSET Names /\ remade' \in SUBSET Names
         /\ remade \subseteq remade'
         /\ listing' \subseteq listing \cup remade'
         /\ listing \subseteq listing'
         /\ pc \notin {"done", "failed"}
         /\ UNCHANGED <<opts, pc, share, base, pending, visited, here, handle>>
         /\ UNCHANGED <<entries, unsettled, failure, before, scans>>
<1> USE DEF Change
<1>1. disk' \in [Dirs -> [Names -> Items]]
  <2>1. [node |-> None, link |-> TRUE] \in Items
    BY DEF Items
  <2>2. QED
    BY <2>1 DEF Dangle
<1>2. changes' \in Nat \ {0} /\ touched' \in SUBSET Places
  <2>1. touched \in SUBSET Places /\ changes \in Nat
    BY DEF TypeOK
  <2>2. touched' = touched \cup places \cup made \cup
                     {place \in Places : What(place)' # What(place)}
    OBVIOUS
  <2>3. touched' \in SUBSET Places
    BY <2>1, <2>2
  <2>4. changes' \in Nat \ {0}
    BY <2>1
  <2>5. QED
    BY <2>3, <2>4
<1>3. /\ listing' \in SUBSET Names /\ remade' \in SUBSET Names
      /\ remade \subseteq remade'
      /\ listing' \subseteq listing \cup remade'
      /\ listing \subseteq listing'
  BY DEF Listed, TypeOK
<1>4. QED
  BY <1>1, <1>2, <1>3 DEF resultVars

\* Every step of the disk keeps the types and leaves the walk alone, but for
\* names that are made in the directory it reads.
LEMMA WorldKeepsTypes ==
  ASSUME TypeOK, World
  PROVE  /\ disk' \in [Dirs -> [Names -> Items]]
         /\ locked' \in SUBSET Dirs
         /\ rootOf' \in [ShareNames -> Dirs \cup {None}]
         /\ fresh' \in SUBSET Media
         /\ changes' \in Nat \ {0}
         /\ touched' \in SUBSET Places
         /\ listing' \in SUBSET Names /\ remade' \in SUBSET Names
         /\ remade \subseteq remade'
         /\ listing' \subseteq listing \cup remade'
         /\ listing \subseteq listing'
         /\ pc \notin {"done", "failed"}
         /\ UNCHANGED <<opts, pc, share, base, pending, visited, here, handle>>
         /\ UNCHANGED <<entries, unsettled, failure, before, scans>>
<1> DEFINE Trees == [Dirs -> [Names -> Items]]
<1> DEFINE Goal ==
         /\ disk' \in [Dirs -> [Names -> Items]]
         /\ locked' \in SUBSET Dirs
         /\ rootOf' \in [ShareNames -> Dirs \cup {None}]
         /\ fresh' \in SUBSET Media
         /\ changes' \in Nat \ {0}
         /\ touched' \in SUBSET Places
         /\ listing' \in SUBSET Names /\ remade' \in SUBSET Names
         /\ remade \subseteq remade'
         /\ listing' \subseteq listing \cup remade'
         /\ listing \subseteq listing'
         /\ pc \notin {"done", "failed"}
         /\ UNCHANGED <<opts, pc, share, base, pending, visited, here, handle>>
         /\ UNCHANGED <<entries, unsettled, failure, before, scans>>
<1>1. /\ disk \in Trees /\ locked \in SUBSET Dirs /\ fresh \in SUBSET Media
      /\ rootOf \in [ShareNames -> Dirs \cup {None}]
  BY DEF TypeOK
<1>2. Absent \in Items /\ {} \in SUBSET Places
  BY DEF Absent, Items
<1>3. ASSUME NEW d \in Dirs, NEW n \in Names, RemoveItem(d, n) PROVE Goal
  <2>1. [disk EXCEPT ![d][n] = Absent] \in Trees
    BY <1>1, <1>2
  <2>2. QED
    BY <1>1, <1>2, <1>3, <2>1, ChangeFacts DEF RemoveItem
<1>4. ASSUME NEW d \in Dirs, NEW n \in Names, Rewrite(d, n) PROVE Goal
  <2>1. {<<d, n>>} \in SUBSET Places
    BY DEF Places
  <2>2. fresh' \in SUBSET Media
    BY <1>1, <1>4 DEF Rewrite
  <2>3. QED
    BY <1>1, <1>2, <1>4, <2>1, <2>2, ChangeFacts DEF Rewrite
<1>5. ASSUME NEW d \in Dirs, NEW e \in Dirs, NEW n \in Names, NEW m \in Names,
             Move(d, n, e, m)
      PROVE  Goal
  <2>1. disk[d][n] \in Items
    BY <1>1
  <2>2. [disk EXCEPT ![d][n] = Absent, ![e][m] = disk[d][n]] \in Trees
    BY <1>1, <1>2, <2>1
  <2>3. {<<e, m>>} \in SUBSET Places
    BY DEF Places
  <2>4. QED
    BY <1>1, <1>2, <1>5, <2>2, <2>3, ChangeFacts DEF Move
<1>6. ASSUME NEW d \in Dirs, NEW n \in Names, NEW f \in Media, Write(d, n, f)
      PROVE  Goal
  <2>1. [node |-> f, link |-> FALSE] \in Items
    BY DEF Items, Nodes
  <2>2. [disk EXCEPT ![d][n] = [node |-> f, link |-> FALSE]] \in Trees
    BY <1>1, <2>1
  <2>3. fresh' \in SUBSET Media
    BY <1>1, <1>6 DEF Write
  <2>4. {<<d, n>>} \in SUBSET Places
    BY DEF Places
  <2>5. QED
    BY <1>1, <1>2, <1>6, <2>2, <2>3, <2>4, ChangeFacts DEF Write
<1>7. ASSUME NEW s \in ShareNames, NEW d \in Dirs \cup {None}, Retarget(s, d)
      PROVE  Goal
  <2>1. rootOf' \in [ShareNames -> Dirs \cup {None}]
    BY <1>1, <1>7 DEF Retarget
  <2>2. QED
    BY <1>1, <1>2, <1>7, <2>1, ChangeFacts DEF Retarget
<1>8. ASSUME NEW d \in Dirs, Permit(d) PROVE Goal
  <2>1. {d} \X Names \in SUBSET Places
    BY DEF Places
  <2>2. locked' \in SUBSET Dirs
    BY <1>1, <1>8 DEF Permit
  <2>3. QED
    BY <1>1, <1>2, <1>8, <2>1, <2>2, ChangeFacts DEF Permit
<1>9. CASE Settle
  <2>1. touched \in SUBSET Places /\ changes \in Nat
    BY DEF TypeOK
  <2>2. touched' = touched \cup {place \in Places : What(place).node \in fresh}
    BY <1>9 DEF Settle
  <2>3. touched' \in SUBSET Places
    BY <2>1, <2>2
  <2>4. fresh' \in SUBSET Media /\ changes' \in Nat \ {0}
    BY <1>9, <2>1 DEF Settle
  <2>5. listing \in SUBSET Names /\ remade \in SUBSET Names
    BY DEF TypeOK
  <2>6. QED
    BY <1>1, <1>9, <2>3, <2>4, <2>5 DEF Settle, walkVars, dirVars, resultVars
<1>10. ASSUME NEW d \in Dirs, NEW n \in Names, Replace(d, n) PROVE Goal
  <2>1. {<<d, n>>} \in SUBSET Places
    BY DEF Places
  <2>2. QED
    BY <1>1, <1>2, <1>10, <2>1, ChangeFacts DEF Replace
<1>11. QED
  BY <1>3, <1>4, <1>5, <1>6, <1>7, <1>8, <1>9, <1>10 DEF World

\* The three ways in which the inspection of a name can end.
Passes == UNCHANGED <<pc, failure, entries, pending>>

Collides(n) ==
  /\ pc' = "failed" /\ failure' = "collision" /\ UNCHANGED entries
  /\ pending' \in Seq(Paths)
  /\ \E kind \in {"d", "f"} : Has(Id(kind, base, Append(here, n)))

Adds(n, kind, node) ==
  LET id == Id(kind, base, Append(here, n)) IN
  /\ UNCHANGED <<pc, failure>>
  /\ ~ Has(id)
  /\ Entry(id, node) \in Entries
  /\ entries' = entries \cup {Entry(id, node)}
  /\ pending' = IF kind = "d" THEN Append(pending, Append(here, n)) ELSE pending

LEMMA InspectFacts ==
  ASSUME TypeOK, NEW n \in Names, Inspect(n)
  PROVE  /\ Passes \/ Collides(n)
           \/ \E kind \in {"d", "f"}, node \in Nodes : Adds(n, kind, node)
         /\ pc = "read" /\ n \in listing /\ listing' = listing \ {n}
         /\ unsettled' \in Nat
         /\ UNCHANGED <<opts, share, base, visited, here, handle, remade>>
         /\ UNCHANGED <<before, scans>>
         /\ UNCHANGED <<disk, locked, rootOf, fresh, changes, touched>>
<1> DEFINE path == Append(here, n)
           dir == Node(base, here)
           item == IF dir \in Dirs THEN disk[dir][n] ELSE Absent
           kind == IF item.node \in Dirs THEN "d" ELSE "f"
           id == Id(kind, base, path)
           taken == /\ Seen(item)
                    /\ kind = "d" => opts.recursive
                    /\ kind = "f" => item.node \notin fresh
<1>1. item \in Items
  BY DEF TypeOK, Absent, Items
<1>2. /\ pc = "read" /\ base \in Dirs /\ here \in Paths /\ path \in Paths
      /\ pending \in Seq(Paths)
  <2>1. pc = "read" /\ base \in Dirs /\ here \in Paths
    BY DEF Inspect, TypeOK, Paths
  <2>2. QED
    BY <2>1, PathFacts DEF TypeOK, Paths
<1>3. /\ n \in listing /\ listing' = listing \ {n}
      /\ UNCHANGED <<opts, share, base, visited, here, handle, remade>>
      /\ UNCHANGED <<before, scans>>
      /\ UNCHANGED <<disk, locked, rootOf, fresh, changes, touched>>
  BY DEF Inspect, NextNames, diskVars
<1>4. unsettled' \in Nat
  <2>1. unsettled' \in {unsettled, unsettled + 1}
    BY DEF Inspect, CountUnsettled
  <2>2. unsettled \in Nat
    BY DEF TypeOK
  <2>3. QED
    BY <2>1, <2>2
<1>5. /\ taken /\ Has(id) => /\ pc' = "failed" /\ failure' = "collision"
                             /\ UNCHANGED entries
      /\ ~ (taken /\ Has(id)) =>
           /\ entries' = IF taken THEN entries \cup {Entry(id, item.node)}
                         ELSE entries
           /\ UNCHANGED <<pc, failure>>
      /\ pending' = IF Seen(item) /\ kind = "d" THEN Push(path) ELSE pending
  BY DEF Inspect, Relative
<1> HIDE DEF path, dir, item
<1>6. CASE ~ taken
  <2>1. UNCHANGED <<pc, failure, entries>>
    BY <1>5, <1>6
  <2>2. pending' = pending
    <3>1. Seen(item) /\ kind = "d" => ~ opts.recursive
      BY <1>6
    <3>2. QED
      BY <1>5, <3>1 DEF Push
  <2>3. QED
    BY <1>2, <1>3, <1>4, <2>1, <2>2 DEF Passes
<1>7. CASE taken /\ Has(id)
  <2>1. pending' \in Seq(Paths)
    BY <1>2, <1>5, PushFacts
  <2>2. kind \in {"d", "f"}
    OBVIOUS
  <2>3. Collides(n)
    BY <1>5, <1>7, <2>1, <2>2 DEF Collides, path
  <2>4. QED
    BY <1>2, <1>3, <1>4, <2>3
<1>8. CASE taken /\ ~ Has(id)
  <2>1. kind \in {"d", "f"} /\ item.node \in Nodes
    BY <1>1, <1>8 DEF Seen, Items
  <2>2. Entry(id, item.node) \in Entries
    BY <1>2, <2>1 DEF Entry, Id, Entries, Paths
  <2>3. UNCHANGED <<pc, failure>> /\ entries' = entries \cup {Entry(id, item.node)}
    BY <1>5, <1>8
  <2>4. pending' = IF kind = "d" THEN Append(pending, path) ELSE pending
    BY <1>5, <1>8 DEF Push
  <2>5. Adds(n, kind, item.node)
    BY <1>8, <2>2, <2>3, <2>4 DEF Adds, path
  <2>6. QED
    BY <1>2, <1>3, <1>4, <2>1, <2>5
<1>9. QED
  BY <1>6, <1>7, <1>8

LEMMA TypeCorrectInit == Init => TypeOK
<1> SUFFICES ASSUME Init PROVE TypeOK
  OBVIOUS
<1>1. /\ pending \in Seq(Seq(Names)) /\ here \in Seq(Names)
  BY EmptySeq DEF Init
<1>2. disk \in [Dirs -> [Names -> Items]] /\ locked \in SUBSET Dirs
  BY DisksAssumption, LocksAssumption DEF Init
<1>3. rootOf \in [ShareNames -> Dirs \cup {None}]
  BY DEF Init
<1>4. QED
  BY <1>1, <1>2, <1>3 DEF Init, TypeOK

LEMMA TypeCorrectNext == TypeOK /\ [Next]_vars => TypeOK'
<1> SUFFICES ASSUME TypeOK, [Next]_vars PROVE TypeOK'
  OBVIOUS
<1>1. CASE StartShare
  <2> DEFINE root == rootOf[Shares[share]]
  <2>1. root \in Dirs \cup {None}
    <3>1. share \in 1 .. Len(Shares)
      <4>1. share \in Nat \ {0} /\ share <= Len(Shares)
        BY <1>1 DEF StartShare, TypeOK
      <4>2. QED
        BY <4>1, SharesAssumption
    <3>2. QED
      BY <3>1 DEF TypeOK, ShareNames
  <2>2. root # None => Entry(Id("d", root, <<>>), root) \in Entries
    BY <2>1, EmptySeq DEF Entry, Id, Entries, Nodes
  <2>3. << <<>> >> \in Seq(Seq(Names))
    BY EmptySeq
  <2>4. UNCHANGED <<disk, locked, rootOf, fresh, changes, touched, opts, share,
                    here, handle, listing, remade, unsettled, before, scans>>
    BY <1>1 DEF StartShare, diskVars, dirVars
  <2>5. /\ base' \in Dirs \cup {None} /\ pending' \in Seq(Seq(Names))
        /\ visited' \in SUBSET Dirs /\ entries' \subseteq Entries
        /\ pc' \in {"walk", "failed"}
        /\ pc' \in {"walk", "read"} => base' \in Dirs
        /\ failure' \in {"none", "ResolveShare", "same root", "collision"}
    BY <1>1, <2>1, <2>2, <2>3 DEF StartShare, TypeOK
  <2>6. QED
    BY <2>4, <2>5 DEF TypeOK
<1>2. CASE ReadDir
  <2>1. UNCHANGED <<disk, locked, rootOf, fresh, changes, touched, opts, share,
                    base, entries, unsettled, failure, before, scans>>
    BY <1>2 DEF ReadDir, diskVars, resultVars
  <2>2. /\ Popped \in Seq(Paths) /\ pending[Len(pending)] \in Paths
    BY <1>2, PopFacts DEF ReadDir, TypeOK, Paths
  <2>3. /\ pc' \in {"walk", "read"} /\ here' \in Seq(Names)
        /\ listing' \in SUBSET Names /\ pending' \in Seq(Seq(Names))
        /\ handle' \in Dirs \cup {None} /\ remade' \in SUBSET Names
    BY <1>2, <2>2 DEF ReadDir, TypeOK, Paths, dirVars
  <2>4. visited' \in SUBSET Dirs
    BY <1>2 DEF ReadDir, TypeOK
  <2>5. base \in Dirs
    BY <1>2 DEF ReadDir, TypeOK
  <2>6. QED
    BY <2>1, <2>3, <2>4, <2>5 DEF TypeOK
<1>3. ASSUME NEW n \in Names, Inspect(n) PROVE TypeOK'
  <2>1. /\ entries' \subseteq Entries /\ pending' \in Seq(Paths)
        /\ pc' \in {"read", "failed"}
        /\ failure' \in {"none", "ResolveShare", "same root", "collision"}
    <3>1. pending \in Seq(Paths) /\ here \in Paths /\ Append(here, n) \in Paths
      BY PathFacts DEF TypeOK, Paths
    <3>2. Append(pending, Append(here, n)) \in Seq(Paths)
      BY <3>1, AppendProperties
    <3>3. pc = "read"
      BY <1>3 DEF Inspect
    <3>4. QED
      BY <1>3, <3>1, <3>2, <3>3, InspectFacts
         DEF Passes, Collides, Adds, TypeOK
  <2>2. /\ listing' \in SUBSET Names /\ unsettled' \in Nat
        /\ UNCHANGED <<opts, share, base, visited, here, handle, remade>>
        /\ UNCHANGED <<before, scans>>
        /\ UNCHANGED <<disk, locked, rootOf, fresh, changes, touched>>
    BY <1>3, InspectFacts DEF TypeOK
  <2>3. base \in Dirs
    BY <1>3 DEF Inspect, TypeOK
  <2>4. QED
    BY <2>1, <2>2, <2>3 DEF TypeOK, Paths
<1>4. CASE DirDone \/ ShareDone \/ Finish
  <2>1. /\ UNCHANGED <<disk, locked, rootOf, fresh, changes, touched>>
        /\ UNCHANGED <<opts, base, pending, visited, here, listing>>
        /\ UNCHANGED <<handle, remade>>
        /\ UNCHANGED <<entries, unsettled, failure, before, scans>>
    BY <1>4 DEF DirDone, ShareDone, Finish, diskVars, dirVars, resultVars
  <2>2. share' \in Nat \ {0}
    <3>1. share' \in {share, share + 1}
      BY <1>4 DEF DirDone, ShareDone, Finish
    <3>2. share \in Nat \ {0}
      BY DEF TypeOK
    <3>3. QED
      BY <3>1, <3>2
  <2>3. /\ pc' \in {"share", "walk", "done"}
        /\ pc' = "walk" => base \in Dirs
    BY <1>4 DEF DirDone, ShareDone, Finish, TypeOK
  <2>4. QED
    BY <2>1, <2>2, <2>3 DEF TypeOK
<1>5. CASE ScanAgain
  <2>1. /\ UNCHANGED <<disk, locked, rootOf, fresh, changes, touched>>
        /\ UNCHANGED <<opts, base, pending, visited, here, listing, failure>>
        /\ UNCHANGED <<handle, remade>>
        /\ entries' = {} /\ before' = entries /\ unsettled' = 0
        /\ pc' = "share" /\ share' = 1
    BY <1>5 DEF ScanAgain, diskVars, dirVars
  <2>2. scans' \in Nat
    <3>1. scans \in Nat /\ scans' = scans + 1
      BY <1>5 DEF ScanAgain, TypeOK
    <3>2. QED
      BY <3>1
  <2>3. /\ disk' \in [Dirs -> [Names -> Items]] /\ locked' \in SUBSET Dirs
        /\ rootOf' \in [ShareNames -> Dirs \cup {None}]
        /\ fresh' \in SUBSET Media /\ changes' \in Nat
        /\ touched' \in SUBSET Places
    BY <2>1 DEF TypeOK
  <2>4. /\ share' \in Nat \ {0} /\ unsettled' \in Nat
        /\ entries' \subseteq Entries /\ before' \subseteq Entries
    <3>1. entries \subseteq Entries
      BY DEF TypeOK
    <3>2. QED
      BY <2>1, <3>1
  <2>5. QED
    BY <2>1, <2>2, <2>3, <2>4 DEF TypeOK
<1>6. CASE World
  <2>1. /\ disk' \in [Dirs -> [Names -> Items]] /\ locked' \in SUBSET Dirs
        /\ rootOf' \in [ShareNames -> Dirs \cup {None}]
        /\ fresh' \in SUBSET Media /\ changes' \in Nat
        /\ touched' \in SUBSET Places
        /\ listing' \in SUBSET Names /\ remade' \in SUBSET Names
    BY <1>6, WorldKeepsTypes
  <2>2. /\ UNCHANGED <<opts, pc, share, base, pending, visited, here, handle>>
        /\ UNCHANGED <<entries, unsettled, failure, before, scans>>
    BY <1>6, WorldKeepsTypes
  <2>3. QED
    BY <2>1, <2>2 DEF TypeOK
<1>7. CASE UNCHANGED vars
  <2>1. /\ UNCHANGED <<disk, locked, rootOf, fresh, changes, touched>>
        /\ UNCHANGED <<opts, pc, share, base, pending, visited, here, listing>>
        /\ UNCHANGED <<handle, remade>>
        /\ UNCHANGED <<entries, unsettled, failure, before, scans>>
    BY <1>7 DEF vars, diskVars, walkVars, dirVars, resultVars
  <2>2. /\ disk' \in [Dirs -> [Names -> Items]] /\ locked' \in SUBSET Dirs
        /\ rootOf' \in [ShareNames -> Dirs \cup {None}]
        /\ fresh' \in SUBSET Media /\ changes' \in Nat
        /\ touched' \in SUBSET Places
    BY <2>1 DEF TypeOK
  <2>3. QED
    BY <2>1, <2>2 DEF TypeOK
<1>8. QED
  BY <1>1, <1>2, <1>3, <1>4, <1>5, <1>6, <1>7 DEF Next, Walk

\* The variables keep their types; a share is walked from a directory
\* (catalog.rs:167-191).
THEOREM TypeCorrect == Spec => []TypeOK
BY TypeCorrectInit, TypeCorrectNext, PTL DEF Spec

-------------------------------------------------------------------------------
(* The catalog is a tree.                                                  *)

\* Among the entries es there is one with this ID; the directory at path of the
\* share b is one of them; none is at its name n.
HasIn(es, id) == \E e \in es : e.id = id

Known(es, b, path) == HasIn(es, Id("d", b, path))

Untaken(es, b, path, n) ==
  \A e \in es : ~ (e.id.root = b /\ e.id.path = Append(path, n))

RootsKnown == \A e \in entries : Known(entries, e.id.root, <<>>)

\* A directory on the stack is in the catalog, nothing below it is yet, and it
\* is on the stack once.
StackOK ==
  pc \in {"walk", "read"} =>
    /\ \A i \in 1 .. Len(pending) :
         /\ Known(entries, base, pending[i])
         /\ \A n \in Names : Untaken(entries, base, pending[i], n)
    /\ \A i, j \in 1 .. Len(pending) : pending[i] = pending[j] => i = j

\* The directory being read is in the catalog, what is left of its listing is
\* not, unless it was made again, and it is not on the stack any more.
ReadingOK ==
  pc = "read" =>
    /\ Known(entries, base, here)
    /\ \A n \in listing \ remade : Untaken(entries, base, here, n)
    /\ \A i \in 1 .. Len(pending) : pending[i] # here

\* A walk that met a collision is over, and nothing is made again on a disk at
\* rest.
FailureOK == failure = "collision" => pc = "failed"

RemadeOK == changes = 0 => remade = {}

TreeInv ==
  /\ TypeOK /\ NoCollision /\ ParentsFirst /\ RootsKnown /\ StackOK /\ ReadingOK
  /\ FailureOK /\ RemadeOK

\* Only an inspection can meet a collision, and if it does the name was made
\* again; after that nothing moves any more.
LEMMA FailureFacts ==
  ASSUME TreeInv, TypeOK', [Next]_vars
  PROVE  NoCollision' /\ FailureOK' /\ RemadeOK'
<1>1. /\ TypeOK /\ NoCollision /\ FailureOK /\ RemadeOK /\ ReadingOK
  BY DEF TreeInv
<1>2. CASE StartShare \/ ReadDir \/ DirDone \/ ShareDone \/ Finish \/ ScanAgain
  <2>1. /\ pc # "failed" /\ failure' \in {failure, "ResolveShare", "same root"}
        /\ UNCHANGED changes /\ remade' \in {remade, {}}
    BY <1>2 DEF StartShare, ReadDir, DirDone, ShareDone, Finish, ScanAgain, dirVars,
       diskVars, resultVars
  <2>2. QED
    BY <1>1, <2>1 DEF NoCollision, FailureOK, RemadeOK
<1>3. ASSUME NEW n \in Names, Inspect(n)
      PROVE  NoCollision' /\ FailureOK' /\ RemadeOK'
  <2>1. /\ Passes \/ Collides(n)
             \/ \E kind \in {"d", "f"}, node \in Nodes : Adds(n, kind, node)
        /\ pc = "read" /\ n \in listing
        /\ UNCHANGED <<base, here, remade, changes>>
    BY <1>1, <1>3, InspectFacts
  <2>2. failure # "collision" /\ RemadeOK'
    BY <1>1, <2>1 DEF FailureOK, RemadeOK
  <2>3. CASE UNCHANGED failure
    BY <2>2, <2>3 DEF NoCollision, FailureOK
  <2>4. CASE Collides(n)
    <3>1. PICK kind \in {"d", "f"}, e \in entries :
            e.id = Id(kind, base, Append(here, n))
      BY <2>4 DEF Collides, Has
    <3>2. e.id.root = base /\ e.id.path = Append(here, n)
      BY <3>1 DEF Id
    <3>3. n \in remade
      BY <1>1, <2>1, <3>2 DEF ReadingOK, Untaken
    <3>4. e \in entries' /\ e.id = Id(kind, base', Append(here', n))
      BY <2>1, <2>4, <3>1 DEF Collides
    <3>5. NoCollision'
      BY <2>1, <3>3, <3>4 DEF NoCollision, Has
    <3>6. QED
      BY <2>2, <2>4, <3>5 DEF Collides, FailureOK
  <2>5. QED
    BY <2>1, <2>3, <2>4 DEF Passes, Adds
<1>4. CASE World
  <2>1. /\ pc \notin {"done", "failed"} /\ changes' \in Nat \ {0}
        /\ UNCHANGED failure
    BY <1>1, <1>4, WorldKeepsTypes
  <2>2. QED
    BY <1>1, <2>1 DEF NoCollision, FailureOK, RemadeOK
<1>5. CASE UNCHANGED vars
  <2>1. UNCHANGED <<pc, base, here, remade, entries, failure, changes>>
    BY <1>5 DEF vars, diskVars, walkVars, dirVars, resultVars
  <2>2. QED
    BY <1>1, <2>1 DEF NoCollision, FailureOK, RemadeOK, Has
<1>6. QED
  BY <1>2, <1>3, <1>4, <1>5 DEF Next, Walk

\* Adding the entry of an inspected name.
LEMMA AddKeepsTree ==
  ASSUME TreeInv, TypeOK', pc = "read", NEW n \in Names, n \in listing,
         listing' = listing \ {n}, UNCHANGED <<base, here, remade>>,
         NEW kind \in {"d", "f"}, NEW node \in Nodes, Adds(n, kind, node)
  PROVE  ParentsFirst' /\ RootsKnown' /\ StackOK' /\ ReadingOK'
<1> DEFINE path == Append(here, n)
           new == Entry(Id(kind, base, path), node)
<1>1. /\ here \in Paths /\ path \in Paths /\ pending \in Seq(Paths)
      /\ entries \subseteq Entries
  BY PathFacts DEF TreeInv, TypeOK, Paths
<1>2. /\ entries' = entries \cup {new} /\ UNCHANGED <<pc, failure, base, here>>
      /\ new.id.kind = kind /\ new.id.root = base /\ new.id.path = path
  BY DEF Adds, Entry, Id
<1>3. /\ path # <<>> /\ path # here /\ Front(path) = here
      /\ \A q \in Paths, m \in Names : path = Append(q, m) => here = q /\ n = m
  BY <1>1, PathFacts
<1>4. \A id : HasIn(entries, id) => HasIn(entries', id)
  BY <1>2 DEF HasIn
<1>5. /\ Known(entries, base, here)
      /\ kind = "d" => ~ Known(entries, base, path)
      /\ \A i \in 1 .. Len(pending) : pending[i] # here
  BY DEF TreeInv, ReadingOK, Adds, Has, Known, HasIn
<1> HIDE DEF path, new
<1>6. ParentsFirst'
  <2> SUFFICES ASSUME NEW e \in entries', e.id.path # <<>>
               PROVE  Known(entries', e.id.root, Front(e.id.path))
    BY DEF ParentsFirst, Has, HasIn, Known
  <2>1. CASE e \in entries
    <3>1. Known(entries, e.id.root, Front(e.id.path))
      BY <2>1 DEF TreeInv, ParentsFirst, Has, HasIn, Known
    <3>2. QED
      BY <3>1, <1>4 DEF Known
  <2>2. CASE e = new
    BY <2>2, <1>2, <1>3, <1>4, <1>5 DEF Known
  <2>3. QED
    BY <2>1, <2>2, <1>2
<1>7. RootsKnown'
  <2>1. Known(entries, base, <<>>)
    BY <1>5 DEF TreeInv, RootsKnown, Known, HasIn, Id
  <2>2. QED
    BY <2>1, <1>2, <1>4 DEF TreeInv, RootsKnown, Known
\* Of the entries in the new directory none is there, for it would have come
\* before its parent.
<1>8. kind = "d" => \A m \in Names : Untaken(entries', base, path, m)
  <2> SUFFICES ASSUME kind = "d", NEW m \in Names, NEW e \in entries', e.id.root = base,
                      e.id.path = Append(path, m)
               PROVE  FALSE
    BY DEF Untaken
  <2>1. Append(path, m) # <<>> /\ Front(Append(path, m)) = path
        /\ Append(path, m) # path
    BY <1>1, PathFacts
  <2>2. CASE e \in entries
    <3>1. Known(entries, base, path)
      BY <2>1, <2>2 DEF TreeInv, ParentsFirst, Has, HasIn, Known
    <3>2. QED
      BY <3>1, <1>5
  <2>3. CASE e = new
    BY <2>1, <2>3, <1>2
  <2>4. QED
    BY <2>2, <2>3, <1>2
<1>9. \A i \in 1 .. Len(pending) :
         /\ kind = "d" => pending[i] # path
         /\ Known(entries', base, pending[i])
         /\ \A m \in Names : Untaken(entries', base, pending[i], m)
  <2> SUFFICES ASSUME NEW i \in 1 .. Len(pending)
               PROVE  /\ kind = "d" => pending[i] # path
                      /\ Known(entries', base, pending[i])
                      /\ \A m \in Names : Untaken(entries', base, pending[i], m)
    OBVIOUS
  <2>1. /\ Known(entries, base, pending[i])
        /\ \A m \in Names : Untaken(entries, base, pending[i], m)
    BY DEF TreeInv, StackOK
  <2>2. kind = "d" => pending[i] # path
    BY <2>1, <1>5
  <2>3. pending[i] \in Paths /\ pending[i] # here
    BY <1>1, <1>5, ElementOfSeq
  <2>4. Known(entries', base, pending[i])
    BY <2>1, <1>4 DEF Known
  <2>5. QED
    BY <2>1, <2>2, <2>3, <2>4, <1>2, <1>3 DEF Untaken
\* Each path on the new stack was there before or is the new one, at the top.
<1>10. \A i \in 1 .. Len(pending') :
         \/ i \in 1 .. Len(pending) /\ pending'[i] = pending[i]
         \/ kind = "d" /\ i = Len(pending) + 1 /\ pending'[i] = path
  <2>1. pending' = IF kind = "d" THEN Append(pending, path) ELSE pending
    BY DEF Adds, path
  <2>2. CASE kind = "d"
    <3>1. /\ Len(pending') = Len(pending) + 1 /\ Len(pending) \in Nat
          /\ \A i \in 1 .. Len(pending) : pending'[i] = pending[i]
          /\ pending'[Len(pending) + 1] = path
      BY <2>1, <2>2, <1>1, AppendProperties, LenProperties
    <3>2. QED
      BY <3>1, <2>2
  <2>3. CASE kind # "d"
    BY <2>1, <2>3
  <2>4. QED
    BY <2>2, <2>3
<1>11. kind = "d" => Known(entries', base, path)
  <2>1. new.id = Id(kind, base, path) /\ new \in entries'
    BY <1>2 DEF Entry, new
  <2>2. QED
    BY <2>1 DEF Known, HasIn
<1>12. StackOK'
  <2>1. ASSUME NEW i \in 1 .. Len(pending')
        PROVE  /\ Known(entries', base, pending'[i])
               /\ \A m \in Names : Untaken(entries', base, pending'[i], m)
    BY <1>8, <1>9, <1>10, <1>11
  <2>2. ASSUME NEW i \in 1 .. Len(pending'), NEW j \in 1 .. Len(pending'),
               pending'[i] = pending'[j]
        PROVE  i = j
    <3>1. \A k, l \in 1 .. Len(pending) : pending[k] = pending[l] => k = l
      BY DEF TreeInv, StackOK
    <3>2. QED
      BY <2>2, <3>1, <1>9, <1>10
  <2>3. QED
    BY <2>1, <2>2, <1>2 DEF StackOK
<1>13. ReadingOK'
  <2>1. Known(entries', base, here)
    BY <1>4, <1>5 DEF Known
  <2>2. ASSUME NEW m \in listing' \ remade' PROVE Untaken(entries', base, here, m)
    <3>1. m \in listing \ remade /\ m # n /\ m \in Names
      BY DEF TreeInv, TypeOK
    <3>2. Untaken(entries, base, here, m)
      BY <3>1 DEF TreeInv, ReadingOK
    <3>3. QED
      BY <3>1, <3>2, <1>1, <1>2, <1>3 DEF Untaken
  <2>3. \A i \in 1 .. Len(pending') : pending'[i] # here
    BY <1>3, <1>5, <1>10
  <2>4. QED
    BY <2>1, <2>2, <2>3, <1>2 DEF ReadingOK
<1>14. QED
  BY <1>6, <1>7, <1>12, <1>13

\* The inductive invariant: the walk and the entries keep step with each other
\* (catalog.rs:193-306).
LEMMA TreeHolds == Spec => []TreeInv
<1>1. Init => TreeInv
  <2> SUFFICES ASSUME Init PROVE TreeInv
    OBVIOUS
  <2>1. TypeOK
    BY TypeCorrectInit
  <2>2. QED
    BY <2>1 DEF Init, TreeInv, NoCollision, ParentsFirst, RootsKnown, StackOK,
       ReadingOK, FailureOK, RemadeOK
<1>2. TreeInv /\ [Next]_vars => TreeInv'
  <2> SUFFICES ASSUME TreeInv, [Next]_vars PROVE TreeInv'
    OBVIOUS
  <2>1. TypeOK /\ TypeOK' /\ NoCollision' /\ FailureOK' /\ RemadeOK'
    BY TypeCorrectNext, FailureFacts DEF TreeInv
  <2>2. CASE StartShare
    <3> DEFINE new == Entry(Id("d", base', <<>>), base')
    <3>1. CASE pc' = "failed"
      <4>1. UNCHANGED entries
        BY <2>2, <3>1 DEF StartShare
      <4>2. QED
        BY <2>1, <3>1, <4>1 DEF TreeInv, ParentsFirst, RootsKnown, StackOK,
           ReadingOK, Has
    <3>2. CASE pc' # "failed"
      <4>1. /\ ~ Known(entries, base', <<>>)
            /\ entries' = entries \cup {new}
            /\ pending' = << <<>> >> /\ pc' = "walk"
        BY <2>2, <3>2 DEF StartShare, Has, HasIn, Known
      <4>2. /\ new.id.root = base' /\ new.id.path = <<>>
            /\ new.id = Id("d", base', <<>>)
        BY DEF Entry, Id
      <4> HIDE DEF new
      <4>3. \A id : HasIn(entries, id) => HasIn(entries', id)
        BY <4>1 DEF HasIn
      <4>4. ParentsFirst'
        BY <4>1, <4>2, <4>3 DEF TreeInv, ParentsFirst, Has, HasIn
      <4>5. Known(entries', base', <<>>)
        BY <4>1, <4>2 DEF HasIn, Known
      <4>6. RootsKnown'
        BY <4>1, <4>2, <4>3, <4>5 DEF TreeInv, RootsKnown, Known
      <4>7. \A n \in Names : Untaken(entries', base', <<>>, n)
        <5> SUFFICES ASSUME NEW n \in Names, NEW e \in entries',
                            e.id.root = base', e.id.path = Append(<<>>, n)
                     PROVE  FALSE
          BY DEF Untaken
        <5>1. Append(<<>>, n) # <<>>
          BY PathFacts, EmptySeq DEF Paths
        <5>2. e # new
          BY <4>2, <5>1
        <5>3. QED
          BY <4>1, <5>2 DEF TreeInv, RootsKnown
      <4>8. StackOK'
        <5>1. Len(pending') = 1 /\ pending'[1] = <<>>
          BY <4>1
        <5>2. \A i \in 1 .. Len(pending') : i = 1
          BY <5>1
        <5>3. QED
          BY <4>5, <4>7, <5>1, <5>2 DEF StackOK
      <4>9. QED
        BY <2>1, <4>1, <4>4, <4>6, <4>8 DEF TreeInv, ReadingOK
    <3>3. QED
      BY <3>1, <3>2
  <2>3. CASE ReadDir
    <3>1. /\ UNCHANGED <<entries, base>> /\ pending' = Popped
          /\ pc = "walk" /\ pending # <<>>
          /\ pc' \in {"walk", "read"}
          /\ pc' = "read" => here' = pending[Len(pending)]
      BY <2>3 DEF ReadDir, resultVars
    <3>2. /\ Len(pending) \in 1 .. Len(pending)
          /\ \A i \in 1 .. Len(Popped) :
               /\ i \in 1 .. Len(pending) /\ i # Len(pending)
               /\ Popped[i] = pending[i]
      BY <2>1, <3>1, PopFacts DEF TypeOK, Paths
    <3>3. /\ \A i \in 1 .. Len(pending) :
               /\ Known(entries, base, pending[i])
               /\ \A n \in Names : Untaken(entries, base, pending[i], n)
          /\ \A i, j \in 1 .. Len(pending) : pending[i] = pending[j] => i = j
      BY <3>1 DEF TreeInv, StackOK
    <3>4. ParentsFirst' /\ RootsKnown'
      BY <3>1 DEF TreeInv, ParentsFirst, RootsKnown, Has
    <3>5. StackOK'
      BY <3>1, <3>2, <3>3 DEF StackOK
    <3>6. listing' \in SUBSET Names
      BY <2>1 DEF TypeOK
    <3>7. ReadingOK'
      BY <3>1, <3>2, <3>3, <3>6 DEF ReadingOK
    <3>8. QED
      BY <2>1, <3>1, <3>4, <3>5, <3>7 DEF TreeInv
  <2>4. ASSUME NEW n \in Names, Inspect(n) PROVE TreeInv'
    <3>1. /\ Passes \/ Collides(n)
               \/ \E kind \in {"d", "f"}, node \in Nodes : Adds(n, kind, node)
          /\ pc = "read" /\ n \in listing /\ listing' = listing \ {n}
          /\ UNCHANGED <<base, here, remade>>
      BY <2>1, <2>4, InspectFacts
    <3>2. CASE Passes
      <4>1. /\ UNCHANGED <<pc, entries, pending, base, here>>
            /\ listing' \ remade' \subseteq listing \ remade
        BY <3>1, <3>2 DEF Passes
      <4>2. QED
        BY <2>1, <4>1 DEF TreeInv, ParentsFirst, RootsKnown, StackOK, ReadingOK,
           Has
    <3>3. CASE Collides(n)
      <4>1. UNCHANGED entries /\ pc' = "failed"
        BY <3>3 DEF Collides
      <4>2. QED
        BY <2>1, <4>1 DEF TreeInv, ParentsFirst, RootsKnown, StackOK, ReadingOK,
           Has
    <3>4. CASE \E kind \in {"d", "f"}, node \in Nodes : Adds(n, kind, node)
      BY <2>1, <3>1, <3>4, AddKeepsTree DEF TreeInv
    <3>5. QED
      BY <3>1, <3>2, <3>3, <3>4
  <2>5. CASE DirDone \/ ShareDone \/ Finish
    <3>1. /\ UNCHANGED <<entries, base, pending, here, listing>>
          /\ \/ pc = "read" /\ pc' = "walk"
             \/ pc' \in {"share", "done"}
      BY <2>5 DEF DirDone, ShareDone, Finish, dirVars, resultVars
    <3>2. QED
      BY <2>1, <3>1 DEF TreeInv, ParentsFirst, RootsKnown, StackOK, ReadingOK,
         Has
  <2>6. CASE ScanAgain
    <3>1. entries' = {} /\ pc' = "share"
      BY <2>6 DEF ScanAgain
    <3>2. QED
      BY <2>1, <3>1 DEF TreeInv, ParentsFirst, RootsKnown, StackOK, ReadingOK
  <2>7. CASE World \/ UNCHANGED vars
    <3>1. /\ UNCHANGED <<entries, base, pending, here, pc>>
          /\ listing' \ remade' \subseteq listing \ remade
      BY <2>1, <2>7, WorldKeepsTypes DEF vars, walkVars, dirVars, resultVars
    <3>2. QED
      BY <2>1, <3>1 DEF TreeInv, ParentsFirst, RootsKnown, StackOK, ReadingOK,
         Has
  <2>8. QED
    BY <2>2, <2>3, <2>4, <2>5, <2>6, <2>7 DEF Next, Walk
<1>3. QED
  BY <1>1, <1>2, PTL DEF Spec

\* An entry comes after the container it is in, whatever happens to the disk
\* while it is read (catalog.rs:289-306).
THEOREM ParentsComeFirst == Spec => []ParentsFirst
<1>1. TreeInv => ParentsFirst
  BY DEF TreeInv
<1>2. QED
  BY <1>1, TreeHolds, PTL

\* A scan fails by an ID given twice only if read_dir gave a name again that was
\* made again in the directory while it was read (catalog.rs:290-295).
THEOREM NeverCollides == Spec => []NoCollision
<1>1. TreeInv => NoCollision
  BY DEF TreeInv
<1>2. QED
  BY <1>1, TreeHolds, PTL

================================================================================

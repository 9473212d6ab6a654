------------------------- MODULE CatalogContentsProofs ------------------------
(***************************************************************************)
(* Theorems about what a finished scan has in its catalog: on a disk at    *)
(* rest every place once, what was withheld, and the same the next time;   *)
(* on any other disk whatever was left alone.                              *)
(***************************************************************************)
EXTENDS CatalogScanProofs, FiniteSetTheorems

-------------------------------------------------------------------------------
(* Induction.  The theorems of the library take a predicate; this one takes  *)
(* the set of those that have the property.                                  *)

\* A set with 0 and all successors has all numbers.
LEMMA SetInduction ==
  ASSUME NEW S, 0 \in S, \A n \in Nat : n \in S => n + 1 \in S
  PROVE  Nat \subseteq S
<1> SUFFICES ASSUME NEW n \in Nat, n \notin S PROVE FALSE
  OBVIOUS
\* Otherwise the successor would map T, a finite set, into a smaller one.
<1> DEFINE T == S \cap (0 .. n)
           U == T \ {0}
           next == [i \in T |-> i + 1]
<1>1. IsFiniteSet(T) /\ Cardinality(T) \in Nat
  <2>1. IsFiniteSet(0 .. n)
    BY FS_Interval
  <2>2. IsFiniteSet(T)
    BY <2>1, FS_Intersection
  <2>3. QED
    BY <2>2, FS_CardinalityType
<1>2. IsFiniteSet(U) /\ Cardinality(U) = Cardinality(T) - 1
  <2>1. 0 \in T
    OBVIOUS
  <2> HIDE DEF T
  <2>2. QED
    BY <1>1, <2>1, FS_RemoveElement
<1>3. next \in Injection(T, U)
  <2>1. \A i \in T : i + 1 \in U
    OBVIOUS
  <2>2. \A i, j \in T : i + 1 = j + 1 => i = j
    OBVIOUS
  <2>3. next \in [T -> U]
    BY <2>1
  <2> HIDE DEF T, U
  <2>4. QED
    BY <2>2, <2>3 DEF Injection, IsInjective
<1>4. Cardinality(T) <= Cardinality(U)
  <2> HIDE DEF T, U, next
  <2> QED
    BY <1>2, <1>3, FS_Injection
<1>5. QED
  BY <1>1, <1>2, <1>4

-------------------------------------------------------------------------------
(* Paths on a disk.                                                        *)

Step(tree, node, n) == IF node \in Dirs THEN tree[node][n].node ELSE None

\* The nodes on the way along the first m names of a path, by the recursion of
\* Resolve.
Way(tree, root, path, m, at) ==
  at = [k \in 0 .. m |->
          IF k = 0 THEN root ELSE Step(tree, at[k - 1], path[k])]

\* There is such a way, by induction over the names.
LEMMA WayExists ==
  ASSUME NEW tree, NEW root, NEW path, NEW m \in Nat
  PROVE  \E at : Way(tree, root, path, m, at)
<1> DEFINE S == {l \in Nat : \E at : Way(tree, root, path, l, at)}
<1>1. 0 \in S
  <2> DEFINE at == [k \in 0 .. 0 |-> root]
  <2>1. Way(tree, root, path, 0, at)
    BY DEF Way
  <2>2. QED
    BY <2>1
<1>2. ASSUME NEW l \in Nat, l \in S PROVE l + 1 \in S
  <2>1. PICK at : Way(tree, root, path, l, at)
    BY <1>2
  <2> DEFINE to == [k \in 0 .. l + 1 |->
                      IF k <= l THEN at[k] ELSE Step(tree, at[l], path[l + 1])]
  <2>2. \A k \in 0 .. l :
          at[k] = IF k = 0 THEN root ELSE Step(tree, at[k - 1], path[k])
    BY <2>1 DEF Way
  <2>3. \A k \in 0 .. l + 1 :
          to[k] = IF k = 0 THEN root ELSE Step(tree, to[k - 1], path[k])
    BY <2>2
  <2>4. to = [k \in 0 .. l + 1 |-> to[k]]
    OBVIOUS
  <2>5. to = [k \in 0 .. l + 1 |->
                IF k = 0 THEN root ELSE Step(tree, to[k - 1], path[k])]
    <3> HIDE DEF to
    <3> QED
      BY <2>3, <2>4
  <2>6. Way(tree, root, path, l + 1, to)
    BY <2>5 DEF Way
  <2>7. QED
    BY <2>6
<1> HIDE DEF S
<1>3. Nat \subseteq S
  BY <1>1, <1>2, SetInduction
<1>4. QED
  BY <1>3 DEF S

\* Two ways along paths that begin alike are the same so far.
LEMMA WaysAgree ==
  ASSUME NEW tree, NEW root, NEW p, NEW q, NEW m \in Nat, NEW l \in Nat, m <= l,
         \A k \in 1 .. m : p[k] = q[k],
         NEW at, Way(tree, root, p, m, at), NEW to, Way(tree, root, q, l, to)
  PROVE  at[m] = to[m]
<1> DEFINE S == {k \in Nat : k <= m => at[k] = to[k]}
<1>1. /\ \A k \in 0 .. m :
           at[k] = IF k = 0 THEN root ELSE Step(tree, at[k - 1], p[k])
      /\ \A k \in 0 .. l :
           to[k] = IF k = 0 THEN root ELSE Step(tree, to[k - 1], q[k])
  BY DEF Way
<1>2. 0 \in S
  BY <1>1
<1>3. ASSUME NEW k \in Nat, k \in S PROVE k + 1 \in S
  <2>1. k + 1 \in Nat /\ (k + 1) - 1 = k /\ k + 1 # 0
    OBVIOUS
  <2>2. CASE k + 1 <= m
    <3>1. at[k] = to[k] /\ k + 1 \in 0 .. m /\ k + 1 \in 0 .. l /\ k + 1 \in 1 .. m
      BY <1>3, <2>2
    <3>2. at[k + 1] = Step(tree, at[k], p[k + 1])
      BY <1>1, <2>1, <3>1
    <3>3. to[k + 1] = Step(tree, to[k], q[k + 1])
      BY <1>1, <2>1, <3>1
    <3>4. QED
      BY <3>1, <3>2, <3>3
  <2>3. CASE ~ (k + 1 <= m)
    BY <2>3
  <2>4. QED
    BY <2>2, <2>3
<1> HIDE DEF S
<1>4. Nat \subseteq S
  BY <1>2, <1>3, SetInduction
<1>5. QED
  BY <1>4 DEF S

\* Resolve goes such a way.
LEMMA ResolveWay ==
  ASSUME NEW tree, NEW root, NEW path, Len(path) \in Nat
  PROVE  \E at : /\ Way(tree, root, path, Len(path), at)
                 /\ Resolve(tree, root, path) = at[Len(path)]
<1>1. \E at : Way(tree, root, path, Len(path), at)
  BY WayExists
<1>2. Resolve(tree, root, path) =
        (CHOOSE at : Way(tree, root, path, Len(path), at))[Len(path)]
  BY DEF Resolve, Way, Step
<1>3. QED
  BY <1>1, <1>2

\* A path is resolved name by name.
LEMMA ResolveEmpty ==
  ASSUME NEW tree, NEW root
  PROVE  Resolve(tree, root, <<>>) = root
<1>1. Len(<<>>) = 0
  OBVIOUS
<1>2. PICK at : /\ Way(tree, root, <<>>, 0, at)
                /\ Resolve(tree, root, <<>>) = at[0]
  BY <1>1, ResolveWay
<1>3. QED
  BY <1>2 DEF Way

\* One more name is one more step.
LEMMA ResolveAppend ==
  ASSUME NEW tree, NEW root, NEW path \in Paths, NEW n \in Names
  PROVE  Resolve(tree, root, Append(path, n)) =
           Step(tree, Resolve(tree, root, path), n)
<1> DEFINE longer == Append(path, n)
           m == Len(path)
<1>1. /\ m \in Nat /\ Len(longer) = m + 1
      /\ \A i \in 1 .. m : longer[i] = path[i]
      /\ longer[m + 1] = n
  BY AppendProperties, LenProperties DEF Paths
<1> HIDE DEF longer, m
<1>2. PICK at : Way(tree, root, path, m, at) /\ Resolve(tree, root, path) = at[m]
  BY <1>1, ResolveWay DEF m
<1>3. PICK to : /\ Way(tree, root, longer, m + 1, to)
                /\ Resolve(tree, root, longer) = to[m + 1]
  <2>1. Len(longer) \in Nat
    BY <1>1
  <2>2. QED
    BY <1>1, <2>1, ResolveWay
<1>4. at[m] = to[m]
  BY <1>1, <1>2, <1>3, WaysAgree
<1>5. to[m + 1] = Step(tree, to[m], n)
  BY <1>1, <1>3 DEF Way
<1>6. QED
  BY <1>2, <1>3, <1>4, <1>5 DEF longer

\* A path that is not empty has a last name.
LEMMA LastName ==
  ASSUME NEW path \in Paths, path # <<>>
  PROVE  /\ Front(path) \in Paths /\ path[Len(path)] \in Names
         /\ path = Append(Front(path), path[Len(path)])
<1> USE DEF Paths
<1>1. Len(path) \in Nat \ {0}
  BY EmptySeq, LenProperties
<1>2. \A i \in 1 .. Len(path) : path[i] \in Names
  BY <1>1, ElementOfSeq
<1>3. path[Len(path)] \in Names
  BY <1>1, <1>2
<1> DEFINE q == SubSeq(path, 1, Len(path) - 1)
<1>4. /\ q \in Paths /\ Len(q) = Len(path) - 1
      /\ \A i \in 1 .. Len(path) - 1 : q[i] = path[i]
  <2>1. 1 \in Int /\ Len(path) - 1 \in Int
    BY <1>1
  <2>2. \A i \in 1 .. Len(path) - 1 : path[i] \in Names
    BY <1>1, <1>2
  <2>3. /\ q \in Paths
        /\ Len(q) = IF 1 <= Len(path) - 1 THEN (Len(path) - 1) - 1 + 1 ELSE 0
        /\ \A i \in 1 .. (Len(path) - 1) - 1 + 1 : q[i] = path[1 + i - 1]
    <3> HIDE DEF q
    <3> QED
      BY <2>1, <2>2, SubSeqProperties DEF q
  <2> HIDE DEF q
  <2>4. Len(q) = Len(path) - 1
    <3>1. \A m \in Nat \ {0} :
            m - 1 = IF 1 <= m - 1 THEN (m - 1) - 1 + 1 ELSE 0
      OBVIOUS
    <3>2. QED
      BY <1>1, <2>3, <3>1
  <2>5. \A i \in 1 .. Len(path) - 1 :
          i \in 1 .. (Len(path) - 1) - 1 + 1 /\ 1 + i - 1 = i
    BY <1>1
  <2>6. QED
    BY <2>3, <2>4, <2>5
<1> HIDE DEF q
<1>5. /\ Append(q, path[Len(path)]) \in Paths
      /\ Len(Append(q, path[Len(path)])) = Len(path)
      /\ \A i \in 1 .. Len(path) : Append(q, path[Len(path)])[i] = path[i]
  <2>1. /\ Append(q, path[Len(path)]) \in Seq(Names)
        /\ Len(Append(q, path[Len(path)])) = Len(q) + 1
        /\ \A i \in 1 .. Len(q) : Append(q, path[Len(path)])[i] = q[i]
        /\ Append(q, path[Len(path)])[Len(q) + 1] = path[Len(path)]
    BY <1>3, <1>4, AppendProperties
  <2>2. QED
    BY <1>1, <1>4, <2>1
<1>6. path = Append(q, path[Len(path)])
  BY <1>5, SeqEqual
<1>7. QED
  BY <1>3, <1>4, <1>6 DEF Front, q

-------------------------------------------------------------------------------
(* The walk of a disk at rest.                                             *)

\* The directory at path of this share is on the stack.
Waiting(root, path) ==
  /\ pc \in {"walk", "read"} /\ root = base
  /\ \E i \in 1 .. Len(pending) : pending[i] = path

\* The directories of a share that were taken from the stack.
TakenIn(root) ==
  {d \in Dirs : \E path \in Paths :
     /\ Known(entries, root, path) /\ ~ Waiting(root, path)
     /\ Node(root, path) = d}

\* The listing being read still has this place to give.
Left(root, place) ==
  /\ pc = "read" /\ root = base
  /\ place[1] = Node(base, here) /\ place[2] \in listing

\* e is the entry of name n of the directory at path.
IsAt(e, root, path, n) == e.id.root = root /\ e.id.path = Append(path, n)

\* Every entry is what its path leads to, and was to be taken.
EntriesFound ==
  \A e \in entries :
    /\ e.node = Node(e.id.root, e.id.path)
    /\ \A path \in Paths, n \in Names :
         e.id.path = Append(path, n) =>
           LET place == <<Node(e.id.root, path), n>> IN
           /\ place[1] \in Dirs /\ Offered(place)
           /\ What(place).node = e.node /\ e.node \notin fresh

\* However many names a directory has, its contents are listed below one.
ListedOnce ==
  \A d, e \in entries, p, q \in Paths, n, m \in Names :
    /\ IsAt(d, d.id.root, p, n) /\ IsAt(e, d.id.root, q, m)
    /\ Node(d.id.root, p) = Node(d.id.root, q)
    => p = q

ReadingOnce ==
  pc = "read" =>
    \A e \in entries, path \in Paths, n \in Names :
      IsAt(e, base, path, n) /\ Node(base, path) = Node(base, here) =>
        path = here

\* The directory being read may be read, and its listing has the names to see.
ReadingOffers ==
  pc = "read" =>
    /\ Node(base, here) \in Dirs \ locked
    /\ \A n \in listing : n \in Hidden => opts.hidden

\* Without links a directory has one name, and is below its share's root.
RealTree ==
  ~ opts.follow =>
    /\ \A d, e \in entries :
         d.id.root = e.id.root /\ d.node = e.node /\ d.node \in Dirs =>
           d.id.path = e.id.path
    /\ \A e \in entries, height \in Heights(disk) :
         e.id.path # <<>> /\ e.node \in Dirs =>
           height[e.node] < height[e.id.root]

\* With links, visited has the directories taken from the stack.
VisitedTaken ==
  opts.follow /\ pc \in {"walk", "read"} => visited = TakenIn(base)

\* What a directory offers is listed, once the directory was read.
OffersListed ==
  \A root \in Dirs : \A d \in TakenIn(root), n \in Names :
    /\ Offered(<<d, n>>) /\ What(<<d, n>>).node \notin fresh
    /\ ~ Left(root, <<d, n>>)
    => \E e \in entries, path \in Paths :
         IsAt(e, root, path, n) /\ Node(root, path) = d

\* The scan stays in the share.
StaysInShare ==
  \A e \in entries : e.node \in Dirs => e.node \in InShare(e.id.root)

\* What was withheld so far.
Withheld ==
  {w \in Dirs \X Places :
     /\ w[2][1] \in TakenIn(w[1]) /\ Offered(w[2])
     /\ What(w[2]).node \in fresh /\ ~ Left(w[1], w[2])}

CountKept == unsettled = Cardinality(Withheld)

RestParts ==
  /\ disk \in Disks
  /\ EntriesFound /\ ListedOnce /\ ReadingOnce /\ ReadingOffers
  /\ RealTree /\ VisitedTaken
  /\ OffersListed /\ StaysInShare /\ CountKept

RestInv == changes = 0 => RestParts

-------------------------------------------------------------------------------
(* The steps of the walk.                                                    *)

\* Where a path leads, name by name.
LEMMA NodeByName ==
  /\ \A root : Node(root, <<>>) = root
  /\ \A root : \A path \in Paths, n \in Names :
       Node(root, path) \in Dirs =>
         Node(root, Append(path, n)) = What(<<Node(root, path), n>>).node
<1>1. \A root : Node(root, <<>>) = root
  BY ResolveEmpty DEF Node
<1>2. ASSUME NEW root, NEW path \in Paths, NEW n \in Names,
             Node(root, path) \in Dirs
      PROVE  Node(root, Append(path, n)) = What(<<Node(root, path), n>>).node
  BY <1>2, ResolveAppend DEF Node, Step, What
<1>3. QED
  BY <1>1, <1>2

\* What the definitions say of a disk that a step leaves alone.
LEMMA DiskFrame ==
  ASSUME UNCHANGED <<disk, locked, opts>>
  PROVE  /\ \A root, path : Node(root, path)' = Node(root, path)
         /\ \A place : /\ What(place)' = What(place)
                       /\ Offered(place)' <=> Offered(place)
         /\ \A root : InShare(root)' = InShare(root)
<1>1. \A root, path : Node(root, path)' = Node(root, path)
  BY DEF Node
<1>2. \A place : /\ What(place)' = What(place)
                 /\ Offered(place)' <=> Offered(place)
  BY DEF What, Offered, Shown
<1>3. \A set : Closed(set)' <=> Closed(set)
  BY <1>2 DEF Closed
<1>4. \A root : InShare(root)' = InShare(root)
  BY <1>3 DEF InShare
<1>5. QED
  BY <1>1, <1>2, <1>4

\* What Inspect finds under a name, and whether it takes it.
ItemOf(n) ==
  IF Node(base, here) \in Dirs THEN What(<<Node(base, here), n>>) ELSE Absent

KindOf(node) == IF node \in Dirs THEN "d" ELSE "f"

Takes(n) ==
  LET item == ItemOf(n) IN
  /\ Seen(item)
  /\ item.node \in Dirs => opts.recursive
  /\ item.node \notin Dirs => item.node \notin fresh

NewEntry(n) ==
  Entry(Id(KindOf(ItemOf(n).node), base, Append(here, n)), ItemOf(n).node)

\* On a disk at rest a name that is still to be inspected is not taken.
LEMMA RestUntaken ==
  ASSUME TreeInv, changes = 0, pc = "read"
  PROVE  \A n \in listing : Untaken(entries, base, here, n)
BY DEF TreeInv, ReadingOK, RemadeOK

\* Inspecting a name that meets no collision, for which there must be changes.
LEMMA InspectExactly ==
  ASSUME TreeInv, NEW n \in Names, Inspect(n), changes = 0 \/ pc' # "failed"
  PROVE  /\ pc = "read" /\ pc' = "read"
         /\ n \in listing /\ listing' = listing \ {n}
         /\ here \in Paths /\ base \in Dirs /\ pending \in Seq(Paths)
         /\ ItemOf(n) \in Items
         /\ entries' = IF Takes(n) THEN entries \cup {NewEntry(n)} ELSE entries
         /\ pending' = IF Takes(n) /\ ItemOf(n).node \in Dirs
                         THEN Append(pending, Append(here, n)) ELSE pending
         /\ unsettled' = IF Seen(ItemOf(n)) /\ ItemOf(n).node \in fresh
                           THEN unsettled + 1 ELSE unsettled
         /\ UNCHANGED <<opts, share, base, visited, here>>
         /\ UNCHANGED <<disk, locked, rootOf, fresh, changes, touched>>
<1> DEFINE kind == KindOf(ItemOf(n).node)
           id == Id(kind, base, Append(here, n))
<1>1. /\ pc = "read" /\ n \in listing /\ listing' = listing \ {n}
      /\ here \in Paths /\ base \in Dirs /\ pending \in Seq(Paths)
      /\ UNCHANGED <<opts, share, base, visited, here>>
      /\ UNCHANGED <<disk, locked, rootOf, fresh, changes, touched>>
  BY DEF Inspect, NextNames, diskVars, TreeInv, TypeOK, Paths
<1>2. ItemOf(n) \in Items
  BY DEF ItemOf, What, TreeInv, TypeOK, Absent, Items
<1>3. /\ unsettled' = IF Seen(ItemOf(n)) /\ ItemOf(n).node \in fresh
                        THEN unsettled + 1 ELSE unsettled
      /\ Takes(n) /\ Has(id) => pc' = "failed"
      /\ ~ (Takes(n) /\ Has(id)) =>
           /\ entries' = IF Takes(n) THEN entries \cup {NewEntry(n)} ELSE entries
           /\ UNCHANGED pc
      /\ pending' = IF Seen(ItemOf(n)) /\ kind = "d"
                      THEN Push(Append(here, n)) ELSE pending
  BY DEF Inspect, Relative, CountUnsettled, Takes, NewEntry, ItemOf, KindOf, What
<1>4. ~ (Takes(n) /\ Has(id))
  <2>1. CASE pc' # "failed"
    BY <1>3, <2>1
  <2>2. ASSUME changes = 0, NEW e \in entries, e.id = id PROVE FALSE
    <3>1. e.id.root = base /\ e.id.path = Append(here, n)
      BY <2>2 DEF Id
    <3>2. QED
      BY <1>1, <2>2, <3>1, RestUntaken DEF Untaken
  <2>3. QED
    BY <2>1, <2>2 DEF Has
<1>5. pending' = IF Takes(n) /\ ItemOf(n).node \in Dirs
                   THEN Append(pending, Append(here, n)) ELSE pending
  BY <1>3 DEF Push, Takes, KindOf
<1>6. QED
  BY <1>1, <1>2, <1>3, <1>4, <1>5

\* Reading a directory.
LEMMA ReadExactly ==
  ASSUME TypeOK, ReadDir
  PROVE  LET path == pending[Len(pending)]
             dir == Node(base, path)
             read == /\ dir \in Dirs \ locked
                     /\ ~ (opts.follow /\ dir \in visited)
         IN
         /\ pc = "walk" /\ base \in Dirs /\ path \in Paths
         /\ Len(pending) \in 1 .. Len(pending)
         /\ \A i \in 1 .. Len(pending') :
              i \in 1 .. Len(pending) /\ i # Len(pending) /\ pending'[i] = pending[i]
         /\ \A i \in 1 .. Len(pending) :
              i # Len(pending) => i \in 1 .. Len(pending') /\ pending'[i] = pending[i]
         /\ visited' = IF opts.follow /\ dir \in Dirs
                         THEN visited \cup {dir} ELSE visited
         /\ read => /\ pc' = "read" /\ here' = path
                    /\ listing' = {n \in Names :
                         disk[dir][n] # Absent /\ (n \in Hidden => opts.hidden)}
         /\ ~ read => pc' = "walk"
         /\ UNCHANGED <<opts, share, base, entries, unsettled>>
         /\ UNCHANGED <<disk, locked, rootOf, fresh, changes, touched>>
<1>1. pending \in Seq(Paths) /\ pending # <<>> /\ pending' = Popped /\ pc = "walk"
  BY DEF ReadDir, TypeOK, Paths
<1>2. /\ pending[Len(pending)] \in Paths
      /\ Len(pending) \in 1 .. Len(pending)
      /\ \A i \in 1 .. Len(Popped) :
           /\ i \in 1 .. Len(pending) /\ i # Len(pending)
           /\ Popped[i] = pending[i]
  BY <1>1, PopFacts
<1>3. \A i \in 1 .. Len(pending) : i # Len(pending) => i \in 1 .. Len(Popped)
  <2>1. Len(pending) \in Nat \ {0}
    BY <1>1, EmptySeq, LenProperties
  <2>2. \A i \in 1 .. Len(pending) - 1 : pending[i] \in Paths
    BY <1>1, <2>1, ElementOfSeq
  <2>3. 1 \in Int /\ Len(pending) - 1 \in Int
    BY <2>1
  <2>4. Len(Popped) = IF 1 <= Len(pending) - 1
                        THEN (Len(pending) - 1) - 1 + 1 ELSE 0
    BY <2>2, <2>3, SubSeqProperties DEF Popped
  <2>5. \A m \in Nat \ {0} :
          m - 1 = IF 1 <= m - 1 THEN (m - 1) - 1 + 1 ELSE 0
    OBVIOUS
  <2>6. Len(Popped) = Len(pending) - 1
    BY <2>1, <2>4, <2>5
  <2>7. QED
    BY <2>1, <2>6
<1>4. base \in Dirs
  BY <1>1 DEF TypeOK
<1>5. QED
  BY <1>1, <1>2, <1>3, <1>4 DEF ReadDir, diskVars, resultVars

-------------------------------------------------------------------------------
(* What the steps leave alone.                                               *)

\* A step that adds no entry and takes no directory from the stack.
LEMMA QuietKeeps ==
  ASSUME RestParts, UNCHANGED <<disk, locked, opts, fresh, entries, base>>,
         \A root, path : Waiting(root, path)' <=> Waiting(root, path),
         pc' = "read" => pc = "read" /\ here' = here /\ listing' \subseteq listing
  PROVE  /\ disk' \in Disks
         /\ EntriesFound' /\ ListedOnce' /\ ReadingOnce' /\ ReadingOffers'
         /\ RealTree' /\ StaysInShare'
         /\ \A root : TakenIn(root)' = TakenIn(root)
<1>1. /\ \A root, path : Node(root, path)' = Node(root, path)
      /\ \A place : /\ What(place)' = What(place)
                    /\ Offered(place)' <=> Offered(place)
      /\ \A root : InShare(root)' = InShare(root)
  BY DiskFrame
<1>2. disk' \in Disks
  BY DEF RestParts
<1>3. EntriesFound'
  BY <1>1 DEF RestParts, EntriesFound
<1>4. ListedOnce'
  BY <1>1 DEF RestParts, ListedOnce
<1>5. ReadingOnce'
  BY <1>1 DEF RestParts, ReadingOnce
<1>6. ReadingOffers'
  BY <1>1 DEF RestParts, ReadingOffers
<1>7. RealTree'
  BY DEF RestParts, RealTree
<1>8. StaysInShare'
  BY <1>1 DEF RestParts, StaysInShare
<1>9. \A root : TakenIn(root)' = TakenIn(root)
  BY <1>1 DEF TakenIn
<1>10. QED
  BY <1>2, <1>3, <1>4, <1>5, <1>6, <1>7, <1>8, <1>9

\* One that leaves the listing alone, too, or has none.
LEMMA StillKeeps ==
  ASSUME RestParts,
         UNCHANGED <<disk, locked, opts, fresh, entries, base, visited, unsettled>>,
         \A root, path : Waiting(root, path)' <=> Waiting(root, path),
         \A root, place : Left(root, place)' <=> Left(root, place),
         pc' = "read" => pc = "read" /\ here' = here /\ listing' = listing,
         pc' \in {"walk", "read"} => pc \in {"walk", "read"}
  PROVE  RestParts'
<1>1. /\ \A root, path : Node(root, path)' = Node(root, path)
      /\ \A place : /\ What(place)' = What(place)
                    /\ Offered(place)' <=> Offered(place)
  BY DiskFrame
<1>2. /\ disk' \in Disks
      /\ EntriesFound' /\ ListedOnce' /\ ReadingOnce' /\ ReadingOffers'
      /\ RealTree' /\ StaysInShare'
      /\ \A root : TakenIn(root)' = TakenIn(root)
  BY QuietKeeps
<1>3. VisitedTaken'
  BY <1>2 DEF RestParts, VisitedTaken
<1>4. OffersListed'
  BY <1>1, <1>2 DEF RestParts, OffersListed
<1>5. CountKept'
  <2>1. Withheld' = Withheld
    BY <1>1, <1>2 DEF Withheld
  <2>2. QED
    BY <2>1 DEF RestParts, CountKept
<1>6. QED
  BY <1>2, <1>3, <1>4, <1>5 DEF RestParts

\* Nothing is listed at first.
LEMMA RestInit == Init => RestParts
<1> SUFFICES ASSUME Init PROVE RestParts
  OBVIOUS
<1>1. disk \in Disks /\ entries = {} /\ pc = "share" /\ unsettled = 0
  BY DEF Init
<1>2. \A root : TakenIn(root) = {}
  BY <1>1 DEF TakenIn, Known, HasIn
<1>3. Withheld = {}
  BY <1>2 DEF Withheld
<1>4. CountKept
  BY <1>1, <1>3, FS_EmptySet DEF CountKept
<1>5. QED
  BY <1>1, <1>2, <1>4
     DEF RestParts, EntriesFound, ListedOnce, ReadingOnce, ReadingOffers,
         RealTree, VisitedTaken, OffersListed, StaysInShare

\* Steps that only go on to the next directory or share.
LEMMA RestDone ==
  ASSUME RestParts, DirDone \/ ShareDone \/ Finish \/ UNCHANGED vars
  PROVE  RestParts'
<1>1. UNCHANGED <<disk, locked, opts, fresh, entries, base, visited, unsettled>>
  BY DEF DirDone, ShareDone, Finish, vars, diskVars, walkVars, dirVars, resultVars
<1>2. \A root, path : Node(root, path)' = Node(root, path)
  BY <1>1, DiskFrame
<1>3. CASE DirDone
  <2>1. /\ pc = "read" /\ pc' = "walk" /\ listing = {} /\ pending' = pending
        /\ UNCHANGED base
    BY <1>3 DEF DirDone
  <2>2. \A root, path : Waiting(root, path)' <=> Waiting(root, path)
    BY <2>1 DEF Waiting
  <2>3. \A root, place : Left(root, place)' <=> Left(root, place)
    BY <2>1 DEF Left
  <2>4. QED
    BY <1>1, <2>1, <2>2, <2>3, StillKeeps
<1>4. CASE ShareDone
  <2>1. /\ pc = "walk" /\ pc' = "share" /\ pending = <<>>
    BY <1>4 DEF ShareDone
  <2>2. \A root, path : ~ Waiting(root, path)
    BY <2>1 DEF Waiting
  <2>3. \A root, path : ~ Waiting(root, path)'
    BY <2>1 DEF Waiting
  <2>4. \A root, place : ~ Left(root, place) /\ ~ Left(root, place)'
    BY <2>1 DEF Left
  <2>5. QED
    BY <1>1, <2>1, <2>2, <2>3, <2>4, StillKeeps
<1>5. CASE Finish
  <2>1. pc = "share" /\ pc' = "done"
    BY <1>5 DEF Finish
  <2>2. \A root, path : ~ Waiting(root, path) /\ ~ Waiting(root, path)'
    BY <2>1 DEF Waiting
  <2>3. \A root, place : ~ Left(root, place) /\ ~ Left(root, place)'
    BY <2>1 DEF Left
  <2>4. QED
    BY <1>1, <2>1, <2>2, <2>3, StillKeeps
<1>6. CASE UNCHANGED vars
  <2>1. UNCHANGED <<pc, pending, here, listing, base>>
    BY <1>6 DEF vars, walkVars, dirVars
  <2>2. \A root, path : Waiting(root, path)' <=> Waiting(root, path)
    BY <2>1 DEF Waiting
  <2>3. \A root, place : Left(root, place)' <=> Left(root, place)
    BY <1>2, <2>1 DEF Left
  <2>4. QED
    BY <1>1, <2>1, <2>2, <2>3, StillKeeps
<1>7. QED
  BY <1>3, <1>4, <1>5, <1>6

\* A new scan has nothing yet.
LEMMA RestAgain ==
  ASSUME RestParts, ScanAgain
  PROVE  RestParts'
<1>1. /\ disk' = disk /\ entries' = {} /\ pc' = "share" /\ unsettled' = 0
  BY DEF ScanAgain, diskVars
<1>2. \A root : TakenIn(root)' = {}
  BY <1>1 DEF TakenIn, Known, HasIn
<1>3. Withheld' = {}
  BY <1>2 DEF Withheld
<1>4. CountKept'
  BY <1>1, <1>3, FS_EmptySet DEF CountKept
<1>5. QED
  BY <1>1, <1>2, <1>4
     DEF RestParts, EntriesFound, ListedOnce, ReadingOnce, ReadingOffers,
         RealTree, VisitedTaken, OffersListed, StaysInShare

\* The root of a share is its first entry, and waits to be read.
LEMMA RestStart ==
  ASSUME TreeInv, RestParts, StartShare
  PROVE  RestParts'
<1>1. /\ pc = "share" /\ UNCHANGED <<disk, locked, opts, fresh, unsettled>>
  BY DEF StartShare, diskVars
<1>2. /\ \A root, path : Node(root, path)' = Node(root, path)
      /\ \A place : /\ What(place)' = What(place)
                    /\ Offered(place)' <=> Offered(place)
      /\ \A root : InShare(root)' = InShare(root)
  BY <1>1, DiskFrame
<1>3. CASE pc' = "failed"
  <2>1. UNCHANGED <<base, pending, visited, entries>>
    BY <1>3 DEF StartShare
  <2>2. \A root, path : ~ Waiting(root, path) /\ ~ Waiting(root, path)'
    BY <1>1, <1>3 DEF Waiting
  <2>3. \A root, place : ~ Left(root, place) /\ ~ Left(root, place)'
    BY <1>1, <1>3 DEF Left
  <2>4. QED
    BY <1>1, <1>3, <2>1, <2>2, <2>3, StillKeeps
<1>4. CASE pc' # "failed"
  <2> DEFINE new == Entry(Id("d", base', <<>>), base')
  <2>1. /\ base' # None /\ ~ Known(entries, base', <<>>)
        /\ entries' = entries \cup {new}
        /\ pending' = << <<>> >> /\ visited' = {} /\ pc' = "walk"
        /\ base' = rootOf[Shares[share]]
    BY <1>4 DEF StartShare, Has, HasIn, Known
  <2>2. new.id.root = base' /\ new.id.path = <<>> /\ new.node = base'
        /\ new.id = Id("d", base', <<>>)
    BY DEF Entry, Id
  <2>3. base' \in Dirs
    <3>1. share \in 1 .. Len(Shares)
      <4>1. share \in Nat \ {0} /\ share <= Len(Shares)
        BY DEF StartShare, TreeInv, TypeOK
      <4>2. QED
        BY <4>1, SharesAssumption
    <3>2. rootOf[Shares[share]] \in Dirs \cup {None}
      BY <3>1 DEF TreeInv, TypeOK, ShareNames
    <3>3. QED
      BY <2>1, <3>2
  <2> HIDE DEF new
  <2>4. \A e \in entries : e.id.root # base'
    BY <2>1 DEF TreeInv, RootsKnown
  <2>5. \A path \in Paths, n \in Names : Append(path, n) # <<>>
    BY PathFacts
  <2>6. \A root, path : /\ ~ Waiting(root, path)
                        /\ Waiting(root, path)' <=> root = base' /\ path = <<>>
    BY <1>1, <2>1 DEF Waiting
  <2>7. \A root, place : ~ Left(root, place) /\ ~ Left(root, place)'
    BY <1>1, <2>1 DEF Left
  <2>8. \A root : TakenIn(root)' = TakenIn(root)
    <3> SUFFICES ASSUME NEW root, NEW path \in Paths
                 PROVE  Known(entries', root, path) /\ ~ Waiting(root, path)' <=>
                        Known(entries, root, path) /\ ~ Waiting(root, path)
      BY <1>2 DEF TakenIn
    <3>1. CASE root = base'
      <4>1. ~ Known(entries, root, path)
        BY <3>1, <2>4 DEF Known, HasIn, Id
      <4>2. Known(entries', root, path) => path = <<>>
        BY <3>1, <2>1, <2>2, <2>4 DEF Known, HasIn, Id
      <4>3. QED
        BY <4>1, <4>2, <3>1, <2>6
    <3>2. CASE root # base'
      BY <3>2, <2>1, <2>2, <2>6 DEF Known, HasIn, Id
    <3>3. QED
      BY <3>1, <3>2
  <2>9. EntriesFound'
    BY <1>1, <1>2, <2>1, <2>2, <2>5, NodeByName DEF RestParts, EntriesFound
  <2>10. ListedOnce'
    BY <1>2, <2>1, <2>2, <2>5 DEF RestParts, ListedOnce, IsAt
  <2>11. ReadingOnce' /\ ReadingOffers'
    BY <2>1 DEF ReadingOnce, ReadingOffers
  <2>12. RealTree'
    BY <1>1, <2>1, <2>2, <2>4 DEF RestParts, RealTree
  <2>13. VisitedTaken'
    <3>1. TakenIn(base') = {}
      <4>1. \A path : ~ Known(entries, base', path)
        BY <2>4 DEF Known, HasIn, Id
      <4>2. QED
        BY <4>1 DEF TakenIn
    <3>2. TakenIn(base)' = TakenIn(base')
      BY <2>8
    <3>3. QED
      BY <2>1, <3>1, <3>2 DEF VisitedTaken
  <2>14. OffersListed'
    BY <1>1, <1>2, <2>1, <2>7, <2>8 DEF RestParts, OffersListed
  <2>15. StaysInShare'
    <3>1. base' \in InShare(base')
      BY <2>3 DEF InShare
    <3>2. QED
      BY <1>2, <2>1, <2>2, <3>1 DEF RestParts, StaysInShare
  <2>16. CountKept'
    <3>1. Withheld' = Withheld
      BY <1>1, <1>2, <2>7, <2>8 DEF Withheld
    <3>2. QED
      BY <1>1, <3>1 DEF RestParts, CountKept
  <2>17. QED
    BY <1>1, <2>9, <2>10, <2>11, <2>12, <2>13, <2>14, <2>15, <2>16 DEF RestParts
<1>5. QED
  BY <1>3, <1>4

-------------------------------------------------------------------------------
(* A directory is read.                                                      *)

\* A directory in the catalog is what its path leads to.
LEMMA KnownIsDir ==
  ASSUME TypeOK, EntriesFound, NEW root, NEW path, Known(entries, root, path)
  PROVE  \E e \in entries : /\ e.id.root = root /\ e.id.path = path
                            /\ e.node = Node(root, path) /\ e.node \in Dirs
<1>1. PICK e \in entries : e.id = Id("d", root, path)
  BY DEF Known, HasIn
<1>2. e.id.kind = "d" /\ e.id.root = root /\ e.id.path = path
  BY <1>1 DEF Id
<1>3. e \in Entries
  BY DEF TypeOK
<1>4. e.node \in Dirs
  BY <1>2, <1>3 DEF Entries
<1>5. QED
  BY <1>2, <1>4 DEF EntriesFound

\* What is listed below a directory is in the catalog after it was read.
LEMMA ListedIsTaken ==
  ASSUME TreeInv, EntriesFound, pc \in {"walk", "read"},
         NEW e \in entries, NEW path \in Paths, NEW n \in Names,
         IsAt(e, base, path, n)
  PROVE  /\ Known(entries, base, path) /\ ~ Waiting(base, path)
         /\ Node(base, path) \in TakenIn(base)
<1>1. Append(path, n) # <<>> /\ Front(Append(path, n)) = path
  BY PathFacts
<1>2. Known(entries, base, path)
  BY <1>1 DEF TreeInv, ParentsFirst, Has, Known, HasIn, IsAt
<1>3. ~ Waiting(base, path)
  <2> SUFFICES ASSUME NEW i \in 1 .. Len(pending), pending[i] = path PROVE FALSE
    BY DEF Waiting
  <2>1. Untaken(entries, base, path, n)
    BY DEF TreeInv, StackOK
  <2>2. QED
    BY <2>1 DEF Untaken, IsAt
<1>4. Node(base, path) \in Dirs
  BY <1>2, KnownIsDir DEF TreeInv
<1>5. QED
  BY <1>2, <1>3, <1>4 DEF TakenIn

\* A directory is taken from the stack: it is read, unless links led to it
\* before.
LEMMA RestRead ==
  ASSUME TreeInv, RestParts, ReadDir
  PROVE  RestParts'
<1> DEFINE path == pending[Len(pending)]
           dir == Node(base, path)
           read == dir \in Dirs \ locked /\ ~ (opts.follow /\ dir \in visited)
<1>1. /\ pc = "walk" /\ base \in Dirs /\ path \in Paths
      /\ Len(pending) \in 1 .. Len(pending)
      /\ \A i \in 1 .. Len(pending') :
           i \in 1 .. Len(pending) /\ i # Len(pending) /\ pending'[i] = pending[i]
      /\ \A i \in 1 .. Len(pending) :
           i # Len(pending) => i \in 1 .. Len(pending') /\ pending'[i] = pending[i]
      /\ visited' = IF opts.follow /\ dir \in Dirs
                      THEN visited \cup {dir} ELSE visited
      /\ read => /\ pc' = "read" /\ here' = path
                 /\ listing' = {n \in Names :
                      disk[dir][n] # Absent /\ (n \in Hidden => opts.hidden)}
      /\ ~ read => pc' = "walk"
      /\ UNCHANGED <<opts, base, entries, unsettled>>
      /\ UNCHANGED <<disk, locked, fresh>>
  BY ReadExactly DEF TreeInv
<1> HIDE DEF path
<1>2. /\ \A root, p : Node(root, p)' = Node(root, p)
      /\ \A place : /\ What(place)' = What(place)
                    /\ Offered(place)' <=> Offered(place)
      /\ \A root : InShare(root)' = InShare(root)
  BY <1>1, DiskFrame
<1>3. Known(entries, base, path) /\ Waiting(base, path)
  BY <1>1 DEF TreeInv, StackOK, Waiting, path
<1>4. dir \in Dirs
  BY <1>3, KnownIsDir DEF TreeInv, RestParts
<1>5. \A root, p : Waiting(root, p)' <=>
                     Waiting(root, p) /\ ~ (root = base /\ p = path)
  <2>1. \A i, j \in 1 .. Len(pending) : pending[i] = pending[j] => i = j
    BY <1>1 DEF TreeInv, StackOK
  <2>2. pc' \in {"walk", "read"} /\ pc \in {"walk", "read"}
    BY <1>1
  <2>3. ASSUME NEW p PROVE
          (\E i \in 1 .. Len(pending') : pending'[i] = p) <=>
          (\E i \in 1 .. Len(pending) : pending[i] = p) /\ p # path
    BY <2>1, <1>1 DEF path
  <2>4. QED
    BY <1>1, <2>2, <2>3 DEF Waiting
<1>6. \A root : root = base => TakenIn(root)' = TakenIn(root) \cup {dir}
  BY <1>1, <1>2, <1>3, <1>4, <1>5 DEF TakenIn
<1>7. \A root : root # base => TakenIn(root)' = TakenIn(root)
  BY <1>1, <1>2, <1>5 DEF TakenIn
<1>8. \A root, place : ~ Left(root, place)
  BY <1>1 DEF Left
<1>9. \A root, place : Left(root, place)' <=>
        read /\ root = base /\ place[1] = dir /\ place[2] \in listing'
  BY <1>1, <1>2 DEF Left
\* What is read now was not read before.
<1>10. read => dir \notin TakenIn(base)
  <2> SUFFICES ASSUME read, NEW p \in Paths, Known(entries, base, p),
                      ~ Waiting(base, p), Node(base, p) = dir
               PROVE  FALSE
    BY DEF TakenIn
  <2>1. CASE opts.follow
    <3>1. dir \in TakenIn(base)
      BY <1>4 DEF TakenIn
    <3>2. QED
      BY <2>1, <3>1, <1>1 DEF RestParts, VisitedTaken
  <2>2. CASE ~ opts.follow
    <3>1. p = path
      BY <2>2, <1>3, KnownIsDir DEF TreeInv, RestParts, RealTree
    <3>2. QED
      BY <3>1, <1>3
  <2>3. QED
    BY <2>1, <2>2
\* What is not read, though it offers something, was read before.
<1>11. ASSUME ~ read, NEW n, Offered(<<dir, n>>) PROVE dir \in TakenIn(base)
  <2>1. dir \notin locked
    BY <1>11 DEF Offered, Shown
  <2>2. opts.follow /\ dir \in visited
    BY <1>4, <1>11, <2>1
  <2>3. QED
    BY <2>2, <1>1 DEF RestParts, VisitedTaken
\* What is read gives the names it offers.
<1>12. ASSUME read, NEW n \in Names, Offered(<<dir, n>>) PROVE n \in listing'
  <2>1. disk[dir][n].node # None /\ (n \in Hidden => opts.hidden)
    BY <1>12 DEF Offered, Shown, What
  <2>2. QED
    BY <1>1, <1>12, <2>1 DEF Absent
<1>13. /\ disk' \in Disks
       /\ EntriesFound' /\ ListedOnce' /\ RealTree' /\ StaysInShare'
  BY <1>1, <1>2
     DEF RestParts, EntriesFound, ListedOnce, RealTree, StaysInShare
<1>14. ReadingOnce'
  <2> SUFFICES ASSUME read, NEW e \in entries, NEW p \in Paths, NEW n \in Names,
                      IsAt(e, base, p, n), Node(base, p) = dir
               PROVE  FALSE
    BY <1>1, <1>2 DEF ReadingOnce
  <2>1. dir \in TakenIn(base)
    BY <1>1, ListedIsTaken DEF RestParts
  <2>2. QED
    BY <1>10, <2>1
<1>15. ReadingOffers'
  BY <1>1, <1>2 DEF ReadingOffers
<1>16. VisitedTaken'
  BY <1>1, <1>4, <1>6 DEF RestParts, VisitedTaken
<1>17. OffersListed'
  <2> SUFFICES ASSUME NEW root \in Dirs, NEW d \in TakenIn(root)', NEW n \in Names,
                      Offered(<<d, n>>), What(<<d, n>>).node \notin fresh,
                      ~ Left(root, <<d, n>>)'
               PROVE  \E e \in entries, p \in Paths :
                        IsAt(e, root, p, n) /\ Node(root, p) = d
    BY <1>1, <1>2 DEF OffersListed
  <2>1. d \in TakenIn(root)
    <3>1. CASE root = base /\ d = dir
      BY <3>1, <1>9, <1>11, <1>12
    <3>2. CASE ~ (root = base /\ d = dir)
      BY <3>2, <1>6, <1>7
    <3>3. QED
      BY <3>1, <3>2
  <2>2. QED
    BY <2>1, <1>8 DEF RestParts, OffersListed
<1>18. CountKept'
  <2>1. ASSUME NEW w \in Dirs \X Places, Offered(w[2])
        PROVE  (w[2][1] \in TakenIn(w[1]) /\ ~ Left(w[1], w[2]))' <=>
               w[2][1] \in TakenIn(w[1]) /\ ~ Left(w[1], w[2])
    <3>1. w[2] = <<w[2][1], w[2][2]>> /\ w[2][2] \in Names
      BY DEF Places
    <3>2. CASE w[1] = base /\ w[2][1] = dir
      <4>1. CASE read
        <5>1. Left(w[1], w[2])' /\ w[2][1] \notin TakenIn(w[1])
          BY <3>1, <3>2, <4>1, <1>9, <1>10, <1>12, <2>1
        <5>2. QED
          BY <5>1
      <4>2. CASE ~ read
        BY <3>1, <3>2, <4>2, <1>6, <1>8, <1>9, <1>11, <2>1
      <4>3. QED
        BY <4>1, <4>2
    <3>3. CASE ~ (w[1] = base /\ w[2][1] = dir)
      BY <3>3, <1>6, <1>7, <1>8, <1>9
    <3>4. QED
      BY <3>2, <3>3
  <2>2. Withheld' = Withheld
    BY <1>1, <1>2, <2>1 DEF Withheld
  <2>3. QED
    BY <1>1, <2>2 DEF RestParts, CountKept
<1>19. QED
  BY <1>13, <1>14, <1>15, <1>16, <1>17, <1>18 DEF RestParts

-------------------------------------------------------------------------------
(* A name is inspected.                                                      *)

\* At rest, Inspect takes what is offered, unless it has to settle.
LEMMA TakesOffered ==
  ASSUME TreeInv, RestParts, pc = "read", NEW n \in Names, n \in listing
  PROVE  LET place == <<Node(base, here), n>>
             node == What(place).node
         IN
         /\ Node(base, here) \in Dirs /\ place \in Places
         /\ ItemOf(n) = What(place)
         /\ Takes(n) <=> Offered(place) /\ node \notin fresh
         /\ Seen(ItemOf(n)) /\ node \in fresh <=> Offered(place) /\ node \in fresh
         /\ Node(base, here) \in TakenIn(base)
<1> DEFINE place == <<Node(base, here), n>>
<1>1. /\ Node(base, here) \in Dirs \ locked
      /\ n \in Hidden => opts.hidden
  BY DEF RestParts, ReadingOffers
<1>2. ItemOf(n) = What(place) /\ place \in Places
  BY <1>1 DEF ItemOf, Places
<1>3. Seen(ItemOf(n)) <=> Shown(place)
  BY <1>1, <1>2 DEF Seen, Shown
<1>4. What(place).node \in fresh => What(place).node \notin Dirs
  BY KindsAssumption DEF TreeInv, TypeOK
<1>5. ~ Waiting(base, here) /\ Known(entries, base, here) /\ here \in Paths
  BY DEF TreeInv, ReadingOK, Waiting, TypeOK, Paths
<1>6. QED
  BY <1>1, <1>2, <1>3, <1>4, <1>5 DEF Takes, Offered, TakenIn

\* What Inspect does to the stack and to the rest of the listing.
LEMMA InspectFrame ==
  ASSUME TreeInv, RestParts, changes = 0, NEW n \in Names, Inspect(n)
  PROVE  /\ \A root : TakenIn(root)' = TakenIn(root)
         /\ \A root, place : Left(root, place)' <=>
              Left(root, place) /\
              ~ (root = base /\ place[1] = Node(base, here) /\ place[2] = n)
         /\ \A root, place :
              root = base /\ place[1] = Node(base, here) /\ place[2] = n =>
                Left(root, place)
<1> DEFINE path == Append(here, n)
           kind == KindOf(ItemOf(n).node)
<1>1. /\ pc = "read" /\ pc' = "read"
      /\ n \in listing /\ listing' = listing \ {n}
      /\ here \in Paths /\ base \in Dirs /\ pending \in Seq(Paths)
      /\ entries' = IF Takes(n) THEN entries \cup {NewEntry(n)} ELSE entries
      /\ pending' = IF Takes(n) /\ ItemOf(n).node \in Dirs
                      THEN Append(pending, path) ELSE pending
      /\ UNCHANGED <<opts, base, here, disk, locked>>
  BY InspectExactly
<1>2. \A root, p : Node(root, p)' = Node(root, p)
  BY <1>1, DiskFrame
<1>3. path \in Paths
  BY <1>1, PathFacts
<1>4. NewEntry(n).id = Id(kind, base, path)
  BY DEF NewEntry, Entry
<1> HIDE DEF path
<1>5. CASE Takes(n) /\ ItemOf(n).node \in Dirs
  <2>1. /\ Len(pending') = Len(pending) + 1 /\ Len(pending) \in Nat
        /\ \A i \in 1 .. Len(pending) : pending'[i] = pending[i]
        /\ pending'[Len(pending) + 1] = path
    BY <1>1, <1>3, <1>5, AppendProperties, LenProperties
  <2>2. \A p : (\E i \in 1 .. Len(pending') : pending'[i] = p) <=>
               (\E i \in 1 .. Len(pending) : pending[i] = p) \/ p = path
    <3> SUFFICES ASSUME NEW p
                 PROVE  (\E i \in 1 .. Len(pending') : pending'[i] = p) <=>
                        (\E i \in 1 .. Len(pending) : pending[i] = p) \/ p = path
      OBVIOUS
    <3>1. ASSUME NEW i \in 1 .. Len(pending'), pending'[i] = p
          PROVE  (\E j \in 1 .. Len(pending) : pending[j] = p) \/ p = path
      <4>1. i \in 1 .. Len(pending) \/ i = Len(pending) + 1
        BY <2>1
      <4>2. QED
        BY <2>1, <3>1, <4>1
    <3>2. ASSUME NEW i \in 1 .. Len(pending), pending[i] = p
          PROVE  \E j \in 1 .. Len(pending') : pending'[j] = p
      <4>1. i \in 1 .. Len(pending')
        BY <2>1
      <4>2. QED
        BY <2>1, <3>2, <4>1
    <3>3. Len(pending) + 1 \in 1 .. Len(pending')
      BY <2>1
    <3>4. QED
      BY <2>1, <3>1, <3>2, <3>3
  <2>3. \A root, p : Waiting(root, p)' <=>
                       Waiting(root, p) \/ (root = base /\ p = path)
    BY <1>1, <2>2 DEF Waiting
  <2>4. \A root, p : Known(entries', root, p) <=>
                       Known(entries, root, p) \/ (root = base /\ p = path)
    BY <1>1, <1>4, <1>5 DEF Known, HasIn, Id, KindOf
  <2>5. ~ Known(entries, base, path)
    BY <1>1, RestUntaken DEF Untaken, Known, HasIn, Id, path
  <2>6. \A root, p : Known(entries', root, p) /\ ~ Waiting(root, p)' <=>
                       Known(entries, root, p) /\ ~ Waiting(root, p)
    BY <2>3, <2>4, <2>5
  <2>7. \A root : TakenIn(root)' = TakenIn(root)
    BY <1>2, <2>6 DEF TakenIn
  <2>8. QED
    BY <1>1, <1>2, <2>7 DEF Left
<1>6. CASE ~ (Takes(n) /\ ItemOf(n).node \in Dirs)
  <2>1. \A root, p : Waiting(root, p)' <=> Waiting(root, p)
    BY <1>1, <1>6 DEF Waiting
  <2>2. \A root, p : Known(entries', root, p) <=> Known(entries, root, p)
    BY <1>1, <1>4, <1>6 DEF Known, HasIn, Id, KindOf
  <2>3. \A root : TakenIn(root)' = TakenIn(root)
    BY <1>2, <2>1, <2>2 DEF TakenIn
  <2>4. QED
    BY <1>1, <1>2, <2>3 DEF Left
<1>7. QED
  BY <1>5, <1>6

\* The entry that Inspect adds, and its place.
LEMMA NewEntryFacts ==
  ASSUME TreeInv, RestParts, changes = 0, NEW n \in Names, Inspect(n), Takes(n)
  PROVE  LET new == NewEntry(n)
             place == <<Node(base, here), n>>
         IN
         /\ entries' = entries \cup {new} /\ new.id.root = base
         /\ new.id.path = Append(here, n) /\ Append(here, n) # <<>>
         /\ new.node = What(place).node /\ new.node = Node(base, Append(here, n))
         /\ \A path \in Paths, m \in Names :
              Append(here, n) = Append(path, m) => path = here /\ m = n
         /\ \A e \in entries :
              ~ (e.id.root = base /\ e.id.path = Append(here, n))
         /\ here \in Paths /\ place \in Places
         /\ Offered(place) /\ new.node \notin fresh /\ Node(base, here) \in Dirs
<1>1. /\ pc = "read" /\ n \in listing /\ here \in Paths
      /\ entries' = entries \cup {NewEntry(n)}
  BY InspectExactly
<1>2. /\ NewEntry(n).id.root = base /\ NewEntry(n).id.path = Append(here, n)
      /\ NewEntry(n).node = ItemOf(n).node
  BY DEF NewEntry, Entry, Id
<1>3. /\ Node(base, here) \in Dirs /\ <<Node(base, here), n>> \in Places
      /\ ItemOf(n) = What(<<Node(base, here), n>>)
      /\ Offered(<<Node(base, here), n>>)
      /\ What(<<Node(base, here), n>>).node \notin fresh
  BY <1>1, TakesOffered
<1>4. Append(here, n) # <<>>
      /\ \A path \in Paths, m \in Names :
           Append(here, n) = Append(path, m) => path = here /\ m = n
  BY <1>1, PathFacts
<1>5. \A e \in entries : ~ (e.id.root = base /\ e.id.path = Append(here, n))
  BY <1>1, RestUntaken DEF Untaken
<1>6. /\ NewEntry(n).node = What(<<Node(base, here), n>>).node
      /\ NewEntry(n).node = Node(base, Append(here, n))
      /\ NewEntry(n).node \notin fresh
  <2>1. NewEntry(n).node = What(<<Node(base, here), n>>).node
    BY <1>2, <1>3
  <2>2. Node(base, Append(here, n)) = What(<<Node(base, here), n>>).node
    BY <1>1, <1>3, NodeByName
  <2>3. QED
    BY <1>3, <2>1, <2>2
<1>7. QED
  BY <1>1, <1>2, <1>3, <1>4, <1>5, <1>6

\* Without links no other directory leads to a new one, and it is not the root.
LEMMA NewInTree ==
  ASSUME TreeInv, RestParts, changes = 0, NEW n \in Names, Inspect(n), Takes(n),
         ~ opts.follow, NewEntry(n).node \in Dirs
  PROVE  /\ \A height \in Heights(disk) : height[NewEntry(n).node] < height[base]
         /\ \A e \in entries :
              e.id.root = base => e.node # NewEntry(n).node
<1> DEFINE new == NewEntry(n)
           dir == Node(base, here)
           place == <<dir, n>>
<1>1. /\ base \in Dirs /\ dir \in Dirs /\ here \in Paths /\ pc = "read"
      /\ new.node = What(place).node /\ Offered(place)
      /\ \A e \in entries :
           ~ (e.id.root = base /\ e.id.path = Append(here, n))
  BY InspectExactly, NewEntryFacts
<1> HIDE DEF new, dir
<1>2. /\ disk[dir][n].node = new.node /\ ~ disk[dir][n].link
      /\ disk[dir][n] \in Items
  BY <1>1 DEF Offered, Shown, What, TreeInv, TypeOK
<1>3. ASSUME NEW height \in Heights(disk)
      PROVE  height[new.node] < height[base]
  <2>1. /\ height[new.node] < height[dir]
        /\ height \in [Dirs -> 0 .. Cardinality(Dirs)]
    BY <1>1, <1>2 DEF Heights, new
  <2>2. Cardinality(Dirs) \in Nat
    BY FiniteAssumption, FS_CardinalityType
  <2>3. /\ height[new.node] \in Int /\ height[dir] \in Int
        /\ height[base] \in Int
    BY <1>1, <2>1, <2>2 DEF new
  <2>4. dir = base \/ height[dir] < height[base]
    <3>1. Known(entries, base, here)
      BY <1>1 DEF TreeInv, ReadingOK
    <3>2. PICK e \in entries : /\ e.id.root = base /\ e.id.path = here
                               /\ e.node = dir /\ e.node \in Dirs
      BY <3>1, KnownIsDir DEF TreeInv, RestParts, dir
    <3>3. CASE here = <<>>
      BY <3>3, NodeByName DEF dir
    <3>4. CASE here # <<>>
      BY <3>2, <3>4 DEF RestParts, RealTree
    <3>5. QED
      BY <3>3, <3>4
  <2>5. QED
    BY <2>1, <2>3, <2>4
<1>4. ASSUME NEW e \in entries, e.id.root = base, e.node = new.node
      PROVE  FALSE
  <2>1. e.id.path \in Paths
    BY DEF TreeInv, TypeOK, Entries, Paths
  <2>2. CASE e.id.path = <<>>
    <3>1. e.node = base
      BY <1>4, <2>2, NodeByName DEF RestParts, EntriesFound
    <3>2. PICK height \in Heights(disk) : TRUE
      BY TreesAssumption DEF RestParts
    <3>3. height[base] < height[base] /\ height[base] \in Int
      <4>1. height \in [Dirs -> 0 .. Cardinality(Dirs)]
        BY DEF Heights
      <4>2. Cardinality(Dirs) \in Nat
        BY FiniteAssumption, FS_CardinalityType
      <4>3. QED
        BY <1>1, <1>3, <1>4, <3>1, <4>1, <4>2
    <3>4. QED
      BY <3>3
  <2>3. CASE e.id.path # <<>>
    <3> DEFINE p == Front(e.id.path)
               m == e.id.path[Len(e.id.path)]
    <3>1. p \in Paths /\ m \in Names /\ e.id.path = Append(p, m)
      BY <2>1, <2>3, LastName
    <3> HIDE DEF p, m
    <3>2. /\ Node(base, p) \in Dirs /\ Offered(<<Node(base, p), m>>)
          /\ What(<<Node(base, p), m>>).node = new.node
      BY <1>4, <3>1 DEF RestParts, EntriesFound
    <3>3. /\ disk[Node(base, p)][m].node = new.node
          /\ ~ disk[Node(base, p)][m].link
          /\ disk[Node(base, p)][m] \in Items
      BY <3>1, <3>2 DEF Offered, Shown, What, TreeInv, TypeOK
    <3>4. disk[Node(base, p)][m] = disk[dir][n]
      BY <1>2, <3>3 DEF Items
    <3>5. Node(base, p) = dir /\ m = n
      BY <1>1, <1>2, <3>1, <3>2, <3>3, <3>4, TreesAssumption
         DEF RestParts, OnePlaceEach, new
    <3>6. p = here
      BY <1>1, <1>4, <3>1, <3>5 DEF RestParts, ReadingOnce, IsAt, dir
    <3>7. QED
      BY <1>1, <1>4, <3>1, <3>5, <3>6
  <2>4. QED
    BY <2>2, <2>3
<1>5. QED
  BY <1>3, <1>4 DEF new

\* The new entry is listed below the directory that is being read.
LEMMA NewFits ==
  ASSUME TreeInv, RestParts, changes = 0, NEW n \in Names, Inspect(n), Takes(n)
  PROVE  /\ EntriesFound' /\ ListedOnce' /\ ReadingOnce' /\ RealTree'
         /\ StaysInShare'
<1> DEFINE new == NewEntry(n)
           dir == Node(base, here)
           place == <<dir, n>>
<1>1. /\ pc = "read" /\ base \in Dirs
      /\ UNCHANGED <<opts, base, here, disk, locked, fresh, pc>>
  BY InspectExactly
<1>2. /\ entries' = entries \cup {new} /\ new.id.root = base
      /\ new.id.path = Append(here, n) /\ Append(here, n) # <<>>
      /\ new.node = What(place).node /\ new.node = Node(base, Append(here, n))
      /\ \A path \in Paths, m \in Names :
           Append(here, n) = Append(path, m) => path = here /\ m = n
      /\ \A e \in entries :
           ~ (e.id.root = base /\ e.id.path = Append(here, n))
      /\ here \in Paths /\ place \in Places
      /\ Offered(place) /\ new.node \notin fresh /\ dir \in Dirs
  BY NewEntryFacts
<1>3. /\ \A root, path : Node(root, path)' = Node(root, path)
      /\ \A q : What(q)' = What(q) /\ (Offered(q)' <=> Offered(q))
      /\ \A root : InShare(root)' = InShare(root)
  BY <1>1, DiskFrame
<1> HIDE DEF new
<1>4. EntriesFound'
  <2> SUFFICES ASSUME NEW e \in entries'
               PROVE  /\ e.node = Node(e.id.root, e.id.path)
                      /\ \A path \in Paths, m \in Names :
                           e.id.path = Append(path, m) =>
                             /\ Node(e.id.root, path) \in Dirs
                             /\ Offered(<<Node(e.id.root, path), m>>)
                             /\ What(<<Node(e.id.root, path), m>>).node = e.node
                             /\ e.node \notin fresh
    BY <1>1, <1>3 DEF EntriesFound
  <2>1. CASE e \in entries
    BY <2>1 DEF RestParts, EntriesFound
  <2>2. CASE e = new
    BY <2>2, <1>2
  <2>3. QED
    BY <2>1, <2>2, <1>2
\* Whatever is listed below a path to the same directory is below here.
<1>5. \A e \in entries', path \in Paths, m \in Names :
        IsAt(e, base, path, m) /\ Node(base, path) = dir => path = here
  BY <1>1, <1>2 DEF RestParts, ReadingOnce, IsAt
<1>6. ListedOnce'
  <2> SUFFICES ASSUME NEW d \in entries', NEW e \in entries',
                      NEW p \in Paths, NEW q \in Paths,
                      NEW m \in Names, NEW l \in Names,
                      IsAt(d, d.id.root, p, m), IsAt(e, d.id.root, q, l),
                      Node(d.id.root, p) = Node(d.id.root, q)
               PROVE  p = q
    BY <1>3 DEF ListedOnce
  <2>1. CASE d \in entries /\ e \in entries
    BY <2>1 DEF RestParts, ListedOnce
  <2>2. CASE d = new
    <3>1. d.id.root = base /\ p = here
      BY <2>2, <1>2 DEF IsAt
    <3>2. QED
      BY <3>1, <1>5
  <2>3. CASE e = new
    <3>1. d.id.root = base /\ q = here
      BY <2>3, <1>2 DEF IsAt
    <3>2. QED
      BY <3>1, <1>5
  <2>4. QED
    BY <2>1, <2>2, <2>3, <1>2
<1>7. ReadingOnce'
  BY <1>1, <1>3, <1>5 DEF ReadingOnce
<1>8. RealTree'
  <2> SUFFICES ASSUME ~ opts.follow
               PROVE  /\ \A d, e \in entries' :
                           d.id.root = e.id.root /\ d.node = e.node /\ d.node \in Dirs =>
                             d.id.path = e.id.path
                      /\ \A e \in entries', height \in Heights(disk) :
                           e.id.path # <<>> /\ e.node \in Dirs =>
                             height[e.node] < height[e.id.root]
    BY <1>1 DEF RealTree
  <2>1. new.node \in Dirs =>
          /\ \A height \in Heights(disk) : height[new.node] < height[base]
          /\ \A e \in entries : e.id.root = base => e.node # new.node
    BY NewInTree DEF new
  <2>2. QED
    BY <1>2, <2>1 DEF RestParts, RealTree
<1>9. StaysInShare'
  <2>1. new.node \in Dirs => new.node \in InShare(base)
    <3>1. dir \in InShare(base)
      <4>1. Known(entries, base, here)
        BY <1>1 DEF TreeInv, ReadingOK
      <4>2. QED
        BY <4>1, KnownIsDir DEF TreeInv, RestParts, StaysInShare
    <3> SUFFICES ASSUME new.node \in Dirs, NEW set \in SUBSET Dirs,
                        base \in set, Closed(set)
                 PROVE  new.node \in set
      BY DEF InShare
    <3>2. dir \in set
      BY <3>1 DEF InShare
    <3>3. place \in set \X Names
      BY <3>2
    <3>4. QED
      BY <3>3, <1>2 DEF Closed
  <2>2. QED
    BY <1>2, <1>3, <2>1 DEF RestParts, StaysInShare
<1>10. QED
  BY <1>4, <1>6, <1>7, <1>8, <1>9

\* What is withheld can be counted.
LEMMA WithheldFinite == IsFiniteSet(Withheld)
<1>1. IsFiniteSet(Dirs \X Places)
  <2>1. IsFiniteSet(Places)
    BY FiniteAssumption, FS_Product DEF Places
  <2>2. QED
    BY <2>1, FiniteAssumption, FS_Product
<1>2. Withheld \in SUBSET (Dirs \X Places)
  BY DEF Withheld
<1>3. QED
  BY <1>1, <1>2, FS_Subset

\* A name is inspected: listed if it is offered, counted if it has to settle.
LEMMA RestInspect ==
  ASSUME TreeInv, RestParts, changes = 0, NEW n \in Names, Inspect(n)
  PROVE  RestParts'
<1> DEFINE dir == Node(base, here)
           place == <<dir, n>>
           node == What(place).node
<1>1. /\ pc = "read" /\ pc' = "read" /\ base \in Dirs /\ here \in Paths
      /\ n \in listing /\ listing' = listing \ {n}
      /\ entries' = IF Takes(n) THEN entries \cup {NewEntry(n)} ELSE entries
      /\ unsettled' = IF Seen(ItemOf(n)) /\ ItemOf(n).node \in fresh
                        THEN unsettled + 1 ELSE unsettled
      /\ UNCHANGED <<opts, base, visited, here, disk, locked, fresh>>
  BY InspectExactly
<1>2. /\ \A root, path : Node(root, path)' = Node(root, path)
      /\ \A q : What(q)' = What(q) /\ (Offered(q)' <=> Offered(q))
      /\ \A root : InShare(root)' = InShare(root)
  BY <1>1, DiskFrame
<1>3. /\ dir \in Dirs /\ place \in Places /\ ItemOf(n) = What(place)
      /\ Takes(n) <=> Offered(place) /\ node \notin fresh
      /\ Seen(ItemOf(n)) /\ node \in fresh <=> Offered(place) /\ node \in fresh
      /\ dir \in TakenIn(base)
  BY <1>1, TakesOffered
<1>4. /\ \A root : TakenIn(root)' = TakenIn(root)
      /\ \A root, q : Left(root, q)' <=>
           Left(root, q) /\ ~ (root = base /\ q[1] = dir /\ q[2] = n)
      /\ \A root, q : root = base /\ q[1] = dir /\ q[2] = n => Left(root, q)
  BY InspectFrame
<1>5. /\ EntriesFound' /\ ListedOnce' /\ ReadingOnce' /\ RealTree'
      /\ StaysInShare'
  <2>1. CASE Takes(n)
    BY <2>1, NewFits
  <2>2. CASE ~ Takes(n)
    BY <2>2, <1>1, <1>2 DEF RestParts, EntriesFound, ListedOnce, ReadingOnce,
       RealTree, StaysInShare
  <2>3. QED
    BY <2>1, <2>2
<1>6. disk' \in Disks /\ ReadingOffers' /\ VisitedTaken'
  BY <1>1, <1>2, <1>4 DEF RestParts, ReadingOffers, VisitedTaken
<1>7. OffersListed'
  <2> SUFFICES ASSUME NEW root \in Dirs, NEW d \in TakenIn(root), NEW m \in Names,
                      Offered(<<d, m>>), What(<<d, m>>).node \notin fresh,
                      ~ Left(root, <<d, m>>)'
               PROVE  \E e \in entries', path \in Paths :
                        IsAt(e, root, path, m) /\ Node(root, path) = d
    BY <1>1, <1>2, <1>4 DEF OffersListed
  <2>1. CASE root = base /\ d = dir /\ m = n
    <3>1. Takes(n)
      BY <1>3, <2>1
    <3>2. NewEntry(n) \in entries' /\ IsAt(NewEntry(n), base, here, n)
      BY <3>1, NewEntryFacts DEF IsAt
    <3>3. QED
      BY <2>1, <3>2, <1>1
  <2>2. CASE ~ (root = base /\ d = dir /\ m = n)
    <3>1. ~ Left(root, <<d, m>>)
      BY <1>4, <2>2
    <3>2. QED
      BY <3>1, <1>1 DEF RestParts, OffersListed
  <2>3. QED
    BY <2>1, <2>2
<1>8. CountKept'
  <2>1. Withheld' =
          {w \in Dirs \X Places :
             /\ w[2][1] \in TakenIn(w[1]) /\ Offered(w[2])
             /\ What(w[2]).node \in fresh
             /\ \/ ~ Left(w[1], w[2])
                \/ w[1] = base /\ w[2][1] = dir /\ w[2][2] = n}
    BY <1>1, <1>2, <1>4 DEF Withheld
  <2>2. CASE Offered(place) /\ node \in fresh
    <3>1. Withheld' = Withheld \cup {<<base, place>>}
      <4>1. \A w \in Dirs \X Places :
              w[1] = base /\ w[2][1] = dir /\ w[2][2] = n <=> w = <<base, place>>
        BY <1>1, <1>3 DEF Places
      <4>2. <<base, place>> \in Withheld'
        BY <1>1, <1>3, <2>1, <2>2
      <4>3. QED
        BY <2>1, <4>1, <4>2 DEF Withheld
    <3>2. <<base, place>> \notin Withheld
      BY <1>4 DEF Withheld
    <3>3. Cardinality(Withheld') = Cardinality(Withheld) + 1
      BY <3>1, <3>2, WithheldFinite, FS_AddElement
    <3>4. QED
      BY <1>1, <1>3, <2>2, <3>3 DEF RestParts, CountKept
  <2>3. CASE ~ (Offered(place) /\ node \in fresh)
    <3>1. \A w \in Dirs \X Places :
            w[1] = base /\ w[2][1] = dir /\ w[2][2] = n => w[2] = place
      BY <1>3 DEF Places
    <3>2. Withheld' = Withheld
      BY <2>1, <2>3, <3>1 DEF Withheld
    <3>3. QED
      BY <1>1, <1>3, <2>3, <3>2 DEF RestParts, CountKept
  <2>4. QED
    BY <2>2, <2>3
<1>9. QED
  BY <1>5, <1>6, <1>7, <1>8 DEF RestParts

-------------------------------------------------------------------------------
(* The catalog of a disk at rest.                                            *)

\* The invariant of a walk over a disk at rest.
LEMMA RestHolds == Spec => []RestInv
<1>1. Init => RestInv
  BY RestInit DEF RestInv
<1>2. TreeInv /\ RestInv /\ [Next]_vars => RestInv'
  <2> SUFFICES ASSUME TreeInv, RestInv, [Next]_vars, changes' = 0
               PROVE  RestParts'
    BY DEF RestInv
  <2>1. ~ World
    BY WorldKeepsTypes DEF TreeInv
  <2>2. changes = 0
    BY <2>1 DEF Next, Walk, StartShare, ReadDir, DirDone, ShareDone, Finish,
       Inspect, ScanAgain, diskVars, vars
  <2>3. RestParts
    BY <2>2 DEF RestInv
  <2>4. QED
    BY <2>1, <2>2, <2>3, RestStart, RestRead, RestInspect, RestDone, RestAgain
       DEF Next, Walk
<1>3. QED
  BY <1>1, <1>2, TreeHolds, PTL DEF Spec

\* An entry is determined by its kind and place, and its kind by its node.
LEMMA EntryIsKnown ==
  ASSUME TypeOK, NEW e \in entries
  PROVE  /\ e = Entry(Id(KindOf(e.node), e.id.root, e.id.path), e.node)
         /\ e.id.root \in Dirs /\ e.id.path \in Paths /\ e.node \in Nodes
         /\ e.node \in Dirs => Known(entries, e.id.root, e.id.path)
<1>1. e \in Entries
  BY DEF TypeOK
<1>2. /\ e = [id |-> e.id, node |-> e.node]
      /\ e.id = [kind |-> e.id.kind, root |-> e.id.root, path |-> e.id.path]
      /\ e.id.kind = KindOf(e.node)
      /\ e.id.root \in Dirs /\ e.id.path \in Paths /\ e.node \in Nodes
  BY <1>1 DEF Entries, KindOf, Paths
<1>3. QED
  BY <1>2 DEF Entry, Id, Known, HasIn, KindOf

\* A finished walk has taken the directories of the share, and no others.
LEMMA DoneHasShare ==
  ASSUME TreeInv, RestParts, pc = "done", NEW root \in ScannedRoots
  PROVE  InShare(root) = TakenIn(root)
<1>1. /\ \A path : ~ Waiting(root, path)
      /\ \A place : ~ Left(root, place)
      /\ root \in Dirs /\ Known(entries, root, <<>>)
  BY DEF Waiting, Left, ScannedRoots, Has, Known, HasIn
<1>2. TakenIn(root) \subseteq InShare(root)
  <2> SUFFICES ASSUME NEW path \in Paths, Known(entries, root, path)
               PROVE  Node(root, path) \in InShare(root)
    BY DEF TakenIn
  <2>1. QED
    BY KnownIsDir DEF TreeInv, RestParts, StaysInShare
<1>3. root \in TakenIn(root)
  <2>1. <<>> \in Paths /\ Node(root, <<>>) = root
    BY NodeByName, EmptySeq DEF Paths
  <2>2. QED
    BY <1>1, <2>1 DEF TakenIn
<1>4. Closed(TakenIn(root))
  <2> SUFFICES ASSUME NEW d \in TakenIn(root), NEW n \in Names,
                      Offered(<<d, n>>), What(<<d, n>>).node \in Dirs
               PROVE  What(<<d, n>>).node \in TakenIn(root)
    BY DEF Closed
  <2>1. What(<<d, n>>).node \notin fresh
    BY KindsAssumption DEF TreeInv, TypeOK
  <2>2. PICK e \in entries, path \in Paths :
          IsAt(e, root, path, n) /\ Node(root, path) = d
    BY <1>1, <2>1 DEF RestParts, OffersListed
  <2>3. /\ e.node = What(<<d, n>>).node /\ e.id.root = root
        /\ e.node = Node(root, e.id.path)
    BY <2>2 DEF RestParts, EntriesFound, IsAt
  <2>4. Known(entries, root, e.id.path) /\ e.id.path \in Paths
    BY <2>3, EntryIsKnown DEF TreeInv
  <2>5. QED
    BY <1>1, <2>3, <2>4 DEF TakenIn
<1>5. InShare(root) \subseteq TakenIn(root)
  <2>1. TakenIn(root) \in SUBSET Dirs
    BY DEF TakenIn
  <2>2. QED
    BY <1>3, <1>4, <2>1 DEF InShare
<1>6. QED
  BY <1>2, <1>5

\* The entries at a place, by name.
LEMMA AtByName ==
  ASSUME TypeOK, NEW root \in Dirs, NEW place \in Places
  PROVE  \A e \in entries :
           e \in At(root, place) <=>
             \E path \in Paths : /\ IsAt(e, root, path, place[2])
                                 /\ Node(root, path) = place[1]
<1> SUFFICES ASSUME NEW e \in entries
             PROVE  e \in At(root, place) <=>
                      \E path \in Paths : /\ IsAt(e, root, path, place[2])
                                          /\ Node(root, path) = place[1]
  OBVIOUS
<1>1. e.id.path \in Paths /\ place[2] \in Names
  BY EntryIsKnown DEF Places
<1>2. ASSUME e \in At(root, place)
      PROVE  \E path \in Paths : /\ IsAt(e, root, path, place[2])
                                 /\ Node(root, path) = place[1]
  <2>1. /\ e.id.root = root /\ e.id.path # <<>>
        /\ e.id.path[Len(e.id.path)] = place[2]
        /\ Node(root, Front(e.id.path)) = place[1]
    BY <1>2 DEF At
  <2>2. Front(e.id.path) \in Paths
        /\ e.id.path = Append(Front(e.id.path), place[2])
    BY <1>1, <2>1, LastName
  <2>3. QED
    BY <2>1, <2>2 DEF IsAt
<1>3. ASSUME NEW path \in Paths, IsAt(e, root, path, place[2]),
             Node(root, path) = place[1]
      PROVE  e \in At(root, place)
  <2>1. /\ e.id.root = root /\ e.id.path = Append(path, place[2])
    BY <1>3 DEF IsAt
  <2>2. /\ e.id.path # <<>> /\ Front(e.id.path) = path
    BY <1>1, <2>1, PathFacts
  <2>3. e.id.path[Len(e.id.path)] = place[2]
    <3>1. /\ Len(e.id.path) = Len(path) + 1
          /\ Append(path, place[2])[Len(path) + 1] = place[2]
      BY <1>1, <2>1, AppendProperties DEF Paths
    <3>2. QED
      BY <2>1, <3>1
  <2>4. QED
    BY <1>3, <2>1, <2>2, <2>3 DEF At
<1>4. QED
  BY <1>2, <1>3

\* What is expected is listed, once.
LEMMA DoneListsAll ==
  ASSUME TreeInv, RestParts, pc = "done",
         NEW root \in ScannedRoots, NEW p \in Expected(root)
  PROVE  LET node == What(p).node IN
         IF node \in fresh THEN At(root, p) = {}
         ELSE /\ Cardinality(At(root, p)) = 1
              /\ \A e \in At(root, p) : e.node = node
<1>1. /\ p \in Places /\ p = <<p[1], p[2]>> /\ p[2] \in Names
      /\ p[1] \in TakenIn(root) /\ Offered(p) /\ root \in Dirs
  <2>1. p \in InShare(root) \X Names /\ Offered(p) /\ root \in Dirs
    BY DEF Expected, ScannedRoots
  <2>2. InShare(root) \subseteq Dirs
    BY DEF InShare
  <2>3. QED
    BY <2>1, <2>2, DoneHasShare DEF Places
<1>2. \A e \in At(root, p) :
        /\ e \in entries
        /\ \E path \in Paths : /\ IsAt(e, root, path, p[2])
                               /\ Node(root, path) = p[1]
  BY <1>1, AtByName DEF At, TreeInv
<1>3. \A e \in At(root, p) : e.node = What(p).node /\ e.node \notin fresh
  <2> SUFFICES ASSUME NEW e \in At(root, p)
               PROVE  e.node = What(p).node /\ e.node \notin fresh
    OBVIOUS
  <2>1. PICK path \in Paths : IsAt(e, root, path, p[2]) /\ Node(root, path) = p[1]
    BY <1>2
  <2>2. /\ What(<<Node(root, path), p[2]>>).node = e.node
        /\ e.node \notin fresh
    BY <1>1, <1>2, <2>1 DEF RestParts, EntriesFound, IsAt
  <2>3. QED
    BY <1>1, <2>1, <2>2
<1>4. CASE What(p).node \in fresh
  <2>1. At(root, p) = {}
    BY <1>3, <1>4
  <2>2. QED
    BY <1>4, <2>1
<1>5. CASE What(p).node \notin fresh
  <2>1. ~ Left(root, p)
    BY DEF Left
  <2>2. PICK e \in entries, path \in Paths :
          IsAt(e, root, path, p[2]) /\ Node(root, path) = p[1]
    BY <1>1, <1>5, <2>1 DEF RestParts, OffersListed
  <2>3. e \in At(root, p)
    BY <1>1, <2>2, AtByName DEF TreeInv
  <2>4. \A d \in At(root, p) : d = e
    <3> SUFFICES ASSUME NEW d \in At(root, p) PROVE d = e
      OBVIOUS
    <3>1. PICK q \in Paths : IsAt(d, root, q, p[2]) /\ Node(root, q) = p[1]
      BY <1>2
    <3>2. d \in entries /\ d.id.root = root /\ e.id.root = root
      BY <1>2, <2>2, <3>1 DEF IsAt
    <3>3. q = path
      BY <1>1, <2>2, <3>1, <3>2 DEF RestParts, ListedOnce
    <3>4. d.id.path = e.id.path
      BY <2>2, <3>1, <3>3 DEF IsAt
    <3>5. d.node = e.node
      BY <1>3, <2>3
    <3>6. QED
      BY <3>2, <3>4, <3>5, EntryIsKnown DEF TreeInv
  <2>5. At(root, p) = {e}
    BY <2>3, <2>4
  <2>6. Cardinality(At(root, p)) = 1
    BY <2>5, FS_Singleton
  <2>7. QED
    BY <1>3, <1>5, <2>6
<1>6. QED
  BY <1>4, <1>5

\* What is listed is expected.
LEMMA DoneInventsNothing ==
  ASSUME TreeInv, RestParts, pc = "done", NEW e \in entries, e.id.path # <<>>
  PROVE  \E p \in Expected(e.id.root) : e \in At(e.id.root, p)
<1> DEFINE root == e.id.root
           path == Front(e.id.path)
           n == e.id.path[Len(e.id.path)]
           p == <<Node(root, path), n>>
<1>1. /\ e.id.path \in Paths /\ root \in Dirs /\ path \in Paths /\ n \in Names
      /\ e.id.path = Append(path, n)
  BY EntryIsKnown, LastName DEF TreeInv
<1>2. Node(root, path) \in Dirs /\ Offered(p)
  BY <1>1 DEF RestParts, EntriesFound
<1>3. Known(entries, root, path)
  BY DEF TreeInv, ParentsFirst, Has, Known, HasIn
<1>4. Node(root, path) \in InShare(root)
  BY <1>3, KnownIsDir DEF TreeInv, RestParts, StaysInShare
<1>5. p \in Expected(root) /\ p \in Places
  BY <1>1, <1>2, <1>4 DEF Expected, Places
<1>6. e \in At(root, p)
  BY <1>1 DEF At
<1>7. QED
  BY <1>5, <1>6

\* A scan of a disk at rest lists what its options ask for, each place once per
\* share, withholds what is not settled, and invents nothing, also where links
\* form aliases or cycles (catalog.rs:193-287).
THEOREM ListsEveryPlaceOnce == Spec => []EveryPlaceOnce
<1>1. TreeInv /\ RestInv => EveryPlaceOnce
  <2> SUFFICES ASSUME TreeInv, RestParts, pc = "done" PROVE EveryPlaceOnce
    BY DEF RestInv, EveryPlaceOnce
  <2>1. QED
    BY DoneListsAll, DoneInventsNothing DEF EveryPlaceOnce
<1>2. QED
  BY <1>1, TreeHolds, RestHolds, PTL

\* unsettled_files is the number of places withheld, over all shares
\* (catalog.rs:95-103).
THEOREM CountsWhatItWithholds == Spec => []WithheldAreCounted
<1>1. TreeInv /\ RestInv => WithheldAreCounted
  <2> SUFFICES ASSUME TreeInv, RestParts, pc = "done"
               PROVE  unsettled = Cardinality(
                        {q \in ScannedRoots \X Places :
                           q[2] \in Expected(q[1]) /\ What(q[2]).node \in fresh})
    BY DEF RestInv, WithheldAreCounted
  <2>1. \A w \in Dirs \X Places :
          w[2][1] \in TakenIn(w[1]) => w[1] \in ScannedRoots
    <3> SUFFICES ASSUME NEW root \in Dirs, NEW path, Known(entries, root, path)
                 PROVE  root \in ScannedRoots
      BY DEF TakenIn
    <3>1. Known(entries, root, <<>>)
      <4>1. PICK e \in entries : e.id = Id("d", root, path)
        BY DEF Known, HasIn
      <4>2. e.id.root = root
        BY <4>1 DEF Id
      <4>3. QED
        BY <4>2 DEF TreeInv, RootsKnown
    <3>2. QED
      BY <3>1 DEF ScannedRoots, Has, Known, HasIn
  <2>2. \A w \in Dirs \X Places : ~ Left(w[1], w[2])
    BY DEF Left
  <2>3. \A w \in ScannedRoots \X Places :
          w[2] \in Expected(w[1]) <=> w[2][1] \in TakenIn(w[1]) /\ Offered(w[2])
    <3> SUFFICES ASSUME NEW root \in ScannedRoots, NEW place \in Places
                 PROVE  place \in Expected(root) <=>
                          place[1] \in TakenIn(root) /\ Offered(place)
      OBVIOUS
    <3>1. InShare(root) = TakenIn(root)
      BY DoneHasShare
    <3>2. QED
      BY <3>1 DEF Expected, Places
  <2>4. ScannedRoots \subseteq Dirs
    BY DEF ScannedRoots
  <2>5. Withheld = {q \in ScannedRoots \X Places :
                      q[2] \in Expected(q[1]) /\ What(q[2]).node \in fresh}
    BY <2>1, <2>2, <2>3, <2>4 DEF Withheld
  <2>6. QED
    BY <2>5 DEF RestParts, CountKept
<1>2. QED
  BY <1>1, TreeHolds, RestHolds, PTL

-------------------------------------------------------------------------------
(* A disk that changes during the walk.                                      *)

\* The name n of the directory at path was inspected.
Inspected(root, path, n) ==
  /\ Known(entries, root, path) /\ ~ Waiting(root, path)
  /\ ~ (pc = "read" /\ root = base /\ path = here /\ n \in listing)

\* The catalog has what is at path.
Found(root, path) ==
  /\ Node(root, path) \in Dirs => Known(entries, root, path)
  /\ Node(root, path) \in Media \ fresh =>
       Entry(Id("f", root, path), Node(root, path)) \in entries

\* However the disk changed, what is at an untouched path is in the catalog
\* once the name was inspected.
UntouchedListed ==
  ~ opts.follow /\ pc # "failed" =>
    \A root \in Dirs, path \in Paths, n \in Names :
      Inspected(root, path, n) /\ UntouchedPath(root, Append(path, n)) =>
        Found(root, Append(path, n))

\* The beginnings of a longer path are those of the path, and the path.
LEMMA Beginnings ==
  ASSUME NEW path \in Paths, NEW n \in Names
  PROVE  LET longer == Append(path, n) IN
         /\ Len(path) \in Nat /\ Len(longer) = Len(path) + 1
         /\ \A k \in 1 .. Len(path) :
              /\ longer[k] = path[k]
              /\ SubSeq(longer, 1, k - 1) = SubSeq(path, 1, k - 1)
         /\ longer[Len(path) + 1] = n
         /\ SubSeq(longer, 1, (Len(path) + 1) - 1) = path
<1> DEFINE longer == Append(path, n)
<1> USE DEF Paths
<1>1. /\ longer \in Paths /\ Len(path) \in Nat /\ Len(longer) = Len(path) + 1
      /\ \A k \in 1 .. Len(path) : longer[k] = path[k]
      /\ longer[Len(path) + 1] = n
  BY AppendProperties, LenProperties
<1>2. /\ \A k \in 1 .. Len(path) : path[k] \in Names
      /\ \A k \in 1 .. Len(path) : longer[k] \in Names
  BY <1>1, ElementOfSeq
<1> HIDE DEF longer
<1>3. ASSUME NEW k \in 1 .. Len(path)
      PROVE  SubSeq(longer, 1, k - 1) = SubSeq(path, 1, k - 1)
  <2> DEFINE p == SubSeq(path, 1, k - 1)
             q == SubSeq(longer, 1, k - 1)
             m == IF 1 <= k - 1 THEN (k - 1) - 1 + 1 ELSE 0
  <2>1. 1 \in Int /\ k - 1 \in Int
        /\ (\A i \in 1 .. k - 1 : path[i] \in Names)
        /\ (\A i \in 1 .. k - 1 : longer[i] \in Names)
    BY <1>1, <1>2
  <2>2. /\ p \in Seq(Names) /\ Len(p) = m
        /\ \A i \in 1 .. (k - 1) - 1 + 1 : p[i] = path[1 + i - 1]
    BY <2>1, SubSeqProperties
  <2>3. /\ q \in Seq(Names) /\ Len(q) = m
        /\ \A i \in 1 .. (k - 1) - 1 + 1 : q[i] = longer[1 + i - 1]
    BY <2>1, SubSeqProperties
  <2>4. \A i \in 1 .. m : /\ i \in 1 .. (k - 1) - 1 + 1
                          /\ 1 + i - 1 = i /\ i \in 1 .. Len(path)
    BY <1>1
  <2> HIDE DEF p, q, m
  <2>5. \A i \in 1 .. Len(p) : p[i] = q[i]
    BY <2>2, <2>3, <2>4, <1>1
  <2>6. p = q
    BY <2>2, <2>3, <2>5, SeqEqual
  <2>7. QED
    BY <2>6 DEF p, q
<1>4. SubSeq(longer, 1, (Len(path) + 1) - 1) = path
  BY <1>1, PathFacts DEF Front, longer
<1>5. QED
  BY <1>1, <1>3, <1>4 DEF longer

\* A path is untouched if its directory is and its last place.
PlaceUntouched(place) ==
  place[1] \in Dirs /\ place \notin touched /\ Offered(place)

UntouchedByName ==
  /\ \A root : UntouchedPath(root, <<>>)
  /\ \A root : \A path \in Paths, n \in Names :
       UntouchedPath(root, Append(path, n)) <=>
         UntouchedPath(root, path) /\ PlaceUntouched(<<Node(root, path), n>>)

\* Both hold in every state, hence also after a step.
LEMMA UntouchedNow == UntouchedByName
<1>1. \A root : UntouchedPath(root, <<>>)
  BY DEF UntouchedPath
<1>2. ASSUME NEW root, NEW path \in Paths, NEW n \in Names
      PROVE  UntouchedPath(root, Append(path, n)) <=>
               UntouchedPath(root, path) /\ PlaceUntouched(<<Node(root, path), n>>)
  <2> DEFINE longer == Append(path, n)
             good(p, k) == PlaceUntouched(<<Node(root, SubSeq(p, 1, k - 1)), p[k]>>)
  <2>1. /\ Len(path) \in Nat /\ Len(longer) = Len(path) + 1
        /\ \A k \in 1 .. Len(path) :
             /\ longer[k] = path[k]
             /\ SubSeq(longer, 1, k - 1) = SubSeq(path, 1, k - 1)
        /\ longer[Len(path) + 1] = n
        /\ SubSeq(longer, 1, (Len(path) + 1) - 1) = path
    BY Beginnings
  <2>2. /\ UntouchedPath(root, longer) <=> \A k \in 1 .. Len(longer) : good(longer, k)
        /\ UntouchedPath(root, path) <=> \A k \in 1 .. Len(path) : good(path, k)
    BY DEF UntouchedPath, PlaceUntouched
  <2>3. \A k \in 1 .. Len(path) : good(longer, k) <=> good(path, k)
    BY <2>1
  <2>4. good(longer, Len(path) + 1) <=> PlaceUntouched(<<Node(root, path), n>>)
    BY <2>1
  <2>5. \A k : k \in 1 .. Len(longer) <=>
                 k \in 1 .. Len(path) \/ k = Len(path) + 1
    BY <2>1
  <2> HIDE DEF good, longer
  <2>6. QED
    BY <2>2, <2>3, <2>4, <2>5 DEF longer
<1>3. QED
  BY <1>1, <1>2 DEF UntouchedByName

LEMMA UntouchedNext == UntouchedByName'
BY UntouchedNow, PTL

\* NodeByName, after a step.
NodesByName ==
  /\ \A root : Node(root, <<>>) = root
  /\ \A root : \A path \in Paths, n \in Names :
       Node(root, path) \in Dirs =>
         Node(root, Append(path, n)) = What(<<Node(root, path), n>>).node

LEMMA NodesNow == NodesByName
BY NodeByName DEF NodesByName

LEMMA NodesNext == NodesByName'
BY NodesNow, PTL

\* A place that a step of the disk leaves alone offers no more than before.
LEMMA PlaceLeftAlone ==
  ASSUME TypeOK, World, NEW place \in Places, PlaceUntouched(place)'
  PROVE  /\ PlaceUntouched(place) /\ What(place)' = What(place)
         /\ What(place).node \in fresh => What(place).node \in fresh'
<1> DEFINE Goal == /\ place \notin touched /\ What(place)' = What(place)
                   /\ place[1] \in locked => place[1] \in locked'
                   /\ What(place).node \in fresh => What(place).node \in fresh'
<1>1. place \notin touched' /\ place[1] \in Dirs /\ Offered(place)'
  BY DEF PlaceUntouched
<1>2. ASSUME NEW places, NEW made, NEW tree, NEW gone,
             Change(places, made, tree, gone)
      PROVE  /\ place \notin touched /\ place \notin places
             /\ What(place)' = What(place)
  BY <1>1, <1>2 DEF Change
<1>3. ASSUME NEW d \in Dirs, NEW n \in Names,
             RemoveItem(d, n) \/ Rewrite(d, n) \/ Replace(d, n)
      PROVE  Goal
  BY <1>2, <1>3 DEF RemoveItem, Rewrite, Replace
<1>4. ASSUME NEW d \in Dirs, NEW e \in Dirs, NEW n \in Names, NEW m \in Names,
             Move(d, n, e, m)
      PROVE  Goal
  BY <1>2, <1>4 DEF Move
<1>5. ASSUME NEW d \in Dirs, NEW n \in Names, NEW f \in Media, Write(d, n, f)
      PROVE  Goal
  BY <1>2, <1>5 DEF Write
<1>6. ASSUME NEW s \in ShareNames, NEW d \in Dirs \cup {None}, Retarget(s, d)
      PROVE  Goal
  BY <1>2, <1>6 DEF Retarget
<1>7. ASSUME NEW d \in Dirs, Permit(d) PROVE Goal
  <2>1. place \notin {d} \X Names
    BY <1>2, <1>7 DEF Permit
  <2>2. place[1] # d
    BY <2>1 DEF Places
  <2>3. QED
    BY <1>2, <1>7, <2>2 DEF Permit
<1>8. ASSUME Settle PROVE Goal
  <2>1. /\ touched' = touched \cup {q \in Places : What(q).node \in fresh}
        /\ UNCHANGED <<disk, locked>>
    BY <1>8 DEF Settle
  <2>2. What(place)' = What(place)
    BY <2>1 DEF What
  <2>3. QED
    BY <1>1, <2>1, <2>2
<1>9. Goal
  <2> HIDE DEF Goal
  <2>1. QED
    BY <1>3, <1>4, <1>5, <1>6, <1>7, <1>8 DEF World
<1>10. opts' = opts
  BY WorldKeepsTypes
<1>11. Offered(place)
  BY <1>1, <1>9, <1>10 DEF Offered, Shown
<1>12. QED
  BY <1>1, <1>9, <1>11 DEF PlaceUntouched

\* Nor does a path, and it leads where it led.
LEMMA PathLeftAlone ==
  ASSUME TypeOK, World, NEW root, NEW path \in Paths, UntouchedPath(root, path)'
  PROVE  UntouchedPath(root, path) /\ Node(root, path)' = Node(root, path)
<1> DEFINE S == {k \in Nat : \A p \in Paths :
                   Len(p) = k /\ UntouchedPath(root, p)' =>
                     /\ UntouchedPath(root, p)
                     /\ Node(root, p)' = Node(root, p)}
<1>1. 0 \in S
  <2> SUFFICES ASSUME NEW p \in Paths, Len(p) = 0
               PROVE  UntouchedPath(root, p) /\ Node(root, p)' = Node(root, p)
    OBVIOUS
  <2>1. p = <<>>
    BY EmptySeq DEF Paths
  <2>2. QED
    BY <2>1, UntouchedNow, NodesNow, NodesNext DEF UntouchedByName, NodesByName
<1>2. ASSUME NEW k \in Nat, k \in S PROVE k + 1 \in S
  <2> SUFFICES ASSUME NEW p \in Paths, Len(p) = k + 1, UntouchedPath(root, p)'
               PROVE  UntouchedPath(root, p) /\ Node(root, p)' = Node(root, p)
    OBVIOUS
  <2>1. p # <<>>
    BY EmptySeq
  <2> DEFINE q == Front(p)
             n == p[Len(p)]
  <2>2. q \in Paths /\ n \in Names /\ p = Append(q, n)
    BY <2>1, LastName
  <2> HIDE DEF q, n
  <2>3. Len(q) = k
    <3>1. Len(p) = Len(q) + 1 /\ Len(q) \in Nat
      BY <2>2, Beginnings
    <3>2. QED
      BY <3>1
  <2>4. /\ UntouchedPath(root, q)'
        /\ PlaceUntouched(<<Node(root, q), n>>)'
    BY <2>2, UntouchedNext DEF UntouchedByName
  <2>5. UntouchedPath(root, q) /\ Node(root, q)' = Node(root, q)
    BY <1>2, <2>2, <2>3, <2>4
  <2>6. \A d : d = Node(root, q) =>
          LET place == <<d, n>> IN
          /\ d \in Dirs /\ PlaceUntouched(place)
          /\ What(place)' = What(place)
    <3> SUFFICES ASSUME NEW d, d = Node(root, q)
                 PROVE  /\ d \in Dirs /\ PlaceUntouched(<<d, n>>)
                        /\ What(<<d, n>>)' = What(<<d, n>>)
      OBVIOUS
    <3>1. Node(root, q)' = d
      BY <2>5
    <3>2. PlaceUntouched(<<d, n>>)'
      BY <2>4, <3>1
    <3>3. d \in Dirs /\ <<d, n>> \in Places
      BY <2>2, <3>2 DEF PlaceUntouched, Places
    <3>4. QED
      BY <3>2, <3>3, PlaceLeftAlone
  <2>7. UntouchedPath(root, p)
    BY <2>2, <2>5, <2>6, UntouchedNow DEF UntouchedByName
  <2>8. Node(root, p) = What(<<Node(root, q), n>>).node
    BY <2>2, <2>6, NodesNow DEF NodesByName
  <2>9. \A d : d = Node(root, q) => Node(root, p)' = What(<<d, n>>)'.node
    BY <2>2, <2>5, <2>6, NodesNext DEF NodesByName
  <2>10. QED
    BY <2>6, <2>7, <2>8, <2>9
<1> HIDE DEF S
<1>3. Nat \subseteq S
  BY <1>1, <1>2, SetInduction
<1>4. Len(path) \in Nat
  BY LenProperties DEF Paths
<1>5. QED
  BY <1>3, <1>4 DEF S

\* A step of the walk adds what it inspects.
LEMMA WalkKeepsListed ==
  ASSUME UntouchedListed, UNCHANGED <<disk, locked, opts, touched, fresh>>,
         entries \subseteq entries', pc' # "failed" => pc # "failed",
         \A root \in Dirs, path \in Paths, n \in Names :
           /\ ~ opts.follow /\ Inspected(root, path, n)'
           /\ UntouchedPath(root, Append(path, n))
           => Inspected(root, path, n) \/ Found(root, Append(path, n))'
  PROVE  UntouchedListed'
<1>1. /\ \A root, path : Node(root, path)' = Node(root, path)
      /\ \A place : Offered(place)' <=> Offered(place)
  BY DiskFrame
<1>2. \A root, path : UntouchedPath(root, path)' <=> UntouchedPath(root, path)
  BY <1>1 DEF UntouchedPath
<1>3. \A root, path : Found(root, path) => Found(root, path)'
  BY <1>1 DEF Found, Known, HasIn
<1>4. QED
  BY <1>2, <1>3 DEF UntouchedListed

\* Nothing is inspected in a directory that is taken from the stack.
LEMMA ListedRead ==
  ASSUME TreeInv, UntouchedListed, ReadDir
  PROVE  UntouchedListed'
<1> DEFINE here1 == pending[Len(pending)]
           dir == Node(base, here1)
<1>1. /\ pc = "walk" /\ pc' \in {"walk", "read"}
      /\ \A i \in 1 .. Len(pending) :
           i # Len(pending) => i \in 1 .. Len(pending') /\ pending'[i] = pending[i]
      /\ dir \in Dirs \ locked /\ ~ opts.follow =>
           /\ pc' = "read" /\ here' = here1
           /\ listing' = {n \in Names :
                disk[dir][n] # Absent /\ (n \in Hidden => opts.hidden)}
      /\ UNCHANGED <<disk, locked, opts, touched, fresh, base, entries>>
  BY ReadExactly DEF TreeInv
<1> HIDE DEF here1
<1>2. ASSUME NEW root \in Dirs, NEW path \in Paths, NEW n \in Names,
             ~ opts.follow, Inspected(root, path, n)',
             UntouchedPath(root, Append(path, n))
      PROVE  Inspected(root, path, n)
  <2>1. Known(entries, root, path) /\ ~ Waiting(root, path)'
    BY <1>1, <1>2 DEF Inspected
  <2> SUFFICES ASSUME Waiting(root, path) PROVE FALSE
    BY <1>1, <2>1 DEF Inspected
  <2>2. root = base /\ path = here1
    BY <1>1, <2>1 DEF Waiting, here1
  <2>3. PlaceUntouched(<<dir, n>>)
    BY <1>2, <2>2, UntouchedNow DEF UntouchedByName
  <2>4. /\ dir \in Dirs \ locked
        /\ disk[dir][n] # Absent /\ (n \in Hidden => opts.hidden)
    BY <2>3 DEF PlaceUntouched, Offered, Shown, What, Absent
  <2>5. pc' = "read" /\ here' = path /\ n \in listing' /\ base' = root
    BY <1>1, <1>2, <2>2, <2>4
  <2>6. QED
    BY <1>2, <2>5 DEF Inspected
<1>3. QED
  BY <1>1, <1>2, WalkKeepsListed

\* A name is inspected, and what is at an untouched path is taken.
LEMMA ListedInspect ==
  ASSUME TreeInv, UntouchedListed, NEW m \in Names, Inspect(m), pc' # "failed"
  PROVE  UntouchedListed'
<1> DEFINE path == Append(here, m)
           node == ItemOf(m).node
<1>1. /\ pc = "read" /\ pc' = "read"
      /\ m \in listing /\ listing' = listing \ {m}
      /\ here \in Paths /\ base \in Dirs /\ pending \in Seq(Paths)
      /\ ItemOf(m) \in Items
      /\ entries' = IF Takes(m) THEN entries \cup {NewEntry(m)} ELSE entries
      /\ pending' = IF Takes(m) /\ node \in Dirs
                      THEN Append(pending, path) ELSE pending
      /\ UNCHANGED <<opts, base, here, disk, locked, fresh, touched>>
  BY InspectExactly
<1>2. \A root, p : Node(root, p)' = Node(root, p)
  BY <1>1, DiskFrame
<1>3. /\ NewEntry(m) = Entry(Id(KindOf(node), base, path), node)
      /\ NewEntry(m).id = Id(KindOf(node), base, path)
      /\ path \in Paths
  BY <1>1, PathFacts DEF NewEntry, Entry
<1> HIDE DEF path
\* What was on the stack still is, and so is the new directory.
<1>4. /\ \A root, p : Waiting(root, p) => Waiting(root, p)'
      /\ Takes(m) /\ node \in Dirs =>
           \A root, p : root = base /\ p = path => Waiting(root, p)'
  <2>1. CASE Takes(m) /\ node \in Dirs
    <3>1. /\ Len(pending') = Len(pending) + 1 /\ Len(pending) \in Nat
          /\ \A i \in 1 .. Len(pending) : pending'[i] = pending[i]
          /\ pending'[Len(pending) + 1] = path
      BY <2>1, <1>1, <1>3, AppendProperties, LenProperties
    <3>2. /\ \A i \in 1 .. Len(pending) : i \in 1 .. Len(pending')
          /\ Len(pending) + 1 \in 1 .. Len(pending')
      BY <3>1
    <3>3. QED
      BY <1>1, <3>1, <3>2 DEF Waiting
  <2>2. CASE ~ (Takes(m) /\ node \in Dirs)
    <3>1. pending' = pending
      BY <1>1, <2>2
    <3>2. QED
      BY <1>1, <2>2, <3>1 DEF Waiting
  <2>3. QED
    BY <2>1, <2>2
<1>5. ASSUME NEW root \in Dirs, NEW p \in Paths, NEW n \in Names,
             ~ opts.follow, Inspected(root, p, n)',
             UntouchedPath(root, Append(p, n))
      PROVE  Inspected(root, p, n) \/ Found(root, Append(p, n))'
  <2>1. Known(entries', root, p) /\ ~ Waiting(root, p)'
    BY <1>5 DEF Inspected
  <2>2. Known(entries, root, p)
    <3>1. PICK e \in entries' : e.id = Id("d", root, p)
      BY <2>1 DEF Known, HasIn
    <3>2. ASSUME Takes(m), e = NewEntry(m) PROVE FALSE
      <4>1. KindOf(node) = "d" /\ base = root /\ path = p
        BY <1>3, <3>1, <3>2 DEF Id
      <4>2. node \in Dirs
        BY <4>1 DEF KindOf
      <4>3. QED
        BY <1>4, <2>1, <3>2, <4>1, <4>2
    <3>3. QED
      BY <1>1, <3>1, <3>2 DEF Known, HasIn
  <2>3. CASE root = base /\ p = here /\ n = m
    <3>1. /\ Node(base, here) \in Dirs
          /\ Offered(<<Node(base, here), m>>)
          /\ Node(base, path) = What(<<Node(base, here), m>>).node
      <4>1. PlaceUntouched(<<Node(base, here), m>>)
        BY <1>1, <1>5, <2>3, UntouchedNow DEF UntouchedByName
      <4>2. QED
        BY <1>1, <4>1, NodeByName DEF PlaceUntouched, path
    <3>2. ItemOf(m) = What(<<Node(base, here), m>>) /\ node = Node(base, path)
      BY <3>1 DEF ItemOf
    <3>3. node \in Dirs \/ node \in Media \ fresh => Takes(m)
      <4>1. node \in Media => node \notin Dirs
        BY KindsAssumption
      <4>2. fresh \cap Dirs = {}
        BY KindsAssumption DEF TreeInv, TypeOK
      <4>3. QED
        BY <3>1, <3>2, <4>1 DEF Takes, Offered, Shown, Seen
    <3>4. ASSUME node \in Dirs PROVE Known(entries', base, path)
      <4>1. NewEntry(m) \in entries' /\ NewEntry(m).id = Id("d", base, path)
        BY <1>1, <1>3, <3>3, <3>4 DEF KindOf
      <4>2. QED
        BY <4>1 DEF Known, HasIn
    <3>5. ASSUME node \in Media \ fresh
          PROVE  Entry(Id("f", base, path), node) \in entries'
      <4>1. KindOf(node) = "f"
        BY <3>5, KindsAssumption DEF KindOf
      <4>2. QED
        BY <1>1, <1>3, <3>3, <3>5, <4>1
    <3>6. QED
      BY <2>3, <1>1, <1>2, <3>2, <3>4, <3>5 DEF Found, path
  <2>4. CASE ~ (root = base /\ p = here /\ n = m)
    BY <1>1, <1>4, <1>5, <2>1, <2>2, <2>4 DEF Inspected
  <2>5. QED
    BY <2>3, <2>4
<1>6. entries \subseteq entries'
  BY <1>1
<1>7. QED
  BY <1>1, <1>5, <1>6, WalkKeepsListed

\* The other steps of the walk inspect nothing.
LEMMA ListedOthers ==
  ASSUME TreeInv, UntouchedListed,
         StartShare \/ DirDone \/ ShareDone \/ Finish
  PROVE  UntouchedListed'
<1>1. /\ UNCHANGED <<disk, locked, opts, touched, fresh>>
      /\ entries \subseteq entries'
      /\ pc # "failed"
  BY DEF StartShare, DirDone, ShareDone, Finish, diskVars, resultVars
<1>2. ASSUME NEW root \in Dirs, NEW path \in Paths, NEW n \in Names,
             Inspected(root, path, n)'
      PROVE  Inspected(root, path, n)
  <2>1. CASE StartShare /\ pc' # "failed"
    <3>1. /\ pc = "share" /\ pc' = "walk" /\ pending' = << <<>> >>
          /\ entries' = entries \cup {Entry(Id("d", base', <<>>), base')}
      BY <2>1 DEF StartShare
    <3>2. Known(entries, root, path)
      <4>1. Known(entries', root, path) /\ ~ Waiting(root, path)'
        BY <1>2 DEF Inspected
      <4>2. PICK e \in entries' : e.id = Id("d", root, path)
        BY <4>1 DEF Known, HasIn
      <4>3. ASSUME e = Entry(Id("d", base', <<>>), base') PROVE FALSE
        <5>1. root = base' /\ path = <<>>
          BY <4>2, <4>3 DEF Entry, Id
        <5>2. Len(pending') = 1 /\ pending'[1] = <<>>
          BY <3>1
        <5>3. Waiting(root, path)'
          BY <3>1, <5>1, <5>2 DEF Waiting
        <5>4. QED
          BY <4>1, <5>3
      <4>4. QED
        BY <3>1, <4>2, <4>3 DEF Known, HasIn
    <3>3. QED
      BY <3>1, <3>2 DEF Inspected, Waiting
  <2>2. CASE StartShare /\ pc' = "failed"
    <3>1. pc = "share" /\ UNCHANGED entries
      BY <2>2 DEF StartShare
    <3>2. QED
      BY <1>2, <3>1 DEF Inspected, Waiting
  <2>3. CASE DirDone
    <3>1. /\ pc = "read" /\ listing = {} /\ pc' = "walk"
          /\ UNCHANGED <<entries, pending, base>>
      BY <2>3 DEF DirDone, resultVars
    <3>2. QED
      BY <1>2, <3>1 DEF Inspected, Waiting
  <2>4. CASE ShareDone \/ Finish
    <3>1. /\ pc \in {"walk", "share"} /\ (pc = "walk" => pending = <<>>)
          /\ UNCHANGED entries
      BY <2>4 DEF ShareDone, Finish, resultVars
    <3>2. QED
      BY <1>2, <3>1 DEF Inspected, Waiting
  <2>5. QED
    BY <2>1, <2>2, <2>3, <2>4
<1>3. QED
  BY <1>1, <1>2, WalkKeepsListed

\* A step of the disk makes no path untouched.
LEMMA ListedWorld ==
  ASSUME TypeOK, UntouchedListed, World
  PROVE  UntouchedListed'
<1>1. /\ UNCHANGED <<opts, pc, base, pending, here, entries>>
      /\ listing \subseteq listing' /\ pc # "failed"
  BY WorldKeepsTypes
<1>2. \A root, path, n : Inspected(root, path, n)' => Inspected(root, path, n)
  BY <1>1 DEF Inspected, Waiting
<1>3. ASSUME NEW root \in Dirs, NEW path \in Paths, NEW n \in Names,
             ~ opts.follow, Inspected(root, path, n),
             UntouchedPath(root, Append(path, n))'
      PROVE  Found(root, Append(path, n))'
  <2> DEFINE longer == Append(path, n)
  <2>1. longer \in Paths
    BY PathFacts
  <2>2. UntouchedPath(root, path)' /\ PlaceUntouched(<<Node(root, path), n>>)'
    BY <1>3, UntouchedNext DEF UntouchedByName
  <2>3. Node(root, path)' = Node(root, path)
    BY <2>2, PathLeftAlone
  <2>4. UntouchedPath(root, longer) /\ Node(root, longer)' = Node(root, longer)
    <3> HIDE DEF longer
    <3> QED
      BY <1>3, <2>1, PathLeftAlone DEF longer
  <2>5. Found(root, longer)
    BY <1>1, <1>3, <2>4 DEF UntouchedListed
  <2>6. Node(root, longer) \in fresh => Node(root, longer) \in fresh'
    <3> SUFFICES ASSUME NEW d, d = Node(root, path)
                 PROVE  Node(root, longer) \in fresh => Node(root, longer) \in fresh'
      OBVIOUS
    <3>1. PlaceUntouched(<<d, n>>)'
      BY <2>2, <2>3
    <3>2. d \in Dirs /\ <<d, n>> \in Places
      BY <3>1 DEF PlaceUntouched, Places
    <3>3. What(<<d, n>>).node \in fresh => What(<<d, n>>).node \in fresh'
      BY <3>1, <3>2, PlaceLeftAlone
    <3>4. Node(root, longer) = What(<<d, n>>).node
      BY <3>2, NodesNow DEF NodesByName
    <3>5. QED
      BY <3>3, <3>4
  <2>7. QED
    BY <1>1, <2>4, <2>5, <2>6 DEF Found
<1>4. QED
  BY <1>1, <1>2, <1>3 DEF UntouchedListed

\* The invariant of a walk over a disk that changes.
LEMMA UntouchedHolds == Spec => []UntouchedListed
<1>1. Init => UntouchedListed
  BY DEF Init, UntouchedListed, Inspected, Known, HasIn
<1>2. TreeInv /\ UntouchedListed /\ [Next]_vars => UntouchedListed'
  <2> SUFFICES ASSUME TreeInv, UntouchedListed, [Next]_vars
               PROVE  UntouchedListed'
    OBVIOUS
  <2>1. CASE ScanAgain
    <3>1. entries' = {}
      BY <2>1 DEF ScanAgain
    <3>2. QED
      BY <3>1 DEF UntouchedListed, Inspected, Known, HasIn
  <2>2. CASE UNCHANGED vars
    <3>1. /\ UNCHANGED <<disk, locked, opts, touched, fresh>>
          /\ UNCHANGED <<pc, base, pending, here, listing, entries>>
      BY <2>2 DEF vars, diskVars, walkVars, dirVars, resultVars
    <3>2. \A root, path, n : Inspected(root, path, n)' <=> Inspected(root, path, n)
      BY <3>1 DEF Inspected, Waiting
    <3>3. QED
      BY <3>1, <3>2, WalkKeepsListed
  <2>3. CASE World
    BY <2>3, ListedWorld DEF TreeInv
  <2>4. CASE pc' = "failed"
    BY <2>4 DEF UntouchedListed
  <2>5. QED
    BY <2>1, <2>2, <2>3, <2>4, ListedRead, ListedInspect, ListedOthers
       DEF Next, Walk
<1>3. QED
  BY <1>1, <1>2, TreeHolds, PTL DEF Spec

\* At the end the directories at untouched paths were read, the root first.
LEMMA UntouchedAreKnown ==
  ASSUME TreeInv, UntouchedListed, pc = "done", ~ opts.follow,
         NEW root \in ScannedRoots, NEW path \in Paths,
         UntouchedPath(root, path), Node(root, path) \in Dirs
  PROVE  Known(entries, root, path)
<1> DEFINE S == {k \in Nat : \A p \in Paths :
                   /\ Len(p) = k /\ UntouchedPath(root, p)
                   /\ Node(root, p) \in Dirs
                   => Known(entries, root, p)}
<1>1. root \in Dirs /\ Known(entries, root, <<>>)
  BY DEF ScannedRoots, Has, Known, HasIn
<1>2. 0 \in S
  <2> SUFFICES ASSUME NEW p \in Paths, Len(p) = 0 PROVE p = <<>>
    BY <1>1
  <2>1. QED
    BY EmptySeq DEF Paths
<1>3. ASSUME NEW k \in Nat, k \in S PROVE k + 1 \in S
  <2> SUFFICES ASSUME NEW p \in Paths, Len(p) = k + 1,
                      UntouchedPath(root, p), Node(root, p) \in Dirs
               PROVE  Known(entries, root, p)
    OBVIOUS
  <2>1. p # <<>>
    BY EmptySeq
  <2> DEFINE q == Front(p)
             n == p[Len(p)]
  <2>2. q \in Paths /\ n \in Names /\ p = Append(q, n)
    BY <2>1, LastName
  <2> HIDE DEF q, n
  <2>3. Len(q) = k
    <3>1. Len(p) = Len(q) + 1 /\ Len(q) \in Nat
      BY <2>2, Beginnings
    <3>2. QED
      BY <3>1
  <2>4. UntouchedPath(root, q) /\ Node(root, q) \in Dirs
    BY <2>2, UntouchedNow DEF UntouchedByName, PlaceUntouched
  <2>5. Known(entries, root, q)
    BY <1>3, <2>2, <2>3, <2>4
  <2>6. Inspected(root, q, n)
    BY <2>5 DEF Inspected, Waiting
  <2>7. Found(root, p)
    BY <1>1, <2>2, <2>6 DEF UntouchedListed
  <2>8. QED
    BY <2>7 DEF Found
<1> HIDE DEF S
<1>4. Nat \subseteq S
  BY <1>2, <1>3, SetInduction
<1>5. Len(path) \in Nat
  BY LenProperties DEF Paths
<1>6. QED
  BY <1>4, <1>5 DEF S

\* And so were the files at such paths.
LEMMA UntouchedAreListed ==
  ASSUME TreeInv, UntouchedListed, pc = "done", ~ opts.follow,
         NEW root \in ScannedRoots, NEW path \in Paths,
         UntouchedPath(root, path), Node(root, path) \in Media \ fresh
  PROVE  Entry(Id("f", root, path), Node(root, path)) \in entries
<1>1. path # <<>>
  <2>1. root \in Dirs /\ Node(root, <<>>) = root
    BY NodeByName DEF ScannedRoots
  <2>2. QED
    BY <2>1, KindsAssumption
<1> DEFINE q == Front(path)
           n == path[Len(path)]
<1>2. q \in Paths /\ n \in Names /\ path = Append(q, n)
  BY <1>1, LastName
<1> HIDE DEF q, n
<1>3. UntouchedPath(root, q) /\ Node(root, q) \in Dirs
  BY <1>2, UntouchedNow DEF UntouchedByName, PlaceUntouched
<1>4. Known(entries, root, q)
  BY <1>2, <1>3, UntouchedAreKnown
<1>5. Inspected(root, q, n)
  BY <1>4 DEF Inspected, Waiting
<1>6. Found(root, path)
  BY <1>2, <1>5 DEF UntouchedListed, ScannedRoots
<1>7. QED
  BY <1>6 DEF Found

\* However the disk changes during a walk, a settled file whose path was left
\* alone is in the catalog at its end (catalog.rs:208-287).
THEOREM UntouchedAreFound == Spec => []UntouchedFilesAreFound
<1>1. TreeInv /\ UntouchedListed => UntouchedFilesAreFound
  <2>1. ShortPaths \subseteq Paths
    <3> SUFFICES ASSUME NEW k \in 0 .. Cardinality(Dirs),
                        NEW path \in [1 .. k -> Names]
                 PROVE  path \in Paths
      BY DEF ShortPaths
    <3>1. k \in Nat
      BY FiniteAssumption, FS_CardinalityType
    <3>2. QED
      BY <3>1, SeqDef DEF Paths
  <2>2. QED
    BY <2>1, UntouchedAreListed DEF UntouchedFilesAreFound
<1>2. QED
  BY <1>1, TreeHolds, UntouchedHolds, PTL

-------------------------------------------------------------------------------
(* A scan of the same disk again.                                          *)

\* The roots of the first k shares.
RootsOf(k) == {rootOf[Shares[i]] : i \in 1 .. k}

\* What a scan has in the end, if it follows no links and nothing changes: what
\* is at the paths of the disk, whatever the order of the listings.
TheCatalog ==
  {e \in Entries :
     /\ e.id.root \in {rootOf[s] : s \in ShareNames}
     /\ UntouchedPath(e.id.root, e.id.path)
     /\ e.node = Node(e.id.root, e.id.path) /\ e.node \notin fresh}

RootsInv ==
  /\ pc = "share" =>
       share - 1 <= Len(Shares) /\ ScannedRoots = RootsOf(share - 1)
  /\ pc \in {"walk", "read"} =>
       share <= Len(Shares) /\ ScannedRoots = RootsOf(share)
  /\ pc = "done" => ScannedRoots = RootsOf(Len(Shares))

AgainInv ==
  changes = 0 =>
    /\ touched = {} /\ RootsInv
    /\ scans > 1 /\ ~ opts.follow => before = TheCatalog

\* Each entry of a disk at rest has a path on which everything is offered.
LEMMA EntriesOffered ==
  ASSUME TreeInv, RestParts, touched = {}, NEW e \in entries
  PROVE  UntouchedPath(e.id.root, e.id.path)
<1> DEFINE S == {k \in Nat : \A d \in entries :
                   Len(d.id.path) = k => UntouchedPath(d.id.root, d.id.path)}
<1>1. \A d \in entries : d.id.path \in Paths /\ Len(d.id.path) \in Nat
  <2>1. \A d \in entries : d.id.path \in Paths
    BY EntryIsKnown DEF TreeInv
  <2>2. QED
    BY <2>1, LenProperties DEF Paths
<1>2. 0 \in S
  <2> SUFFICES ASSUME NEW d \in entries, Len(d.id.path) = 0
               PROVE  UntouchedPath(d.id.root, d.id.path)
    OBVIOUS
  <2>1. d.id.path = <<>>
    BY <1>1, EmptySeq DEF Paths
  <2>2. QED
    BY <2>1, UntouchedNow DEF UntouchedByName
<1>3. ASSUME NEW k \in Nat, k \in S PROVE k + 1 \in S
  <2> SUFFICES ASSUME NEW d \in entries, Len(d.id.path) = k + 1
               PROVE  UntouchedPath(d.id.root, d.id.path)
    OBVIOUS
  <2> DEFINE root == d.id.root
             q == Front(d.id.path)
             n == d.id.path[Len(d.id.path)]
  <2>1. d.id.path # <<>>
    BY EmptySeq
  <2>2. q \in Paths /\ n \in Names /\ d.id.path = Append(q, n)
    BY <1>1, <2>1, LastName
  <2>3. PICK p \in entries : p.id = Id("d", root, q)
    BY <2>1 DEF TreeInv, ParentsFirst, Has
  <2>4. p.id.root = root /\ p.id.path = q
    BY <2>3 DEF Id
  <2> HIDE DEF q, n
  <2>5. Len(q) = k
    <3>1. Len(d.id.path) = Len(q) + 1 /\ Len(q) \in Nat
      BY <2>2, Beginnings
    <3>2. QED
      BY <3>1
  <2>6. UntouchedPath(root, q)
    BY <1>3, <2>4, <2>5
  <2>7. Node(root, q) \in Dirs /\ Offered(<<Node(root, q), n>>)
    BY <2>2 DEF RestParts, EntriesFound
  <2>8. PlaceUntouched(<<Node(root, q), n>>)
    BY <2>7 DEF PlaceUntouched
  <2>9. QED
    BY <2>2, <2>6, <2>8, UntouchedNow DEF UntouchedByName
<1> HIDE DEF S
<1>4. Nat \subseteq S
  BY <1>2, <1>3, SetInduction
<1>5. QED
  BY <1>1, <1>4 DEF S

\* What an entry is follows from its path and its node.
LEMMA EntryByPlace ==
  ASSUME NEW e \in Entries
  PROVE  /\ e = Entry(Id(KindOf(e.node), e.id.root, e.id.path), e.node)
         /\ e.id.root \in Dirs /\ e.id.path \in Paths /\ e.node \in Nodes
<1>1. /\ e = [id |-> e.id, node |-> e.node]
      /\ e.id = [kind |-> e.id.kind, root |-> e.id.root, path |-> e.id.path]
      /\ e.id.kind = KindOf(e.node)
      /\ e.id.root \in Dirs /\ e.id.path \in Paths /\ e.node \in Nodes
  BY DEF Entries, KindOf, Paths
<1>2. QED
  BY <1>1 DEF Entry, Id

\* A scan that follows no links ends with what is at the paths of the disk.
LEMMA DoneIsTheCatalog ==
  ASSUME TreeInv, RestParts, UntouchedListed, RootsInv, touched = {},
         pc = "done", ~ opts.follow
  PROVE  entries = TheCatalog
<1>1. {rootOf[s] : s \in ShareNames} = ScannedRoots
  BY DEF RootsInv, RootsOf, ShareNames
<1>2. entries \subseteq Entries
  BY DEF TreeInv, TypeOK
<1>3. ASSUME NEW e \in entries PROVE e \in TheCatalog
  <2> DEFINE root == e.id.root
             path == e.id.path
  <2>1. e \in Entries /\ root \in Dirs /\ path \in Paths
    BY <1>2, EntryByPlace
  <2>2. root \in ScannedRoots
    BY <2>1 DEF TreeInv, RootsKnown, ScannedRoots, Has, Known, HasIn
  <2>3. UntouchedPath(root, path) /\ e.node = Node(root, path)
    BY EntriesOffered DEF RestParts, EntriesFound
  <2>4. e.node \notin fresh
    <3>1. CASE path = <<>>
      <4>1. e.node \in Dirs
        BY <2>1, <2>3, <3>1, NodeByName
      <4>2. QED
        BY <4>1, KindsAssumption DEF TreeInv, TypeOK
    <3>2. CASE path # <<>>
      <4>1. Front(path) \in Paths /\ path[Len(path)] \in Names
            /\ path = Append(Front(path), path[Len(path)])
        BY <2>1, <3>2, LastName
      <4>2. QED
        BY <4>1 DEF RestParts, EntriesFound
    <3>3. QED
      BY <3>1, <3>2
  <2>5. QED
    BY <1>1, <2>1, <2>2, <2>3, <2>4 DEF TheCatalog
<1>4. ASSUME NEW e \in TheCatalog PROVE e \in entries
  <2> DEFINE root == e.id.root
             path == e.id.path
  <2>1. /\ e \in Entries /\ root \in ScannedRoots /\ UntouchedPath(root, path)
        /\ e.node = Node(root, path) /\ e.node \notin fresh
    BY <1>1, <1>4 DEF TheCatalog
  <2>2. /\ e = Entry(Id(KindOf(e.node), root, path), e.node)
        /\ path \in Paths /\ e.node \in Nodes
    BY <2>1, EntryByPlace
  <2>3. CASE e.node \in Dirs
    <3>1. Known(entries, root, path)
      BY <2>1, <2>2, <2>3, UntouchedAreKnown
    <3>2. PICK d \in entries : d.id = Id("d", root, path)
      BY <3>1 DEF Known, HasIn
    <3>3. d.id.root = root /\ d.id.path = path
      BY <3>2 DEF Id
    <3>4. d.node = e.node
      BY <2>1, <3>3 DEF RestParts, EntriesFound
    <3>5. d = Entry(Id(KindOf(d.node), root, path), d.node)
      BY <1>2, <3>3, EntryByPlace
    <3>6. QED
      BY <2>2, <3>4, <3>5
  <2>4. CASE e.node \notin Dirs
    <3>1. e.node \in Media \ fresh /\ KindOf(e.node) = "f"
      BY <2>1, <2>2, <2>4 DEF Nodes, KindOf
    <3>2. Entry(Id("f", root, path), Node(root, path)) \in entries
      BY <2>1, <2>2, <3>1, UntouchedAreListed
    <3>3. QED
      BY <2>1, <2>2, <3>1, <3>2
  <2>5. QED
    BY <2>3, <2>4
<1>5. QED
  BY <1>3, <1>4

\* The invariant of one scan after the other.
LEMMA AgainHolds == Spec => []AgainInv
<1> DEFINE Same == UNCHANGED <<disk, locked, rootOf, fresh, touched, opts>>
<1>1. Init => AgainInv
  <2> SUFFICES ASSUME Init PROVE AgainInv
    OBVIOUS
  <2>1. ScannedRoots = {}
    BY DEF Init, ScannedRoots, Has
  <2>2. RootsOf(0) = {} /\ share - 1 = 0
    BY DEF Init, RootsOf
  <2>3. QED
    BY <2>1, <2>2, SharesAssumption DEF Init, AgainInv, RootsInv
<1>2. ASSUME Same PROVE TheCatalog' = TheCatalog
  <2>1. /\ \A root, path : Node(root, path)' = Node(root, path)
        /\ \A place : Offered(place)' <=> Offered(place)
    BY <1>2, DiskFrame
  <2>2. \A root, path : UntouchedPath(root, path)' <=> UntouchedPath(root, path)
    BY <1>2, <2>1 DEF UntouchedPath
  <2>3. QED
    BY <1>2, <2>1, <2>2 DEF TheCatalog
<1>3. ASSUME UNCHANGED rootOf PROVE \A k : RootsOf(k)' = RootsOf(k)
  BY <1>3 DEF RootsOf
<1>4. TreeInv /\ RestInv /\ UntouchedListed /\ AgainInv /\ [Next]_vars => AgainInv'
  <2> SUFFICES ASSUME TreeInv, RestInv, UntouchedListed, AgainInv, [Next]_vars,
                      changes' = 0
               PROVE  /\ touched' = {} /\ RootsInv'
                      /\ scans' > 1 /\ ~ opts'.follow => before' = TheCatalog'
    BY DEF AgainInv
  <2>1. ~ World
    BY WorldKeepsTypes DEF TreeInv
  <2>2. changes = 0 /\ Same
    BY <2>1 DEF Next, Walk, StartShare, ReadDir, DirDone, ShareDone, Finish,
       Inspect, ScanAgain, diskVars, vars
  <2>3. /\ touched = {} /\ RootsInv /\ RestParts
        /\ scans > 1 /\ ~ opts.follow => before = TheCatalog
    BY <2>2 DEF AgainInv, RestInv
  <2>4. /\ touched' = {} /\ TheCatalog' = TheCatalog
        /\ \A k : RootsOf(k)' = RootsOf(k)
    BY <1>2, <1>3, <2>2, <2>3
  <2>5. share \in Nat \ {0} /\ Len(Shares) \in Nat
    BY SharesAssumption DEF TreeInv, TypeOK
  <2>6. CASE StartShare
    <3>1. UNCHANGED <<before, scans, share>> /\ pc = "share" /\ share <= Len(Shares)
      BY <2>6 DEF StartShare
    <3>2. CASE pc' = "failed"
      BY <2>2, <2>3, <2>4, <3>1, <3>2 DEF RootsInv
    <3>3. CASE pc' # "failed"
      <4> DEFINE root == rootOf[Shares[share]]
      <4>1. /\ pc' = "walk" /\ root # None
            /\ entries' = entries \cup {Entry(Id("d", root, <<>>), root)}
        BY <2>6, <3>3 DEF StartShare
      <4>2. root \in Dirs
        <5>1. share \in 1 .. Len(Shares)
          BY <2>5, <3>1
        <5>2. QED
          BY <4>1, <5>1 DEF TreeInv, TypeOK, ShareNames
      <4>3. ScannedRoots' = ScannedRoots \cup {root}
        <5>1. \A d : Id("d", d, <<>>) = Id("d", root, <<>>) <=> d = root
          BY DEF Id
        <5>2. Entry(Id("d", root, <<>>), root).id = Id("d", root, <<>>)
          BY DEF Entry
        <5>3. \A d : Has(Id("d", d, <<>>))' <=> Has(Id("d", d, <<>>)) \/ d = root
          BY <4>1, <5>1, <5>2 DEF Has
        <5>4. QED
          BY <4>2, <5>3 DEF ScannedRoots
      <4>4. RootsOf(share) = RootsOf(share - 1) \cup {root}
        <5>1. 1 .. share = (1 .. share - 1) \cup {share}
          BY <2>5
        <5>2. QED
          BY <5>1 DEF RootsOf
      <4>5. ScannedRoots = RootsOf(share - 1)
        BY <2>3, <3>1 DEF RootsInv
      <4>6. RootsInv'
        <5>1. RootsOf(share)' = RootsOf(share)
          BY <2>4, <3>1
        <5>2. QED
          BY <3>1, <4>1, <4>3, <4>4, <4>5, <5>1 DEF RootsInv
      <4>7. QED
        BY <2>2, <2>3, <2>4, <3>1, <4>6
    <3>4. QED
      BY <3>2, <3>3
  <2>7. ASSUME NEW n \in Names, Inspect(n) PROVE RootsInv'
    <3>1. /\ pc = "read" /\ pc' = "read" /\ UNCHANGED share
          /\ here \in Paths
          /\ entries' \in {entries, entries \cup {NewEntry(n)}}
      BY <2>2, <2>7, InspectExactly
    <3>2. \A d : NewEntry(n).id # Id("d", d, <<>>)
      <4>1. Append(here, n) # <<>>
        BY <3>1, PathFacts
      <4>2. QED
        BY <4>1 DEF NewEntry, Entry, Id
    <3>3. \A d : Has(Id("d", d, <<>>))' <=> Has(Id("d", d, <<>>))
      BY <3>1, <3>2 DEF Has
    <3>4. ScannedRoots' = ScannedRoots
      BY <3>3 DEF ScannedRoots
    <3>5. RootsOf(share)' = RootsOf(share)
      BY <2>4, <3>1
    <3>6. QED
      BY <2>3, <3>1, <3>4, <3>5 DEF RootsInv
  <2>8. CASE ReadDir \/ DirDone \/ ShareDone \/ Finish \/ UNCHANGED vars
    <3>1. UNCHANGED <<entries, before, scans>>
      BY <2>8 DEF ReadDir, DirDone, ShareDone, Finish, vars, resultVars
    <3>2. ScannedRoots' = ScannedRoots
      BY <3>1 DEF ScannedRoots, Has
    <3>3. RootsInv'
      <4>1. CASE ReadDir \/ DirDone
        <5>1. /\ pc \in {"walk", "read"} /\ pc' \in {"walk", "read"}
              /\ UNCHANGED share
          BY <4>1 DEF ReadDir, DirDone
        <5>2. RootsOf(share)' = RootsOf(share)
          BY <2>4, <5>1
        <5>3. QED
          BY <2>3, <3>2, <5>1, <5>2 DEF RootsInv
      <4>2. CASE ShareDone
        <5>1. pc = "walk" /\ pc' = "share" /\ share' = share + 1
          BY <4>2 DEF ShareDone
        <5>2. share' - 1 = share
          BY <2>5, <5>1
        <5>3. rootOf' = rootOf
          BY <2>2
        <5>4. RootsOf(share - 1)' = RootsOf(share)
          BY <5>2, <5>3 DEF RootsOf
        <5>5. share <= Len(Shares) /\ ScannedRoots = RootsOf(share)
          BY <2>3, <5>1 DEF RootsInv
        <5>6. QED
          BY <3>2, <5>1, <5>2, <5>4, <5>5 DEF RootsInv
      <4>3. CASE Finish
        <5>1. pc = "share" /\ pc' = "done" /\ share > Len(Shares)
          BY <4>3 DEF Finish
        <5>2. share - 1 = Len(Shares)
          BY <2>3, <2>5, <5>1 DEF RootsInv
        <5>3. QED
          BY <2>3, <2>4, <3>2, <5>1, <5>2 DEF RootsInv
      <4>4. CASE UNCHANGED vars
        <5>1. UNCHANGED <<pc, share, rootOf>>
          BY <4>4 DEF vars, walkVars, diskVars
        <5>2. QED
          BY <2>3, <3>2, <5>1 DEF RootsInv, RootsOf
      <4>5. QED
        BY <2>8, <4>1, <4>2, <4>3, <4>4
    <3>4. QED
      BY <2>2, <2>3, <2>4, <3>1, <3>3
  <2>9. CASE ScanAgain
    <3>1. /\ pc = "done" /\ pc' = "share" /\ share' = 1
          /\ entries' = {} /\ before' = entries
      BY <2>9 DEF ScanAgain
    <3>2. ScannedRoots' = {}
      BY <3>1 DEF ScannedRoots, Has
    <3>3. RootsInv'
      <4>1. share' - 1 = 0 /\ 1 .. 0 = {}
        BY <3>1
      <4>2. QED
        BY <2>5, <3>1, <3>2, <4>1 DEF RootsInv, RootsOf
    <3>4. ~ opts.follow => before' = TheCatalog
      BY <2>3, <3>1, DoneIsTheCatalog
    <3>5. QED
      BY <2>2, <2>4, <3>3, <3>4
  <2>10. ASSUME NEW n \in Names, Inspect(n) PROVE UNCHANGED <<before, scans>>
    BY <2>10 DEF Inspect
  <2>11. QED
    BY <2>1, <2>2, <2>3, <2>4, <2>6, <2>7, <2>8, <2>9, <2>10 DEF Next, Walk
<1>5. QED
  BY <1>1, <1>4, TreeHolds, RestHolds, UntouchedHolds, PTL DEF Spec

\* As long as no links are followed, two scans of an unchanged disk find the same
\* entries, whatever the order of the listings, and so have the same update IDs
\* (catalog.rs:193-242, docs/architecture.md:21).
THEOREM ScansAgree == Spec => []LinklessScansAgree
<1>1. TreeInv /\ RestInv /\ UntouchedListed /\ AgainInv => LinklessScansAgree
  <2> SUFFICES ASSUME TreeInv, RestInv, UntouchedListed, AgainInv,
                      ~ opts.follow, pc = "done", scans > 1, changes = 0
               PROVE  entries = before
    BY DEF LinklessScansAgree, UnchangedScansAgree
  <2>1. entries = TheCatalog
    BY DoneIsTheCatalog DEF AgainInv, RestInv
  <2>2. QED
    BY <2>1 DEF AgainInv
<1>2. QED
  BY <1>1, TreeHolds, RestHolds, UntouchedHolds, AgainHolds, PTL

===============================================================================

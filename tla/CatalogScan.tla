------------------------------ MODULE CatalogScan -----------------------------
(***************************************************************************)
(* Catalog::scan_with_minimum_age (catalog.rs:89-287): the walk over the   *)
(* shares, on a disk that changes while it is read.                        *)
(*                                                                         *)
(* The disk is a tree of directories and media files, with symbolic links. *)
(* The walk knows paths: each step resolves its path below the share's     *)
(* root on the disk as it is at that moment.  Canonical paths (the root's, *)
(* and those in `visited`) are the directories they lead to; that one of   *)
(* them leads elsewhere after a move is left out.  An object ID stands for *)
(* the hash of kind, share root and relative path; hashes do not collide.  *)
(* Titles, sizes and times are functions of the path and the node,         *)
(* children are sorted by them, and the update ID is a fingerprint of all  *)
(* entries, so the set of entries stands for the finished catalog.  Files  *)
(* of other kinds are never taken and are left out.                        *)
(***************************************************************************)
EXTENDS Naturals, Sequences, FiniteSets

CONSTANTS
  Dirs,        \* directories
  Media,       \* files of a media category the shares take
  Names, Hidden,
  Locks,       \* sets of directories that read_dir may refuse at the start
  None,        \* no file or directory
  Shares,      \* the configured shares, in their order
  Options,     \* scanner options: [recursive, follow, hidden]
  Disks,       \* disks to start from
  MaxChanges,  \* bound: changes to the disk
  MaxScans     \* bound: scans

ASSUME NoneAssumption == None \notin Dirs \cup Media
ASSUME KindsAssumption == Dirs \cap Media = {}
ASSUME FiniteAssumption == IsFiniteSet(Dirs) /\ IsFiniteSet(Names)
ASSUME SharesAssumption == Len(Shares) \in Nat
ASSUME OptionsAssumption ==
  Options \subseteq [recursive: BOOLEAN, follow: BOOLEAN, hidden: BOOLEAN]

VARIABLES
  disk,      \* disk[d][n]: what name n is in directory d
  locked,    \* directories that read_dir refuses
  rootOf,    \* the directory a share's path resolves to, or None
  fresh,     \* media files younger than the settle time
  changes,
  touched,   \* history: places <<d, n>> that changed since the scan began
  opts,      \* the options of this scan
  pc,        \* "share", "walk", "read", "done" or "failed"
  share,     \* index of the share
  base,      \* its canonical root
  pending,   \* relative paths of the directories to read, a stack
  visited,   \* canonical directories read in this share
  here,      \* the directory being read, by the path it was opened with
  handle,    \* the directory itself, which read_dir holds open
  listing,   \* names read_dir still has to give, in any order
  remade,    \* history: names made in the directory while it is open
  entries,   \* the catalog under construction
  unsettled, \* unsettled_files
  failure,   \* the ScanError
  before,    \* history: the entries of the previous scan
  scans      \* history: scans begun

diskVars == <<disk, locked, rootOf, fresh, changes, touched>>
dirVars == <<here, handle, listing, remade>>
walkVars == <<pc, share, base, pending, visited, dirVars>>
resultVars == <<entries, unsettled, failure>>
vars == <<diskVars, opts, walkVars, resultVars, before, scans>>

Nodes == Dirs \cup Media
Places == Dirs \X Names

\* What a name may stand for; a link may dangle.
Items == [node: Nodes \cup {None}, link: BOOLEAN]
Absent == [node |-> None, link |-> FALSE]

ASSUME DisksAssumption == Disks \subseteq [Dirs -> [Names -> Items]]
ASSUME LocksAssumption == Locks \subseteq SUBSET Dirs

\* A directory is a real entry of one directory at most, and of none below it;
\* only links make aliases and cycles.
OnePlaceEach(tree) ==
  \A d, e \in Dirs, n, m \in Names :
    /\ tree[d][n] = tree[e][m] /\ tree[d][n].node \in Dirs /\ ~ tree[d][n].link
    => d = e /\ n = m

Heights(tree) ==
  {height \in [Dirs -> 0 .. Cardinality(Dirs)] :
     \A d \in Dirs, n \in Names :
       tree[d][n].node \in Dirs /\ ~ tree[d][n].link =>
         height[tree[d][n].node] < height[d]}

ASSUME TreesAssumption ==
  \A tree \in Disks : OnePlaceEach(tree) /\ Heights(tree) # {}

ShareNames == {Shares[i] : i \in 1 .. Len(Shares)}

Id(kind, root, path) == [kind |-> kind, root |-> root, path |-> path]
Entry(id, node) == [id |-> id, node |-> node]

-------------------------------------------------------------------------------
(* The disk.                                                               *)

What(place) == disk[place[1]][place[2]]

\* Real directories below d, with d.
Within(d) ==
  LET within[k \in 0 .. Cardinality(Dirs)] ==
        IF k = 0 THEN {d}
        ELSE within[k - 1] \cup
             {x \in Dirs : \E y \in within[k - 1], n \in Names :
                             disk[y][n] = [node |-> x, link |-> FALSE]}
  IN  within[Cardinality(Dirs)]

\* What moves along with the item.
Carried(item) ==
  IF item.node \in Dirs
    THEN {x \in Nodes :
            \/ x \in Within(item.node)
            \/ \E d \in Within(item.node), n \in Names :
                 disk[d][n] = [node |-> x, link |-> FALSE]}
    ELSE {item.node}

\* Links hold paths: those to what was moved or removed dangle.
Dangle(tree, gone) ==
  [d \in Dirs |-> [n \in Names |->
     IF tree[d][n].link /\ tree[d][n].node \in gone
       THEN [node |-> None, link |-> TRUE] ELSE tree[d][n]]]

\* The node a path leads to in a tree, through links.
Resolve(tree, root, path) ==
  LET at[k \in 0 .. Len(path)] ==
        IF k = 0 THEN root
        ELSE IF at[k - 1] \in Dirs THEN tree[at[k - 1]][path[k]].node ELSE None
  IN  at[Len(path)]

Node(root, path) == Resolve(disk, root, path)

-------------------------------------------------------------------------------
(* Slips a maintainer could make; the runs show that each is noticed.      *)

Bug_NeverFollow(item) == item.node # None /\ ~ item.link

Bug_TrustName(item) == item.link => opts.follow

Bug_NameOnly(path) == IF path = <<>> THEN path ELSE <<path[Len(path)]>>

Bug_Push(path) == Append(pending, path)

Bug_StopAtAbsent(n, item) == IF item.node = None THEN {} ELSE listing \ {n}

Bug_StopAtLink(n, item) ==
  IF item.link /\ ~ opts.follow THEN {} ELSE listing \ {n}

Bug_KeepTop == pending

Bug_CountLastShare(n) == n

-------------------------------------------------------------------------------
(* The pieces of scan_share.                                               *)

\* fs::metadata or fs::symlink_metadata, and the check of a link.
Seen(item) == item.node # None /\ (item.link => opts.follow)

\* The part of an object ID that tells paths of a share apart.
Relative(path) == path

\* pending.push, below the check of `recursive`.
Push(path) == IF opts.recursive THEN Append(pending, path) ELSE pending

\* pending.pop
Popped == SubSeq(pending, 1, Len(pending) - 1)

\* The next name, whatever became of this one.
NextNames(n, item) == listing \ {n}

\* unsettled_files += what a share withheld, one file at a time.
CountUnsettled(n) == unsettled + n

Has(id) == \E e \in entries : e.id = id

-------------------------------------------------------------------------------
Init ==
  /\ disk \in Disks /\ locked \in Locks
  /\ rootOf \in [ShareNames -> Dirs]
  /\ \A i, j \in 1 .. Len(Shares) :
       i # j => rootOf[Shares[j]] \notin Within(rootOf[Shares[i]])
  /\ fresh \in SUBSET Media
  /\ changes = 0 /\ touched = {}
  /\ opts \in Options
  /\ pc = "share" /\ share = 1 /\ base = None
  /\ pending = <<>> /\ visited = {}
  /\ here = <<>> /\ handle = None /\ listing = {} /\ remade = {}
  /\ entries = {} /\ unsettled = 0 /\ failure = "none"
  /\ before = {} /\ scans = 1

\* The root is resolved and becomes a container; the same root twice is a
\* collision.
StartShare ==
  /\ pc = "share" /\ share <= Len(Shares)
  /\ LET root == rootOf[Shares[share]] IN
     IF root = None THEN
       /\ pc' = "failed" /\ failure' = "ResolveShare"
       /\ UNCHANGED <<base, pending, visited, entries>>
     ELSE IF Has(Id("d", root, <<>>)) THEN
       /\ pc' = "failed" /\ failure' = "same root"
       /\ UNCHANGED <<base, pending, visited, entries>>
     ELSE
       /\ entries' = entries \cup {Entry(Id("d", root, <<>>), root)}
       /\ base' = root
       /\ pending' = << <<>> >> /\ visited' = {}
       /\ pc' = "walk"
       /\ UNCHANGED failure
  /\ UNCHANGED <<diskVars, opts, share, dirVars, unsettled, before, scans>>

\* A directory is taken from the stack and read, unless it cannot be, or links
\* led to it before.
ReadDir ==
  /\ pc = "walk" /\ pending # <<>>
  /\ pending' = Popped
  /\ LET path == pending[Len(pending)]
         dir == Node(base, path)
         skip == \/ dir \notin Dirs
                 \/ opts.follow /\ dir \in visited
     IN
     /\ visited' = IF opts.follow /\ dir \in Dirs
                     THEN visited \cup {dir} ELSE visited
     /\ IF skip \/ dir \in locked
          THEN UNCHANGED <<pc, dirVars>>
          ELSE /\ pc' = "read" /\ here' = path
               /\ handle' = dir /\ remade' = {}
               /\ listing' = {n \in Names :
                    disk[dir][n] # Absent /\ (n \in Hidden => opts.hidden)}
  /\ UNCHANGED <<diskVars, opts, share, base, resultVars, before, scans>>

\* One entry of the directory, inspected by its path.
Inspect(n) ==
  /\ pc = "read" /\ n \in listing
  /\ LET path == Append(here, n)
         dir == Node(base, here)
         item == IF dir \in Dirs THEN disk[dir][n] ELSE Absent
         kind == IF item.node \in Dirs THEN "d" ELSE "f"
         id == Id(kind, base, Relative(path))
         taken == /\ Seen(item)
                  /\ kind = "d" => opts.recursive
                  /\ kind = "f" => item.node \notin fresh
     IN
     /\ listing' = NextNames(n, item)
     /\ unsettled' = IF Seen(item) /\ item.node \in fresh
                       THEN CountUnsettled(1) ELSE unsettled
     /\ IF taken /\ Has(id)
          THEN /\ pc' = "failed" /\ failure' = "collision"
               /\ UNCHANGED entries
          ELSE /\ entries' = IF taken THEN entries \cup {Entry(id, item.node)}
                             ELSE entries
               /\ UNCHANGED <<pc, failure>>
     /\ pending' = IF Seen(item) /\ kind = "d" THEN Push(path) ELSE pending
  /\ UNCHANGED <<diskVars, opts, share, base, visited, here, handle, remade,
                 before, scans>>

DirDone ==
  /\ pc = "read" /\ listing = {}
  /\ pc' = "walk"
  /\ UNCHANGED <<diskVars, opts, share, base, pending, visited, dirVars,
                 resultVars, before, scans>>

ShareDone ==
  /\ pc = "walk" /\ pending = <<>>
  /\ pc' = "share" /\ share' = share + 1
  /\ UNCHANGED <<diskVars, opts, base, pending, visited, dirVars, resultVars,
                 before, scans>>

\* The children are sorted and the update ID is computed.
Finish ==
  /\ pc = "share" /\ share > Len(Shares)
  /\ pc' = "done"
  /\ UNCHANGED <<diskVars, opts, share, base, pending, visited, dirVars,
                 resultVars, before, scans>>

\* The server is started again, or the scanner wants another scan.  Only of a
\* disk at rest: each scan begins from nothing, and Init has the other disks.
ScanAgain ==
  /\ pc = "done" /\ changes = 0 /\ scans < MaxScans
  /\ scans' = scans + 1
  /\ before' = entries
  /\ pc' = "share" /\ share' = 1
  /\ entries' = {} /\ unsettled' = 0
  /\ UNCHANGED <<diskVars, opts, base, pending, visited, dirVars, failure>>

-------------------------------------------------------------------------------
(* What happens to the disk meanwhile.                                     *)

\* A name that is made in the directory while it is open may or may not be given
\* by read_dir, even if the same name was given before.
Listed(made) ==
  LET new == {n \in Names : /\ pc = "read" /\ <<handle, n>> \in made
                            /\ n \in Hidden => opts.hidden}
  IN  /\ remade' = remade \cup new
      /\ listing' \in {listing, listing \cup new}

\* Places where something changes besides the tree, and those where a name is
\* made; the new tree; what left its path.
Change(places, made, tree, gone) ==
  /\ pc \notin {"done", "failed"}
  /\ scans = 1 /\ changes < MaxChanges
  /\ changes' = changes + 1
  /\ disk' = Dangle(tree, gone)
  /\ touched' = touched \cup places \cup made \cup
       {place \in Places : What(place)' # What(place)}
  /\ Listed(made)
  /\ UNCHANGED <<opts, pc, share, base, pending, visited, here, handle,
                 resultVars, before, scans>>

RemoveItem(d, n) ==
  /\ disk[d][n] # Absent
  /\ Change({}, {}, [disk EXCEPT ![d][n] = Absent],
            IF disk[d][n].link THEN {} ELSE Carried(disk[d][n]))
  /\ UNCHANGED <<locked, rootOf, fresh>>

Move(d, n, e, m) ==
  /\ disk[d][n] # Absent /\ disk[e][m] = Absent
  /\ disk[d][n].link \/ e \notin Carried(disk[d][n])
  /\ Change({}, {<<e, m>>},
            [disk EXCEPT ![d][n] = Absent, ![e][m] = disk[d][n]],
            IF disk[d][n].link THEN {} ELSE Carried(disk[d][n]))
  /\ UNCHANGED <<locked, rootOf, fresh>>

\* A new file; its modification time is now.
Write(d, n, f) ==
  /\ disk[d][n] = Absent
  /\ \A place \in Places :
       What(place) # [node |-> f, link |-> FALSE]
  /\ fresh' = fresh \cup {f}
  /\ Change({}, {<<d, n>>}, [disk EXCEPT ![d][n] = [node |-> f, link |-> FALSE]],
            {})
  /\ UNCHANGED <<locked, rootOf>>

\* A writer goes on: the file is young again.
Rewrite(d, n) ==
  /\ disk[d][n].node \in Media \ fresh /\ ~ disk[d][n].link
  /\ fresh' = fresh \cup {disk[d][n].node}
  /\ Change({<<d, n>>}, {}, disk, {})
  /\ UNCHANGED <<locked, rootOf>>

\* A finished copy, with the modification time of the file, is renamed over it,
\* as tools for backups do.
Replace(d, n) ==
  /\ disk[d][n].node \in Media /\ ~ disk[d][n].link
  /\ Change({}, {<<d, n>>}, disk, {})
  /\ UNCHANGED <<locked, rootOf, fresh>>

\* A share's path leads elsewhere or nowhere.
Retarget(s, d) ==
  /\ rootOf[s] # d
  /\ rootOf' = [rootOf EXCEPT ![s] = d]
  /\ Change({}, {}, disk, {})
  /\ UNCHANGED <<locked, fresh>>

\* The permissions of a directory change.
Permit(d) ==
  /\ locked' = IF d \in locked THEN locked \ {d} ELSE locked \cup {d}
  /\ Change({d} \X Names, {}, disk, {})
  /\ UNCHANGED <<rootOf, fresh>>

\* Nothing was written for the settle time.
Settle ==
  /\ pc \notin {"done", "failed"}
  /\ fresh # {} /\ scans = 1 /\ changes < MaxChanges
  /\ changes' = changes + 1
  /\ fresh' = {}
  /\ touched' = touched \cup
       {place \in Places : What(place).node \in fresh}
  /\ UNCHANGED <<disk, locked, rootOf, opts, walkVars, resultVars, before,
                 scans>>

Walk ==
  \/ StartShare \/ ReadDir \/ DirDone \/ ShareDone \/ Finish
  \/ \E n \in Names : Inspect(n)

World ==
  \/ \E d \in Dirs, n \in Names :
       RemoveItem(d, n) \/ Rewrite(d, n) \/ Replace(d, n)
  \/ \E d, e \in Dirs, n, m \in Names : Move(d, n, e, m)
  \/ \E d \in Dirs, n \in Names, f \in Media : Write(d, n, f)
  \/ \E s \in ShareNames, d \in Dirs \cup {None} : Retarget(s, d)
  \/ \E d \in Dirs : Permit(d)
  \/ Settle

Next == Walk \/ ScanAgain \/ World

Spec == Init /\ [][Next]_vars

\* The walk is a loop on a thread of its own; nothing makes it wait.
FairSpec == Spec /\ WF_vars(Walk)

-------------------------------------------------------------------------------
(* Properties.                                                             *)

Entries ==
  {e \in [id: [kind: {"d", "f"}, root: Dirs, path: Seq(Names)], node: Nodes] :
     e.id.kind = "d" <=> e.node \in Dirs}

TypeOK ==
  /\ disk \in [Dirs -> [Names -> Items]]
  /\ rootOf \in [ShareNames -> Dirs \cup {None}]
  /\ locked \in SUBSET Dirs /\ fresh \in SUBSET Media
  /\ changes \in Nat /\ scans \in Nat
  /\ touched \in SUBSET Places
  /\ opts \in Options
  /\ pc \in {"share", "walk", "read", "done", "failed"}
  /\ share \in Nat \ {0} /\ base \in Dirs \cup {None}
  /\ pc \in {"walk", "read"} => base \in Dirs
  /\ pending \in Seq(Seq(Names)) /\ here \in Seq(Names)
  /\ visited \in SUBSET Dirs
  /\ handle \in Dirs \cup {None}
  /\ listing \in SUBSET Names /\ remade \in SUBSET Names
  /\ entries \subseteq Entries /\ before \subseteq Entries
  /\ unsettled \in Nat
  /\ failure \in {"none", "ResolveShare", "same root", "collision"}

Front(path) == SubSeq(path, 1, Len(path) - 1)

\* The catalog is a tree at every moment: an entry comes after the container it
\* is in, so Browse never meets a parent it does not know (catalog.rs:289-306).
ParentsFirst ==
  \A e \in entries :
    e.id.path # <<>> => Has(Id("d", e.id.root, Front(e.id.path)))

\* However links, aliases and cycles lie, and whatever is moved about while it is
\* read, a scan fails by an ID given twice (catalog.rs:290-295) only if read_dir
\* gave a name again that was made again in the directory it was reading.
NoCollision ==
  failure = "collision" =>
    \E n \in remade, kind \in {"d", "f"} : Has(Id(kind, base, Append(here, n)))

\* What a directory shows the scan.
Shown(place) ==
  /\ place[1] \notin locked
  /\ place[2] \in Hidden => opts.hidden
  /\ What(place).node # None
  /\ What(place).link => opts.follow

\* What the scan should take of what it is shown.
Offered(place) ==
  Shown(place) /\ (What(place).node \in Dirs => opts.recursive)

\* The directories of a share, by a definition without a stack or a path: those
\* in every set that has the root and what its members offer.
Closed(set) ==
  \A place \in set \X Names :
    Offered(place) /\ What(place).node \in Dirs => What(place).node \in set

InShare(root) ==
  {d \in Dirs :
     \A set \in SUBSET Dirs : root \in set /\ Closed(set) => d \in set}

\* The places of a share the catalog should list.
Expected(root) == {place \in InShare(root) \X Names : Offered(place)}

\* The entries at a place.
At(root, p) ==
  {e \in entries :
     /\ e.id.root = root /\ e.id.path # <<>>
     /\ e.id.path[Len(e.id.path)] = p[2]
     /\ Node(root, Front(e.id.path)) = p[1]}

ScannedRoots == {root \in Dirs : Has(Id("d", root, <<>>))}

\* On a disk at rest the scan lists everything its options ask for exactly once
\* per share, also where links form aliases or cycles, withholds and counts
\* what is not settled, and invents nothing (catalog.rs:193-287).
EveryPlaceOnce ==
  pc = "done" /\ changes = 0 =>
    /\ \A root \in ScannedRoots : \A p \in Expected(root) :
         LET node == What(p).node IN
         IF node \in fresh THEN At(root, p) = {}
         ELSE /\ Cardinality(At(root, p)) = 1
              /\ \A e \in At(root, p) : e.node = node
    /\ \A e \in entries : e.id.path # <<>> =>
         \E p \in Expected(e.id.root) : e \in At(e.id.root, p)

\* unsettled_files, by which the scanner decides whether to come back, counts
\* what was withheld in all shares (catalog.rs:95-103).
WithheldAreCounted ==
  pc = "done" /\ changes = 0 =>
    unsettled = Cardinality(
      {q \in ScannedRoots \X Places :
         q[2] \in Expected(q[1]) /\ What(q[2]).node \in fresh})

\* A path of a share on which nothing changed since the scan began.
UntouchedPath(root, path) ==
  \A k \in 1 .. Len(path) :
    LET d == Node(root, SubSeq(path, 1, k - 1)) IN
    d \in Dirs /\ <<d, path[k]>> \notin touched /\ Offered(<<d, path[k]>>)

\* A path without links has no more names than there are directories.
ShortPaths == UNION {[1 .. k -> Names] : k \in 0 .. Cardinality(Dirs)}

\* However the rest of the disk changes during the walk, a settled file whose
\* own path below the root is left alone is in the catalog: a scan that races
\* with a copy never drops what was there (catalog.rs:208-287).
UntouchedFilesAreFound ==
  pc = "done" /\ ~ opts.follow =>
    \A root \in ScannedRoots, path \in ShortPaths :
      LET node == Node(root, path) IN
      UntouchedPath(root, path) /\ node \in Media \ fresh =>
        Entry(Id("f", root, path), node) \in entries

\* The scan ends, although links may form cycles (catalog.rs:196-208).
ScanEnds == pc = "share" ~> pc \in {"done", "failed"}

\* Scanning an unchanged disk again gives the same catalog, hence the same
\* update IDs (docs/architecture.md:21).
UnchangedScansAgree ==
  pc = "done" /\ scans > 1 /\ changes = 0 => entries = before

\* It does as long as no links are followed, which is the default
\* (config.rs:211), in whatever order read_dir gives the names: every directory
\* then has one path, under which it is listed (catalog.rs:193-242).
LinklessScansAgree == ~ opts.follow => UnchangedScansAgree

===============================================================================

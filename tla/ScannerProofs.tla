---------------------------- MODULE ScannerProofs -----------------------------
(***************************************************************************)
(* Theorems about Scanner for any files, shares and configs, any capacity  *)
(* of the channel and any number of changes and faults.                    *)
(***************************************************************************)
EXTENDS Scanner, TLAPS

\* No config settles longer than MaxSettle (config.rs:189-191).
LEMMA LongestSettle ==
  /\ MaxSettle \in Nat \ {0}
  /\ \A c \in Configs : c.settle \in 1 .. MaxSettle /\ c.rescan \in Nat \ {0}
<1>1. MaxSettle \in {c.settle : c \in Configs} /\ \A c \in Configs : c.settle <= MaxSettle
  BY LongestAssumption DEF MaxSettle
<1>2. \A c \in Configs : c.settle \in Nat \ {0} /\ c.rescan \in Nat \ {0}
  BY ConfigsAssumption
<1>3. QED
  BY <1>1, <1>2

\* Ages grow by a tick at most, up to MaxSettle (catalog.rs:365-372).
LEMMA OlderTypes ==
  ASSUME NEW age \in Future .. MaxSettle
  PROVE  Older(age, MaxSettle) \in Future .. MaxSettle /\ Older(age, MaxSettle) <= age + 1
BY LongestSettle DEF Older, Future

\* What the world does leaves the scanner's own variables alone.
LEMMA WorldLeaves ==
  ASSUME Environment
  PROVE  UNCHANGED <<catalog, config, watched, pc, newConfig, toOpen, todo, found,
                     withheld, unread>>
BY DEF Environment, scanVars

\* The channel never holds more than its capacity (http.rs:560-563).
LEMMA SendTypes ==
  ASSUME TypeOK, NEW e \in Events, Send(e)
  PROVE  queue' \in Seq(Events) /\ Len(queue') <= QueueCap
<1>1. queue \in Seq(Events) /\ Len(queue) <= QueueCap
  BY DEF TypeOK
<1>2. Append(queue, e) \in Seq(Events) /\ Len(Append(queue, e)) = Len(queue) + 1
  BY <1>1
<1>3. Len(queue) < QueueCap => Len(queue) + 1 <= QueueCap
  BY <1>1, CapacityAssumption
<1>4. QED
  BY <1>1, <1>2, <1>3 DEF Send

\* A report is heard by the scanner or excused.
LEMMA ReportTypes ==
  ASSUME TypeOK, NEW f \in Files, Report(f)
  PROVE  /\ queue' \in Seq(Events) /\ Len(queue') <= QueueCap
         /\ excused' \in SUBSET Files
<1>1. ShareOf[f] \in Events
  BY ShareOfAssumption DEF Events
<1>2. queue' \in Seq(Events) /\ Len(queue') <= QueueCap
  BY <1>1, SendTypes DEF Report, TypeOK
<1>3. QED
  BY <1>2 DEF Report, TypeOK

-------------------------------------------------------------------------------
(* Types.                                                                  *)

TypeInv ==
  /\ TypeOK
  /\ changes \in Nat
  /\ \A f \in DOMAIN found : found[f] \in Entry

DiskTypes == [v: Nat, age: Future .. MaxSettle, writing: BOOLEAN]

\* The world keeps the types of what it changes.
LEMMA WorldTypes ==
  ASSUME TypeInv, Environment
  PROVE  TypeInv'
<1>0. TypeOK /\ changes \in Nat
  BY DEF TypeInv
<1>1. /\ disk' \in [Files -> DiskTypes]
      /\ mounted' \in SUBSET Shares
      /\ configFile' \in Configs \cup {Broken} /\ armed' \in SUBSET Shares
      /\ changes' \in Nat /\ watcher' \in {"ok", "dead", "none"}
      /\ queue' \in Seq(Events) /\ Len(queue') <= QueueCap
      /\ excused' \in SUBSET Files
      /\ settleIn' \in Never .. MaxSettle /\ fallbackIn' \in Nat
  <2> USE DEF DiskTypes
  <2>1. CASE /\ \E f \in Files :
                  \/ StartEncode(f) \/ AppendChunk(f) \/ FinishEncode(f) \/ Remove(f)
                  \/ \E age \in {Future, MaxSettle} : MoveIn(f, age)
             /\ UNCHANGED <<mounted, configFile, armed, faults, watcher, timers>>
    <3>1. PICK f \in Files :
            \/ StartEncode(f) \/ AppendChunk(f) \/ FinishEncode(f) \/ Remove(f)
            \/ \E age \in {Future, MaxSettle} : MoveIn(f, age)
      BY <2>1
    <3>2. Report(f)
      BY <3>1 DEF StartEncode, AppendChunk, FinishEncode, Remove, MoveIn
    <3>3. changes' \in Nat
      BY <1>0, <3>1 DEF StartEncode, AppendChunk, FinishEncode, Remove, MoveIn, Change
    <3>4. disk' \in [Files -> DiskTypes]
      <4>0. 0 \in Future .. MaxSettle /\ changes + 1 \in Nat
        BY <1>0, LongestSettle DEF Future
      <4>1. disk \in [Files -> DiskTypes]
        BY <1>0 DEF TypeOK
      <4>2. {Future, MaxSettle} \subseteq Future .. MaxSettle
        BY LongestSettle DEF Future
      <4>3. CASE StartEncode(f) \/ Remove(f)
        <5>1. \E d \in DiskTypes : disk' = [disk EXCEPT ![f] = d]
          BY <4>0, <4>3 DEF StartEncode, Remove, Change
        <5>2. QED
          BY <4>1, <5>1
      <4>4. CASE AppendChunk(f)
        <5>1. disk' = [disk EXCEPT ![f] = [disk[f] EXCEPT !.age = 0]]
          BY <4>4 DEF AppendChunk
        <5>2. QED
          BY <4>0, <4>1, <5>1
      <4>7. CASE FinishEncode(f)
        <5>1. disk' = [disk EXCEPT ![f] = [disk[f] EXCEPT !.age = 0, !.writing = FALSE]]
          BY <4>1, <4>7 DEF FinishEncode
        <5>2. QED
          BY <4>0, <4>1, <5>1
      <4>5. CASE \E age \in {Future, MaxSettle} : MoveIn(f, age)
        BY <4>0, <4>1, <4>2, <4>5 DEF MoveIn
      <4>6. QED
        BY <3>1, <4>3, <4>4, <4>5, <4>7
    <3>5. queue' \in Seq(Events) /\ Len(queue') <= QueueCap /\ excused' \in SUBSET Files
      BY <1>0, <3>2, ReportTypes
    <3>6. QED
      BY <1>0, <2>1, <3>3, <3>4, <3>5 DEF TypeOK, timers
  <2>2. CASE /\ \E c \in Configs \cup {Broken} : EditConfig(c)
             /\ UNCHANGED <<disk, mounted, armed, faults, watcher, timers, excused>>
    <3>1. "config" \in Events
      BY DEF Events
    <3>2. queue' \in Seq(Events) /\ Len(queue') <= QueueCap
      BY <1>0, <2>2, <3>1, SendTypes DEF EditConfig, TypeOK
    <3>3. configFile' \in Configs \cup {Broken} /\ changes' \in Nat
      BY <1>0, <2>2 DEF EditConfig, Change
    <3>4. QED
      BY <1>0, <2>2, <3>2, <3>3 DEF TypeOK, timers
  <2>3. CASE /\ \E sh \in Shares : Unmount(sh) \/ Mount(sh)
             /\ UNCHANGED <<disk, configFile, faults, watcher, queue, timers, excused>>
    <3>1. PICK sh \in Shares : Unmount(sh) \/ Mount(sh)
      BY <2>3
    <3>2. changes' \in Nat
      BY <1>0, <3>1 DEF Unmount, Mount, Change
    <3>3. mounted \in SUBSET Shares /\ armed \in SUBSET Shares
      BY <1>0 DEF TypeOK
    <3>4. mounted' \in SUBSET Shares /\ armed' \in SUBSET Shares
      BY <3>1, <3>3 DEF Unmount, Mount
    <3>5. QED
      BY <1>0, <2>3, <3>2, <3>4 DEF TypeOK, timers
  <2>4. CASE /\ Noise
             /\ UNCHANGED <<diskVars, watcher, timers, excused>>
    <3>1. "other" \in Events
      BY DEF Events
    <3>2. QED
      BY <1>0, <2>4, <3>1, SendTypes DEF Noise, TypeOK, timers, diskVars
  <2>5. CASE /\ WatchError \/ WatcherDies
             /\ UNCHANGED <<disk, mounted, configFile, armed, changes, timers, excused>>
    <3>1. "error" \in Events
      BY DEF Events
    <3>2. queue' \in Seq(Events) /\ Len(queue') <= QueueCap
      BY <1>0, <2>5, <3>1, SendTypes DEF WatchError, WatcherDies, TypeOK
    <3>3. QED
      BY <1>0, <2>5, <3>2 DEF WatchError, WatcherDies, TypeOK, timers
  <2>6. CASE /\ Tick
             /\ UNCHANGED <<mounted, configFile, armed, changes, faults, watcher, queue,
                            excused>>
    <3>1. disk' \in [Files -> DiskTypes]
      <4>1. disk \in [Files -> DiskTypes]
        BY <1>0 DEF TypeOK
      <4>2. disk' = [f \in Files |-> [disk[f] EXCEPT !.age = Older(@, MaxSettle)]]
        BY <2>6 DEF Tick
      <4>3. \A f \in Files : Older(disk[f].age, MaxSettle) \in Future .. MaxSettle
        BY <4>1, OlderTypes
      <4>4. QED
        BY <4>1, <4>2, <4>3
    <3>2. settleIn' \in Never .. MaxSettle /\ fallbackIn' \in Nat
      <4>1. settleIn \in Never .. MaxSettle /\ fallbackIn \in Nat /\ MaxSettle \in Nat
        BY <1>0, LongestSettle DEF TypeOK
      <4>2. /\ settleIn' = IF settleIn > 0 THEN settleIn - 1 ELSE settleIn
            /\ fallbackIn' = IF fallbackIn > 0 THEN fallbackIn - 1 ELSE 0
        BY <2>6 DEF Tick
      <4>3. QED
        BY <4>1, <4>2 DEF Never
    <3>3. QED
      BY <1>0, <2>6, <3>1, <3>2 DEF TypeOK
  <2>7. QED
    BY <2>1, <2>2, <2>3, <2>4, <2>5, <2>6 DEF Environment, World
<1>2. QED
  BY <1>1, WorldLeaves DEF TypeInv, TypeOK, DiskTypes

\* Watches stay watches of shares (http.rs:723-771).
LEMMA ReconcileTypes ==
  ASSUME TypeOK, NEW cfg \in Configs, Reconcile(cfg)
  PROVE  watched' \in SUBSET Shares /\ armed' \in SUBSET Shares
<1>1. Desired(cfg) \in SUBSET Shares
  BY ConfigsAssumption DEF Desired
<1>2. watched \in SUBSET Shares /\ armed \in SUBSET Shares
  BY DEF TypeOK
<1>3. QED
  BY <1>1, <1>2 DEF Reconcile

\* The deadlines after a rescan (http.rs:609-614).
LEMMA DeadlineTypes ==
  ASSUME NEW cfg \in Configs, NEW W
  PROVE  SettleAfter(W, cfg) \in Never .. MaxSettle /\ cfg.rescan \in Nat
BY LongestSettle DEF SettleAfter, Never

\* A scan begins and ends with nothing in its hands.
LEMMA EmptyTypes ==
  DOMAIN EmptyScan = {}
BY DEF EmptyScan

\* A rejected scan leaves well-typed timers.
LEMMA RejectTypes ==
  ASSUME TypeInv, RejectScan
  PROVE  /\ pc' \in {"select", "exit"}
         /\ settleIn' \in Never .. MaxSettle /\ fallbackIn' \in Nat
         /\ newConfig' \in Configs /\ toOpen' = {} /\ todo' = {} /\ DOMAIN found' = {}
         /\ withheld' = {} /\ unread' = {} /\ excused' = Files
         /\ UNCHANGED faults
<1>1. config \in Configs
  BY DEF TypeInv, TypeOK
<1>2. settleIn' = Never /\ fallbackIn' = config.rescan
  BY DEF RejectScan
<1>3. Never \in Never .. MaxSettle /\ config.rescan \in Nat
  BY <1>1, LongestSettle DEF Never
<1>4. /\ newConfig' = config /\ toOpen' = {} /\ todo' = {} /\ DOMAIN found' = {}
      /\ withheld' = {} /\ unread' = {}
  BY EmptyTypes DEF RejectScan, EndScan
<1>5. pc' \in {"select", "exit"} /\ excused' = Files /\ UNCHANGED faults
  BY DEF RejectScan
<1>6. QED
  BY <1>1, <1>2, <1>3, <1>4, <1>5

\* One step of the walk keeps its types (catalog.rs:159-304).
LEMMA ScanTypes ==
  ASSUME TypeInv, ScanStep
  PROVE  TypeInv'
<1>0. TypeOK /\ changes \in Nat /\ \A f \in DOMAIN found : found[f] \in Entry
  BY DEF TypeInv
<1>1. UNCHANGED <<disk, mounted, configFile, armed, changes, catalog, config, watcher,
                  watched, queue>>
  BY DEF ScanStep, watchVars
<1>2. ASSUME NEW sh \in Shares, OpenShare(sh) PROVE TypeInv'
  <2>1. toOpen' \in SUBSET Shares /\ todo' \in SUBSET Files
    BY <1>0, <1>2 DEF OpenShare, TypeOK, FilesOf
  <2>2. UNCHANGED <<pc, newConfig, found, withheld, unread, excused, timers>>
    BY <1>2 DEF OpenShare
  <2>3. QED
    BY <1>0, <1>1, <2>1, <2>2 DEF TypeInv, TypeOK, timers
<1>3. ASSUME NEW sh \in Shares, RootMissing(sh) PROVE TypeInv'
  <2>1. RejectScan
    BY <1>3 DEF RootMissing
  <2>2. QED
    BY <1>0, <1>1, <2>1, RejectTypes DEF TypeInv, TypeOK
<1>4. ASSUME NEW f \in Files, ScanFile(f) PROVE TypeInv'
  <2>1. todo' \in SUBSET Files /\ UNCHANGED <<pc, newConfig, toOpen, timers>>
    BY <1>0, <1>4 DEF ScanFile, TypeOK
  <2>2. /\ DOMAIN found' \in SUBSET Files /\ withheld' \in SUBSET Files
        /\ \A g \in DOMAIN found' : found'[g] \in Entry
    <3>0. CASE UNCHANGED <<found, withheld>>
      BY <1>0, <3>0 DEF TypeOK
    <3>1. CASE withheld' = withheld \cup {f} /\ UNCHANGED found
      BY <1>0, <3>1 DEF TypeOK
    <3>2. CASE /\ disk[f].v # 0 /\ UNCHANGED withheld
               /\ found' = [g \in DOMAIN found \cup {f} |->
                             IF g = f THEN [v |-> disk[f].v, whole |-> ~ disk[f].writing]
                                      ELSE found[g]]
      <4>1. disk[f].v \in Nat \ {0}
        BY <1>0, <3>2 DEF TypeOK
      <4>2. [v |-> disk[f].v, whole |-> ~ disk[f].writing] \in Entry
        BY <4>1 DEF Entry
      <4>3. DOMAIN found' = DOMAIN found \cup {f}
        BY <3>2
      <4>4. \A g \in DOMAIN found' : found'[g] \in Entry
        BY <1>0, <3>2, <4>2
      <4>5. QED
        BY <1>0, <3>2, <4>3, <4>4 DEF TypeOK
    <3>3. QED
      BY <1>4, <3>0, <3>1, <3>2 DEF ScanFile, ReadFile, SkipUnreadable, PassAbsent
  <2>3. unread' \in SUBSET Files /\ excused' \in SUBSET Files
    BY <1>0, <1>4 DEF ScanFile, ReadFile, SkipUnreadable, PassAbsent, TypeOK
  <2>4. QED
    BY <1>0, <1>1, <2>1, <2>2, <2>3 DEF TypeInv, TypeOK, timers
<1>5. QED
  BY <1>2, <1>3, <1>4 DEF ScanStep

\* The other steps of serve and run_scanner.
LEMMA RunTypes ==
  ASSUME TypeInv,
         FirstCatalog \/ Boot \/ Load \/ Publish \/ Notify \/ Install
           \/ Receive \/ ReceiveNone \/ StartRescan
  PROVE  TypeInv'
<1>0. TypeOK /\ changes \in Nat /\ \A f \in DOMAIN found : found[f] \in Entry
  BY DEF TypeInv
<1>1. CASE FirstCatalog \/ Publish
  <2>1. Scanned.shares \in SUBSET Shares /\ Scanned.files = found
    BY <1>0, ConfigsAssumption DEF Scanned, TypeOK
  <2>2. catalog' = Scanned /\ pc' \in {"boot", "install", "notify"}
    BY <1>1 DEF FirstCatalog, Publish, AfterScan
  <2>3. UNCHANGED <<diskVars, config, watchVars, queue, timers, scanVars, excused>>
    BY <1>1 DEF FirstCatalog, Publish
  <2>4. QED
    BY <1>0, <2>1, <2>2, <2>3 DEF TypeInv, TypeOK, diskVars, watchVars, timers, scanVars
<1>2. CASE Boot
  <2>1. watched' \in SUBSET Shares /\ armed' \in SUBSET Shares /\ config \in Configs
        /\ watcher' \in {"ok", "dead", "none"}
    BY <1>0, <1>2, ReconcileTypes DEF Boot, TypeOK, watchVars
  <2>2. settleIn' \in Never .. MaxSettle /\ fallbackIn' \in Nat /\ pc' = "select"
    BY <1>2, <2>1, DeadlineTypes DEF Boot
  <2>3. /\ newConfig' = config /\ toOpen' = {} /\ todo' = {} /\ DOMAIN found' = {}
        /\ withheld' = {} /\ unread' = {}
    BY <1>2, EmptyTypes DEF Boot, EndScan
  <2>4. UNCHANGED <<disk, mounted, configFile, changes, catalog, config, queue, excused>>
    BY <1>2 DEF Boot
  <2>5. QED
    BY <1>0, <2>1, <2>2, <2>3, <2>4 DEF TypeInv, TypeOK
<1>3. CASE Load
  <2>1. UNCHANGED <<disk, mounted, configFile, armed, changes, catalog, config, watcher,
                    watched, queue>>
    BY <1>3 DEF Load, watchVars
  <2>2. CASE RejectScan
    BY <1>0, <2>1, <2>2, RejectTypes DEF TypeInv, TypeOK
  <2>3. CASE /\ Loads(configFile) /\ BeginScan(configFile) /\ pc' = "scan"
             /\ UNCHANGED <<faults, timers, excused>>
    <3>1. configFile \in Configs /\ configFile.shares \in SUBSET Shares
      BY <2>3, ConfigsAssumption DEF Loads
    <3>2. /\ newConfig' \in Configs /\ toOpen' \in SUBSET Shares /\ todo' = {}
          /\ DOMAIN found' = {} /\ withheld' = {} /\ unread' = {}
      BY <2>3, <3>1, EmptyTypes DEF BeginScan
    <3>3. QED
      BY <1>0, <2>1, <2>3, <3>2 DEF TypeInv, TypeOK, timers
  <2>4. QED
    BY <1>3, <2>2, <2>3 DEF Load
<1>4. CASE Notify \/ StartRescan
  BY <1>0, <1>4
     DEF Notify, StartRescan, TypeInv, TypeOK, diskVars, watchVars, timers, scanVars
<1>5. CASE Install
  <2>1. newConfig \in Configs
    BY <1>0 DEF TypeOK
  <2>2. watched' \in SUBSET Shares /\ armed' \in SUBSET Shares
    BY <1>0, <1>5, <2>1, ReconcileTypes DEF Install, TypeOK
  <2>3. settleIn' \in Never .. MaxSettle /\ fallbackIn' \in Nat /\ pc' = "select"
    BY <1>5, <2>1, DeadlineTypes DEF Install
  <2>4. /\ newConfig' = newConfig /\ config' = newConfig /\ toOpen' = {} /\ todo' = {}
        /\ DOMAIN found' = {} /\ withheld' = {} /\ unread' = {}
    BY <1>5, EmptyTypes DEF Install, EndScan
  <2>5. excused' \in SUBSET Files
    BY <1>0, <1>5 DEF Install, TypeOK, FilesOf
  <2>6. UNCHANGED <<disk, mounted, configFile, changes, catalog, watcher, queue>>
    BY <1>5 DEF Install
  <2>7. QED
    BY <1>0, <2>1, <2>2, <2>3, <2>4, <2>5, <2>6 DEF TypeInv, TypeOK
<1>6. CASE Receive
  <2>1. queue \in Seq(Events) /\ queue # <<>> /\ Len(queue) <= QueueCap
    BY <1>0, <1>6 DEF Receive, TypeOK
  <2>2. queue' \in Seq(Events) /\ Len(queue') <= QueueCap
    BY <1>6, <2>1, CapacityAssumption DEF Receive
  <2>3. settleIn' \in Never .. MaxSettle
    BY <1>0, <1>6, LongestSettle DEF Receive, TypeOK, Never
  <2>4. UNCHANGED <<diskVars, catalog, config, watchVars, fallbackIn, pc, scanVars, excused>>
    BY <1>6 DEF Receive
  <2>5. QED
    BY <1>0, <2>2, <2>3, <2>4 DEF TypeInv, TypeOK, diskVars, watchVars, scanVars
<1>7. CASE ReceiveNone
  BY <1>0, <1>7 DEF ReceiveNone, TypeInv, TypeOK, diskVars, timers, scanVars
<1>8. QED
  BY <1>1, <1>2, <1>3, <1>4, <1>5, <1>6, <1>7

\* Every step keeps the types.
LEMMA TypesKept == Spec => []TypeInv
<1>1. Init => TypeInv
  <2> SUFFICES ASSUME Init PROVE TypeInv
    OBVIOUS
  <2>1. config \in Configs /\ config.shares \in SUBSET Shares
    BY ConfigsAssumption DEF Init
  <2>2. disk \in [Files -> DiskTypes]
    <3>1. [v |-> 0, age |-> 0, writing |-> FALSE] \in DiskTypes
      BY LongestSettle DEF DiskTypes, Future
    <3>2. disk \in [Files -> {[v |-> 0, age |-> 0, writing |-> FALSE]}]
      BY DEF Init
    <3>3. QED
      BY <3>1, <3>2
  <2>3. settleIn \in Never .. MaxSettle /\ fallbackIn \in Nat
    <3>1. settleIn = Never /\ fallbackIn = config.rescan
      BY DEF Init
    <3>2. QED
      BY <2>1, <3>1, LongestSettle DEF Never
  <2>4. queue \in Seq(Events) /\ Len(queue) <= QueueCap
    <3>1. queue = <<>>
      BY DEF Init
    <3>2. QED
      BY <3>1, CapacityAssumption
  <2>5. catalog.shares = {} /\ DOMAIN catalog.files = {} /\ DOMAIN found = {}
    BY EmptyTypes DEF Init
  <2>6. QED
    BY <2>1, <2>2, <2>3, <2>4, <2>5 DEF Init, TypeInv, TypeOK, DiskTypes
<1>2. TypeInv /\ [Next]_vars => TypeInv'
  <2> SUFFICES ASSUME TypeInv, [Next]_vars PROVE TypeInv'
    OBVIOUS
  <2>1. CASE UNCHANGED vars
    BY <2>1 DEF vars, TypeInv, TypeOK, diskVars, watchVars, timers, scanVars
  <2>2. QED
    BY <2>1, WorldTypes, ScanTypes, RunTypes DEF Next, ScannerStep
<1>3. QED
  BY <1>1, <1>2, PTL DEF Spec

\* Whatever the disk, the watcher and the config file do, the scanner's variables
\* keep their types and the channel its capacity (http.rs:552-721).
THEOREM TypeCorrect == Spec => []TypeOK
<1>1. TypeInv => TypeOK
  BY DEF TypeInv
<1>2. QED
  BY <1>1, TypesKept, PTL

-------------------------------------------------------------------------------
(* The catalog and its config.                                             *)

\* What reading a file changes (catalog.rs:243-283).
LEMMA ReadsOne ==
  ASSUME NEW f \in Files, ScanFile(f)
  PROVE  /\ Scanning /\ f \in todo /\ todo' = todo \ {f}
         /\ UNCHANGED <<pc, newConfig, toOpen, settleIn, fallbackIn>>
         /\ \/ UNCHANGED found
            \/ /\ disk[f].v # 0 /\ Settled(f, newConfig)
               /\ found' = [g \in DOMAIN found \cup {f} |->
                             IF g = f THEN [v |-> disk[f].v, whole |-> ~ disk[f].writing]
                                      ELSE found[g]]
BY DEF ScanFile, ReadFile, SkipUnreadable, PassAbsent, timers

\* A rejected scan forgets what it had and stays with the config in use.
LEMMA RejectForgets ==
  ASSUME RejectScan
  PROVE  /\ pc' = IF pc = "boot scan" THEN "exit" ELSE "select"
         /\ newConfig' = config /\ toOpen' = {} /\ todo' = {} /\ DOMAIN found' = {}
         /\ excused' = Files /\ settleIn' = Never
BY EmptyTypes DEF RejectScan, EndScan

Matches(cfg) ==
  catalog.shares = cfg.shares /\ DOMAIN catalog.files \subseteq FilesOf(cfg.shares)

ScanInConfig ==
  /\ pc \in {"boot scan", "boot", "select", "load"} => newConfig = config
  /\ toOpen \subseteq newConfig.shares
  /\ todo \subseteq FilesOf(newConfig.shares)
  /\ DOMAIN found \subseteq FilesOf(newConfig.shares)

MatchInv ==
  /\ ScanInConfig
  /\ pc \in {"select", "load", "scan"} => Matches(config)
  /\ pc \in {"boot", "notify", "install"} => Matches(newConfig)

\* The steps of a walk stay within the shares of its config.
LEMMA ScanMatches ==
  ASSUME TypeInv, MatchInv, ScanStep
  PROVE  MatchInv'
<1>0. UNCHANGED <<catalog, config>>
  BY DEF ScanStep
<1>1. ASSUME NEW sh \in Shares, OpenShare(sh) PROVE MatchInv'
  <2>1. UNCHANGED <<pc, newConfig, found>> /\ sh \in toOpen /\ toOpen' = toOpen \ {sh}
        /\ todo' = FilesOf({sh})
    BY <1>1 DEF OpenShare
  <2>2. FilesOf({sh}) \subseteq FilesOf(newConfig.shares)
    BY <2>1 DEF MatchInv, ScanInConfig, FilesOf
  <2>3. QED
    BY <1>0, <2>1, <2>2 DEF MatchInv, ScanInConfig, Matches, FilesOf
<1>2. ASSUME NEW sh \in Shares, RootMissing(sh) PROVE MatchInv'
  <2>1. RejectScan /\ pc \in {"boot scan", "scan"}
    BY <1>2 DEF RootMissing, Scanning
  <2>2. QED
    BY <1>0, <2>1, RejectForgets DEF MatchInv, ScanInConfig, Matches, FilesOf
<1>3. ASSUME NEW f \in Files, ScanFile(f) PROVE MatchInv'
  <2>1. UNCHANGED <<pc, newConfig, toOpen>> /\ f \in todo /\ todo' = todo \ {f}
    BY <1>3, ReadsOne
  <2>2. DOMAIN found' \subseteq DOMAIN found \cup {f}
    BY <1>3, ReadsOne
  <2>3. QED
    BY <1>0, <2>1, <2>2 DEF MatchInv, ScanInConfig, Matches, FilesOf
<1>4. QED
  BY <1>1, <1>2, <1>3 DEF ScanStep

\* The catalog is published, and its config installed, together with nothing but
\* the announcement in between.
LEMMA RunMatches ==
  ASSUME TypeInv, MatchInv,
         FirstCatalog \/ Boot \/ Load \/ Publish \/ Notify \/ Install
           \/ Receive \/ ReceiveNone \/ StartRescan
  PROVE  MatchInv'
<1> USE DEF MatchInv, ScanInConfig, Matches, FilesOf
<1>1. CASE FirstCatalog \/ Publish
  <2>1. /\ catalog' = Scanned /\ UNCHANGED <<config, newConfig, toOpen, todo, found>>
        /\ \/ pc = "boot scan" /\ pc' = "boot"
           \/ pc = "scan" /\ pc' \in {"install", "notify"}
    BY <1>1 DEF FirstCatalog, Publish, AfterScan, scanVars
  <2>2. Scanned.shares = newConfig.shares /\ Scanned.files = found
    BY DEF Scanned
  <2>3. QED
    BY <2>1, <2>2
<1>2. CASE Boot \/ Install
  <2>1. /\ pc' = "select" /\ UNCHANGED catalog /\ config' = newConfig'
        /\ toOpen' = {} /\ todo' = {} /\ DOMAIN found' = {} /\ newConfig' = newConfig
    BY <1>2, EmptyTypes DEF Boot, Install, EndScan
  <2>2. pc \in {"boot", "install"}
    BY <1>2 DEF Boot, Install
  <2>3. QED
    BY <2>1, <2>2
<1>3. CASE Load
  <2>1. pc = "load" /\ UNCHANGED <<catalog, config>>
    BY <1>3 DEF Load
  <2>2. CASE RejectScan
    BY <2>1, <2>2, RejectForgets
  <2>3. CASE pc' = "scan" /\ BeginScan(configFile)
    BY <2>1, <2>3, EmptyTypes DEF BeginScan
  <2>4. QED
    BY <1>3, <2>2, <2>3 DEF Load
<1>4. CASE Notify \/ StartRescan
  BY <1>4 DEF Notify, StartRescan, scanVars
<1>5. CASE Receive \/ ReceiveNone
  BY <1>5 DEF Receive, ReceiveNone, scanVars
<1>6. QED
  BY <1>1, <1>2, <1>3, <1>4, <1>5

\* Every step keeps the catalog and the config together.
LEMMA MatchKept == Spec => []MatchInv
<1>1. Init => MatchInv
  BY EmptyTypes DEF Init, MatchInv, ScanInConfig, Matches, FilesOf
<1>2. TypeInv /\ MatchInv /\ [Next]_vars => MatchInv'
  <2> SUFFICES ASSUME TypeInv, MatchInv, [Next]_vars PROVE MatchInv'
    OBVIOUS
  <2>1. CASE Environment
    BY <2>1, WorldLeaves DEF MatchInv, ScanInConfig, Matches, FilesOf
  <2>2. CASE UNCHANGED vars
    BY <2>2 DEF vars, scanVars, MatchInv, ScanInConfig, Matches, FilesOf
  <2>3. QED
    BY <2>1, <2>2, ScanMatches, RunMatches DEF Next, ScannerStep
<1>3. QED
  BY <1>1, <1>2, TypesKept, PTL DEF Spec

\* The catalog clients read has the shares of the installed config, and no file
\* of another share, whenever the scanner is not between the write of the one and
\* the write of the other (http.rs:706-709).
THEOREM CatalogFitsConfig == Spec => []SnapshotMatchesConfig
<1>1. TypeInv /\ MatchInv => SnapshotMatchesConfig
  BY DEF TypeInv, TypeOK, MatchInv, ScanInConfig, Matches, SnapshotMatchesConfig
<1>2. QED
  BY <1>1, TypesKept, MatchKept, PTL

-------------------------------------------------------------------------------
(* Encodes.                                                                *)

\* A writer at work never pauses longer than EncodeGap.
WritersAtWork == \A f \in Files : disk[f].writing => disk[f].age <= EncodeGap

WholeOnly(files) == \A f \in DOMAIN files : files[f].whole

EncodeInv == WritersAtWork /\ WholeOnly(found) /\ WholeOnly(catalog.files)

\* The world's writers keep to it.
LEMMA WritersKeepOn ==
  ASSUME TypeInv, WritersAtWork, Environment
  PROVE  WritersAtWork'
<1>0. disk \in [Files -> DiskTypes] /\ EncodeGap \in Nat
  BY GapAssumption DEF TypeInv, TypeOK, DiskTypes
<1>1. ASSUME NEW f \in Files,
             \/ StartEncode(f) \/ AppendChunk(f) \/ FinishEncode(f) \/ Remove(f)
             \/ \E age \in {Future, MaxSettle} : MoveIn(f, age)
      PROVE  WritersAtWork'
  <2>1. \A g \in Files : g # f => disk'[g] = disk[g]
    BY <1>0, <1>1 DEF StartEncode, AppendChunk, FinishEncode, Remove, MoveIn
  <2>2. disk'[f].age = 0 \/ ~ disk'[f].writing
    <3>1. CASE StartEncode(f) \/ Remove(f)
      BY <1>0, <3>1 DEF StartEncode, Remove
    <3>2. CASE AppendChunk(f) \/ FinishEncode(f)
      <4>1. \/ disk' = [disk EXCEPT ![f] = [disk[f] EXCEPT !.age = 0]]
            \/ disk' = [disk EXCEPT ![f] = [disk[f] EXCEPT !.age = 0, !.writing = FALSE]]
        BY <1>0, <3>2 DEF AppendChunk, FinishEncode
      <4>2. disk[f] \in DiskTypes
        BY <1>0
      <4>3. QED
        BY <1>0, <4>1, <4>2 DEF DiskTypes
    <3>3. CASE \E age \in {Future, MaxSettle} : MoveIn(f, age)
      <4>1. PICK age : disk' = [disk EXCEPT ![f] = [v |-> changes + 1, age |-> age,
                                                    writing |-> FALSE]]
        BY <3>3 DEF MoveIn
      <4>2. QED
        BY <1>0, <4>1
    <3>4. QED
      BY <1>1, <3>1, <3>2, <3>3
  <2>3. disk'[f].writing => disk'[f].age <= EncodeGap
    BY <1>0, <2>2
  <2>4. QED
    BY <2>1, <2>3 DEF WritersAtWork
<1>2. CASE Tick
  <2> SUFFICES ASSUME NEW f \in Files, disk'[f].writing PROVE disk'[f].age <= EncodeGap
    BY DEF WritersAtWork
  <2>1. disk'[f] = [disk[f] EXCEPT !.age = Older(@, MaxSettle)]
    BY <1>2 DEF Tick
  <2>2. disk[f].age \in Future .. MaxSettle /\ disk'[f].age = Older(disk[f].age, MaxSettle)
        /\ disk'[f].writing = disk[f].writing
    BY <1>0, <2>1 DEF DiskTypes
  <2>3. disk[f].age < EncodeGap
    BY <1>2, <2>2 DEF Tick
  <2>4. /\ disk'[f].age <= disk[f].age + 1
        /\ disk[f].age \in Int /\ disk'[f].age \in Int
    BY <2>2, OlderTypes, LongestSettle DEF Future
  <2>5. QED
    BY <1>0, <2>3, <2>4
<1>3. CASE UNCHANGED disk
  BY <1>3 DEF WritersAtWork
<1>4. QED
  BY <1>1, <1>2, <1>3 DEF Environment, World, diskVars

\* The walk takes only files that no writer is at work on (catalog.rs:264-267).
LEMMA ReadsWhole ==
  ASSUME TypeInv, EncodeInv, NEW f \in Files, ScanFile(f)
  PROVE  WholeOnly(found')
<1>1. CASE UNCHANGED found
  BY <1>1 DEF EncodeInv, WholeOnly
<1>2. CASE /\ disk[f].v # 0 /\ Settled(f, newConfig)
           /\ found' = [g \in DOMAIN found \cup {f} |->
                         IF g = f THEN [v |-> disk[f].v, whole |-> ~ disk[f].writing]
                                  ELSE found[g]]
  <2>1. disk[f].age \in Int /\ disk[f].writing \in BOOLEAN
    <3>1. disk[f] \in DiskTypes
      BY DEF TypeInv, TypeOK, DiskTypes
    <3>2. QED
      BY <3>1, LongestSettle DEF DiskTypes, Future
  <2>2. newConfig.settle \in Nat /\ EncodeGap \in Nat /\ EncodeGap < newConfig.settle
    <3>1. newConfig \in Configs
      BY DEF TypeInv, TypeOK
    <3>2. QED
      BY <3>1, LongestSettle, GapAssumption
  <2>3. ~ disk[f].writing
    BY <1>2, <2>1, <2>2 DEF Settled, EncodeInv, WritersAtWork
  <2>4. \A g \in DOMAIN found' : found'[g].whole
    BY <1>2, <2>3 DEF EncodeInv, WholeOnly
  <2>5. QED
    BY <2>4 DEF WholeOnly
<1>3. QED
  BY <1>1, <1>2, ReadsOne

\* No client ever reads a catalog with a file that was in the middle of an encode,
\* whatever made the scanner scan and whichever config it scanned with
\* (catalog.rs:264, 365-372).
THEOREM NoEncodeIsPublished == Spec => []NoPartialEncode
<1>1. Init => EncodeInv
  <2> SUFFICES ASSUME Init PROVE EncodeInv
    OBVIOUS
  <2>1. \A f \in Files : ~ disk[f].writing
    <3>1. disk \in [Files -> {[v |-> 0, age |-> 0, writing |-> FALSE]}]
      BY DEF Init
    <3>2. QED
      BY <3>1
  <2>2. QED
    BY <2>1, EmptyTypes DEF Init, EncodeInv, WritersAtWork, WholeOnly
<1>2. TypeInv /\ EncodeInv /\ [Next]_vars => EncodeInv'
  <2> SUFFICES ASSUME TypeInv, EncodeInv, [Next]_vars PROVE EncodeInv'
    OBVIOUS
  <2>1. CASE Environment
    BY <2>1, WorldLeaves, WritersKeepOn DEF EncodeInv, WholeOnly
  <2>2. CASE ScanStep
    <3>1. UNCHANGED <<disk, catalog>>
      BY <2>2 DEF ScanStep
    <3>2. WholeOnly(found')
      <4>1. ASSUME NEW sh \in Shares, OpenShare(sh) PROVE UNCHANGED found
        BY <4>1 DEF OpenShare
      <4>2. ASSUME NEW sh \in Shares, RootMissing(sh) PROVE DOMAIN found' = {}
        BY <4>2, RejectForgets DEF RootMissing
      <4>3. QED
        BY <2>2, <4>1, <4>2, ReadsWhole DEF ScanStep, EncodeInv, WholeOnly
    <3>3. QED
      BY <3>1, <3>2 DEF EncodeInv, WritersAtWork, WholeOnly
  <2>3. CASE FirstCatalog \/ Publish
    <3>1. catalog' = Scanned /\ UNCHANGED <<disk, found>>
      BY <2>3 DEF FirstCatalog, Publish, diskVars, scanVars
    <3>2. catalog'.files = found
      BY <3>1 DEF Scanned
    <3>3. QED
      BY <3>1, <3>2 DEF EncodeInv, WritersAtWork, WholeOnly
  <2>4. CASE Boot \/ Load \/ Install
    <3>1. UNCHANGED <<disk, catalog>>
      BY <2>4 DEF Boot, Load, Install
    <3>2. DOMAIN found' = {}
      BY <2>4, EmptyTypes, RejectForgets DEF Boot, Load, Install, EndScan, BeginScan
    <3>3. QED
      BY <3>1, <3>2 DEF EncodeInv, WritersAtWork, WholeOnly
  <2>5. CASE UNCHANGED <<disk, catalog, found>>
    BY <2>5 DEF EncodeInv, WritersAtWork, WholeOnly
  <2>6. QED
    <3>1. Notify \/ StartRescan \/ Receive \/ ReceiveNone \/ UNCHANGED vars
            => UNCHANGED <<disk, catalog, found>>
      BY DEF Notify, StartRescan, Receive, ReceiveNone, vars, diskVars, scanVars
    <3>2. QED
      BY <2>1, <2>2, <2>3, <2>4, <2>5, <3>1 DEF Next, ScannerStep
<1>3. EncodeInv => NoPartialEncode
  BY DEF EncodeInv, WholeOnly, NoPartialEncode
<1>4. QED
  BY <1>1, <1>2, <1>3, TypesKept, PTL DEF Spec

-------------------------------------------------------------------------------
(* Changes.                                                                *)

Version(files, f) == IF f \in DOMAIN files THEN files[f].v ELSE 0

\* The queue has an event of f's share that will count when it is received.
Queued(f) ==
  ShareOf[f] \in watched /\ \E i \in 1 .. Len(queue) : queue[i] = ShareOf[f]

Accounted(f) == f \in excused \/ Queued(f)

\* Watches are kept in watched_shares, and a walk meets each file once.
WalkOrder ==
  /\ armed \subseteq watched
  /\ pc \in {"boot scan", "boot"} => watched = {}
  /\ \A f \in DOMAIN found : f \notin todo /\ ShareOf[f] \notin toOpen
  /\ \A f \in todo : ShareOf[f] \notin toOpen

ScanCovers ==
  Scanning => \A f \in FilesOf(newConfig.shares) :
    \/ ShareOf[f] \in toOpen \/ f \in todo \/ f \in withheld
    \/ Accounted(f) \/ Version(found, f) = disk[f].v

ResultCovers ==
  pc \in {"boot", "notify", "install"} => \A f \in FilesOf(newConfig.shares) :
    f \in withheld \/ Accounted(f) \/ Version(catalog.files, f) = disk[f].v

WaitCovers ==
  pc = "select" => \A f \in FilesOf(config.shares) :
    settleIn # Never \/ Accounted(f) \/ Version(catalog.files, f) = disk[f].v

NoticeInv == WalkOrder /\ ScanCovers /\ ResultCovers /\ WaitCovers

\* try_send leaves what is in the channel, and appends if there is room.
LEMMA SendKeeps ==
  ASSUME TypeInv, NEW e \in Events, Send(e)
  PROVE  /\ \A x : (\E i \in 1 .. Len(queue) : queue[i] = x)
                     => \E i \in 1 .. Len(queue') : queue'[i] = x
         /\ Len(queue) < QueueCap => \E i \in 1 .. Len(queue') : queue'[i] = e
<1>1. queue \in Seq(Events)
  BY DEF TypeInv, TypeOK
<1>2. CASE Len(queue) < QueueCap
  <2>1. queue' = Append(queue, e)
    BY <1>2 DEF Send
  <2>2. /\ Len(queue') = Len(queue) + 1 /\ queue'[Len(queue) + 1] = e
        /\ \A i \in 1 .. Len(queue) : queue'[i] = queue[i]
    BY <1>1, <2>1
  <2>3. Len(queue) \in Nat
    BY <1>1
  <2>4. 1 .. Len(queue) \subseteq 1 .. Len(queue') /\ Len(queue) + 1 \in 1 .. Len(queue')
    BY <2>2, <2>3
  <2>5. QED
    BY <2>2, <2>4
<1>3. CASE ~ (Len(queue) < QueueCap)
  BY <1>3 DEF Send
<1>4. QED
  BY <1>2, <1>3

\* After a report the file is accounted for, and so is what was before.
LEMMA ReportAccounts ==
  ASSUME TypeInv, armed \subseteq watched, UNCHANGED watched, NEW g \in Files, Report(g)
  PROVE  Accounted(g)' /\ \A f \in Files : Accounted(f) => Accounted(f)'
<1>1. ShareOf[g] \in Events
  BY ShareOfAssumption DEF Events
<1>2. CASE watcher = "ok" /\ ShareOf[g] \in armed /\ Len(queue) < QueueCap
  BY <1>1, <1>2, SendKeeps DEF Report, Accounted, Queued
<1>3. CASE ~ (watcher = "ok" /\ ShareOf[g] \in armed /\ Len(queue) < QueueCap)
  BY <1>3 DEF Report, Accounted, Queued
<1>4. QED
  BY <1>2, <1>3

\* Whatever the world does to a file, it stays as it was or is accounted for.
LEMMA WorldAccounts ==
  ASSUME TypeInv, armed \subseteq watched, Environment
  PROVE  /\ armed' \subseteq watched'
         /\ \A f \in Files : /\ Accounted(f) => Accounted(f)'
                             /\ disk'[f].v = disk[f].v \/ Accounted(f)'
         /\ settleIn # Never => settleIn' # Never
<1>0. UNCHANGED watched /\ disk \in [Files -> DiskTypes] /\ settleIn \in Int
  <2>1. settleIn \in Never .. MaxSettle /\ disk \in [Files -> DiskTypes]
    BY DEF TypeInv, TypeOK, DiskTypes
  <2>2. QED
    BY <2>1, WorldLeaves, LongestSettle DEF Never
<1>1. ASSUME UNCHANGED <<armed, settleIn>>, NEW g \in Files,
             \/ StartEncode(g) \/ AppendChunk(g) \/ FinishEncode(g) \/ Remove(g)
             \/ \E age \in {Future, MaxSettle} : MoveIn(g, age)
      PROVE  \A f \in Files : /\ Accounted(f) => Accounted(f)'
                              /\ disk'[f].v = disk[f].v \/ Accounted(f)'
  <2>1. Report(g)
    BY <1>1 DEF StartEncode, AppendChunk, FinishEncode, Remove, MoveIn
  <2>2. \A f \in Files : f # g => disk'[f] = disk[f]
    BY <1>0, <1>1 DEF StartEncode, AppendChunk, FinishEncode, Remove, MoveIn
  <2>3. QED
    BY <1>0, <2>1, <2>2, ReportAccounts
<1>2. ASSUME UNCHANGED <<excused, disk>>, NEW e \in Events, Send(e)
      PROVE  \A f \in Files : Accounted(f) => Accounted(f)'
  BY <1>0, <1>2, SendKeeps DEF Accounted, Queued
<1>3. ASSUME UNCHANGED <<excused, queue>>
      PROVE  \A f \in Files : Accounted(f) => Accounted(f)'
  BY <1>0, <1>3 DEF Accounted, Queued
<1>4. "config" \in Events /\ "other" \in Events /\ "error" \in Events
  BY DEF Events
<1>5. CASE /\ \E f \in Files :
                \/ StartEncode(f) \/ AppendChunk(f) \/ FinishEncode(f) \/ Remove(f)
                \/ \E age \in {Future, MaxSettle} : MoveIn(f, age)
           /\ UNCHANGED <<mounted, configFile, armed, faults, watcher, timers>>
  BY <1>0, <1>1, <1>5 DEF timers
<1>6. CASE /\ \E c \in Configs \cup {Broken} : EditConfig(c)
           /\ UNCHANGED <<disk, mounted, armed, faults, watcher, timers, excused>>
  <2>1. Send("config") \/ UNCHANGED queue
    BY <1>6 DEF EditConfig
  <2>2. QED
    BY <1>0, <1>2, <1>3, <1>4, <1>6, <2>1 DEF timers
<1>7. CASE /\ \E sh \in Shares : Unmount(sh) \/ Mount(sh)
           /\ UNCHANGED <<disk, configFile, faults, watcher, queue, timers, excused>>
  <2>1. armed' \subseteq armed
    BY <1>7 DEF Unmount, Mount
  <2>2. QED
    BY <1>0, <1>3, <1>7, <2>1 DEF timers
<1>8. CASE /\ Noise
           /\ UNCHANGED <<diskVars, watcher, timers, excused>>
  BY <1>0, <1>2, <1>4, <1>8 DEF Noise, diskVars, timers
<1>9. CASE /\ WatchError \/ WatcherDies
           /\ UNCHANGED <<disk, mounted, configFile, armed, changes, timers, excused>>
  BY <1>0, <1>2, <1>3, <1>4, <1>9 DEF WatchError, WatcherDies, timers
<1>10. CASE /\ Tick
            /\ UNCHANGED <<mounted, configFile, armed, changes, faults, watcher, queue,
                           excused>>
  <2>1. \A f \in Files : disk'[f].v = disk[f].v
    BY <1>0, <1>10 DEF Tick, DiskTypes
  <2>2. settleIn # Never => settleIn' # Never
    BY <1>0, <1>10 DEF Tick, Never
  <2>3. QED
    BY <1>0, <1>3, <1>10, <2>1, <2>2
<1>11. QED
  BY <1>5, <1>6, <1>7, <1>8, <1>9, <1>10 DEF Environment, World

\* The walk accounts for each file of its shares (catalog.rs:159-304).
LEMMA ScanAccounts ==
  ASSUME TypeInv, MatchInv, NoticeInv, ScanStep
  PROVE  NoticeInv'
<1>0. /\ UNCHANGED <<disk, armed, watched, catalog, config, queue>>
      /\ ~ (pc \in {"boot", "notify", "install", "select"})
      /\ WalkOrder /\ ScanCovers
  BY DEF ScanStep, watchVars, NoticeInv, OpenShare, RootMissing, ScanFile, Scanning
<1>1. ASSUME NEW sh \in Shares, OpenShare(sh) PROVE NoticeInv'
  <2>1. /\ UNCHANGED <<pc, newConfig, found, withheld, excused>> /\ Scanning
        /\ todo = {} /\ sh \in toOpen /\ toOpen' = toOpen \ {sh} /\ todo' = FilesOf({sh})
    BY <1>1 DEF OpenShare
  <2>2. WalkOrder'
    BY <1>0, <2>1 DEF WalkOrder, FilesOf
  <2>3. ScanCovers'
    BY <1>0, <2>1 DEF ScanCovers, Scanning, Accounted, Queued, FilesOf
  <2>4. QED
    BY <1>0, <2>1, <2>2, <2>3 DEF NoticeInv, ResultCovers, WaitCovers
<1>2. ASSUME NEW sh \in Shares, RootMissing(sh) PROVE NoticeInv'
  <2>1. RejectScan /\ pc \in {"boot scan", "scan"}
    BY <1>2 DEF RootMissing, Scanning
  <2>2. /\ pc' \in {"exit", "select"} /\ toOpen' = {} /\ todo' = {} /\ DOMAIN found' = {}
        /\ excused' = Files
    BY <2>1, RejectForgets
  <2>3. \A f \in Files : Accounted(f)'
    BY <2>2 DEF Accounted
  <2>4. WalkOrder'
    BY <1>0, <2>2 DEF WalkOrder
  <2>5. QED
    BY <2>2, <2>3, <2>4
       DEF NoticeInv, ScanCovers, ResultCovers, WaitCovers, Scanning, FilesOf
<1>3. ASSUME NEW f \in Files, ScanFile(f) PROVE NoticeInv'
  <2>1. /\ UNCHANGED <<pc, newConfig, toOpen>> /\ Scanning /\ f \in todo
        /\ todo' = todo \ {f}
    BY <1>3, ReadsOne
  <2>2. DOMAIN found' \subseteq DOMAIN found \cup {f}
    BY <1>3, ReadsOne
  <2>3. WalkOrder'
    BY <1>0, <2>1, <2>2 DEF WalkOrder
  <2>4. \A g \in Files : g # f =>
          /\ Version(found', g) = Version(found, g)
          /\ g \in withheld => g \in withheld'
          /\ Accounted(g) => Accounted(g)'
    <3>1. \A g \in Files : g # f => Version(found', g) = Version(found, g)
      BY <1>3, ReadsOne DEF Version
    <3>2. withheld \subseteq withheld' /\ excused \ {f} \subseteq excused'
      BY <1>3 DEF ScanFile, ReadFile, SkipUnreadable, PassAbsent
    <3>3. QED
      BY <1>0, <3>1, <3>2 DEF Accounted, Queued
  <2>5. f \in withheld' \/ Accounted(f)' \/ Version(found', f) = disk[f].v
    <3>1. CASE disk[f].v = 0 /\ UNCHANGED found
      BY <1>0, <2>1, <3>1 DEF WalkOrder, Version
    <3>2. CASE found' = [g \in DOMAIN found \cup {f} |->
                           IF g = f THEN [v |-> disk[f].v, whole |-> ~ disk[f].writing]
                                    ELSE found[g]]
      BY <3>2 DEF Version
    <3>3. CASE f \in withheld' \/ f \in excused'
      BY <3>3 DEF Accounted
    <3>4. QED
      BY <1>3, <3>1, <3>2, <3>3 DEF ScanFile, ReadFile, SkipUnreadable, PassAbsent
  <2>6. ScanCovers'
    BY <1>0, <2>1, <2>4, <2>5 DEF ScanCovers, Scanning, FilesOf
  <2>7. QED
    BY <1>0, <2>1, <2>3, <2>6 DEF NoticeInv, ResultCovers, WaitCovers
<1>4. QED
  BY <1>1, <1>2, <1>3 DEF ScanStep

\* A settle time is a deadline.
LEMMA SettleIsSet ==
  ASSUME NEW cfg \in Configs
  PROVE  cfg.settle # Never
<1>1. cfg.settle \in 1 .. MaxSettle /\ MaxSettle \in Nat
  BY LongestSettle
<1>2. QED
  BY <1>1 DEF Never

\* The scanner's other steps hand what is accounted for on to the next deadline.
LEMMA RunAccounts ==
  ASSUME TypeInv, MatchInv, NoticeInv,
         FirstCatalog \/ Boot \/ Load \/ Publish \/ Notify \/ Install
           \/ Receive \/ ReceiveNone \/ StartRescan
  PROVE  NoticeInv'
<1>0. /\ WalkOrder /\ ScanCovers /\ ResultCovers /\ WaitCovers
      /\ config \in Configs /\ newConfig \in Configs
      /\ pc \in {"boot scan", "boot", "select"} => newConfig = config
  BY DEF NoticeInv, TypeInv, TypeOK, MatchInv, ScanInConfig
<1>1. CASE FirstCatalog \/ Publish
  <2>1. /\ UNCHANGED <<disk, armed, watched, queue, excused, newConfig, toOpen, todo, found,
                       withheld>>
        /\ toOpen = {} /\ todo = {} /\ catalog'.files = found
        /\ Scanning /\ pc' \in {"boot", "install", "notify"}
        /\ pc' = "boot" => pc = "boot scan"
    <3>1. /\ ScanDone /\ catalog' = Scanned
          /\ UNCHANGED <<diskVars, watchVars, queue, scanVars, excused>>
          /\ \/ pc = "boot scan" /\ pc' = "boot"
             \/ pc = "scan" /\ pc' = AfterScan
      BY <1>1 DEF FirstCatalog, Publish
    <3>2. Scanned.files = found
      BY DEF Scanned
    <3>3. AfterScan \in {"install", "notify"}
      BY DEF AfterScan
    <3>4. QED
      BY <3>1, <3>2, <3>3 DEF ScanDone, Scanning, diskVars, watchVars, scanVars
  <2>2. WalkOrder'
    BY <1>0, <2>1 DEF WalkOrder
  <2>3. ResultCovers'
    BY <1>0, <2>1 DEF ScanCovers, ResultCovers, Accounted, Queued, FilesOf
  <2>4. QED
    BY <2>1, <2>2, <2>3 DEF NoticeInv, ScanCovers, WaitCovers, Scanning
<1>2. CASE Boot \/ Install
  <2>1. /\ pc \in {"boot", "install"} /\ pc' = "select" /\ UNCHANGED <<disk, catalog, queue>>
        /\ config' = newConfig /\ settleIn' = SettleAfter(withheld, newConfig)
        /\ toOpen' = {} /\ todo' = {} /\ DOMAIN found' = {}
    BY <1>0, <1>2, EmptyTypes DEF Boot, Install, EndScan
  <2>2. armed' \subseteq watched'
    BY <1>0, <1>2 DEF Boot, Install, Reconcile, WalkOrder, watchVars
  <2>3. withheld # {} => settleIn' # Never
    BY <1>0, <2>1, SettleIsSet DEF SettleAfter
  <2>4. ASSUME NEW f \in Files, Accounted(f) PROVE Accounted(f)'
    <3>1. CASE Boot
      BY <1>0, <2>1, <2>4, <3>1 DEF Boot, WalkOrder, Accounted, Queued
    <3>2. CASE Install
      <4>1. excused' = excused \cup FilesOf(watched \ watched')
        BY <3>2 DEF Install
      <4>2. QED
        BY <2>1, <2>4, <4>1 DEF Accounted, Queued, FilesOf
    <3>3. QED
      BY <1>2, <3>1, <3>2
  <2>5. WaitCovers'
    BY <1>0, <2>1, <2>3, <2>4 DEF ResultCovers, WaitCovers, FilesOf
  <2>6. QED
    BY <2>1, <2>2, <2>5 DEF NoticeInv, WalkOrder, ScanCovers, ResultCovers, Scanning
<1>3. CASE Load
  <2>1. pc = "load" /\ UNCHANGED <<disk, armed, watched>>
    BY <1>3 DEF Load, watchVars
  <2>2. CASE RejectScan
    <3>1. /\ pc' = "select" /\ toOpen' = {} /\ todo' = {} /\ DOMAIN found' = {}
          /\ excused' = Files
      BY <2>1, <2>2, RejectForgets
    <3>2. QED
      BY <1>0, <2>1, <3>1 DEF NoticeInv, WalkOrder, ScanCovers, ResultCovers, WaitCovers,
         Scanning, Accounted, FilesOf
  <2>3. CASE pc' = "scan" /\ BeginScan(configFile)
    <3>1. /\ todo' = {} /\ DOMAIN found' = {} /\ toOpen' = newConfig'.shares
      BY <2>3, EmptyTypes DEF BeginScan
    <3>2. QED
      BY <1>0, <2>1, <2>3, <3>1 DEF NoticeInv, WalkOrder, ScanCovers, ResultCovers,
         WaitCovers, Scanning, FilesOf
  <2>4. QED
    BY <1>3, <2>2, <2>3 DEF Load
<1>4. CASE Notify \/ StartRescan
  <2>1. /\ UNCHANGED <<disk, armed, catalog, config, watched, queue, excused, newConfig, toOpen,
                       todo, found, withheld>>
        /\ \/ pc = "notify" /\ pc' = "install"
           \/ pc = "select" /\ pc' = "load"
    BY <1>4 DEF Notify, StartRescan, diskVars, watchVars, scanVars
  <2>2. ResultCovers'
    BY <1>0, <2>1 DEF ResultCovers, Accounted, Queued, FilesOf
  <2>3. WalkOrder'
    BY <1>0, <2>1 DEF WalkOrder
  <2>4. QED
    BY <2>1, <2>2, <2>3 DEF NoticeInv, ScanCovers, WaitCovers, Scanning
<1>5. CASE Receive
  <2>1. /\ UNCHANGED <<disk, armed, catalog, config, watched, excused, newConfig, toOpen, todo,
                       found, pc>>
        /\ pc = "select" /\ queue # <<>> /\ queue' = Tail(queue)
        /\ settleIn' = IF Relevant(Head(queue)) THEN config.settle ELSE settleIn
    BY <1>5 DEF Receive, diskVars, watchVars, scanVars
  <2>2. queue \in Seq(Events) /\ config.settle # Never
    BY <1>0, SettleIsSet DEF TypeInv, TypeOK
  <2>3. settleIn # Never => settleIn' # Never
    BY <2>1, <2>2
  <2>4. ASSUME NEW f \in Files, Accounted(f) PROVE settleIn' # Never \/ Accounted(f)'
    <3>1. CASE f \in excused
      BY <2>1, <3>1 DEF Accounted
    <3>2. CASE Queued(f)
      <4>1. PICK i \in 1 .. Len(queue) : queue[i] = ShareOf[f]
        BY <3>2 DEF Queued
      <4>2. CASE i = 1
        <5>1. Head(queue) = ShareOf[f] /\ ShareOf[f] \in watched
          BY <2>1, <2>2, <3>2, <4>1, <4>2 DEF Queued
        <5>2. QED
          BY <2>1, <2>2, <5>1 DEF Relevant
      <4>3. CASE i # 1
        <5>1. i - 1 \in 1 .. Len(Tail(queue)) /\ Tail(queue)[i - 1] = queue[i]
          BY <2>1, <2>2, <4>1, <4>3
        <5>2. QED
          BY <2>1, <3>2, <4>1, <5>1 DEF Accounted, Queued
      <4>4. QED
        BY <4>2, <4>3
    <3>3. QED
      BY <2>4, <3>1, <3>2 DEF Accounted
  <2>5. WaitCovers'
    BY <1>0, <2>1, <2>3, <2>4 DEF WaitCovers, FilesOf
  <2>6. WalkOrder'
    BY <1>0, <2>1 DEF WalkOrder
  <2>7. QED
    BY <2>1, <2>5, <2>6 DEF NoticeInv, ScanCovers, ResultCovers, Scanning
<1>6. CASE ReceiveNone
  <2>1. /\ UNCHANGED <<disk, armed, catalog, config, watched, queue, excused, newConfig, toOpen,
                       todo, found, pc, settleIn>>
        /\ pc = "select"
    BY <1>6 DEF ReceiveNone, diskVars, timers, scanVars
  <2>2. WaitCovers' /\ WalkOrder'
    BY <1>0, <2>1 DEF WaitCovers, WalkOrder, Accounted, Queued, FilesOf
  <2>3. QED
    BY <2>1, <2>2 DEF NoticeInv, ScanCovers, ResultCovers, Scanning
<1>7. QED
  BY <1>1, <1>2, <1>3, <1>4, <1>5, <1>6

\* No reported change is forgotten: a file that is not as clients see it is going to
\* be looked at without the fallback, or its change was never reported, could not
\* be read, or came with a rejected scan (http.rs:584, 609-611).
THEOREM ChangesAreNoticed == Spec => []NoChangeForgotten
<1>1. Init => NoticeInv
  <2> SUFFICES ASSUME Init PROVE NoticeInv
    OBVIOUS
  <2>1. /\ pc = "boot scan" /\ armed = {} /\ watched = {} /\ todo = {} /\ DOMAIN found = {}
        /\ toOpen = newConfig.shares
    BY EmptyTypes DEF Init
  <2>2. QED
    BY <2>1 DEF NoticeInv, WalkOrder, ScanCovers, ResultCovers, WaitCovers, FilesOf
<1>2. TypeInv /\ MatchInv /\ NoticeInv /\ [Next]_vars => NoticeInv'
  <2> SUFFICES ASSUME TypeInv, MatchInv, NoticeInv, [Next]_vars PROVE NoticeInv'
    OBVIOUS
  <2>0. /\ WalkOrder /\ ScanCovers /\ ResultCovers /\ WaitCovers
    BY DEF NoticeInv
  <2>1. CASE Environment
    <3>1. UNCHANGED <<catalog, config, watched, pc, newConfig, toOpen, todo, found, withheld>>
      BY <2>1, WorldLeaves
    <3>2. armed \subseteq watched
      BY <2>0 DEF WalkOrder
    <3>3. /\ armed' \subseteq watched'
          /\ \A f \in Files : /\ Accounted(f) => Accounted(f)'
                              /\ disk'[f].v = disk[f].v \/ Accounted(f)'
          /\ settleIn # Never => settleIn' # Never
      BY <2>1, <3>2, WorldAccounts
    <3>4. WalkOrder'
      BY <2>0, <3>1, <3>3 DEF WalkOrder
    <3>5. ScanCovers'
      BY <2>0, <3>1, <3>3 DEF ScanCovers, Scanning, FilesOf
    <3>6. ResultCovers' /\ WaitCovers'
      BY <2>0, <3>1, <3>3 DEF ResultCovers, WaitCovers, FilesOf
    <3>7. QED
      BY <3>4, <3>5, <3>6 DEF NoticeInv
  <2>2. CASE UNCHANGED vars
    <3>1. UNCHANGED <<disk, armed, catalog, config, watched, queue, excused, newConfig, toOpen,
                      todo, found, withheld, pc, settleIn>>
      BY <2>2 DEF vars, diskVars, watchVars, timers, scanVars
    <3>2. QED
      BY <2>0, <3>1 DEF NoticeInv, WalkOrder, ScanCovers, ResultCovers, WaitCovers,
         Scanning, Accounted, Queued, FilesOf
  <2>3. QED
    BY <2>1, <2>2, ScanAccounts, RunAccounts DEF Next, ScannerStep
<1>3. TypeInv /\ MatchInv /\ NoticeInv => NoChangeForgotten
  <2> SUFFICES ASSUME TypeInv, MatchInv, NoticeInv, pc \notin {"boot scan", "boot", "exit"},
                      NEW f \in FilesOf(config.shares \cap newConfig.shares)
               PROVE  Seen(f) = disk[f].v \/ f \in excused \/ Noticed(f)
    BY DEF NoChangeForgotten
  <2>1. f \in FilesOf(config.shares) /\ f \in FilesOf(newConfig.shares)
    BY DEF FilesOf
  <2>2. Accounted(f) => f \in excused \/ Noticed(f)
    BY DEF Accounted, Queued, Noticed
  <2>3. CASE pc = "scan"
    BY <2>1, <2>2, <2>3 DEF NoticeInv, ScanCovers, Scanning, Seen, Version, Noticed, InRescan
  <2>4. CASE pc \in {"notify", "install"}
    BY <2>1, <2>2, <2>4 DEF NoticeInv, ResultCovers, Seen, Version, Noticed, InRescan
  <2>5. CASE pc = "select"
    BY <2>1, <2>2, <2>5 DEF NoticeInv, WaitCovers, Seen, Version, Noticed
  <2>6. CASE pc = "load"
    BY <2>6 DEF Noticed
  <2>7. QED
    BY <2>3, <2>4, <2>5, <2>6 DEF TypeInv, TypeOK
<1>4. QED
  BY <1>1, <1>2, <1>3, TypesKept, MatchKept, PTL DEF Spec

-------------------------------------------------------------------------------
(* The abstract publisher.                                                 *)

\* The scanner publishes as CatalogPublisher promises: a first catalog, then
\* changed ones, each visible before it is announced and announced before the
\* next (http.rs:83-111, 698-708).
THEOREM PublisherIsImplemented == Spec => Publisher!Spec
<1>1. Init => Publisher!Init
  BY DEF Init, Publisher!Init
<1>2. [Next]_vars => [Publisher!Next]_(Publisher!vars)
  <2> SUFFICES ASSUME [Next]_vars PROVE [Publisher!Next]_(Publisher!vars)
    OBVIOUS
  <2>1. CASE FirstCatalog
    <3>1. Publisher!Start
      BY <2>1 DEF FirstCatalog, Publisher!Start
    <3>2. QED
      BY <3>1 DEF Publisher!Next
  <2>2. CASE Publish
    <3>1. pc = "scan" /\ catalog' = Scanned /\ pc' = AfterScan
      BY <2>2 DEF Publish
    <3>2. CASE Scanned = catalog
      BY <3>1, <3>2 DEF AfterScan, Publisher!vars
    <3>3. CASE Scanned # catalog
      <4>1. Publisher!Publish
        BY <3>1, <3>3 DEF AfterScan, Publisher!Publish
      <4>2. QED
        BY <4>1 DEF Publisher!Next
    <3>4. QED
      BY <3>2, <3>3
  <2>3. CASE Notify
    <3>1. Publisher!Announce
      BY <2>3 DEF Notify, Publisher!Announce
    <3>2. QED
      BY <3>1 DEF Publisher!Next
  <2>4. CASE ScanStep
    <3>1. UNCHANGED catalog
      BY <2>4 DEF ScanStep
    <3>2. \/ UNCHANGED pc
          \/ pc = "boot scan" /\ pc' = "exit"
          \/ pc = "scan" /\ pc' = "select"
      BY <2>4, RejectForgets
         DEF ScanStep, OpenShare, RootMissing, ScanFile, Scanning
    <3>3. QED
      BY <3>1, <3>2 DEF Publisher!vars
  <2>5. CASE Boot \/ Load \/ Install \/ StartRescan
    <3>1. UNCHANGED catalog /\ pc \in {"boot", "load", "install", "select"}
          /\ pc' \in {"select", "scan", "load"}
      BY <2>5, RejectForgets DEF Boot, Load, Install, StartRescan
    <3>2. QED
      BY <3>1 DEF Publisher!vars
  <2>6. CASE UNCHANGED <<catalog, pc>>
    BY <2>6 DEF Publisher!vars
  <2>7. QED
    <3>1. Environment \/ Receive \/ ReceiveNone \/ UNCHANGED vars
            => UNCHANGED <<catalog, pc>>
      BY DEF Environment, Receive, ReceiveNone, vars
    <3>2. QED
      BY <2>1, <2>2, <2>3, <2>4, <2>5, <2>6, <3>1 DEF Next, ScannerStep
<1>3. QED
  BY <1>1, <1>2, PTL DEF Spec, Publisher!Spec

===============================================================================

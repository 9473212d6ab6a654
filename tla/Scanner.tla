-------------------------------- MODULE Scanner -------------------------------
(***************************************************************************)
(* run_scanner and rescan_catalog (http.rs:552-787) between a disk that    *)
(* changes at any moment, a watcher that may miss, drop or lose events, and*)
(* a config file that is edited while the server runs; with the first scan,*)
(* which serve makes before there is a watcher (http.rs:83-131).           *)
(*                                                                         *)
(* A file is known by the version of its content, 0 being no file: entries *)
(* of two versions differ in mtime or size.  A share is a directory; the   *)
(* options that select its files (media kinds, recursion, hidden entries)  *)
(* are fixed, and CatalogScan has the walk itself.  Time is counted in     *)
(* ticks; deadlines are kept as the ticks that remain.  Instants do not    *)
(* overflow.                                                               *)
(***************************************************************************)
EXTENDS Integers, Sequences

CONSTANTS
  Files, Shares,
  ShareOf,      \* the share each file is in
  Configs,      \* valid configs: [shares, settle, rescan, watch]
  Broken,       \* a config file that does not load
  QueueCap,     \* capacity of the event channel (64)
  EncodeGap,    \* a writer that is at work never pauses for more ticks
  MaxChanges,   \* bound: changes to the disk and the config file
  MaxFaults     \* bound: watcher faults and read errors

ASSUME ConfigsAssumption ==
  Configs \subseteq [shares: SUBSET Shares, settle: Nat \ {0},
                     rescan: Nat \ {0}, watch: BOOLEAN]
ASSUME ShareOfAssumption == ShareOf \in [Files -> Shares]
\* settle_time_seconds is a u64: one config's is the longest.
ASSUME LongestAssumption ==
  \E t \in {c.settle : c \in Configs} : \A c \in Configs : c.settle <= t
ASSUME GapAssumption == EncodeGap \in Nat /\ \A c \in Configs : EncodeGap < c.settle
ASSUME CapacityAssumption == QueueCap \in Nat

VARIABLES
  \* the disk and the kernel's watches on it
  disk,        \* disk[f]: version, age of its mtime, whether its writer is at work
  mounted,     \* shares whose directory can be resolved
  configFile,  \* what Config::load would find
  armed,       \* shares whose changes reach the watcher
  changes,     \* changes made so far; also the last version written
  faults,      \* faults so far
  \* shared with the request handlers
  catalog,     \* [shares, files] of the published snapshot
  config,      \* shared_config
  \* run_scanner
  watcher,     \* "ok", "dead" (its sender is gone), "none"
  queue,       \* the event channel
  watched,     \* keys of watched_shares
  settleIn,    \* ticks until settle_deadline, or Never
  fallbackIn,  \* ticks until fallback_deadline
  pc,
  \* the rescan under way
  newConfig, toOpen, todo, found,
  withheld,    \* files counted in unsettled_files
  unread,      \* history: files a read error hid from this scan
  \* history
  excused      \* files of which a change was never reported to the scanner

diskVars == <<disk, mounted, configFile, armed, changes, faults>>
watchVars == <<watcher, watched>>
scanVars == <<newConfig, toOpen, todo, found, withheld, unread>>
timers == <<settleIn, fallbackIn>>
vars == <<diskVars, catalog, config, watchVars, queue, timers, pc, scanVars,
          excused>>

Never == -1
Future == -1       \* the age of an mtime that lies ahead

MaxSettle == CHOOSE t \in {c.settle : c \in Configs} :
               \A c \in Configs : c.settle <= t

Entry == [v: Nat \ {0}, whole: BOOLEAN]
Events == Shares \cup {"config", "error", "other"}

TypeOK ==
  /\ disk \in [Files -> [v: Nat, age: Future .. MaxSettle, writing: BOOLEAN]]
  /\ mounted \in SUBSET Shares
  /\ configFile \in Configs \cup {Broken}
  /\ armed \in SUBSET Shares
  /\ catalog.shares \in SUBSET Shares
  /\ DOMAIN catalog.files \in SUBSET Files
  /\ \A f \in DOMAIN catalog.files : catalog.files[f] \in Entry
  /\ config \in Configs /\ newConfig \in Configs
  /\ watcher \in {"ok", "dead", "none"}
  /\ queue \in Seq(Events) /\ Len(queue) <= QueueCap
  /\ watched \in SUBSET Shares
  /\ settleIn \in Never .. MaxSettle
  /\ fallbackIn \in Nat
  /\ pc \in {"boot scan", "boot", "select", "load", "scan", "notify",
             "install", "exit"}
  /\ toOpen \in SUBSET Shares
  /\ todo \in SUBSET Files
  /\ DOMAIN found \in SUBSET Files
  /\ withheld \in SUBSET Files
  /\ unread \in SUBSET Files
  /\ excused \in SUBSET Files

FilesOf(S) == {f \in Files : ShareOf[f] \in S}

EmptyScan == [f \in {} |-> [v |-> 1, whole |-> TRUE]]

-------------------------------------------------------------------------------
(* Slips a maintainer could make; the runs show that each is noticed.      *)

Bug_SettledTooSoon(f, cfg) == disk[f].age + 1 >= cfg.settle

Bug_NoRetry(W, cfg) == Never

Bug_NoFallback == settleIn

Bug_BlockingSend(e) == queue' = Append(queue, e)

Bug_SharesOfCurrent == [shares |-> config.shares, files |-> found]

Bug_AnnounceSame == "notify"

-------------------------------------------------------------------------------
(* The pieces of run_scanner and rescan_catalog.                         *)

\* is_settled: an mtime in the future never is.
Settled(f, cfg) == disk[f].age >= cfg.settle

\* event_is_relevant, for what is in the channel.
Relevant(e) == e \in {"config", "error"} \/ e \in watched

\* settle_deadline after a rescan that withheld the files of W.
SettleAfter(W, cfg) == IF W = {} THEN Never ELSE cfg.settle

\* The select! sleeps until the settle deadline, if there is one.
NextScanIn == IF settleIn = Never THEN fallbackIn ELSE settleIn

\* reconcile_share_watches: directories that resolve, if the config asks.
Desired(cfg) == IF cfg.watch THEN cfg.shares \cap mounted ELSE {}

\* Stale watches go; a directory with an entry in watched_shares is not
\* watched again; a watch that cannot be set up leaves no entry.
Reconcile(cfg) ==
  \E refused \in SUBSET (Desired(cfg) \ watched) :
    LET new == Desired(cfg) \ (watched \cup refused) IN
    /\ refused # {} => faults < MaxFaults
    /\ faults' = IF refused = {} THEN faults ELSE faults + 1
    /\ watched' = (watched \cap Desired(cfg)) \cup new
    /\ armed' = (armed \cap Desired(cfg)) \cup new

\* try_send of the watcher's callback: a full channel drops the event.
Send(e) ==
  queue' = IF Len(queue) < QueueCap THEN Append(queue, e) ELSE queue

\* The kernel reports a change below share sh, and f is what changed.
Report(f) ==
  LET sh == ShareOf[f]
      heard == watcher = "ok" /\ sh \in armed /\ Len(queue) < QueueCap IN
  /\ IF heard THEN Send(sh) ELSE UNCHANGED queue
  /\ excused' = IF heard THEN excused ELSE excused \cup {f}

-------------------------------------------------------------------------------
(* The world outside: the disk, the config file, the watcher's backend.  *)

Change ==
  /\ changes < MaxChanges
  /\ changes' = changes + 1

\* Another process creates or rewrites f and goes on writing.
StartEncode(f) ==
  /\ Change
  /\ ~ disk[f].writing
  /\ ShareOf[f] \in mounted
  /\ disk' = [disk EXCEPT ![f] = [v |-> changes + 1, age |-> 0, writing |-> TRUE]]
  /\ Report(f)

\* The writer appends: it never pauses for longer than EncodeGap.
AppendChunk(f) ==
  /\ disk[f].writing /\ disk[f].age > 0
  /\ disk' = [disk EXCEPT ![f].age = 0]
  /\ Report(f)
  /\ UNCHANGED changes

\* The writer is done; its last write sets the mtime.
FinishEncode(f) ==
  /\ disk[f].writing
  /\ disk' = [disk EXCEPT ![f].age = 0, ![f].writing = FALSE]
  /\ Report(f)
  /\ UNCHANGED changes

\* A finished file is moved in, with an old mtime or one that lies ahead.
MoveIn(f, age) ==
  /\ Change
  /\ ~ disk[f].writing
  /\ ShareOf[f] \in mounted
  /\ disk' = [disk EXCEPT ![f] = [v |-> changes + 1, age |-> age, writing |-> FALSE]]
  /\ Report(f)

Remove(f) ==
  /\ Change
  /\ ~ disk[f].writing /\ disk[f].v # 0
  /\ ShareOf[f] \in mounted
  /\ disk' = [disk EXCEPT ![f] = [v |-> 0, age |-> 0, writing |-> FALSE]]
  /\ Report(f)

EditConfig(c) ==
  /\ Change
  /\ configFile' = c
  /\ IF watcher = "ok" THEN Send("config") ELSE UNCHANGED queue

\* The directory of a share disappears, and the kernel's watch with it.
Unmount(sh) ==
  /\ Change
  /\ sh \in mounted
  /\ \A f \in FilesOf({sh}) : ~ disk[f].writing
  /\ mounted' = mounted \ {sh}
  /\ armed' = armed \ {sh}

Mount(sh) ==
  /\ Change
  /\ mounted' = mounted \cup {sh}
  /\ UNCHANGED armed

\* Something else changes beside the config file, bookmarks.toml for one.
Noise ==
  /\ watcher = "ok"
  /\ Send("other")

\* The backend reports an error, or an event that names no path.
WatchError ==
  /\ watcher = "ok" /\ faults < MaxFaults
  /\ faults' = faults + 1
  /\ Send("error")
  /\ UNCHANGED watcher

\* The backend's thread ends and drops its end of the channel.
WatcherDies ==
  /\ watcher = "ok" /\ faults < MaxFaults
  /\ faults' = faults + 1
  /\ watcher' = "dead"
  /\ UNCHANGED queue

Older(age, limit) == IF age < limit THEN age + 1 ELSE age

\* Time passes; a writer at work does not let EncodeGap go by.
Tick ==
  /\ \A f \in Files : disk[f].writing => disk[f].age < EncodeGap
  /\ disk' = [f \in Files |-> [disk[f] EXCEPT !.age = Older(@, MaxSettle)]]
  /\ settleIn' = IF settleIn > 0 THEN settleIn - 1 ELSE settleIn
  /\ fallbackIn' = IF fallbackIn > 0 THEN fallbackIn - 1 ELSE 0

World ==
  \/ /\ \E f \in Files :
          \/ StartEncode(f) \/ AppendChunk(f) \/ FinishEncode(f) \/ Remove(f)
          \/ \E age \in {Future, MaxSettle} : MoveIn(f, age)
     /\ UNCHANGED <<mounted, configFile, armed, faults, watcher, timers>>
  \/ /\ \E c \in Configs \cup {Broken} : EditConfig(c)
     /\ UNCHANGED <<disk, mounted, armed, faults, watcher, timers, excused>>
  \/ /\ \E sh \in Shares : Unmount(sh) \/ Mount(sh)
     /\ UNCHANGED <<disk, configFile, faults, watcher, queue, timers, excused>>
  \/ /\ Noise
     /\ UNCHANGED <<diskVars, watcher, timers, excused>>
  \/ /\ WatchError \/ WatcherDies
     /\ UNCHANGED <<disk, mounted, configFile, armed, changes, timers, excused>>
  \/ /\ Tick
     /\ UNCHANGED <<mounted, configFile, armed, changes, faults, watcher, queue,
                    excused>>

-------------------------------------------------------------------------------
(* One scan: Catalog::scan_settled of newConfig.                         *)

Scanning == pc \in {"boot scan", "scan"}

\* A fresh scan of cfg.
BeginScan(cfg) ==
  /\ newConfig' = cfg
  /\ toOpen' = cfg.shares
  /\ todo' = {} /\ found' = EmptyScan /\ withheld' = {} /\ unread' = {}

\* No scan: what the last one collected is forgotten.
EndScan(cfg) ==
  /\ newConfig' = cfg
  /\ toOpen' = {} /\ todo' = {} /\ found' = EmptyScan /\ withheld' = {}
  /\ unread' = {}

\* scan_share resolves the root of the next share and walks it.
OpenShare(sh) ==
  /\ Scanning
  /\ todo = {} /\ sh \in toOpen /\ sh \in mounted
  /\ toOpen' = toOpen \ {sh}
  /\ todo' = FilesOf({sh})
  /\ UNCHANGED <<pc, newConfig, found, withheld, unread, excused, faults, timers>>

\* Its root does not resolve: the first scan ends the server, a later one is
\* rejected; run_scanner then has no outcome to take a settle deadline from.
RejectScan ==
  /\ pc' = IF pc = "boot scan" THEN "exit" ELSE "select"
  /\ settleIn' = Never
  /\ fallbackIn' = config.rescan
  /\ EndScan(config)
  /\ excused' = Files
  /\ UNCHANGED faults

RootMissing(sh) ==
  /\ Scanning
  /\ todo = {} /\ sh \in toOpen /\ sh \notin mounted
  /\ RejectScan

\* The walk comes to f and takes its metadata.
ReadFile(f) ==
  /\ ShareOf[f] \in mounted
  /\ IF disk[f].v = 0 THEN UNCHANGED <<found, withheld>>
     ELSE IF Settled(f, newConfig)
       THEN /\ found' = [g \in DOMAIN found \cup {f} |->
                           IF g = f THEN [v |-> disk[f].v, whole |-> ~ disk[f].writing]
                                    ELSE found[g]]
            /\ UNCHANGED withheld
       ELSE /\ withheld' = withheld \cup {f}
            /\ UNCHANGED found
  /\ excused' = excused \ {f}
  /\ UNCHANGED <<unread, faults>>

\* A directory or an entry on the way to f cannot be read: the walk warns and
\* goes on without it.
SkipUnreadable(f) ==
  /\ disk[f].v # 0
  /\ ShareOf[f] \in mounted => faults < MaxFaults
  /\ faults' = IF ShareOf[f] \in mounted THEN faults + 1 ELSE faults
  /\ unread' = unread \cup {f}
  /\ excused' = excused \cup {f}
  /\ UNCHANGED <<found, withheld>>

\* The walk passes where f would be.
PassAbsent(f) ==
  /\ disk[f].v = 0 /\ ShareOf[f] \notin mounted
  /\ UNCHANGED <<found, withheld, unread, excused, faults>>

ScanFile(f) ==
  /\ Scanning
  /\ f \in todo
  /\ todo' = todo \ {f}
  /\ ReadFile(f) \/ SkipUnreadable(f) \/ PassAbsent(f)
  /\ UNCHANGED <<pc, newConfig, toOpen, timers>>

ScanStep ==
  /\ \/ \E sh \in Shares : OpenShare(sh) \/ RootMissing(sh)
     \/ \E f \in Files : ScanFile(f)
  /\ UNCHANGED <<disk, mounted, configFile, armed, changes, catalog, config,
                 watchVars, queue>>

-------------------------------------------------------------------------------
(* serve and run_scanner.                                                *)

Scanned == [shares |-> newConfig.shares, files |-> found]

ScanDone == toOpen = {} /\ todo = {}

\* The first scan becomes the first catalog.
FirstCatalog ==
  /\ pc = "boot scan" /\ ScanDone
  /\ catalog' = Scanned
  /\ pc' = "boot"
  /\ UNCHANGED <<diskVars, config, watchVars, queue, timers, scanVars, excused>>

\* run_scanner sets up the watcher, if the system provides one, and the
\* deadlines.
Boot ==
  /\ pc = "boot"
  /\ \/ watcher' = "ok" /\ Reconcile(config)
     \/ /\ faults < MaxFaults
        /\ faults' = faults + 1
        /\ UNCHANGED <<watchVars, armed>>
  /\ settleIn' = SettleAfter(withheld, config)
  /\ fallbackIn' = config.rescan
  /\ EndScan(config)
  /\ pc' = "select"
  /\ UNCHANGED <<disk, mounted, configFile, changes, catalog, config, queue,
                 excused>>

\* The channel has an event.
Receive ==
  /\ pc = "select" /\ watcher # "none" /\ queue # <<>>
  /\ queue' = Tail(queue)
  /\ settleIn' = IF Relevant(Head(queue)) THEN config.settle ELSE settleIn
  /\ UNCHANGED <<diskVars, catalog, config, watchVars, fallbackIn, pc, scanVars,
                 excused>>

\* The channel is empty and closed.
ReceiveNone ==
  /\ pc = "select" /\ watcher = "dead" /\ queue = <<>>
  /\ watcher' = "none"
  /\ UNCHANGED <<diskVars, catalog, config, watched, queue, timers, pc, scanVars,
                 excused>>

\* A deadline has passed.
StartRescan ==
  /\ pc = "select" /\ NextScanIn = 0
  /\ pc' = "load"
  /\ UNCHANGED <<diskVars, catalog, config, watchVars, queue, timers, scanVars,
                 excused>>

\* Config::load: it parses, and every share in it is a directory.
Loads(c) == c \in Configs /\ c.shares \subseteq mounted

Load ==
  /\ pc = "load"
  /\ IF Loads(configFile)
       THEN /\ BeginScan(configFile)
            /\ pc' = "scan"
            /\ UNCHANGED <<faults, timers, excused>>
       ELSE RejectScan
  /\ UNCHANGED <<disk, mounted, configFile, armed, changes, catalog, config,
                 watchVars, queue>>

\* A snapshot with the content of the current one is dropped.
AfterScan == IF Scanned = catalog THEN "install" ELSE "notify"

Publish ==
  /\ pc = "scan" /\ ScanDone
  /\ catalog' = Scanned
  /\ pc' = AfterScan
  /\ UNCHANGED <<diskVars, config, watchVars, queue, timers, scanVars, excused>>

\* notify_content_changed takes the lock of the subscription table.
Notify ==
  /\ pc = "notify"
  /\ pc' = "install"
  /\ UNCHANGED <<diskVars, catalog, config, watchVars, queue, timers, scanVars,
                 excused>>

\* The config is installed; run_scanner moves its watches and its deadlines.
Install ==
  /\ pc = "install"
  /\ config' = newConfig
  /\ IF watcher # "none" THEN Reconcile(newConfig)
                         ELSE UNCHANGED <<watched, armed, faults>>
  /\ excused' = excused \cup FilesOf(watched \ watched')
  /\ settleIn' = SettleAfter(withheld, newConfig)
  /\ fallbackIn' = newConfig.rescan
  /\ EndScan(newConfig)
  /\ pc' = "select"
  /\ UNCHANGED <<disk, mounted, configFile, changes, catalog, watcher, queue>>

Init ==
  /\ disk \in [Files -> {[v |-> 0, age |-> 0, writing |-> FALSE]}]
  /\ mounted = Shares
  /\ configFile \in Configs /\ config = configFile /\ newConfig = config
  /\ armed = {} /\ changes = 0 /\ faults = 0
  /\ catalog = [shares |-> {}, files |-> EmptyScan]
  /\ watcher = "none" /\ watched = {} /\ queue = <<>>
  /\ settleIn = Never /\ fallbackIn = config.rescan
  /\ pc = "boot scan"
  /\ toOpen = config.shares /\ todo = {} /\ found = EmptyScan
  /\ withheld = {} /\ unread = {}
  /\ excused = {}

Environment ==
  World /\ UNCHANGED <<catalog, config, watched, pc, scanVars>>

ScannerStep ==
  \/ ScanStep \/ FirstCatalog \/ Boot
  \/ Load \/ Publish \/ Notify \/ Install

Next == Environment \/ ScannerStep \/ StartRescan \/ Receive \/ ReceiveNone

Spec == Init /\ [][Next]_vars

\* select! picks among its ready branches at random, so each is taken in the
\* end; a scan ends; clocks run and writers finish.
Fairness ==
  /\ WF_vars(ScannerStep) /\ WF_vars(StartRescan)
  /\ WF_vars(Receive) /\ WF_vars(ReceiveNone)
  /\ WF_vars(Environment /\ Tick)
  /\ \A f \in Files : WF_vars(Environment /\ FinishEncode(f))

FairSpec == Spec /\ Fairness

-------------------------------------------------------------------------------
(* Properties.                                                           *)

\* The modification-age guard (catalog.rs:264, 365-372): no snapshot a client
\* can read has a file as it was in the middle of an encode, whichever deadline
\* or config brought the scan about.
NoPartialEncode ==
  \A f \in DOMAIN catalog.files : catalog.files[f].whole

\* The catalog is what the installed config shares, except between the two
\* writes of a rescan (http.rs:706 and 709): a share taken out of the config,
\* or one that could not be read again, never stays behind alone.
SnapshotMatchesConfig ==
  pc \notin {"boot scan", "notify", "install", "exit"}
    => catalog.shares = config.shares /\ DOMAIN catalog.files \subseteq FilesOf(config.shares)

InRescan == pc \in {"scan", "notify", "install"}

\* The version of f that clients see, or will when this rescan is over.
Seen(f) ==
  LET files == IF pc = "scan" /\ ShareOf[f] \notin toOpen /\ f \notin todo
                 THEN found ELSE catalog.files
  IN IF f \in DOMAIN files THEN files[f].v ELSE 0

\* Something will make the scanner look at f again without the fallback.
Noticed(f) ==
  \/ \E i \in 1 .. Len(queue) : queue[i] = ShareOf[f]
  \/ pc = "select" /\ settleIn # Never
  \/ pc = "load"
  \/ pc = "scan" /\ (ShareOf[f] \in toOpen \/ f \in todo)
  \/ InRescan /\ f \in withheld

\* No accepted hint is forgotten: a file of a configured share that is not as
\* clients see it is going to be scanned by the settle deadline, a queued event
\* or the scan under way, unless nobody reported its change (no watch in place,
\* a full channel), or the scan that followed could not read it or was rejected.
\* In particular an event that arrives during a rescan survives the assignment
\* of settle_deadline at its end (http.rs:609-611), and a withheld file is
\* scanned again (http.rs:584, 609).
NoChangeForgotten ==
  pc \notin {"boot scan", "boot", "exit"} =>
    \A f \in FilesOf(config.shares \cap newConfig.shares) :
      Seen(f) = disk[f].v \/ f \in excused \/ Noticed(f)

\* What scan_settled would make of the disk once every mtime is old.
Ideal(cfg) ==
  [shares |-> cfg.shares,
   files |-> [f \in {g \in FilesOf(cfg.shares) : disk[g].v # 0} |->
                [v |-> disk[f].v, whole |-> TRUE]]]

\* Whatever was missed on the way, once the disk and the config file stay good
\* the catalog becomes, and stays, what is on the disk.
Converged == configFile \in Configs /\ catalog = Ideal(configFile)

Converges == <>[](Loads(configFile) /\ pc # "exit") => <>[]Converged

\* Of all that goes on here, the request handlers and the subscribers see what
\* CatalogPublisher has: a first catalog, then changed ones, each visible before
\* it is announced and announced before the next (http.rs:698-708).
Publisher == INSTANCE CatalogPublisher
               WITH up <- pc \notin {"boot scan", "exit"}, owed <- pc = "notify"

PublishesInTurn == Publisher!FairSpec

\* README.md:58-59: a failed scan leaves the last good snapshot active; here, a
\* scan that could not read part of a share does not replace the catalog.
UnreadableKeepsSnapshot == pc = "notify" => unread = {}

===============================================================================

# A verification project for JoeDLNA

JoeDLNA (`src/`) is a DLNA media server in Rust: it scans a few shares of media files, keeps an
in-memory catalog of them, announces itself over SSDP and serves browsing, streaming, eventing and
bookmarks over HTTP.  This directory models its core logic in TLA+, checks the models with TLC and
proves their most important properties with TLAPS.  File and line numbers refer to
`src/crates/joedlna-core/src/` unless they begin otherwise.

## 1. Inventory

| component | source | state it keeps | operations | modelled in |
|---|---|---|---|---|
| Catalog publisher | `http.rs:83-111`, `696-707` | the current catalog, and whether it is announced | publish, announce | `CatalogPublisher` (abstract) |
| Event manager | `events.rs`, `http.rs:336-406` | table SID -> (service, callback, lease, next event key); detached tasks | SUBSCRIBE new / renewal, UNSUBSCRIBE, initial event, change event, expiry | `Events` |
| Scanner | `http.rs:552-787` | config, shared catalog, watcher and watched roots, bounded event channel, two deadlines | rescan, settle and fallback timers, watch reconciliation | `Scanner` |
| Catalog scan | `catalog.rs:71-333` | the walk (stack, visited directories) and the snapshot it builds | scan the shares, insert, count what is withheld | `CatalogScan` |
| Bookmark store | `bookmarks.rs`, `http.rs:249-296` | positions in memory and in a TOML file | load, snapshot, set | `Bookmarks` |
| Lifecycle | `http.rs:78-163`, `789-798`, `main.rs` | HTTP server, SSDP task, scanner, shutdown channel, result | start, Control-C, drain, stop, exit | `Lifecycle` |
| SSDP | `ssdp.rs` | socket, refresh timer, answer tasks | alive, answer, byebye | `Lifecycle`, and with its timing `Discovery` |
| Browse and SOAP | `soap.rs`, `http.rs:217-247`, `catalog.rs:112-145` | none: a request keeps the snapshot it read | Browse with paging and sorting, update IDs | `Browse` |
| Media | `http.rs:408-550` | none: stat, then open, then a stream | GET and HEAD with a byte range | `Media` |
| Configuration | `config.rs` | none | load, validate | in part (see 7) |
| Description, XML, platform, command line | `description.rs`, `xml.rs`, `platform.rs`, `main.rs` | none | formatting, arguments | not modelled |

**How they interact.**  `serve` (`http.rs:78`) makes the first scan, starts the SSDP and scanner tasks
and runs the HTTP server.  The scanner hands out catalogs through a `RwLock<Arc<Catalog>>`; requests
clone the `Arc` and never see a catalog change.  After it has replaced the catalog, the scanner tells
the event manager (`http.rs:706-707`), which sends each notification from a task of its own.  The
watcher's callback runs on a foreign thread and reaches the scanner through a channel of 64 slots that
drops what does not fit.  Bookmarks are independent of the catalog once a request has looked up its
object.  Shutdown goes from Control-C through axum's drain to a watch channel that SSDP listens to.

**What is hard**, and the property that would break:

- *Eventing.*  A SUBSCRIBE between publication and announcement; the initial event that sleeps 10 ms
  while changes are announced; keys that wrap and skip 0; leases that run out while a renewal or a task
  is on its way.  Correct means: no subscriber stays behind, keys follow publication, expiry is final.
- *Scanner.*  Dropped events, dead watchers, changes during a walk, encodes that pause, a config that is
  edited meanwhile, scans that fail.  Correct means: no half-written file is published, no reported
  change is forgotten, the catalog belongs to its config, and all ends with what is on the disk.
- *Catalog scan.*  Directories that move while they are read, links that form cycles and aliases.
  Correct means: the walk ends, the result is a tree, everything is listed once, nothing that was left
  alone is lost, and a restart finds the same.
- *Bookmarks.*  A mutex that is released when a client goes away while the write goes on; crashes
  between the steps of a save.  Correct means: what was acknowledged survives and is shown.
- *Lifecycle.*  Two tasks that each wait for the other's end, clients that keep a response open.
  Correct means: the byebye is the last word, errors are reported, the program ends.
- *SSDP.*  Datagrams get lost, refreshes race the max-age, answers race the caller's window and the
  byebye.  Correct means: a running server stays listed, a server that ended is forgotten.
- *Browse.*  A control point pages while scans replace the catalog.  Correct means: equal UpdateIDs are
  pages of one catalog, and whoever listens to events ends up with the last one.
- *Media.*  The file changes between stat, open, seek and each read; connections break and players
  resume; ranges meet sizes, zero and the end of u64.  Correct means: a head that RFC 9110 would give, a
  body that keeps to it, a whole file for a player that resumes.

`PROJECT.json` lists the hazards one by one, each at its line.

## 2. Modules

A module per component; an `MC` module that gives its constants values; a `Proofs` module that holds its
theorems.  (Those of `Lifecycle` are in `DiscoveryProofs`; `CatalogScan` has two modules, one for the walk and
one for what it leaves behind.)  Actions have the names of the functions and steps they stand for; `PROJECT.json`'s map
gives the lines of every definition.  Definitions named `Bug_...` are slips a maintainer could make:
each property of a passing run was seen to fail when one of them replaces its original.

| module | correspondence with the code |
|---|---|
| `CatalogPublisher` | the abstract promise of the scanner to the rest: `Publish` is the write of the shared catalog (`http.rs:706`), `Announce` the notification (`http.rs:707`). |
| `Events` | `subscriptions` is the table behind the mutex, so each critical section is an action; `NotifyContentChanged` is the announcement of a catalog that `Publish` put in place before; `inflight` are the tasks of `send`, which deliver in any order or not at all.  A catalog's number stands for its update ID. |
| `Scanner` | `pc` walks through `run_scanner`'s select and through `rescan_catalog` file by file.  Users, writers, the watcher's thread and faults are interleaved with every step.  Deadlines are ticks that remain. |
| `CatalogScan` | `ReadDir` opens a directory (`handle`); `listing` are the names `read_dir` still has to give, and a name that is made there meanwhile may or may not be added (`Listed`), even if it was given before; `Inspect(n)` is one round of the inner loop with `insert_entry`; paths are resolved again on the disk of that moment, as the system calls do.  `pending` is the stack, `visited` the canonical paths.  A canonical path is the directory it leads to: the code would no longer find a root that was itself moved or removed during the walk, and the model does, so what the properties say of a changing disk holds of roots that stay where they are.  An entry's ID is (kind, root, relative path), i.e. hashes are perfect. |
| `Bookmarks` | `set` step by step under its mutex; a file operation belongs to a blocking-pool job that outlives its request.  Files are inodes, names point to them. |
| `Lifecycle` | `serve`, axum (external), `run_ssdp`, the answer tasks, the blocking walk, and `main` with the drop of the runtime. |
| `Discovery` | extends `Lifecycle`: each of its SSDP steps also says when it is due (`timer`, `wait`) and which datagrams arrive; `lease` is the list a control point keeps, `window` how long a searcher listens.  `Tick` is the clock; `unlucky`, `spared` and `since` are history. |
| `Browse` | `ReadCatalog` is the handler up to the clone of the `Arc`, `Reply` the rest of it with `browse`; between the two it waits for the bookmarks, and catalogs come and go.  `Fault` has the checks in the code's order, `Listing` and `Page` what is shown.  A fingerprint is the value that is hashed.  `Begin` and `Hear` are the control point. |
| `Media` | one action per system call of `media`: `Lookup`, `Stat` (with `parse_range`), `Open`, `Seek`, and `Read` for each buffer of the stream.  A path names an inode, an open handle keeps its own.  `Ask`, `Play` and `Resume` are clients, `Cut` is a connection that breaks. |

**How the modules fit together.**  `CatalogPublisher` is the interface between scanning and serving.
`Scanner` and `Events` each contain the publishing steps, one in all detail of how a catalog comes about,
the other in all detail of who is told.  `Scanner` implements `CatalogPublisher` (`PublishesInTurn`, checked
with its fairness, its safety part proved).  `Events` has its two steps as `Publish` and
`NotifyContentChanged`, and `Browse` takes them as they are, each with what they mean to its clients.  `Discovery` is `Lifecycle` with a clock and a
network: it adds variables and restricts when SSDP steps happen, so that what is proved of `Lifecycle`
holds of it (`IsALifecycle`).  `Scanner` treats the walk as reading files one by one, `CatalogScan` has its
directories, links and paths.

## 3. Runs

| run | instance | what it shows |
|---|---|---|
| `events` | 2 subscriptions, 3 catalogs, lease of 1 tick, keys wrap after 1 | nothing published escapes a subscriber, in the end either; keys follow publication, key 0 marks the first event only; a subscription that expired or was cancelled stays so and is silent |
| `events_initial` | 1 subscription, 2 catalogs | *violated*: the initial event need not be SEQ 0 |
| `scanner` | 2 files in 2 shares, 2 configs and a broken one, channel of 1, 2 changes, 1 fault | no partial encode, catalog with its config, no reported change forgotten; the catalog converges to the disk; publication is `CatalogPublisher`'s |
| `scanner_unreadable` | as above | *violated*: a scan that could not read everything replaces the catalog |
| `bookmarks` | 3 requests, 2 objects, 3 positions (one that TOML refuses), 2 crashes, Windows' rename, clients that go away | acknowledged positions survive and are shown, the file is replaced whole |
| `bookmarks_disconnect` | the same, Unix | *violated*: that does not hold when a client goes away |
| `lifecycle` | `Discovery`: 2 connections, 1 search, 2 advertisements, half-second ticks, max-age 3 s, MX honoured up to 2 s and sent up to 3 s | byebye is the last word, failures are reported; a running server stays listed, searches are answered in time, a server that ended is forgotten; Control-C leads to exit |
| `lifecycle_byebye` | 1 connection, 1 search | *violated*: Control-C need not lead to a byebye |
| `catalog` | 2 shares, 3 directories, 1 file, 2 names (one hidden), 5 disks, 3 settings, 1 change | the catalog is a tree, lists everything once, counts what it withholds, loses nothing that was left alone; without links the next scan agrees; only a name made again under `read_dir` fails it with an ID given twice; the walk ends |
| `catalog_alias` | 1 disk with an alias, links followed | *violated*: two scans of an unchanged disk agree |
| `browse` | 1 control point, 5 catalogs (a file removed, a file rewritten, shares renamed, a share dropped), 17 listings, 3 publications | pages with one UpdateID are of one catalog; who is told of changes ends with the last catalog |
| `media` | 3 files, all forms of Range with numbers around the size and around u64::MAX (7 here), reads of 2 bytes, 2 changes | each head is RFC 9110's, each body keeps to it, a player that resumes has the file whole |

**Bounds, and why they are enough.**

- Two subscriptions suffice for events that confuse one SID with another; keys wrap after 1 instead of
  2^32 - 1, so that the wrap happens within three catalogs.  The proofs lift both bounds.
- In `Scanner` one change before and one during a scan, with one fault, reach every order of publication,
  timers and reports; two shares are needed for a config that drops one.  A channel of one overflows, and
  still holds an event that came during a rescan.  The two configs differ in shares, settle time, interval
  and watching.
- Three bookmark requests are what the interference of a dead request with two living ones needs; two
  crashes show that a restart leaves a good state behind.
- One change to the disk meets every step of a walk of five shapes: bare, nested, aliased, cyclic, and linked
  across shares.  A second scan is begun only of a disk that never changed: a scan begins from nothing.
- In `Discovery` two ticks to the second keep delays shorter than windows apart from equal ones; a max-age
  of 3 is odd, so that half of it is rounded.  Two advertisements let a loss hit one and spare the other.
  The proofs lift these bounds, except that they assume a max-age of at least 2 (the code asks for 60).
- In `Browse` a control point shares nothing with another, so one is enough; three publications let a
  catalog go and come back while it pages.  The catalogs differ in what the update ID covers one thing at a
  time.
- In `Media` requests share nothing but the disk, so one at a time is enough; two changes hit any two of
  lookup, stat, open and reads.  A file of three bytes read two at a time has a body of two reads.

`CHECK_DEADLOCK FALSE` is set where the system really may stop: the bounds are used up and no client
comes (`Events`, `Browse`), all requests are done (`Bookmarks`), the process ended (`Lifecycle`,
`Discovery`), the walk is done (`CatalogScan`).  The scanner never stops and media requests may always
come, and there deadlock is checked.

## 4. Fairness

- `Events`: the server's own tasks run to their end, since tokio polls whatever is ready.  Nothing is
  assumed of deliveries, clients or the clock; a subscriber whose lease ended is owed nothing.
- `Scanner`: each ready branch of `select!` is taken in the end (it picks at random), scans end, the clock
  runs, writers finish.  The watcher is not assumed to report anything: convergence comes from the
  periodic fallback.
- `Lifecycle` and `Discovery`: ready tasks run, a walk on the blocking pool ends, axum closes idle
  connections.  That clients end their responses is added only for `lifecycle`; without it the byebye is
  not sent, which is what `lifecycle_byebye` shows.  `Discovery` moreover takes the runtime to be prompt:
  a task whose timer has ended runs before the next tick (half a second in the code's scale), which is what
  `StaysListed` and `AnswersInWindow` rest on.  A machine that is suspended longer than that is outside.
- `Browse`: announcements are made, handlers answer, events arrive and control points read on.  The last
  two are the client's and the network's: `CacheCatchesUp` is a promise to those who hear and ask.
- `CatalogScan`: the walk is a loop on a thread that nothing makes wait.  Calls of the operating system
  return.
- `Bookmarks` and `Media` have no liveness property.

## 5. Where code and documents disagree

1. The initial event may be sent second, with SEQ 1 and an older update ID (`http.rs:364`), while
   `docs/protocol-research.md:57` has it first with SEQ 0.
2. An unreadable directory is skipped and the partial scan is published (`catalog.rs:211`), while
   `README.md:58` says that failed scans leave the last good snapshot active.
3. When a client disconnects, its write goes on without the mutex and may undo an acknowledged one
   (`bookmarks.rs:71`).
4. The byebye waits for every open response (`http.rs:151`), while `docs/tv-testing.md:41` expects it on
   Control-C.
5. With links followed, which name of a directory lists its contents depends on the order of `read_dir`
   (`catalog.rs:199`), while `docs/architecture.md:21` promises the same update IDs after a restart.  Without
   links, the default, it keeps that promise (`LinklessScansAgree`, proved in section 6).

No document of the repository contradicts the following, so no run does:

- `parse_range` answers 416 to a range unit it does not know, to a malformed range and to several ranges,
  where RFC 9110 would have the header ignored (`docs/architecture.md:62` limits the server to one range);
  it honours a range on HEAD; numerals beyond u64 and every range of an empty file are 416.
- Responses carry no validator, so a player that resumes after the file was replaced mixes two files without
  noticing.  `ResumedPlaybackIsWhole` is about files that were left alone.
- An answer to a search may follow the byebye and bring the server back on a list for a max-age
  (`ssdp.rs:58`); a Control-C before `ctrl_c()` is first polled ends the process without a byebye
  (`http.rs:133`).  `ForgottenInTime` bounds both.
- If a whole burst of alives is lost and the max-age is even, the lease of the burst before ends in the very
  moment the next burst is due; `StaysListed` promises nothing then.
- `read_dir` may give a name again that was removed or renamed over and made again while the directory is
  read (POSIX leaves that open).  The second time `insert_entry` finds the ID taken and the whole scan fails
  (`catalog.rs:290`); the last good catalog stays, or `serve` fails if it was the first scan (`http.rs:85`).
  `NoCollision` says that nothing else leads there.
- A container's child counts and the bookmarks of its items may change under an unchanged UpdateID.

## 6. Proofs

TLC shows the properties on the instances above; these theorems hold for every value of the constants.

| module | theorems | the argument |
|---|---|---|
| `EventsProofs` | `TypeCorrect`, `NoUpdateIsLost`, `EndedStaysEnded`, `KeysInOrder`, `GapFreeIsCurrent`, `KeyZeroIsFirst` | `NoLostUpdate` alone is not inductive: between publication and announcement, or before the initial event, a subscriber is behind.  `OwedOrTold` says that each was told or that a step is still due.  `HistoryOK` relates the events sent so far to keys and publications; `NumberingInv` gives the key of the n-th event as an expression in n, by which the wrap is a lemma of arithmetic. |
| `ScannerProofs` | `TypeCorrect`, `CatalogFitsConfig`, `NoEncodeIsPublished`, `ChangesAreNoticed`, `PublisherIsImplemented` | `MatchInv`: what a walk has in its hands belongs to the shares of its config.  `EncodeInv`: a writer at work never lets `EncodeGap` go by, which every settle time exceeds.  `NoticeInv` follows each file through select, walk, publication and installation: it is as clients see it, still to be walked, withheld, in the queue under a share that is watched, or excused; that events count only while their share is watched is why an unwatched share's files are excused.  `PublisherIsImplemented` maps each step to one of `CatalogPublisher` or to none. |
| `BookmarksProofs` | `TypeCorrect`, `AckedSurvives`, `AckedShown`, `ReplacedWhole` | While every client waited and every rename replaced its target (`calm`), the invariant `IInv` (parts `JobsOK`, `FilesApart`, `FileExpected`) has one job at most, keeps the temporary file apart from the bookmark file, and says that the latter holds what was acknowledged or something later; `MemoryExpected` says the same of memory. |
| `DiscoveryProofs` | of `Lifecycle`: `TypeCorrect`, `SaysGoodbye`, `ReportsFailure` | `SsdpKnown` ties `serve`'s position to what the SSDP task has done. |
| | of `Discovery`: `IsALifecycle`, `DTypeCorrect`, `StaysListedOK`, `AnswersInWindowOK`, `ForgottenInTimeOK`, `LastWordsOK` | Every step is one of `Lifecycle` or leaves its variables alone.  `RefreshedInTime`: a lease outlasts the refresh timer, since half of a max-age and the whole of it differ by a tick or more.  `DelayInWindow`: a delay ends before its window.  `ForgettingInv`: what is listed after the end was listed before, and grows old with the clock. |
| `BrowseProofs` | `TypeCorrect`, `PagesOfOneCatalog` | `PagesInv`: as long as all pages carry one UpdateID, the rows shown are a prefix of the listing of every published catalog that has this UpdateID, for such catalogs have the same rows (`SameUpdateIdSameListing`) and prefixes extend by a page (`PagesJoin`). |
| `MediaProofs` | `RangeIsSelection`, `TypeCorrect`, `HeadsAnswerRanges`, `BodiesKeepToTheirHeads`, `ResumedPlaybackOK` | `RangeIsSelection` compares `parse_range` with the set of bytes RFC 9110 selects, for every size and number.  `AnswerInv` says it of the promise made at the stat, `BodyInv` that the body is a part of the open inode as long as that is intact, `PlayInv` that the bytes of all responses so far are a prefix of a file nobody changed. |
| `CatalogScanProofs` | `TypeCorrect`, `ParentsComeFirst`, `NeverCollides` | `TreeInv`: a directory on the stack is in the catalog, is there once, and nothing below it is listed; what is left of the listing being read is not in the catalog, unless the name was made again since the directory was opened.  A new directory has no entries below it yet, for they would have come before their parent.  The disk's steps leave all this alone, whatever they do, since it speaks of paths only. |
| `CatalogContentsProofs` | `ListsEveryPlaceOnce`, `CountsWhatItWithholds`, `UntouchedAreFound`, `ScansAgree` | see below |

**What a finished scan contains** takes three invariants on top of `TreeInv`, one for each kind of promise.

- `RestInv`, as long as the disk did not change: each entry is what its path leads to (`EntriesFound`); what the
  directories taken from the stack offer is listed (`OffersListed`), below one of their names (`ListedOnce`), or
  counted as withheld (`CountKept`), except for what is left of the listing being read.  With links,
  `visited` is the set of those directories (`VisitedTaken`), which is why a second name lists nothing.
  Without links a second name cannot exist (`RealTree`), and this is where it matters that a disk is a tree:
  each directory has a smaller height than the one it is in, so none is met again below itself.
  `StaysInShare` and the empty stack at the end then make the set of directories taken the least one that has
  the root and what its members offer.
- `UntouchedListed`, whatever the disk does: once a name was inspected, what is at its path is in the catalog if
  nothing on the path changed since the scan began.  `PathLeftAlone` says that a path untouched after a step
  was so before it and led to the same node; the file is then found along its path, the root first.
- `AgainInv`: the entries of the previous scan are `TheCatalog`, which is defined from the disk alone.

`Resolve` follows a path by recursion, and these proofs go by induction over paths.  The library's induction
theorems take a predicate as their parameter, which the provers cannot instantiate; `SetInduction` takes the
set of numbers that have the property instead, and follows from what the library says of finite sets (the
successor would map a finite set into a smaller one).  `ResolveAppend`, that one more name is one more step,
is all that is needed of the recursion.

The assumptions are those named in the modules: `TimeoutsAssumption` and `MaxSeqAssumption` (`Events`),
`ConfigsAssumption`, `ShareOfAssumption`, `LongestAssumption` (one settle time is the longest),
`GapAssumption` and `CapacityAssumption` (`Scanner`), `PositionsAssumption`, `NoFileAssumption` and
`SwitchAssumption` (`Bookmarks`), `MaxAgeAssumption`, `ClockAssumption` and `MxAssumption` (`Discovery`), `IdsAssumption`, `CatalogsAssumption` and
`WantedAssumption` (`Browse`), `WidthAssumption`, `ChangesAssumption`, `SizesAssumption` and
`RangesAssumption` (`Media`), and those of `CatalogScan` on its disks, options and shares.  Of a disk at the start they say that there are
finitely many directories and names (`FiniteAssumption`), that a directory is not a file (`KindsAssumption`), and
that the real directories form trees (`TreesAssumption`): aliases and cycles come from symbolic links only.
A directory that is mounted in two places is outside.

**Only model-checked:** liveness, since it needs ENABLED: `SubscriberCatchesUp`, `Converges`,
`StopLeadsToExit`, `ScanEnds`, `CacheCatchesUp`, and the fairness of `CatalogPublisher` in `PublishesInTurn`.
Every safety property of the passing runs has a theorem.

## 7. Not modelled

- `config.rs`: validation has no state; what it promises of the shares' roots is in `CatalogScan`'s
  `Init`, its reload in `Scanner`, its bound on the max-age in `Discovery`.  That a share's path changes
  afterwards is `Retarget`.
- Description documents, XML escaping, command line and platform paths: formatting.
- Parsing of headers, callbacks and SOAP bodies: it decides which requests reach the modelled state.  The
  ConnectionManager and the capabilities of the ContentDirectory answer constants.
- Overflow of `Instant + Duration` (`http.rs:613`), power loss, watch modes, collisions of hashes.
- Starvation of the fallback by continuous events, which the comment at `http.rs:587` accepts: `Scanner`
  bounds the changes.
- Datagrams that are delayed or duplicated by the network: an alive that arrives late lists the server for
  a max-age from then on, which no sender can prevent.

## 8. Plan

All components with state are modelled, and all their safety properties proved.  What would come next:

1. `CatalogScan` as an implementation of `Scanner`'s walk: a directory's listing against files met one by
   one, with the withheld files as what the two have in common.
2. A bound on the steps of a walk, the part of `ScanEnds` that does not need fairness.

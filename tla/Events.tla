-------------------------------- MODULE Events --------------------------------
(***************************************************************************)
(* GENA eventing: the subscription table of EventManager (events.rs), the  *)
(* SUBSCRIBE / UNSUBSCRIBE handlers of http.rs that drive it, and the two  *)
(* steps of rescan_catalog by which a new catalog becomes visible          *)
(* (http.rs:706) and is then announced (http.rs:707).                      *)
(*                                                                         *)
(* A catalog is known by its number in publication order, which stands for *)
(* its update ID (two fingerprints of different catalogs are taken to      *)
(* differ).  Requests that a handler rejects before it takes the lock      *)
(* (malformed headers, a callback that is not the requester's) change      *)
(* nothing and are not actions.  One clock tick is one unit of the leases. *)
(***************************************************************************)
EXTENDS Naturals

CONSTANTS
  Sids,        \* the values Uuid::new_v4 may return, never the same one twice
  Timeouts,    \* the leases parse_timeout may grant, in clock ticks
  MaxSeq,      \* u32::MAX, the last event key before it wraps
  MaxCatalog   \* bound: the number of catalogs published in a behaviour

ASSUME TimeoutsAssumption == Timeouts \subseteq Nat \ {0}
ASSUME MaxSeqAssumption == MaxSeq \in Nat \ {0}

Services == {"ContentDirectory", "ConnectionManager"}

VARIABLES
  catalog,        \* number of the catalog behind shared_catalog
  pendingNotify,  \* update ID rescan_catalog still has to announce, or NoUpdate
  subscriptions,  \* keys of the subscription table
  service,        \* service[s], left[s], sequence[s]: the entry of s
  left,           \* ticks until `expires`; 0 is `expires <= now`
  sequence,       \* the next event key of s
  phase,          \* progress of the SUBSCRIBE request that created s
  captured,       \* update ID held by the initial-event task of s
  inflight,       \* notifications whose send_notification task still runs
  received,       \* notifications that reached the callback
  created,        \* history: every notification ever built
  count           \* history: how many notifications were built for s

table == <<subscriptions, service, left>>
outbox == <<sequence, inflight, created, count>>
vars == <<catalog, pendingNotify, table, outbox, phase, captured, received>>

NoUpdate == 0

Notification ==
  [sid: Sids, index: Nat, sequence: Nat, update_id: Nat,
   origin: {"initial", "changed"}]

TypeOK ==
  /\ catalog \in Nat \ {0}
  /\ pendingNotify \in Nat
  /\ subscriptions \in SUBSET Sids
  /\ service \in [Sids -> Services]
  /\ left \in [Sids -> Nat]
  /\ sequence \in [Sids -> 0 .. MaxSeq]
  /\ phase \in [Sids -> {"unused", "inserted", "sleeping", "done"}]
  /\ captured \in [Sids -> Nat]
  /\ inflight \in SUBSET Notification
  /\ received \in SUBSET Notification
  /\ created \in SUBSET Notification
  /\ count \in [Sids -> Nat]

-------------------------------------------------------------------------------
(* Slips a maintainer could make; the runs show that each is noticed.      *)

Bug_WrapToZero(n) == IF n = MaxSeq THEN 0 ELSE n + 1

Bug_NoWrap(n) == n + 1

Bug_KeepExpired == subscriptions

Bug_CaptureEarly(s) == 1

Bug_AnnounceOld == pendingNotify - 1

Bug_SkipSleeping(S) ==
  {s \in S : service[s] = "ContentDirectory" /\ phase[s] # "sleeping"}

Bug_InitialUnchecked(s) == {s}

-------------------------------------------------------------------------------
(* The pieces of the handlers.                                             *)

\* The event key after n: it wraps to 1, because 0 marks the initial event.
NextSequence(n) == IF n = MaxSeq THEN 1 ELSE n + 1

\* What prune_expired leaves in the table.
Unexpired == {s \in subscriptions : left[s] > 0}

\* The subscribers a catalog change is announced to.
ChangeAudience(S) == {s \in S : service[s] = "ContentDirectory"}

\* notify_initial looks its entry up: none is left after an UNSUBSCRIBE.
InitialAudience(s) == subscriptions \cap {s}

\* The update ID an initial event is built from.
InitialUpdateId(s) == catalog

\* The update ID a change event is built from.
ChangedUpdateId == pendingNotify

\* notification(): take the event key, advance it, hand the message to a task.
Notify(S, update_id, origin) ==
  LET new == {[sid |-> s, index |-> count[s], sequence |-> sequence[s],
               update_id |-> update_id, origin |-> origin] : s \in S}
  IN /\ created' = created \cup new
     /\ inflight' = inflight \cup new
     /\ sequence' = [s \in Sids |-> IF s \in S THEN NextSequence(sequence[s])
                                               ELSE sequence[s]]
     /\ count' = [s \in Sids |-> IF s \in S THEN count[s] + 1 ELSE count[s]]

-------------------------------------------------------------------------------
Init ==
  /\ catalog = 1
  /\ pendingNotify = NoUpdate
  /\ subscriptions = {}
  /\ service = [s \in Sids |-> "ContentDirectory"]
  /\ left = [s \in Sids |-> 0]
  /\ sequence = [s \in Sids |-> 0]
  /\ phase = [s \in Sids |-> "unused"]
  /\ captured = [s \in Sids |-> NoUpdate]
  /\ inflight = {}
  /\ received = {}
  /\ created = {}
  /\ count = [s \in Sids |-> 0]

\* rescan_catalog awaits notify_content_changed before it goes on.
MayPublish == pendingNotify = NoUpdate /\ catalog < MaxCatalog

\* It swaps the shared Arc for a catalog with other content.
Publish ==
  /\ MayPublish
  /\ catalog' = catalog + 1
  /\ pendingNotify' = catalog + 1
  /\ UNCHANGED <<table, outbox, phase, captured, received>>

\* notify_content_changed, under the table's lock.
NotifyContentChanged ==
  /\ pendingNotify # NoUpdate
  /\ subscriptions' = Unexpired
  /\ Notify(ChangeAudience(Unexpired), ChangedUpdateId, "changed")
  /\ pendingNotify' = NoUpdate
  /\ UNCHANGED <<catalog, service, left, phase, captured, received>>

\* EventManager::subscribe for a request without SID.
Subscribe(s, svc, timeout) ==
  /\ phase[s] = "unused"
  /\ phase' = [phase EXCEPT ![s] = "inserted"]
  /\ subscriptions' = subscriptions \cup {s}
  /\ service' = [service EXCEPT ![s] = svc]
  /\ left' = [left EXCEPT ![s] = timeout]
  /\ UNCHANGED <<catalog, pendingNotify, outbox, captured, received>>

\* event_request, after subscribe returned and the lock is free again: the
\* catalog is read and the task of the initial event is spawned.
SpawnInitial(s) ==
  /\ phase[s] = "inserted"
  /\ phase' = [phase EXCEPT ![s] = "sleeping"]
  /\ captured' = [captured EXCEPT ![s] = InitialUpdateId(s)]
  /\ UNCHANGED <<catalog, pendingNotify, table, outbox, received>>

\* The initial-event task wakes up: notify_initial.
NotifyInitial(s) ==
  /\ phase[s] = "sleeping"
  /\ phase' = [phase EXCEPT ![s] = "done"]
  /\ Notify(InitialAudience(s), captured[s], "initial")
  /\ UNCHANGED <<catalog, pendingNotify, table, captured, received>>

\* A client knows its SID once the response is sent, after SpawnInitial.
Known(s) == phase[s] \in {"sleeping", "done"}

\* EventManager::subscribe for a renewal: expired entries go first, then an
\* entry that is left, and of the same service, gets a new lease.
Renew(s, svc, timeout) ==
  /\ Known(s)
  /\ subscriptions' = Unexpired
  /\ left' = IF s \in Unexpired /\ service[s] = svc
               THEN [left EXCEPT ![s] = timeout]
               ELSE left
  /\ UNCHANGED <<catalog, pendingNotify, service, outbox, phase, captured,
                 received>>

\* EventManager::unsubscribe; an expired entry that was not pruned counts.
Unsubscribe(s, svc) ==
  /\ Known(s)
  /\ s \in subscriptions
  /\ service[s] = svc
  /\ subscriptions' = subscriptions \ {s}
  /\ UNCHANGED <<catalog, pendingNotify, service, left, outbox, phase,
                 captured, received>>

\* send_notification succeeds.
Deliver(n) ==
  /\ inflight' = inflight \ {n}
  /\ received' = received \cup {n}
  /\ UNCHANGED <<catalog, pendingNotify, table, sequence, created, count,
                 phase, captured>>

\* send_notification fails or runs into its three-second timeout; no retry.
Lose(n) ==
  /\ inflight' = inflight \ {n}
  /\ UNCHANGED <<catalog, pendingNotify, table, sequence, created, count,
                 phase, captured, received>>

\* Time passes.
Tick ==
  /\ left' = [s \in Sids |-> IF left[s] > 0 THEN left[s] - 1 ELSE 0]
  /\ UNCHANGED <<catalog, pendingNotify, subscriptions, service, outbox,
                 phase, captured, received>>

Next ==
  \/ Publish
  \/ NotifyContentChanged
  \/ \E s \in Sids, svc \in Services, timeout \in Timeouts :
       Subscribe(s, svc, timeout) \/ Renew(s, svc, timeout)
  \/ \E s \in Sids, svc \in Services : Unsubscribe(s, svc)
  \/ \E s \in Sids : SpawnInitial(s) \/ NotifyInitial(s)
  \/ \E n \in inflight : Deliver(n) \/ Lose(n)
  \/ Tick

Spec == Init /\ [][Next]_vars

\* The tasks of the server run to their end; clients and the clock may stop.
Fairness ==
  /\ WF_vars(NotifyContentChanged)
  /\ \A s \in Sids : WF_vars(SpawnInitial(s)) /\ WF_vars(NotifyInitial(s))

FairSpec == Spec /\ Fairness

-------------------------------------------------------------------------------
(* Properties.                                                             *)

Live(s) == s \in subscriptions /\ service[s] = "ContentDirectory"

Told(s, update_id) ==
  \E n \in created : n.sid = s /\ n.update_id = update_id

\* Event keys (notification(), events.rs:223): the first event of a
\* subscription has key 0, and no other one ever has, wrap-around included.
SequenceNumbering ==
  \A n \in created :
    n.sequence = IF n.index = 0 THEN 0 ELSE ((n.index - 1) % MaxSeq) + 1

\* No publication falls between the initial event and the announcements: once
\* rescan_catalog has announced and the SUBSCRIBE request has run to its end,
\* a subscriber in the table was sent the update ID of the current catalog.
\* This rests on writing the catalog before notifying (http.rs:706-707) and on
\* inserting the entry before reading the catalog (http.rs:344-364).
NoLostUpdate ==
  \A s \in Sids :
    Live(s) /\ phase[s] = "done" /\ pendingNotify = NoUpdate => Told(s, catalog)

\* The event keys of a subscription follow the order of publication, the one
\* initial event aside: its update ID was read before its key was taken.
KeysFollowPublication ==
  \A m, n \in created :
    m.sid = n.sid /\ m.index < n.index /\ n.origin = "changed"
      => m.update_id <= n.update_id

\* What a control point may rely on: if its initial event came first and no
\* event key is missing, the event with the last key has the current update
\* ID, in whatever order the send_notification tasks delivered them.
GapFreeSubscriberIsCurrent ==
  \A s \in Sids :
    LET mine == {n \in created : n.sid = s} IN
      ( /\ Live(s) /\ phase[s] = "done" /\ pendingNotify = NoUpdate
        /\ mine \subseteq received
        /\ \A n \in mine : n.origin = "initial" => n.index = 0 )
      => \E n \in mine : n.index + 1 = count[s] /\ n.update_id = catalog

\* A subscription that ended stays ended.  A lease that ran out is never
\* extended, whoever pruned or did not prune before: a renewal prunes before it
\* looks its SID up (events.rs:91-98).  A SID that left the table, by UNSUBSCRIBE
\* or by expiry, does not come back and is built no event, though its
\* initial-event task may still be asleep (notify_initial, events.rs:156).
EndIsFinal ==
  [][\A s \in Sids :
       /\ s \notin subscriptions' => \A n \in created' \ created : n.sid # s
       /\ phase[s] # "unused" =>
            /\ left[s] = 0 => left'[s] = 0
            /\ s \notin subscriptions => s \notin subscriptions']_vars

\* Whatever is published while it subscribes, a subscriber is sent the current
\* update ID or leaves the table.
SubscriberCatchesUp ==
  \A s \in Sids : Live(s) ~> ~ Live(s) \/ Told(s, catalog)

\* docs/protocol-research.md:57: a new subscription is sent its state with
\* key zero.
InitialEventIsSequenceZero ==
  \A n \in created : n.origin = "initial" => n.sequence = 0

===============================================================================

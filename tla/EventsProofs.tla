----------------------------- MODULE EventsProofs -----------------------------
(***************************************************************************)
(* Theorems about Events, for every set of SIDs, every lease, every MaxSeq *)
(* and every number of catalogs.                                           *)
(***************************************************************************)
EXTENDS Events, TLAPS

\* Notify builds one notification for each member of S, and the counters of
\* the others keep their values.
LEMMA NotifyTypes ==
  ASSUME TypeOK, NEW S \in SUBSET Sids, NEW u \in Nat,
         NEW o \in {"initial", "changed"}, Notify(S, u, o)
  PROVE  /\ created' \in SUBSET Notification
         /\ inflight' \in SUBSET Notification
         /\ sequence' \in [Sids -> 0 .. MaxSeq]
         /\ count' \in [Sids -> Nat]
<1> DEFINE new == {[sid |-> s, index |-> count[s], sequence |-> sequence[s],
                    update_id |-> u, origin |-> o] : s \in S}
<1>1. new \in SUBSET Notification
  BY MaxSeqAssumption DEF TypeOK, Notification
<1>2. \A s \in Sids : NextSequence(sequence[s]) \in 0 .. MaxSeq
  BY MaxSeqAssumption DEF TypeOK, NextSequence
<1>3. /\ created' = created \cup new
      /\ inflight' = inflight \cup new
  BY DEF Notify
<1>4. sequence' \in [Sids -> 0 .. MaxSeq] /\ count' \in [Sids -> Nat]
  BY <1>2 DEF Notify, TypeOK
<1>5. QED
  BY <1>1, <1>3, <1>4 DEF TypeOK

\* Every state of EventManager and of the handlers around it is well typed.
THEOREM TypeCorrect == Spec => []TypeOK
<1>1. Init => TypeOK
  BY MaxSeqAssumption DEF Init, TypeOK, Services, NoUpdate
<1>2. TypeOK /\ [Next]_vars => TypeOK'
  <2> SUFFICES ASSUME TypeOK, [Next]_vars PROVE TypeOK'
    OBVIOUS
  <2> USE DEF table, outbox
  <2>1. CASE Publish
    BY <2>1 DEF TypeOK, MayPublish, Publish
  <2>2. CASE NotifyContentChanged
    <3>1. ChangeAudience(Unexpired) \in SUBSET Sids /\ ChangedUpdateId \in Nat
      BY DEF TypeOK, ChangeAudience, Unexpired, ChangedUpdateId
    <3>2. /\ created' \in SUBSET Notification
          /\ inflight' \in SUBSET Notification
          /\ sequence' \in [Sids -> 0 .. MaxSeq]
          /\ count' \in [Sids -> Nat]
      BY <2>2, <3>1, NotifyTypes DEF NotifyContentChanged
    <3>3. QED
      BY <2>2, <3>2 DEF TypeOK, NotifyContentChanged, Unexpired, NoUpdate
  <2>3. ASSUME NEW s \in Sids, NEW svc \in Services, NEW timeout \in Timeouts,
               Subscribe(s, svc, timeout)
        PROVE  TypeOK'
    BY <2>3, TimeoutsAssumption DEF TypeOK, Subscribe
  <2>4. ASSUME NEW s \in Sids, NEW svc \in Services, NEW timeout \in Timeouts,
               Renew(s, svc, timeout)
        PROVE  TypeOK'
    BY <2>4, TimeoutsAssumption DEF TypeOK, Renew, Unexpired
  <2>5. ASSUME NEW s \in Sids, NEW svc \in Services, Unsubscribe(s, svc)
        PROVE  TypeOK'
    BY <2>5 DEF TypeOK, Unsubscribe
  <2>6. ASSUME NEW s \in Sids, SpawnInitial(s)
        PROVE  TypeOK'
    BY <2>6 DEF TypeOK, SpawnInitial, InitialUpdateId
  <2>7. ASSUME NEW s \in Sids, NotifyInitial(s)
        PROVE  TypeOK'
    <3>1. InitialAudience(s) \in SUBSET Sids /\ captured[s] \in Nat
      BY DEF TypeOK, InitialAudience
    <3>2. /\ created' \in SUBSET Notification
          /\ inflight' \in SUBSET Notification
          /\ sequence' \in [Sids -> 0 .. MaxSeq]
          /\ count' \in [Sids -> Nat]
      BY <2>7, <3>1, NotifyTypes DEF NotifyInitial
    <3>3. QED
      BY <2>7, <3>2 DEF TypeOK, NotifyInitial
  <2>8. ASSUME NEW n \in inflight, Deliver(n) \/ Lose(n)
        PROVE  TypeOK'
    BY <2>8 DEF TypeOK, Deliver, Lose
  <2>9. CASE Tick
    BY <2>9 DEF TypeOK, Tick
  <2>10. CASE UNCHANGED vars
    BY <2>10 DEF TypeOK, vars
  <2>11. QED
    BY <2>1, <2>2, <2>3, <2>4, <2>5, <2>6, <2>7, <2>8, <2>9, <2>10 DEF Next
<1>3. QED
  BY <1>1, <1>2, PTL DEF Spec

-------------------------------------------------------------------------------
(* NoLostUpdate is not inductive: while a request or an announcement is    *)
(* under way a subscriber may not have been told yet, and the invariant    *)
(* says who still owes it the update ID.                                   *)

\* Somebody is going to tell s: rescan_catalog, the handler that will read the
\* catalog, or the sleeping task that has read it.
Owed(s) ==
  \/ pendingNotify = catalog
  \/ phase[s] = "inserted"
  \/ phase[s] = "sleeping" /\ captured[s] = catalog

OwedOrTold ==
  /\ pendingNotify \in {NoUpdate, catalog}
  /\ \A s \in Sids : Live(s) => Owed(s) \/ Told(s, catalog)

\* A notification built earlier stays in the history.
LEMMA ToldStays ==
  ASSUME NEW s \in Sids, created \subseteq created', UNCHANGED catalog,
         Told(s, catalog)
  PROVE  Told(s, catalog)'
BY DEF Told

\* Notify tells every member of S what it is given.
LEMMA NotifyTells ==
  ASSUME NEW S \in SUBSET Sids, NEW u, NEW o, Notify(S, u, o), NEW s \in S
  PROVE  \E n \in created' : n.sid = s /\ n.update_id = u
<1> DEFINE n == [sid |-> s, index |-> count[s], sequence |-> sequence[s],
                 update_id |-> u, origin |-> o]
<1>1. n \in created'
  BY DEF Notify
<1>2. n.sid = s /\ n.update_id = u
  OBVIOUS
<1>3. QED
  BY <1>1, <1>2

\* Each step keeps the account of who is owed an update ID.
LEMMA OwedOrToldInductive == TypeOK /\ OwedOrTold /\ [Next]_vars => OwedOrTold'
<1> SUFFICES ASSUME TypeOK, OwedOrTold, [Next]_vars PROVE OwedOrTold'
  OBVIOUS
<1> USE DEF table, outbox
<1>1. CASE Publish
  BY <1>1 DEF OwedOrTold, Owed, MayPublish, Publish
<1>2. CASE NotifyContentChanged
  <2>1. pendingNotify = catalog
    BY <1>2 DEF OwedOrTold, NotifyContentChanged
  <2>2. ASSUME NEW s \in Sids, Live(s)' PROVE Told(s, catalog)'
    <3>1. s \in ChangeAudience(Unexpired)
      BY <1>2, <2>2 DEF Live, ChangeAudience, NotifyContentChanged
    <3>2. ChangeAudience(Unexpired) \in SUBSET Sids
      BY DEF TypeOK, ChangeAudience, Unexpired
    <3>3. \E n \in created' : n.sid = s /\ n.update_id = ChangedUpdateId
      BY <1>2, <3>1, <3>2, NotifyTells DEF NotifyContentChanged
    <3>4. QED
      BY <1>2, <2>1, <3>3 DEF Told, ChangedUpdateId, NotifyContentChanged
  <2>3. pendingNotify' = NoUpdate
    BY <1>2 DEF NotifyContentChanged
  <2>4. QED
    BY <2>2, <2>3 DEF OwedOrTold
<1>3. ASSUME NEW s \in Sids, NEW svc \in Services, NEW timeout \in Timeouts,
             Subscribe(s, svc, timeout)
      PROVE  OwedOrTold'
  BY <1>3 DEF TypeOK, OwedOrTold, Owed, Told, Live, Subscribe
<1>4. ASSUME NEW s \in Sids, NEW svc \in Services, NEW timeout \in Timeouts,
             Renew(s, svc, timeout)
      PROVE  OwedOrTold'
  BY <1>4 DEF OwedOrTold, Owed, Told, Live, Renew, Unexpired
<1>5. ASSUME NEW s \in Sids, NEW svc \in Services, Unsubscribe(s, svc)
      PROVE  OwedOrTold'
  BY <1>5 DEF OwedOrTold, Owed, Told, Live, Unsubscribe
<1>6. ASSUME NEW s \in Sids, SpawnInitial(s)
      PROVE  OwedOrTold'
  BY <1>6 DEF TypeOK, OwedOrTold, Owed, Told, Live, SpawnInitial,
              InitialUpdateId
<1>7. ASSUME NEW s \in Sids, NotifyInitial(s)
      PROVE  OwedOrTold'
  <2>1. created \subseteq created'
    BY <1>7 DEF NotifyInitial, Notify
  <2>2. UNCHANGED <<catalog, pendingNotify, subscriptions, service>>
    BY <1>7 DEF NotifyInitial
  <2>3. ASSUME NEW t \in Sids, Live(t)' PROVE Owed(t)' \/ Told(t, catalog)'
    <3>1. Live(t)
      BY <2>2, <2>3 DEF Live
    <3>2. CASE Told(t, catalog)
      BY <2>1, <2>2, <3>2, ToldStays
    <3>3. CASE Owed(t) /\ t # s
      BY <1>7, <3>3 DEF Owed, NotifyInitial, TypeOK
    <3>4. CASE Owed(t) /\ t = s /\ pendingNotify = catalog
      BY <2>2, <3>4 DEF Owed
    <3>5. CASE Owed(t) /\ t = s /\ captured[s] = catalog
      <4>1. s \in InitialAudience(s) /\ InitialAudience(s) \in SUBSET Sids
        BY <3>1, <3>5 DEF Live, InitialAudience
      <4>2. \E n \in created' : n.sid = s /\ n.update_id = captured[s]
        BY <1>7, <4>1, NotifyTells DEF NotifyInitial
      <4>3. QED
        BY <2>2, <3>5, <4>2 DEF Told
    <3>6. QED
      BY <1>7, <3>1, <3>2, <3>3, <3>4, <3>5
         DEF OwedOrTold, Owed, NotifyInitial
  <2>4. QED
    BY <2>2, <2>3 DEF OwedOrTold
<1>8. ASSUME NEW n \in inflight, Deliver(n) \/ Lose(n)
      PROVE  OwedOrTold'
  BY <1>8 DEF OwedOrTold, Owed, Told, Live, Deliver, Lose
<1>9. CASE Tick
  BY <1>9 DEF OwedOrTold, Owed, Told, Live, Tick
<1>10. CASE UNCHANGED vars
  BY <1>10 DEF OwedOrTold, Owed, Told, Live, vars
<1>11. QED
  BY <1>1, <1>2, <1>3, <1>4, <1>5, <1>6, <1>7, <1>8, <1>9, <1>10 DEF Next

\* A subscriber whose SUBSCRIBE request has run to its end has been sent the
\* current update ID whenever no announcement is pending (http.rs:706-707
\* against http.rs:344-368).
THEOREM NoUpdateIsLost == Spec => []NoLostUpdate
<1>1. Init => OwedOrTold
  BY DEF Init, OwedOrTold, Live, NoUpdate
<1>2. TypeOK /\ OwedOrTold => NoLostUpdate
  BY DEF TypeOK, OwedOrTold, Owed, NoLostUpdate, NoUpdate
<1>3. QED
  BY <1>1, <1>2, OwedOrToldInductive, TypeCorrect, PTL DEF Spec

-------------------------------------------------------------------------------
(* The end of a subscription.  This needs no more than the types.          *)

\* A lease that ran out stays out: only a new subscription or a renewal sets
\* `expires`, and a renewal finds unexpired entries only (events.rs:91-98).
LEMMA ExpiredStaysExpired ==
  ASSUME TypeOK, Next, NEW s \in Sids, phase[s] # "unused", left[s] = 0
  PROVE  left'[s] = 0
<1>1. ASSUME UNCHANGED left PROVE left'[s] = 0
  BY <1>1
<1>2. ASSUME NEW t \in Sids, NEW svc \in Services, NEW timeout \in Timeouts,
             Subscribe(t, svc, timeout)
      PROVE  left'[s] = 0
  BY <1>2 DEF TypeOK, Subscribe
<1>3. ASSUME NEW t \in Sids, NEW svc \in Services, NEW timeout \in Timeouts,
             Renew(t, svc, timeout)
      PROVE  left'[s] = 0
  <2>1. t \in Unexpired => t # s
    BY DEF Unexpired
  <2>2. QED
    BY <1>3, <2>1 DEF TypeOK, Renew
<1>4. CASE Tick
  BY <1>4 DEF TypeOK, Tick
<1>5. QED
  BY <1>1, <1>2, <1>3, <1>4
     DEF Next, MayPublish, Publish, NotifyContentChanged, Unsubscribe, SpawnInitial,
         NotifyInitial, Deliver, Lose, table, outbox

\* notify_initial and notify_content_changed build events for entries of the
\* table only (events.rs:156, 168).
LEMMA CancelledIsSilent ==
  ASSUME TypeOK, Next, NEW n \in created' \ created
  PROVE  n.sid \in subscriptions'
<1>1. ASSUME NEW S, NEW u, NEW o, Notify(S, u, o) PROVE n.sid \in S
  BY <1>1 DEF Notify
<1>2. CASE NotifyContentChanged
  <2>1. n.sid \in ChangeAudience(Unexpired)
    BY <1>1, <1>2 DEF NotifyContentChanged
  <2>2. QED
    BY <1>2, <2>1 DEF NotifyContentChanged, ChangeAudience
<1>3. ASSUME NEW s \in Sids, NotifyInitial(s) PROVE n.sid \in subscriptions'
  <2>1. n.sid \in InitialAudience(s)
    BY <1>1, <1>3 DEF NotifyInitial
  <2>2. QED
    BY <1>3, <2>1 DEF NotifyInitial, InitialAudience, table
<1>4. QED
  BY <1>2, <1>3
     DEF Next, MayPublish, Publish, Subscribe, Renew, Unsubscribe, SpawnInitial,
         Deliver, Lose, Tick, table, outbox

\* A SID is given once (events.rs:115).
LEMMA CancelledStaysAway ==
  ASSUME TypeOK, Next, NEW s \in Sids, phase[s] # "unused", s \notin subscriptions
  PROVE  s \notin subscriptions'
BY DEF Next, MayPublish, Publish, NotifyContentChanged, Subscribe, Renew,
       Unsubscribe, SpawnInitial, NotifyInitial, Deliver, Lose, Tick, Unexpired,
       table, outbox

\* Neither renewals, sleeping tasks nor announcements revive a subscription that
\* expired or was cancelled (events.rs:91-98, 156, 168).
THEOREM EndedStaysEnded == Spec => EndIsFinal
<1> DEFINE P == \A s \in Sids :
                  /\ s \notin subscriptions' => \A n \in created' \ created : n.sid # s
                  /\ phase[s] # "unused" =>
                       /\ left[s] = 0 => left'[s] = 0
                       /\ s \notin subscriptions => s \notin subscriptions'
<1>1. TypeOK /\ [Next]_vars => [P]_vars
  BY ExpiredStaysExpired, CancelledIsSilent, CancelledStaysAway
<1>2. QED
  BY <1>1, TypeCorrect, PTL DEF Spec, EndIsFinal

-------------------------------------------------------------------------------
(* What the history of a subscription looks like.                          *)

HistoryOK ==
  /\ \A s \in Sids : captured[s] <= catalog
  /\ \A n \in created : n.update_id <= catalog /\ n.index < count[n.sid]
  /\ \A m, n \in created : m.sid = n.sid /\ m.index = n.index => m = n
  /\ \A s \in Sids : count[s] > 0 =>
       \E n \in created : n.sid = s /\ n.index + 1 = count[s]
  /\ KeysFollowPublication

\* A batch of notifications about the current catalog, or one initial event
\* about an older one, extends the history of its subscriptions.
LEMMA NotifyKeepsHistory ==
  ASSUME TypeOK, HistoryOK, NEW S \in SUBSET Sids, NEW u \in Nat, u <= catalog,
         NEW o \in {"initial", "changed"}, o = "changed" => u = catalog,
         Notify(S, u, o), UNCHANGED <<catalog, captured>>
  PROVE  HistoryOK'
<1> DEFINE note(s) == [sid |-> s, index |-> count[s], sequence |-> sequence[s],
                       update_id |-> u, origin |-> o]
<1>1. created' = created \cup {note(s) : s \in S}
  BY DEF Notify
<1>2. /\ \A s \in S : count'[s] = count[s] + 1
      /\ \A s \in Sids \ S : count'[s] = count[s]
  BY DEF Notify
<1>3. \A s \in Sids : count[s] \in Nat /\ catalog \in Nat
  BY DEF TypeOK
<1>4. \A n \in created : n.sid \in Sids /\ n.index \in Nat /\ n.update_id \in Nat
  BY DEF TypeOK, Notification
<1>5. \A n \in created : n.update_id <= catalog /\ n.index < count[n.sid]
  BY DEF HistoryOK
<1>6. \A s \in Sids : captured'[s] <= catalog'
  BY DEF HistoryOK
<1>7. \A n \in created' : n.update_id <= catalog' /\ n.index < count'[n.sid]
  BY <1>1, <1>2, <1>3, <1>4, <1>5
<1>8. ASSUME NEW m \in created', NEW n \in created',
             m.sid = n.sid, m.index = n.index
      PROVE  m = n
  BY <1>1, <1>3, <1>4, <1>5, <1>8 DEF HistoryOK
<1>9. ASSUME NEW s \in Sids, count'[s] > 0
      PROVE  \E n \in created' : n.sid = s /\ n.index + 1 = count'[s]
  <2>1. CASE s \in S
    <3>1. note(s) \in created' /\ note(s).sid = s /\ note(s).index = count[s]
      BY <1>1, <2>1
    <3>2. QED
      BY <1>2, <2>1, <3>1
  <2>2. CASE s \notin S
    BY <1>1, <1>2, <1>9, <2>2 DEF HistoryOK
  <2>3. QED
    BY <2>1, <2>2
<1>10. ASSUME NEW m \in created', NEW n \in created',
              m.sid = n.sid, m.index < n.index, n.origin = "changed"
       PROVE  m.update_id <= n.update_id
  <2>1. CASE n \in created
    <3>1. m \in created
      BY <1>1, <1>3, <1>4, <1>5, <1>10, <2>1
    <3>2. QED
      BY <1>10, <2>1, <3>1 DEF HistoryOK, KeysFollowPublication
  <2>2. CASE n \notin created
    <3>1. n.update_id = u /\ n.origin = o
      BY <1>1, <2>2
    <3>2. n.update_id = catalog /\ catalog' = catalog
      BY <1>10, <3>1
    <3>3. QED
      BY <1>7, <3>2
  <2>3. QED
    BY <2>1, <2>2
<1>11. QED
  BY <1>6, <1>7, <1>8, <1>9, <1>10 DEF HistoryOK, KeysFollowPublication

\* Steps that build no notification cannot disturb the history.
LEMMA HistoryUndisturbed ==
  ASSUME TypeOK, HistoryOK, UNCHANGED <<created, count>>,
         catalog' = catalog \/ catalog' = catalog + 1,
         \A s \in Sids : captured'[s] = captured[s] \/ captured'[s] = catalog
  PROVE  HistoryOK'
<1>1. \A s \in Sids : captured'[s] <= catalog'
  BY DEF TypeOK, HistoryOK
<1>2. \A n \in created' : n.update_id <= catalog' /\ n.index < count'[n.sid]
  BY DEF TypeOK, Notification, HistoryOK
<1>3. QED
  BY <1>1, <1>2 DEF HistoryOK, KeysFollowPublication

\* Every step keeps the history in order; an announcement is about the current
\* catalog, because the next one is not published before it.
LEMMA HistoryInductive ==
  TypeOK /\ OwedOrTold /\ HistoryOK /\ [Next]_vars => HistoryOK'
<1> SUFFICES ASSUME TypeOK, OwedOrTold, HistoryOK, [Next]_vars PROVE HistoryOK'
  OBVIOUS
<1> USE DEF table, outbox
<1>1. CASE Publish
  BY <1>1, HistoryUndisturbed DEF MayPublish, Publish
<1>2. CASE NotifyContentChanged
  <2>1. pendingNotify = catalog /\ catalog \in Nat /\ catalog <= catalog
    BY <1>2 DEF TypeOK, OwedOrTold, NotifyContentChanged
  <2>2. ChangeAudience(Unexpired) \in SUBSET Sids
    BY DEF TypeOK, ChangeAudience, Unexpired
  <2>3. QED
    BY <1>2, <2>1, <2>2, NotifyKeepsHistory
       DEF NotifyContentChanged, ChangedUpdateId
<1>3. ASSUME NEW s \in Sids, SpawnInitial(s)
      PROVE  HistoryOK'
  BY <1>3, HistoryUndisturbed DEF TypeOK, SpawnInitial, InitialUpdateId
<1>4. ASSUME NEW s \in Sids, NotifyInitial(s)
      PROVE  HistoryOK'
  <2>1. captured[s] \in Nat /\ captured[s] <= catalog
    BY DEF TypeOK, HistoryOK
  <2>2. InitialAudience(s) \in SUBSET Sids
    BY DEF TypeOK, InitialAudience
  <2>3. QED
    BY <1>4, <2>1, <2>2, NotifyKeepsHistory DEF NotifyInitial
<1>5. CASE UNCHANGED <<catalog, captured, created, count>>
  BY <1>5, HistoryUndisturbed
<1>6. QED
  BY <1>1, <1>2, <1>3, <1>4, <1>5
     DEF Next, Subscribe, Renew, Unsubscribe, Deliver, Lose, Tick, vars

\* The history of every subscription is in order.
THEOREM HistoryInOrder == Spec => [](TypeOK /\ OwedOrTold /\ HistoryOK)
<1>1. Init => OwedOrTold /\ HistoryOK
  BY DEF Init, OwedOrTold, HistoryOK, KeysFollowPublication, Live, NoUpdate
<1>2. QED
  BY <1>1, OwedOrToldInductive, HistoryInductive, TypeCorrect, PTL DEF Spec

\* Event keys follow the order of publication (events.rs:223-237, called under
\* the table's lock).
THEOREM KeysInOrder == Spec => []KeysFollowPublication
<1>1. HistoryOK => KeysFollowPublication
  BY DEF HistoryOK
<1>2. QED
  BY <1>1, HistoryInOrder, PTL

\* A control point that misses no event key, and got its initial event first,
\* ends with the current update ID.
THEOREM GapFreeIsCurrent == Spec => []GapFreeSubscriberIsCurrent
<1>1. TypeOK /\ OwedOrTold /\ HistoryOK => GapFreeSubscriberIsCurrent
  <2> SUFFICES ASSUME TypeOK, OwedOrTold, HistoryOK,
                      NEW s \in Sids, Live(s), phase[s] = "done",
                      pendingNotify = NoUpdate,
                      \A n \in created :
                        n.sid = s /\ n.origin = "initial" => n.index = 0
               PROVE  \E n \in created : /\ n.sid = s
                                         /\ n.index + 1 = count[s]
                                         /\ n.update_id = catalog
    BY DEF GapFreeSubscriberIsCurrent
  <2>1. PICK m \in created : m.sid = s /\ m.update_id = catalog
    BY DEF TypeOK, OwedOrTold, Owed, Told, NoUpdate
  <2>2. m.index < count[s] /\ m.index \in Nat /\ count[s] \in Nat
    BY <2>1 DEF HistoryOK, TypeOK, Notification
  <2>3. PICK n \in created : n.sid = s /\ n.index + 1 = count[s]
    BY <2>2 DEF HistoryOK
  <2>4. /\ n.index \in Nat /\ n.update_id \in Nat /\ catalog \in Nat
        /\ n.origin \in {"initial", "changed"} /\ n.update_id <= catalog
    BY DEF HistoryOK, TypeOK, Notification
  <2>5. CASE m.index = n.index
    BY <2>1, <2>3, <2>5 DEF HistoryOK
  <2>6. CASE m.index < n.index
    <3>1. n.origin = "changed"
      BY <2>2, <2>3, <2>4, <2>6
    <3>2. m.update_id <= n.update_id
      BY <2>1, <2>3, <2>6, <3>1 DEF HistoryOK, KeysFollowPublication
    <3>3. QED
      BY <2>1, <2>3, <2>4, <3>2
  <2>7. QED
    BY <2>2, <2>3, <2>4, <2>5, <2>6
<1>2. QED
  BY <1>1, HistoryInOrder, PTL

-------------------------------------------------------------------------------
(* Event keys.                                                             *)

\* The event key that follows i others.
Key(i) == IF i = 0 THEN 0 ELSE ((i - 1) % MaxSeq) + 1

\* Adding one to a remainder.
LEMMA ModStep ==
  ASSUME NEW M \in Nat \ {0}, NEW c \in Nat
  PROVE  /\ c % M \in 0 .. M - 1
         /\ (c + 1) % M = IF c % M = M - 1 THEN 0 ELSE (c % M) + 1
<1> DEFINE q == c \div M
           r == c % M
<1>1. q \in Nat
  OBVIOUS
<1>2. r \in 0 .. M - 1
  OBVIOUS
<1>3. c = q * M + r
  OBVIOUS
<1>4. \A x \in Nat, y \in 0 .. M - 1 : (x * M + y) % M = y
  OBVIOUS
<1> HIDE DEF q
<1>5. CASE r = M - 1
  <2>1. c + 1 = (q + 1) * M + 0
    BY <1>1, <1>3, <1>5
  <2>2. ((q + 1) * M + 0) % M = 0
    BY <1>1, <1>4
  <2>3. QED
    BY <1>2, <1>5, <2>1, <2>2
<1>6. CASE r # M - 1
  <2>1. r + 1 \in 0 .. M - 1
    BY <1>2, <1>6
  <2>2. c + 1 = q * M + (r + 1)
    BY <1>1, <1>2, <1>3
  <2>3. (q * M + (r + 1)) % M = r + 1
    BY <1>1, <1>4, <2>1
  <2>4. QED
    BY <1>2, <1>6, <2>2, <2>3
<1>7. QED
  BY <1>5, <1>6

\* NextSequence walks through the keys, past u32::MAX too.
LEMMA NextKey == ASSUME NEW i \in Nat PROVE NextSequence(Key(i)) = Key(i + 1)
<1>1. CASE i = 0
  <2>1. 0 % MaxSeq = 0
    BY ModStep, MaxSeqAssumption
  <2>2. QED
    BY <1>1, <2>1, MaxSeqAssumption DEF Key, NextSequence
<1>2. CASE i # 0
  <2> DEFINE r == (i - 1) % MaxSeq
  <2>0. i - 1 \in Nat
    BY <1>2
  <2>1. /\ r \in 0 .. MaxSeq - 1
        /\ ((i - 1) + 1) % MaxSeq = IF r = MaxSeq - 1 THEN 0 ELSE r + 1
    BY <2>0, ModStep, MaxSeqAssumption
  <2>2. Key(i) = r + 1
    BY <1>2 DEF Key
  <2>3. Key(i + 1) = (((i - 1) + 1) % MaxSeq) + 1
    BY <1>2 DEF Key
  <2> HIDE DEF r
  <2>4. QED
    BY <2>1, <2>2, <2>3, MaxSeqAssumption DEF NextSequence
<1>3. QED
  BY <1>1, <1>2

NumberingInv ==
  /\ \A s \in Sids : sequence[s] = Key(count[s])
  /\ \A n \in created : n.sequence = Key(n.index)

\* Key zero marks the first event of a subscription and no other
\* (notification(), events.rs:225-229).
THEOREM KeyZeroIsFirst == Spec => []SequenceNumbering
<1>1. Init => NumberingInv
  BY DEF Init, NumberingInv, Key
<1>2. TypeOK /\ NumberingInv /\ [Next]_vars => NumberingInv'
  <2> SUFFICES ASSUME TypeOK, NumberingInv, [Next]_vars PROVE NumberingInv'
    OBVIOUS
  <2> USE DEF outbox
  <2>1. ASSUME NEW S \in SUBSET Sids, NEW u, NEW o, Notify(S, u, o)
        PROVE  NumberingInv'
    <3>1. \A s \in Sids : count[s] \in Nat
      BY DEF TypeOK
    <3>2. ASSUME NEW s \in Sids PROVE sequence'[s] = Key(count'[s])
      BY <2>1, <3>1, NextKey DEF Notify, NumberingInv
    <3>3. ASSUME NEW n \in created', n \notin created PROVE n.sequence = Key(n.index)
      <4>1. PICK s \in S : n = [sid |-> s, index |-> count[s], sequence |-> sequence[s],
                               update_id |-> u, origin |-> o]
        BY <2>1, <3>3 DEF Notify
      <4>2. QED
        BY <4>1 DEF NumberingInv
    <3>4. QED
      BY <3>2, <3>3 DEF NumberingInv
  <2>2. CASE UNCHANGED <<sequence, count, created>>
    BY <2>2 DEF NumberingInv
  <2>3. QED
    <3>1. ChangeAudience(Unexpired) \in SUBSET Sids
      BY DEF TypeOK, ChangeAudience, Unexpired
    <3>2. \A s \in Sids : InitialAudience(s) \in SUBSET Sids
      BY DEF TypeOK, InitialAudience
    <3>3. QED
      BY <2>1, <2>2, <3>1, <3>2
         DEF Next, MayPublish, Publish, NotifyContentChanged, Subscribe, Renew,
             Unsubscribe, SpawnInitial, NotifyInitial, Deliver, Lose, Tick, vars
<1>3. TypeOK /\ NumberingInv => SequenceNumbering
  BY DEF TypeOK, Notification, NumberingInv, SequenceNumbering, Key
<1>4. QED
  BY <1>1, <1>2, <1>3, TypeCorrect, PTL DEF Spec

===============================================================================

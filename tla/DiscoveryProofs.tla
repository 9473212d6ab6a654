---------------------------- MODULE DiscoveryProofs ---------------------------
(***************************************************************************)
(* Theorems about Lifecycle for any number of clients and searches, and    *)
(* about Discovery, which is Lifecycle with a clock and a network, for any *)
(* number of advertisements, every max-age, MX and resolution of the clock. *)
(***************************************************************************)
EXTENDS Discovery, TLAPS

-------------------------------------------------------------------------------
(* Lifecycle.                                                              *)

\* The variables keep their types, and axum's future never ends while one of
\* its connections is open (http.rs:142-147).
THEOREM TypeCorrect == Spec => []TypeOK
<1> USE DEF TypeOK
<1>1. Init => TypeOK
  BY DEF Init, Mains
<1>2. TypeOK /\ [Next]_vars => TypeOK'
  <2> SUFFICES ASSUME TypeOK, [Next]_vars PROVE TypeOK'
    OBVIOUS
  <2> USE DEF Mains, serveVars, webVars, ssdpVars, scanVars
  <2>1. CASE Bind \/ StartFails \/ Spawn
    BY <2>1 DEF Bind, StartFails, Spawn
  <2>2. CASE PollHttp \/ CatchControlC \/ StopAccepting \/ HttpEnds
    BY <2>2 DEF PollHttp, CatchControlC, StopAccepting, HttpEnds, Drained
  <2>3. CASE HttpFirst \/ SsdpFirst
    BY <2>3 DEF HttpFirst, SsdpFirst, SendShutdown
  <2>4. CASE Return \/ DropRuntime \/ Exit
    BY <2>4 DEF Return, map_runtime_results, DropRuntime, Exit
  <2>5. CASE Ssdp
    BY <2>5 DEF Ssdp, SocketFails, SendAlive, SendByebye, ReceiveSearch,
       AnswerSearch
  <2>6. CASE StartWalk \/ EndWalk
    BY <2>6 DEF StartWalk, EndWalk
  \* the last connection stays closed: none is opened once axum is draining
  <2>7. ASSUME NEW c \in Clients, Connect(c) \/ Request(c) PROVE TypeOK'
    BY <2>7 DEF Connect, Request
  <2>8. ASSUME NEW c \in Clients, EndResponse(c) \/ CloseIdle(c) PROVE TypeOK'
    BY <2>8 DEF EndResponse, CloseIdle
  <2>9. CASE PressControlC
    <3>1. /\ main' \in Mains /\ listener' \in {"none", "open", "closed"}
          /\ control_c' \in {"default", "caught", "pressed"}
      BY <2>9 DEF PressControlC
    <3>2. UNCHANGED <<result, shutdown, http, conn, ssdp, search, announced, walk,
                      scanner>>
      BY <2>9 DEF PressControlC
    <3>3. http' = "done" => \A c \in Clients : conn'[c] = "closed"
      BY <3>2
    <3>4. /\ conn' \in [Clients -> {"closed", "idle", "busy"}]
          /\ search' \in [Searches -> {"new", "delayed", "answered"}]
      BY <3>2
    <3>5. /\ result' \in {"none", "ok", "startup", "ssdp"}
          /\ http' \in {"new", "serving", "draining", "done"}
      BY <3>2
    <3>6. /\ ssdp' \in {"none", "starting", "active", "ok", "failed"}
          /\ shutdown' \in {"run", "stop"} /\ walk' \in {"idle", "running"}
      BY <3>2
    <3>7. /\ scanner' \in {"none", "running", "aborted"}
          /\ announced' \in {"nothing", "alive", "byebye"}
      BY <3>2
    <3>8. QED
      BY <3>1, <3>3, <3>4, <3>5, <3>6, <3>7
  <2>10. CASE UNCHANGED vars
    <3>1. /\ UNCHANGED <<main, result, shutdown, control_c, listener, http, conn>>
          /\ UNCHANGED <<ssdp, search, announced, walk, scanner>>
      BY <2>10 DEF vars
    <3>2. http' = "done" => \A c \in Clients : conn'[c] = "closed"
      BY <3>1
    <3>3. /\ conn' \in [Clients -> {"closed", "idle", "busy"}]
          /\ search' \in [Searches -> {"new", "delayed", "answered"}]
      BY <3>1
    <3>4. /\ main' \in Mains /\ result' \in {"none", "ok", "startup", "ssdp"}
          /\ control_c' \in {"default", "caught", "pressed"}
          /\ listener' \in {"none", "open", "closed"}
      BY <3>1
    <3>5. QED
      BY <3>1, <3>2, <3>3, <3>4
  <2>11. QED
    BY <2>1, <2>2, <2>3, <2>4, <2>5, <2>6, <2>7, <2>8, <2>9, <2>10
    DEF Next, Serve, Web
<1>3. QED
  BY <1>1, <1>2, PTL DEF Spec

-------------------------------------------------------------------------------
\* What is known of the SSDP task at each point of serve.
SsdpKnown ==
  /\ ssdp = "ok" => announced = "byebye"
  /\ main = "awaiting http" => SsdpEnded
  /\ main \in {"returned", "dropping", "exited"} => result # "none"
  /\ main \in {"starting", "bound", "selecting", "awaiting ssdp", "awaiting http"}
       => result = "none"
  /\ result = "ok" => ssdp = "ok"
  /\ result = "ssdp" => ssdp = "failed"

LEMMA SsdpKnownHolds == Spec => []SsdpKnown
<1> USE DEF SsdpKnown, SsdpEnded
<1>1. Init => SsdpKnown
  BY DEF Init
<1>2. TypeOK /\ SsdpKnown /\ [Next]_vars => SsdpKnown'
  <2> SUFFICES ASSUME TypeOK, SsdpKnown, [Next]_vars PROVE SsdpKnown'
    OBVIOUS
  <2> USE DEF TypeOK, serveVars, webVars, ssdpVars, scanVars
  \* spawning comes before the tasks can have ended
  <2>1. CASE Bind \/ StartFails \/ Spawn
    BY <2>1 DEF Bind, StartFails, Spawn
  <2>2. CASE PollHttp \/ CatchControlC \/ StopAccepting \/ HttpEnds
    BY <2>2 DEF PollHttp, CatchControlC, StopAccepting, HttpEnds
  <2>3. CASE HttpFirst \/ SsdpFirst
    BY <2>3 DEF HttpFirst, SsdpFirst
  \* both arms have awaited the task
  <2>4. CASE Return
    BY <2>4 DEF Return, SsdpAwaited, map_runtime_results
  <2>5. CASE DropRuntime \/ Exit
    BY <2>5 DEF DropRuntime, Exit
  <2>6. CASE Ssdp
    BY <2>6 DEF Ssdp, SocketFails, SendAlive, SendByebye, ReceiveSearch,
       AnswerSearch
  <2>7. CASE StartWalk \/ EndWalk \/ Web
    BY <2>7 DEF StartWalk, EndWalk, Web, Connect, Request, EndResponse, CloseIdle
  <2>8. CASE PressControlC
    BY <2>8 DEF PressControlC
  <2>9. CASE UNCHANGED vars
    BY <2>9 DEF vars
  <2>10. QED
    BY <2>1, <2>2, <2>3, <2>4, <2>5, <2>6, <2>7, <2>8, <2>9 DEF Next, Serve
<1>3. QED
  BY <1>1, <1>2, TypeCorrect, PTL DEF Spec

\* A server that ends well has said goodbye, and has said nothing since
\* (http.rs:150-154, ssdp.rs:71-76).
THEOREM SaysGoodbye == Spec => []ByebyeIsTheLastWord
<1>1. SsdpKnown => ByebyeIsTheLastWord
  BY DEF SsdpKnown, ByebyeIsTheLastWord
<1>2. QED
  BY <1>1, SsdpKnownHolds, PTL

\* serve returns the SSDP task's error, whichever arm its select took
\* (http.rs:149-162).
THEOREM ReportsFailure == Spec => []SsdpFailureIsReported
<1>1. TypeOK /\ SsdpKnown => SsdpFailureIsReported
  BY DEF TypeOK, SsdpKnown, SsdpFailureIsReported
<1>2. QED
  BY <1>1, SsdpKnownHolds, TypeCorrect, PTL

-------------------------------------------------------------------------------
(* Discovery.                                                              *)

\* A step with the clock and the network is one of the server's life, or none.
LEMMA StepOfLifecycle ==
  ASSUME [DNext]_dvars
  PROVE  [Next]_vars
<1>1. CASE Silent
  BY <1>1 DEF Silent, Next, Ssdp
<1>2. CASE Refresh
  BY <1>2 DEF Refresh, Next, Ssdp
<1>3. CASE Goodbye
  BY <1>3 DEF Goodbye, Next, Ssdp
<1>4. ASSUME NEW s \in Searches, Ask(s) \/ Answer(s) PROVE Next
  BY <1>4 DEF Ask, Answer, Next, Ssdp
<1>5. CASE Tick
  BY <1>5 DEF Tick
<1>6. CASE UNCHANGED dvars
  BY <1>6 DEF dvars
<1>7. QED
  BY <1>1, <1>2, <1>3, <1>4, <1>5, <1>6 DEF DNext

\* Discovery implements Lifecycle: what is proved of serve and run_ssdp holds
\* with their timers and with every loss of datagrams (http.rs:78-163,
\* ssdp.rs:30-79).
THEOREM IsALifecycle == DSpec => Spec
<1>1. DInit => Init
  BY DEF DInit
<1>2. [DNext]_dvars => [Next]_vars
  BY StepOfLifecycle
<1>3. QED
  BY <1>1, <1>2, PTL DEF DSpec, Spec

\* The clock's constants.
LEMMA Clock ==
  /\ Lease \in Nat \ {0} /\ Interval \in Nat \ {0} /\ Interval < Lease
  /\ \A mx \in 0 .. MaxMx :
       /\ Mx(mx) \in Nat \ {0} /\ Mx(mx) * Second \in Nat \ {0}
       /\ search_delay(Mx(mx)) \subseteq Nat
       /\ \A d \in search_delay(Mx(mx)) : d < (IF mx = 0 THEN 1 ELSE mx) * Second
       /\ (IF mx = 0 THEN 1 ELSE mx) * Second \in Nat
<1> DEFINE half == MaxAge \div 2
<1>1. half \in Nat \ {0} /\ half < MaxAge
  BY MaxAgeAssumption
<1>2. \A a, b \in Nat : a < b => a * Second \in Nat /\ b * Second \in Nat \ {0}
                                 /\ a * Second < b * Second
  BY ClockAssumption
<1>3. Interval = half * Second /\ Lease = MaxAge * Second
  BY DEF Interval, Lease
<1> HIDE DEF half
<1>4. Lease \in Nat \ {0} /\ Interval \in Nat \ {0} /\ Interval < Lease
  BY <1>1, <1>2, <1>3, MaxAgeAssumption
<1>5. ASSUME NEW mx \in 0 .. MaxMx
      PROVE  /\ Mx(mx) \in Nat \ {0} /\ Mx(mx) * Second \in Nat \ {0}
             /\ search_delay(Mx(mx)) \subseteq Nat
             /\ \A d \in search_delay(Mx(mx)) : d < (IF mx = 0 THEN 1 ELSE mx) * Second
             /\ (IF mx = 0 THEN 1 ELSE mx) * Second \in Nat
  <2> DEFINE w == IF mx = 0 THEN 1 ELSE mx
  <2>1. Mx(mx) \in Nat \ {0} /\ w \in Nat /\ Mx(mx) <= w
    BY MxAssumption DEF Mx
  <2> HIDE DEF w
  <2>2. Mx(mx) * Second \in Nat \ {0} /\ w * Second \in Nat /\ Mx(mx) * Second <= w * Second
    BY <2>1, ClockAssumption
  <2>3. search_delay(Mx(mx)) = 0 .. Mx(mx) * Second - 1
    BY DEF search_delay
  <2>4. QED
    BY <2>1, <2>2, <2>3 DEF w
<1>6. QED
  BY <1>4, <1>5

\* What the steps nobody hears of leave of the SSDP tasks.
LEMMA SilentSteps ==
  ASSUME Silent
  PROVE  /\ search' = search
         /\ ssdp' = ssdp \/ ssdp' \in {"starting", "failed"}
         /\ TasksRun' => TasksRun
         /\ Over => Over'
<1> USE DEF TasksRun, Over, webVars, ssdpVars, scanVars, serveVars
<1>1. CASE Serve
  <2>1. CASE Bind \/ StartFails \/ Spawn
    BY <2>1 DEF Bind, StartFails, Spawn
  <2>2. CASE PollHttp \/ CatchControlC \/ StopAccepting \/ HttpEnds
    BY <2>2 DEF PollHttp, CatchControlC, StopAccepting, HttpEnds
  <2>3. CASE HttpFirst \/ SsdpFirst
    BY <2>3 DEF HttpFirst, SsdpFirst
  <2>4. CASE Return \/ DropRuntime \/ Exit
    BY <2>4 DEF Return, SsdpAwaited, DropRuntime, Exit
  <2>5. QED
    BY <1>1, <2>1, <2>2, <2>3, <2>4 DEF Serve
<1>2. CASE SocketFails \/ StartWalk \/ EndWalk
  BY <1>2 DEF SocketFails, StartWalk, EndWalk
<1>3. CASE Web
  BY <1>3 DEF Web, Connect, Request, EndResponse, CloseIdle
<1>4. CASE PressControlC
  BY <1>4 DEF PressControlC
<1>5. QED
  BY <1>1, <1>2, <1>3, <1>4 DEF Silent

\* Whoever hears of an advertisement lists it for a max-age.
LEMMA Hearing ==
  ASSUME DTypeOK, NEW heard, Hears(heard)
  PROVE  /\ lease' \in [Targets -> 0 .. Lease]
         /\ \A t \in Targets : lease'[t] = IF t \in heard THEN Lease ELSE lease[t]
BY Clock DEF Hears, DTypeOK

\* A burst is heard unless more than one of its datagrams is lost.
LEMMA RefreshIsHeard ==
  ASSUME DTypeOK, Refresh
  PROVE  /\ lease' \in [Targets -> 0 .. Lease] /\ unlucky' \subseteq Targets
         /\ \A t \in Targets : t \notin unlucky' => lease'[t] = Lease
<1>1. PICK lost \in [Targets -> 0 .. Copies] :
        /\ Hears({t \in Targets : lost[t] < Copies})
        /\ unlucky' = {t \in Targets : lost[t] > 1}
  BY DEF Refresh
<1>2. ASSUME NEW t \in Targets, t \notin unlucky' PROVE lost[t] < Copies
  BY <1>1, <1>2 DEF Copies
<1>3. QED
  BY <1>1, <1>2, Hearing

\* The clock, the list and the searches are well typed: no refresh is late, and
\* nothing is listed for longer than a max-age.
THEOREM DTypeCorrect == DSpec => []DTypeOK
<1>1. DInit => DTypeOK
  <2> SUFFICES ASSUME DInit PROVE DTypeOK
    OBVIOUS
  <2>1. TypeOK
    BY DEF DInit, Init, TypeOK, Mains
  <2>2. 0 \in 0 .. Lease /\ 0 \in 0 .. Interval
    BY Clock
  <2>3. QED
    BY <2>1, <2>2 DEF DInit, DTypeOK
<1>2. TypeOK' /\ DTypeOK /\ [DNext]_dvars => DTypeOK'
  <2> SUFFICES ASSUME TypeOK', DTypeOK, [DNext]_dvars PROVE DTypeOK'
    OBVIOUS
  <2> USE DEF airVars, searchVars
  <2>1. CASE UNCHANGED airVars
    BY <2>1 DEF DTypeOK
  <2>2. CASE Refresh
    <3>1. /\ lease' \in [Targets -> 0 .. Lease] /\ unlucky' \subseteq Targets
          /\ UNCHANGED <<wait, matches, window, spared, since>>
      BY <2>2, RefreshIsHeard DEF Refresh
    <3>2. timer' \in 0 .. Interval
      BY <2>2, Clock DEF Refresh
    <3>3. QED
      BY <3>1, <3>2 DEF DTypeOK
  <2>3. CASE Goodbye
    <3>1. lease' \in [Targets -> 0 .. Lease] /\ spared' \subseteq Targets
      BY <2>3, Clock DEF Goodbye, DTypeOK
    <3>2. QED
      BY <2>3, <3>1 DEF Goodbye, DTypeOK
  <2>4. CASE Tick
    <3>1. \A n \in Nat : Left(n) \in Nat /\ Left(n) <= n
      BY DEF Left
    <3>2. lease' \in [Targets -> 0 .. Lease]
      BY <2>4, <3>1, Clock DEF Tick, DTypeOK
    <3>3. window' \in [Searches -> Nat]
      BY <2>4, <3>1 DEF Tick, DTypeOK
    <3>4. wait' \in [Searches -> Nat]
      <4>1. ASSUME NEW s \in Searches, Answering(s) PROVE wait[s] - 1 \in Nat
        BY <2>4, <4>1 DEF Tick, Due, DTypeOK
      <4>2. QED
        BY <2>4, <4>1 DEF Tick, DTypeOK
    <3>5. timer' \in 0 .. Interval /\ since' \in Nat
      BY <2>4, Clock DEF Tick, Due, DTypeOK
    <3>6. QED
      BY <2>4, <3>2, <3>3, <3>4, <3>5 DEF Tick, DTypeOK
  <2>5. ASSUME NEW s \in Searches, Ask(s) PROVE DTypeOK'
    <3>1. PICK mx \in 0 .. MaxMx : \E delay \in search_delay(Mx(mx)) :
            /\ wait' = [wait EXCEPT ![s] = delay]
            /\ window' = [window EXCEPT ![s] = (IF mx = 0 THEN 1 ELSE mx) * Second]
      BY <2>5 DEF Ask
    <3>2. wait' \in [Searches -> Nat] /\ window' \in [Searches -> Nat]
      BY <3>1, Clock DEF DTypeOK
    <3>3. matches' \in [Searches -> SUBSET Targets]
      BY <2>5 DEF Ask, matching_advertisements, DTypeOK
    <3>4. QED
      BY <2>5, <3>2, <3>3 DEF Ask, DTypeOK
  <2>6. ASSUME NEW s \in Searches, Answer(s) PROVE DTypeOK'
    <3>1. lease' \in [Targets -> 0 .. Lease]
      BY <2>6, Hearing DEF Answer
    <3>2. spared' \subseteq Targets
      BY <2>6 DEF Answer, DTypeOK
    <3>3. QED
      BY <2>6, <3>1, <3>2 DEF Answer, DTypeOK
  <2>7. QED
    BY <2>1, <2>2, <2>3, <2>4, <2>5, <2>6 DEF DNext, dvars
<1>3. QED
  BY <1>1, <1>2, IsALifecycle, TypeCorrect, PTL DEF DSpec

-------------------------------------------------------------------------------
(* The list of a running server.                                           *)

\* Each lease is longer than the rest of the interval.
RefreshedInTime ==
  Advertising => \A t \in Targets : t \notin unlucky => lease[t] > timer

\* A running server stays listed, whatever single datagrams are lost
\* (ssdp.rs:40-44, 68, 135).
THEOREM StaysListedOK == DSpec => []StaysListed
<1>1. DInit => RefreshedInTime
  BY DEF DInit, Init, RefreshedInTime, Advertising
<1>2. DTypeOK /\ RefreshedInTime /\ [DNext]_dvars => RefreshedInTime'
  <2> SUFFICES ASSUME DTypeOK, RefreshedInTime, [DNext]_dvars PROVE RefreshedInTime'
    OBVIOUS
  <2> USE DEF airVars, searchVars
  <2>1. ASSUME Advertising' => Advertising, UNCHANGED <<timer, lease, unlucky>>
        PROVE  RefreshedInTime'
    BY <2>1 DEF RefreshedInTime
  <2>2. CASE Silent /\ UNCHANGED airVars
    BY <2>1, <2>2, SilentSteps DEF Advertising
  <2>3. CASE Refresh
    BY <2>3, RefreshIsHeard, Clock DEF Refresh, RefreshedInTime
  <2>4. CASE Goodbye
    BY <2>4 DEF Goodbye, SendByebye, RefreshedInTime, Advertising
  <2>5. CASE Tick
    <3>1. Advertising' <=> Advertising
      BY <2>5 DEF Tick, Advertising, TasksRun, vars, serveVars, ssdpVars
    <3>2. ASSUME Advertising, NEW t \in Targets, t \notin unlucky PROVE lease'[t] > timer'
      <4>1. lease[t] > timer /\ timer \in Nat /\ lease[t] \in Nat
        BY <3>2, Clock DEF RefreshedInTime, DTypeOK
      <4>2. timer' = timer - 1 /\ lease'[t] = lease[t] - 1
        BY <2>5, <3>2, <4>1 DEF Tick, Left
      <4>3. QED
        BY <4>1, <4>2
    <3>3. QED
      BY <2>5, <3>1, <3>2 DEF Tick, RefreshedInTime
  <2>6. ASSUME NEW s \in Searches, Ask(s) PROVE RefreshedInTime'
    BY <2>1, <2>6 DEF Ask, ReceiveSearch, Advertising, TasksRun, serveVars
  <2>7. ASSUME NEW s \in Searches, Answer(s) PROVE RefreshedInTime'
    <3>1. UNCHANGED <<timer, unlucky>> /\ (Advertising' <=> Advertising)
      BY <2>7 DEF Answer, AnswerSearch, Advertising, TasksRun, serveVars
    <3>2. \A t \in Targets : lease'[t] \in {Lease, lease[t]}
      BY <2>7, Hearing DEF Answer
    <3>3. timer < Lease
      BY Clock DEF DTypeOK
    <3>4. QED
      BY <3>1, <3>2, <3>3 DEF RefreshedInTime
  <2>8. CASE UNCHANGED dvars
    BY <2>1, <2>8 DEF dvars, vars, serveVars, ssdpVars, Advertising, TasksRun
  <2>9. QED
    BY <2>2, <2>3, <2>4, <2>5, <2>6, <2>7, <2>8 DEF DNext
<1>3. DTypeOK /\ RefreshedInTime => StaysListed
  BY Clock DEF DTypeOK, RefreshedInTime, StaysListed
<1>4. QED
  BY <1>1, <1>2, <1>3, DTypeCorrect, PTL DEF DSpec

-------------------------------------------------------------------------------
(* Answers to searches.                                                    *)

\* The delay ends before the window closes.
DelayInWindow == \A s \in Searches : Answering(s) => wait[s] < window[s]

\* No search waits for its answer when its window is over (ssdp.rs:58-62, 181,
\* 212-217).
THEOREM AnswersInWindowOK == DSpec => []AnswersInWindow
<1>1. DInit => DelayInWindow
  BY DEF DInit, Init, DelayInWindow, Answering
<1>2. DTypeOK /\ DelayInWindow /\ [DNext]_dvars => DelayInWindow'
  <2> SUFFICES ASSUME DTypeOK, DelayInWindow, [DNext]_dvars PROVE DelayInWindow'
    OBVIOUS
  <2> USE DEF airVars, searchVars
  <2>1. ASSUME \A s \in Searches : Answering(s)' => Answering(s), UNCHANGED <<wait, window>>
        PROVE  DelayInWindow'
    BY <2>1 DEF DelayInWindow
  <2>2. CASE Silent /\ UNCHANGED airVars
    BY <2>1, <2>2, SilentSteps DEF Answering
  <2>3. CASE Refresh \/ Goodbye
    BY <2>1, <2>3 DEF Refresh, Goodbye, SendAlive, SendByebye, Answering, TasksRun,
                      serveVars
  <2>4. CASE Tick
    <3>1. ASSUME NEW s \in Searches, Answering(s)' PROVE wait'[s] < window'[s]
      <4>1. Answering(s)
        BY <2>4, <3>1 DEF Tick, Answering, TasksRun, vars, serveVars, ssdpVars
      <4>2. wait[s] < window[s] /\ wait[s] \in Nat /\ window[s] \in Nat
        BY <4>1 DEF DelayInWindow, DTypeOK
      <4>3. wait'[s] = wait[s] - 1 /\ window'[s] = window[s] - 1
        BY <2>4, <4>1, <4>2 DEF Tick, Left
      <4>4. QED
        BY <4>2, <4>3
    <3>2. QED
      BY <3>1 DEF DelayInWindow
  <2>5. ASSUME NEW s \in Searches, Ask(s) PROVE DelayInWindow'
    <3>1. PICK mx \in 0 .. MaxMx : \E delay \in search_delay(Mx(mx)) :
            /\ wait' = [wait EXCEPT ![s] = delay]
            /\ window' = [window EXCEPT ![s] = (IF mx = 0 THEN 1 ELSE mx) * Second]
      BY <2>5 DEF Ask
    <3>2. wait'[s] < window'[s]
      BY <3>1, Clock DEF DTypeOK
    <3>3. ASSUME NEW r \in Searches, r # s, Answering(r)'
          PROVE  Answering(r) /\ wait'[r] = wait[r] /\ window'[r] = window[r]
      BY <2>5, <3>1, <3>3 DEF Ask, ReceiveSearch, Answering, TasksRun, serveVars, DTypeOK,
                              TypeOK
    <3>4. QED
      BY <3>2, <3>3 DEF DelayInWindow
  <2>6. ASSUME NEW s \in Searches, Answer(s) PROVE DelayInWindow'
    <3>1. ASSUME NEW r \in Searches, Answering(r)' PROVE Answering(r)
      BY <2>6, <3>1 DEF Answer, AnswerSearch, Answering, TasksRun, serveVars, DTypeOK, TypeOK
    <3>2. QED
      BY <2>1, <2>6, <3>1 DEF Answer
  <2>7. CASE UNCHANGED dvars
    BY <2>1, <2>7 DEF dvars, vars, serveVars, ssdpVars, Answering, TasksRun
  <2>8. QED
    BY <2>2, <2>3, <2>4, <2>5, <2>6, <2>7 DEF DNext
<1>3. DTypeOK /\ DelayInWindow => AnswersInWindow
  BY DEF DTypeOK, DelayInWindow, AnswersInWindow
<1>4. QED
  BY <1>1, <1>2, <1>3, DTypeCorrect, PTL DEF DSpec

-------------------------------------------------------------------------------
(* The list of a server that stops.                                        *)

\* The last clock begins when the process ends.
ForgettingInv == ForgottenInTime /\ (~ Over => since = 0)

\* A server that ends in any way is forgotten: but for lost byebyes and late
\* answers at once, and else within a max-age (ssdp.rs:58-63, 71-76,
\* http.rs:133).
THEOREM ForgottenInTimeOK == DSpec => []ForgottenInTime
<1>1. DInit => ForgettingInv
  BY DEF DInit, Init, ForgettingInv, ForgottenInTime, Over
<1>2. DTypeOK /\ ForgettingInv /\ [DNext]_dvars => ForgettingInv'
  <2> SUFFICES ASSUME DTypeOK, ForgettingInv, [DNext]_dvars PROVE ForgettingInv'
    OBVIOUS
  <2> USE DEF airVars, searchVars, ForgettingInv, ForgottenInTime
  <2>1. \A t \in Targets : lease[t] \in Nat /\ lease[t] <= Lease
    BY Clock DEF DTypeOK
  <2>2. Lease \in Nat /\ since \in Nat
    BY Clock DEF DTypeOK
  <2>3. TasksRun => ~ Over
    BY DEF TasksRun, Over
  <2>4. CASE Silent /\ UNCHANGED airVars
    <3>1. ssdp' = "ok" => ssdp = "ok"
      BY <2>4, SilentSteps
    <3>2. Over => Over'
      BY <2>4, SilentSteps
    <3>3. QED
      BY <2>1, <2>2, <2>4, <3>1, <3>2
  <2>5. CASE Refresh
    <3>1. ~ Over /\ ~ Over' /\ ssdp' # "ok" /\ since' = since
      BY <2>3, <2>5 DEF Refresh, SendAlive, Over, serveVars
    <3>2. QED
      BY <3>1
  <2>6. CASE Goodbye
    <3>1. ~ Over /\ ~ Over' /\ since' = since
      BY <2>3, <2>6 DEF Goodbye, SendByebye, Over, serveVars
    <3>2. \A t \in Targets : lease'[t] > 0 => t \in spared'
      BY <2>6 DEF Goodbye, Byebyes
    <3>3. QED
      BY <3>1, <3>2
  <2>7. CASE Tick
    <3>1. (Over' <=> Over) /\ ssdp' = ssdp /\ spared' = spared
      BY <2>7 DEF Tick, Over, vars, serveVars, ssdpVars
    <3>2. \A t \in Targets : lease'[t] = Left(lease[t])
      BY <2>7 DEF Tick
    <3>3. \A t \in Targets : lease'[t] > 0 => lease[t] > 0 /\ lease'[t] = lease[t] - 1
      BY <2>1, <3>2 DEF Left
    <3>4. since' = IF Over THEN since + 1 ELSE since
      BY <2>7 DEF Tick
    <3>5. QED
      BY <2>1, <2>2, <3>1, <3>3, <3>4
  <2>8. ASSUME NEW s \in Searches, Ask(s) PROVE ForgettingInv'
    <3>1. (Over' <=> Over) /\ ssdp' = ssdp
      BY <2>8 DEF Ask, ReceiveSearch, Over, serveVars
    <3>2. UNCHANGED <<lease, spared, since>>
      BY <2>8 DEF Ask
    <3>3. QED
      BY <3>1, <3>2
  <2>9. ASSUME NEW s \in Searches, Answer(s) PROVE ForgettingInv'
    <3>1. ~ Over /\ ~ Over' /\ ssdp' = ssdp /\ since' = since
      BY <2>3, <2>9 DEF Answer, AnswerSearch, Over, serveVars
    <3>2. PICK heard \in SUBSET matches[s] : Hears(heard)
      BY <2>9 DEF Answer
    <3>3. \A t \in Targets : lease'[t] > 0 => lease[t] > 0 \/ t \in matches[s]
      BY <3>2, Hearing
    <3>4. ssdp = "ok" => spared' = spared \cup matches[s]
      BY <2>9 DEF Answer
    <3>5. QED
      BY <3>1, <3>3, <3>4
  <2>10. CASE UNCHANGED dvars
    BY <2>10 DEF dvars, vars, serveVars, ssdpVars, Over
  <2>11. QED
    BY <2>4, <2>5, <2>6, <2>7, <2>8, <2>9, <2>10 DEF DNext
<1>3. QED
  BY <1>1, <1>2, DTypeCorrect, PTL DEF DSpec, ForgettingInv

\* The last word of serve, and what it returns, are those of Lifecycle.
THEOREM LastWordsOK == DSpec => []ByebyeIsTheLastWord /\ []SsdpFailureIsReported
BY IsALifecycle, SaysGoodbye, ReportsFailure

===============================================================================

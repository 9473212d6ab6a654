------------------------------ MODULE Discovery -------------------------------
(***************************************************************************)
(* What a control point's list of servers says while Lifecycle runs:       *)
(* run_ssdp's timers and datagrams (ssdp.rs:30-79, 123-217) on a network   *)
(* that loses any of them.                                                 *)
(*                                                                         *)
(* A control point lists an advertisement until its max-age is over or it  *)
(* hears a byebye.  Every step of Lifecycle is a step here; those of the   *)
(* SSDP tasks say when they are due and what is heard of them.  The        *)
(* runtime runs a task whose timer has ended before the clock ticks again. *)
(***************************************************************************)
EXTENDS Integers, Lifecycle

CONSTANTS
  Targets,  \* what is advertised: root device, UDN, device and service types
  Second,   \* ticks of the clock in a second
  MaxAge,   \* ssdp_max_age_seconds
  MxLimit,  \* the longest MX that is honoured
  MaxMx     \* bound: the longest MX a control point sends

\* Config::validate asks for at least 60 seconds.
ASSUME MaxAgeAssumption == MaxAge \in Nat /\ MaxAge >= 2
ASSUME ClockAssumption == Second \in Nat \ {0}
ASSUME MxAssumption == MxLimit \in Nat \ {0} /\ MaxMx \in Nat

VARIABLES
  timer,    \* ticks to the next refresh
  wait,     \* ticks to the answer of each search
  matches,  \* the advertisements it asked for
  window,   \* ticks its sender goes on listening
  lease,    \* ticks the control point goes on listing each advertisement
  unlucky,  \* history: what the last burst lost more than one datagram of
  spared,   \* history: what the byebye did not reach, or an answer followed
  since     \* history: ticks since the process ended

searchVars == <<wait, matches, window>>
airVars == <<timer, searchVars, lease, unlucky, spared, since>>
dvars == <<vars, airVars>>

\* Slips a maintainer could make; the runs show that each is noticed.
Bug_SentOnce == 1

Bug_LongDelay(mx) == 0 .. MxLimit * Second - 1

Bug_RootOnly == {CHOOSE t \in Targets : TRUE}

\* How often send_alive sends each advertisement.
Copies == 2

\* CACHE-CONTROL in alives and answers.
Lease == MaxAge * Second

Interval == (MaxAge \div 2) * Second

\* The MX that parse_search takes; 0 is one that is missing or not a number.
Mx(mx) == IF mx < 1 THEN 1 ELSE IF mx > MxLimit THEN MxLimit ELSE mx

\* search_delay: the clock's nanoseconds and the port pick one of these.
search_delay(mx) == 0 .. mx * Second - 1

\* What send_byebye says goodbye to.
Byebyes == Targets

\* ssdp:all, or one of the targets.
matching_advertisements == {Targets} \cup {{t} : t \in Targets}

-------------------------------------------------------------------------------
DInit ==
  /\ Init
  /\ timer = 0
  /\ wait = [s \in Searches |-> 0] /\ window = [s \in Searches |-> 0]
  /\ matches = [s \in Searches |-> {}]
  /\ lease = [t \in Targets |-> 0]
  /\ unlucky = {} /\ spared = {} /\ since = 0

\* The control point hears of some advertisements, for a max-age.
Hears(heard) == lease' = [t \in Targets |-> IF t \in heard THEN Lease ELSE lease[t]]

\* send_alive, at start and whenever the interval is over, which begins anew
\* then (MissedTickBehavior::Delay).
Refresh ==
  /\ SendAlive
  /\ ssdp = "active" => timer = 0
  /\ timer' = Interval
  /\ \E lost \in [Targets -> 0 .. Copies] :
       /\ Hears({t \in Targets : lost[t] < Copies})
       /\ unlucky' = {t \in Targets : lost[t] > 1}
  /\ UNCHANGED <<searchVars, spared, since>>

\* parse_search, and the task spawned to answer.
Ask(s) ==
  /\ ReceiveSearch(s)
  /\ \E mx \in 0 .. MaxMx : \E delay \in search_delay(Mx(mx)) :
       /\ wait' = [wait EXCEPT ![s] = delay]
       /\ window' = [window EXCEPT ![s] = (IF mx = 0 THEN 1 ELSE mx) * Second]
  /\ \E asked \in matching_advertisements : matches' = [matches EXCEPT ![s] = asked]
  /\ UNCHANGED <<timer, lease, unlucky, spared, since>>

\* A datagram for each match, each of which may be lost.
Answer(s) ==
  /\ AnswerSearch(s) /\ wait[s] = 0
  /\ \E heard \in SUBSET matches[s] : Hears(heard)
  /\ spared' = IF ssdp = "ok" THEN spared \cup matches[s] ELSE spared
  /\ UNCHANGED <<timer, searchVars, unlucky, since>>

\* A datagram for each advertisement, each of which may be lost.
Goodbye ==
  /\ SendByebye
  /\ \E lost \in SUBSET Targets :
       /\ lease' = [t \in Targets |-> IF t \in Byebyes \ lost THEN 0 ELSE lease[t]]
       /\ spared' = lost
  /\ UNCHANGED <<timer, searchVars, unlucky, since>>

Advertising == TasksRun /\ ssdp = "active"

Answering(s) == TasksRun /\ search[s] = "delayed"

\* A task that the runtime runs at once.
Due == \/ Advertising /\ timer = 0
       \/ \E s \in Searches : Answering(s) /\ wait[s] = 0

Left(n) == IF n = 0 THEN 0 ELSE n - 1

Tick ==
  /\ ~ Due
  /\ \/ Advertising
     \/ \E s \in Searches : Answering(s)
     \/ \E t \in Targets : lease[t] > 0
  /\ timer' = IF Advertising THEN timer - 1 ELSE timer
  /\ wait' = [s \in Searches |-> IF Answering(s) THEN wait[s] - 1 ELSE wait[s]]
  /\ window' = [s \in Searches |-> Left(window[s])]
  /\ lease' = [t \in Targets |-> Left(lease[t])]
  /\ since' = IF Over THEN since + 1 ELSE since
  /\ UNCHANGED <<vars, matches, unlucky, spared>>

\* The steps of the program that nobody hears of.
Silent == Serve \/ SocketFails \/ StartWalk \/ EndWalk \/ Web \/ PressControlC

DNext ==
  \/ Silent /\ UNCHANGED airVars
  \/ Refresh \/ Goodbye \/ Tick
  \/ \E s \in Searches : Ask(s) \/ Answer(s)

DSpec == DInit /\ [][DNext]_dvars

\* The fairness of LiveSpec.
DFairness ==
  /\ WF_dvars(Serve /\ UNCHANGED airVars)
  /\ WF_dvars(Refresh) /\ WF_dvars(Goodbye)
  /\ WF_dvars(EndWalk /\ UNCHANGED airVars)
  /\ \A c \in Clients : WF_dvars(http = "draining" /\ CloseIdle(c) /\ UNCHANGED airVars)
  /\ \A c \in Clients : WF_dvars(EndResponse(c) /\ UNCHANGED airVars)

DLiveSpec == DSpec /\ DFairness

-------------------------------------------------------------------------------
(* Properties.                                                             *)

DTypeOK ==
  /\ TypeOK
  /\ timer \in 0 .. Interval /\ since \in Nat
  /\ wait \in [Searches -> Nat] /\ window \in [Searches -> Nat]
  /\ matches \in [Searches -> SUBSET Targets]
  /\ lease \in [Targets -> 0 .. Lease]
  /\ unlucky \subseteq Targets /\ spared \subseteq Targets

\* No single lost datagram takes a running server off a control point's list:
\* each advertisement is sent twice, and again before its max-age is over
\* (ssdp.rs:40-44, 68, 135, docs/protocol-research.md:25).
StaysListed ==
  Advertising => \A t \in Targets : t \notin unlucky => lease[t] > 0

\* Every search is answered while its sender still listens: the delay lies
\* within the caller's MX window (ssdp.rs:59, 181, 212-217,
\* docs/architecture.md:51).
AnswersInWindow == \A s \in Searches : Answering(s) => window[s] > 0

\* However the program ends (ssdp.rs:58-63, 71-76, http.rs:133), it is forgotten:
\* after the byebye only a lost datagram or the late answer to a search keeps an
\* advertisement listed, and after its end, with or without a byebye, nothing
\* stays listed for longer than a max-age.
ForgottenInTime ==
  /\ ssdp = "ok" => \A t \in Targets : lease[t] > 0 => t \in spared
  /\ Over => \A t \in Targets : lease[t] > 0 => lease[t] + since <= Lease

===============================================================================

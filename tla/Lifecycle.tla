------------------------------- MODULE Lifecycle ------------------------------
(***************************************************************************)
(* The life of `joedlna serve`: serve (http.rs:78-163) with the HTTP       *)
(* server of axum, run_ssdp (ssdp.rs:30-79), the tasks that answer         *)
(* searches, the scanner's walk on the blocking pool, and main, which      *)
(* drops the runtime when serve returns.                                   *)
(*                                                                         *)
(* axum closes its listener when shutdown_signal ends and then waits for   *)
(* every connection; an idle one is closed, a busy one ends with its       *)
(* response, which depends on the client.  tokio catches Control-C from    *)
(* the first poll of ctrl_c() on, for as long as the process lives.        *)
(***************************************************************************)

CONSTANTS
  Clients,   \* connections a client may open
  Searches   \* M-SEARCH datagrams that match an advertisement

VARIABLES
  main,      \* where serve, and main after it, are
  result,    \* what serve returned
  control_c, \* "default", "caught" (ctrl_c() was polled) or "pressed" after that
  listener,  \* "none", "open" or "closed"
  http,      \* axum's future: "new" until it is polled
  conn,      \* each connection
  ssdp,      \* the task run_ssdp
  search,    \* each M-SEARCH: "new", "delayed", "answered"
  shutdown,  \* the watch channel: "run" or "stop"
  walk,      \* the scanner's walk on the blocking pool
  scanner,   \* the scanner task
  announced  \* the last NOTIFY sent: "nothing", "alive" or "byebye"

webVars == <<listener, http, conn>>
ssdpVars == <<ssdp, search, announced>>
scanVars == <<walk, scanner>>
serveVars == <<main, result, shutdown>>
vars == <<serveVars, control_c, webVars, ssdpVars, scanVars>>

Mains == {"starting", "bound", "selecting", "awaiting ssdp", "awaiting http",
          "returned", "dropping", "exited", "killed"}

TypeOK ==
  /\ main \in Mains
  /\ result \in {"none", "ok", "startup", "ssdp"}
  /\ control_c \in {"default", "caught", "pressed"}
  /\ listener \in {"none", "open", "closed"}
  /\ http \in {"new", "serving", "draining", "done"}
  /\ conn \in [Clients -> {"closed", "idle", "busy"}]
  /\ ssdp \in {"none", "starting", "active", "ok", "failed"}
  /\ search \in [Searches -> {"new", "delayed", "answered"}]
  /\ shutdown \in {"run", "stop"}
  /\ walk \in {"idle", "running"}
  /\ scanner \in {"none", "running", "aborted"}
  /\ announced \in {"nothing", "alive", "byebye"}
  \* axum is done only when its last connection is
  /\ http = "done" => \A c \in Clients : conn[c] = "closed"

\* The runtime schedules tasks until main drops it.
TasksRun == main \notin {"dropping", "exited", "killed"}

Over == main \in {"exited", "killed"}

-------------------------------------------------------------------------------
(* Slips a maintainer could make; the runs show that each is noticed.      *)

Bug_NoDrain == TRUE

Bug_HttpFirst(httpResult, ssdpResult) ==
  IF httpResult = "done" THEN "ok" ELSE "ssdp"

Bug_NotAwaited == main = "awaiting ssdp"

Bug_NoSignal(arm) == UNCHANGED shutdown

-------------------------------------------------------------------------------
(* The pieces of serve.                                                    *)

\* What axum waits for once it is told to stop.
Drained == \A c \in Clients : conn[c] = "closed"

\* map_runtime_results: axum's result is always Ok, SSDP's comes first.
map_runtime_results(httpResult, ssdpResult) ==
  IF ssdpResult = "failed" THEN "ssdp" ELSE "ok"

\* ssdp.await
SsdpEnded == ssdp \in {"ok", "failed"}

SsdpAwaited == main = "awaiting ssdp" /\ SsdpEnded

\* shutdown_tx.send(true), first thing in both arms of the select.
SendShutdown(arm) == shutdown' = "stop"

-------------------------------------------------------------------------------
Init ==
  /\ main = "starting" /\ result = "none"
  /\ control_c = "default"
  /\ listener = "none" /\ http = "new"
  /\ conn = [c \in Clients |-> "closed"]
  /\ ssdp = "none" /\ announced = "nothing"
  /\ search = [s \in Searches |-> "new"]
  /\ shutdown = "run"
  /\ walk = "idle" /\ scanner = "none"

\* The interface, the first scan and the listening socket.
Bind ==
  /\ main = "starting"
  /\ main' = "bound" /\ listener' = "open"
  /\ UNCHANGED <<result, shutdown, control_c, http, conn, ssdpVars, scanVars>>

\* One of them, or loading the bookmarks, fails.
StartFails ==
  /\ main \in {"starting", "bound"}
  /\ main' = "returned" /\ result' = "startup"
  /\ listener' = IF listener = "open" THEN "closed" ELSE listener
  /\ UNCHANGED <<shutdown, control_c, http, conn, ssdpVars, scanVars>>

\* The bookmarks are loaded; the two tasks are spawned.
Spawn ==
  /\ main = "bound"
  /\ main' = "selecting"
  /\ scanner' = "running" /\ ssdp' = "starting"
  /\ UNCHANGED <<result, shutdown, control_c, webVars, search, announced, walk>>

\* axum's future is polled: it spawns the task of shutdown_signal and accepts.
PollHttp ==
  /\ main \in {"selecting", "awaiting http"} /\ http = "new"
  /\ http' = "serving"
  /\ UNCHANGED <<serveVars, control_c, listener, conn, ssdpVars, scanVars>>

\* That task polls ctrl_c().
CatchControlC ==
  /\ TasksRun /\ http = "serving" /\ control_c = "default"
  /\ control_c' = "caught"
  /\ UNCHANGED <<serveVars, webVars, ssdpVars, scanVars>>

\* shutdown_signal ends, by Control-C or by the watch channel.
StopAccepting ==
  /\ TasksRun /\ http = "serving"
  /\ control_c = "pressed" \/ shutdown = "stop"
  /\ http' = "draining" /\ listener' = "closed"
  /\ UNCHANGED <<serveVars, control_c, conn, ssdpVars, scanVars>>

\* axum's future is ready, and is polled by serve.
HttpEnds ==
  /\ main \in {"selecting", "awaiting http"}
  /\ http = "draining" /\ Drained
  /\ http' = "done"
  /\ UNCHANGED <<serveVars, control_c, listener, conn, ssdpVars, scanVars>>

\* The select takes its first arm...
HttpFirst ==
  /\ main = "selecting" /\ http = "done"
  /\ SendShutdown("http")
  /\ main' = "awaiting ssdp"
  /\ UNCHANGED <<result, control_c, webVars, ssdpVars, scanVars>>

\* ... or its second, at random if both futures are ready.
SsdpFirst ==
  /\ main = "selecting" /\ SsdpEnded
  /\ SendShutdown("ssdp")
  /\ main' = "awaiting http"
  /\ UNCHANGED <<result, control_c, webVars, ssdpVars, scanVars>>

\* The other future has ended too: the scanner is aborted, serve returns.
Return ==
  /\ SsdpAwaited \/ (main = "awaiting http" /\ http = "done")
  /\ result' = map_runtime_results(http, ssdp)
  /\ main' = "returned" /\ scanner' = "aborted"
  /\ UNCHANGED <<shutdown, control_c, webVars, ssdpVars, walk>>

\* main returns and drops the runtime, and with it every task...
DropRuntime ==
  /\ main = "returned"
  /\ main' = "dropping"
  /\ conn' = [c \in Clients |-> "closed"]
  /\ UNCHANGED <<result, shutdown, control_c, listener, http, ssdpVars, scanVars>>

\* ... and waits for what runs on the blocking pool.
Exit ==
  /\ main = "dropping" /\ walk = "idle"
  /\ main' = "exited"
  /\ UNCHANGED <<result, shutdown, control_c, webVars, ssdpVars, scanVars>>

-------------------------------------------------------------------------------
(* run_ssdp and the tasks it spawns for searches.                          *)

SocketFails ==
  /\ TasksRun /\ ssdp = "starting"
  /\ ssdp' = "failed"
  /\ UNCHANGED <<serveVars, control_c, webVars, search, announced, scanVars>>

\* send_alive, at start and at each tick of the refresh interval.
SendAlive ==
  /\ TasksRun /\ ssdp \in {"starting", "active"}
  /\ ssdp' = "active" /\ announced' = "alive"
  /\ UNCHANGED <<serveVars, control_c, webVars, search, scanVars>>

ReceiveSearch(s) ==
  /\ TasksRun /\ ssdp = "active" /\ search[s] = "new"
  /\ search' = [search EXCEPT ![s] = "delayed"]
  /\ UNCHANGED <<serveVars, control_c, webVars, ssdp, announced, scanVars>>

\* The delay is over; the task does not ask whether the server is stopping.
AnswerSearch(s) ==
  /\ TasksRun /\ search[s] = "delayed"
  /\ search' = [search EXCEPT ![s] = "answered"]
  /\ UNCHANGED <<serveVars, control_c, webVars, ssdp, announced, scanVars>>

\* shutdown.changed(): run_ssdp says goodbye and returns.
SendByebye ==
  /\ TasksRun /\ ssdp = "active" /\ shutdown = "stop"
  /\ ssdp' = "ok" /\ announced' = "byebye"
  /\ UNCHANGED <<serveVars, control_c, webVars, search, scanVars>>

-------------------------------------------------------------------------------
(* The scanner's walk, which nothing interrupts.                           *)

StartWalk ==
  /\ TasksRun /\ scanner = "running" /\ walk = "idle"
  /\ walk' = "running"
  /\ UNCHANGED <<serveVars, control_c, webVars, ssdpVars, scanner>>

EndWalk ==
  /\ ~ Over /\ walk = "running"
  /\ walk' = "idle"
  /\ UNCHANGED <<serveVars, control_c, webVars, ssdpVars, scanner>>

-------------------------------------------------------------------------------
(* Clients, and the user at the terminal.                                  *)

Connect(c) ==
  /\ TasksRun /\ http = "serving" /\ conn[c] = "closed"
  /\ conn' = [conn EXCEPT ![c] = "idle"]
  /\ UNCHANGED <<serveVars, control_c, listener, http, ssdpVars, scanVars>>

Request(c) ==
  /\ TasksRun /\ http = "serving" /\ conn[c] = "idle"
  /\ conn' = [conn EXCEPT ![c] = "busy"]
  /\ UNCHANGED <<serveVars, control_c, listener, http, ssdpVars, scanVars>>

\* The response ends when the client has read it all or goes away.
EndResponse(c) ==
  /\ TasksRun /\ conn[c] = "busy"
  /\ conn' = [conn EXCEPT ![c] = IF http = "draining" THEN "closed" ELSE "idle"]
  /\ UNCHANGED <<serveVars, control_c, listener, http, ssdpVars, scanVars>>

\* A client hangs up, or axum closes an idle connection to stop.
CloseIdle(c) ==
  /\ TasksRun /\ conn[c] = "idle"
  /\ conn' = [conn EXCEPT ![c] = "closed"]
  /\ UNCHANGED <<serveVars, control_c, listener, http, ssdpVars, scanVars>>

\* Control-C kills the process until it is caught, and from then on it is only
\* a message to shutdown_signal, however often it is pressed.
PressControlC ==
  /\ ~ Over
  /\ IF control_c = "default"
       THEN /\ main' = "killed" /\ listener' = "closed"
            /\ UNCHANGED control_c
       ELSE /\ control_c' = "pressed"
            /\ UNCHANGED <<main, listener>>
  /\ UNCHANGED <<result, shutdown, http, conn, ssdpVars, scanVars>>

-------------------------------------------------------------------------------
Serve ==
  \/ Bind \/ StartFails \/ Spawn
  \/ PollHttp \/ CatchControlC \/ StopAccepting \/ HttpEnds
  \/ HttpFirst \/ SsdpFirst \/ Return \/ DropRuntime \/ Exit

Ssdp ==
  \/ SocketFails \/ SendAlive \/ SendByebye
  \/ \E s \in Searches : ReceiveSearch(s) \/ AnswerSearch(s)

Web ==
  \E c \in Clients : Connect(c) \/ Request(c) \/ EndResponse(c) \/ CloseIdle(c)

Next == Serve \/ Ssdp \/ StartWalk \/ EndWalk \/ Web \/ PressControlC

Spec == Init /\ [][Next]_vars

\* The runtime polls every task that is ready; a walk ends.
Fairness ==
  /\ WF_vars(Serve)
  /\ WF_vars(SendAlive) /\ WF_vars(SendByebye)
  /\ WF_vars(EndWalk)
  /\ \A c \in Clients : WF_vars(http = "draining" /\ CloseIdle(c))

\* Clients read their responses to the end or go away.
ClientsFinish == \A c \in Clients : WF_vars(EndResponse(c))

FairSpec == Spec /\ Fairness
LiveSpec == FairSpec /\ ClientsFinish

-------------------------------------------------------------------------------
(* Properties.                                                             *)

\* serve says Ok only after the byebye was sent, and no alive follows it
\* (http.rs:150-154, ssdp.rs:71-76): the last word of a server that ends well.
ByebyeIsTheLastWord ==
  result = "ok" => announced = "byebye"

\* The error of the SSDP task is what serve returns, and nothing hides it:
\* not the arm the select happens to take, nor a Control-C at the same time
\* (http.rs:149-162, map_runtime_results).
SsdpFailureIsReported ==
  main \in {"returned", "dropping", "exited"} /\ result # "startup" =>
    (result = "ssdp" <=> ssdp = "failed")

\* Control-C, or an SSDP task that fails, ends the program, once the clients'
\* responses and the current walk are over: no await in serve waits for a
\* task that waits for serve (http.rs:149-162).
StopLeadsToExit == (control_c = "pressed" \/ ssdp = "failed") ~> Over

\* After Control-C the byebye is sent (docs/tv-testing.md:41).
ControlCLeadsToByebye ==
  control_c = "pressed" /\ ssdp = "active" ~> announced = "byebye"

===============================================================================

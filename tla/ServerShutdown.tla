--------------------------- MODULE ServerShutdown ---------------------------
(***************************************************************************)
(* The shutdown of the HTTP process: the sequencer                         *)
(* (src/src/shutdown/graceful-shutdown.ts) running the phases of           *)
(* src/src/server.ts over the lifecycle, the HTTP drain, the guard, the    *)
(* event streams, a background job, the pool and the other resources,      *)
(* while clients keep connecting, sending requests and hanging up.         *)
(*                                                                         *)
(* A step is one macrotask with the microtasks it queues.  The settling of *)
(* a phase's last task and the start of the next phase are one step, and   *)
(* so are the end of the sequence and process.exit: nothing but            *)
(* microtasks lies between them.                                           *)
(***************************************************************************)
EXTENDS Integers, FiniteSets

CONSTANT Conns      \* the clients' connections; one is reused once it closed

ASSUME ConnsFinite == IsFiniteSet(Conns)

VARIABLES
    lifecycle,  \* appLifecycle.state
    phase,      \* the phase run() is in, 0 before the signal
    task,       \* shutdown task -> its outcome
    budget,     \* the deadline's timer
    draining,   \* httpDrain: runDrain has begun, so the listener is closed
    ending,     \* connections whose current exchange is their last
    conn,       \* connection -> what it is doing
    job,        \* a background job: the purge or the outbox relay
    pool,       \* the Postgres pool
    exitCode    \* -1 while the process runs

vars == <<lifecycle, phase, task, budget, draining, ending, conn, job, pool, exitCode>>
sequence == <<lifecycle, phase, task, budget, draining, pool, exitCode>>

Resources == {"postgres-pool", "outbox-redis", "tracing"}
Tasks == {"load-balancer-drain", "sse-streams", "websockets", "http-server", "job"}
         \cup Resources
Outcomes == {"completed", "failed", "timed-out", "skipped"}

\* "fresh": connected, nothing sent yet.  "idle": kept alive between requests.
\* "parsing": the request has arrived and is on its way through the middleware
\* in front of the guard.  "ended": the response is written and its exchange not
\* closed yet.
Exchanging == {"parsing", "handling", "sending", "ended", "streaming", "refusing"}
ConnStates == {"none", "fresh", "idle"} \cup Exchanging

Open == {c \in Conns : conn[c] \in Exchanging}

Running == exitCode = -1
isServing == lifecycle \in {"accepting", "draining"}

Init ==
    /\ lifecycle = "accepting"
    /\ phase = 0
    /\ task = [t \in Tasks |-> "pending"]
    /\ budget = "unarmed"
    /\ draining = FALSE
    /\ ending = {}
    /\ conn = [c \in Conns |-> "none"]
    /\ job = "waiting"
    /\ pool = "open"
    /\ exitCode = -1

-----------------------------------------------------------------------------
(* Clients, handlers and the background job *)

Connect(c) ==
    /\ Running
    /\ ~draining
    /\ conn[c] = "none"
    /\ conn' = [conn EXCEPT ![c] = "fresh"]
    /\ UNCHANGED <<sequence, ending, job>>

\* The request listener of the drain, which runs ahead of the application.
Request(c) ==
    /\ Running
    /\ conn[c] \in {"fresh", "idle"}
    /\ conn' = [conn EXCEPT ![c] = "parsing"]
    /\ ending' = IF draining THEN ending \cup {c} ELSE ending
    /\ UNCHANGED <<sequence, job>>

\* Answered without meeting the guard: the metrics and a CORS preflight, which
\* are mounted ahead of it, and a body the parsers reject.
AnswerAheadOfGuard(c) ==
    /\ Running
    /\ conn[c] = "parsing"
    /\ conn' = [conn EXCEPT ![c] = "ended"]
    /\ UNCHANGED <<sequence, ending, job>>

\* shutdownGuard, once the body has been read and the session looked up, and
\* the route behind it.
Guard(c) ==
    /\ Running
    /\ conn[c] = "parsing"
    /\ \E next \in IF isServing THEN {"handling", "streaming"} ELSE {"refusing"} :
          conn' = [conn EXCEPT ![c] = next]
    /\ UNCHANGED <<sequence, ending, job>>

SendHeaders(c) ==
    /\ Running
    /\ conn[c] = "handling"
    /\ conn' = [conn EXCEPT ![c] = "sending"]
    /\ UNCHANGED <<sequence, ending, job>>

EndResponse(c) ==
    /\ Running
    /\ conn[c] \in {"handling", "sending"}
    /\ conn' = [conn EXCEPT ![c] = "ended"]
    /\ UNCHANGED <<sequence, ending, job>>

\* The response is flushed: its connection ends with it, or is kept alive.
CloseExchange(c) ==
    /\ Running
    /\ conn[c] \in {"ended", "refusing"}
    /\ conn' = [conn EXCEPT ![c] =
                  IF c \in ending \/ @ = "refusing" THEN "none" ELSE "idle"]
    /\ ending' = ending \ {c}
    /\ UNCHANGED <<sequence, job>>

\* Mutant of HangUp: the exchange is dropped on finish only, not on close.
HangUpKeepsExchange(c) ==
    /\ Running
    /\ conn[c] # "none"
    /\ conn' = [conn EXCEPT ![c] = "none"]
    /\ UNCHANGED <<sequence, ending, job>>

\* The client goes away; the response's close event drops its exchange.
HangUp(c) ==
    /\ Running
    /\ conn[c] # "none"
    /\ conn' = [conn EXCEPT ![c] = "none"]
    /\ ending' = ending \ {c}
    /\ UNCHANGED <<sequence, job>>

JobTick ==
    /\ Running
    /\ job = "waiting"
    /\ job' = "ticking"
    /\ UNCHANGED <<sequence, ending, conn>>

JobTickEnds ==
    /\ Running
    /\ job = "ticking"
    /\ job' = "waiting"
    /\ UNCHANGED <<sequence, ending, conn>>

-----------------------------------------------------------------------------
(* The sequence *)

\* run() is over: markClosed, the report, and the exit of install's handler.
Finish(outcomes) ==
    /\ task' = outcomes
    /\ phase' = 5
    /\ lifecycle' = "closed"
    /\ budget' = IF budget = "armed" THEN "cleared" ELSE budget
    /\ exitCode' = IF \A t \in Tasks : outcomes[t] = "completed" THEN 0 ELSE 1

\* Mutant of Signal: the guard is turned on at the top of the sequence.
SignalBeginsClosing ==
    /\ Running
    /\ phase = 0
    /\ phase' = 1
    /\ lifecycle' = "closing"
    /\ budget' = "armed"
    /\ task' = [task EXCEPT !["load-balancer-drain"] = "running"]
    /\ UNCHANGED <<draining, ending, conn, job, pool, exitCode>>

\* Mutant of Signal: the budget's timer is never armed.
SignalWithoutBudget ==
    /\ Running
    /\ phase = 0
    /\ phase' = 1
    /\ lifecycle' = "draining"
    /\ task' = [task EXCEPT !["load-balancer-drain"] = "running"]
    /\ UNCHANGED <<budget, draining, ending, conn, job, pool, exitCode>>

\* SIGTERM: beginDraining, the budget, and the first phase, which only waits.
Signal ==
    /\ Running
    /\ phase = 0
    /\ phase' = 1
    /\ lifecycle' = "draining"
    /\ budget' = "armed"
    /\ task' = [task EXCEPT !["load-balancer-drain"] = "running"]
    /\ UNCHANGED <<draining, ending, conn, job, pool, exitCode>>

SecondSignal ==
    /\ Running
    /\ phase > 0
    /\ exitCode' = 1
    /\ UNCHANGED <<lifecycle, phase, task, budget, draining, ending, conn, job, pool>>

\* Mutant of BudgetExpires: a task that timed out is reported completed.
BudgetExpiresUnreported ==
    /\ Running
    /\ budget = "armed"
    /\ budget' = "spent"
    /\ phase' = 5
    /\ task' = [t \in Tasks |-> "completed"]
    /\ lifecycle' = "closed"
    /\ exitCode' = 0
    /\ UNCHANGED <<draining, ending, conn, job, pool>>

\* Every running task loses its race, every later one is skipped, and the
\* process exits before any other callback runs.
BudgetExpires ==
    /\ Running
    /\ budget = "armed"
    /\ budget' = "spent"
    /\ phase' = 5
    /\ task' = [t \in Tasks |-> CASE task[t] = "running" -> "timed-out"
                                  [] task[t] = "pending" -> "skipped"
                                  [] OTHER -> task[t]]
    /\ lifecycle' = "closed"
    /\ exitCode' = 1
    /\ UNCHANGED <<draining, ending, conn, job, pool>>

\* The window ends and the long-lived phase begins: closeAll ends every stream
\* there is, and the WebSocket server starts to close.
WindowEnds ==
    /\ Running
    /\ task["load-balancer-drain"] = "running"
    /\ phase' = 2
    /\ task' = [task EXCEPT !["load-balancer-drain"] = "completed",
                            !["sse-streams"] = "completed",
                            !["websockets"] = "running"]
    /\ conn' = [c \in Conns |-> IF conn[c] = "streaming" THEN "ended" ELSE conn[c]]
    /\ UNCHANGED <<lifecycle, budget, draining, ending, job, pool, exitCode>>

\* Mutant of BeginDrain: only the listener is closed, no open exchange is marked.
BeginDrainUnmarked ==
    /\ draining' = TRUE
    /\ conn' = [c \in Conns |-> IF conn[c] = "idle" THEN "none" ELSE conn[c]]
    /\ UNCHANGED ending

\* runDrain up to its await: every open exchange becomes the last of its
\* connection; closing the listener also closes the idle connections.
BeginDrain ==
    /\ draining' = TRUE
    /\ ending' = Open
    /\ conn' = [c \in Conns |-> IF conn[c] = "idle" THEN "none" ELSE conn[c]]

\* The WebSocket server has closed and the in-flight phase begins.
WebSocketsClosed ==
    /\ Running
    /\ task["websockets"] = "running"
    /\ phase' = 3
    /\ lifecycle' = "closing"
    /\ BeginDrain
    /\ job' = IF job = "waiting" THEN "stopped" ELSE "stopping"
    /\ task' = [task EXCEPT !["websockets"] = "completed",
                            !["http-server"] = "running",
                            !["job"] = IF job = "waiting" THEN "completed" ELSE "running"]
    /\ UNCHANGED <<budget, pool, exitCode>>

\* The last task in flight, t, is done and every resource is told to close.
ResourcesBegin(t) ==
    [u \in Tasks |-> CASE u = t -> "completed" [] u \in Resources -> "running"
                       [] OTHER -> task[u]]

\* Mutant of InFlightTaskDone: the phase ends with its first task.
InFlightTaskDoneEarly(t) ==
    /\ phase' = 4
    /\ pool' = "ending"
    /\ task' = ResourcesBegin(t)

\* Promise.all: the last task of the phase to settle starts the resources phase.
InFlightTaskDone(t) ==
    IF \A u \in {"http-server", "job"} \ {t} : task[u] \in Outcomes
    THEN /\ phase' = 4
         /\ pool' = "ending"
         /\ task' = ResourcesBegin(t)
    ELSE /\ task' = [task EXCEPT ![t] = "completed"]
         /\ UNCHANGED <<phase, pool>>

\* server.close's callback: the last connection is gone.
Drained ==
    /\ Running
    /\ task["http-server"] = "running"
    /\ \A c \in Conns : conn[c] = "none"
    /\ InFlightTaskDone("http-server")
    /\ UNCHANGED <<lifecycle, budget, draining, ending, conn, job, exitCode>>

\* The tick in flight ends, and with it the job's stop().
JobStops ==
    /\ Running
    /\ job = "stopping"
    /\ job' = "stopped"
    /\ InFlightTaskDone("job")
    /\ UNCHANGED <<lifecycle, budget, draining, ending, conn, exitCode>>

\* A resource has closed, or failed to; the sequence is over with the last one.
ResourceCloses(t, outcome) ==
    LET outcomes == [task EXCEPT ![t] = outcome] IN
    /\ Running
    /\ task[t] = "running"
    /\ pool' = IF t = "postgres-pool" THEN "ended" ELSE pool
    /\ IF \A u \in Resources : outcomes[u] \in Outcomes THEN Finish(outcomes)
       ELSE task' = outcomes /\ UNCHANGED <<phase, lifecycle, budget, exitCode>>
    /\ UNCHANGED <<draining, ending, conn, job>>

Exchange(c) ==
    \/ Connect(c)
    \/ Request(c)
    \/ AnswerAheadOfGuard(c)
    \/ Guard(c)
    \/ SendHeaders(c)
    \/ EndResponse(c)
    \/ CloseExchange(c)
    \/ HangUp(c)

Next ==
    \/ \E c \in Conns : Exchange(c)
    \/ JobTick
    \/ JobTickEnds
    \/ Signal
    \/ SecondSignal
    \/ BudgetExpires
    \/ WindowEnds
    \/ WebSocketsClosed
    \/ Drained
    \/ JobStops
    \/ \E t \in Resources, outcome \in {"completed", "failed"} : ResourceCloses(t, outcome)

\* Handlers end, clients read the responses they are sent, so that these are
\* flushed, and callbacks run.  No client has to send anything, the rest of a
\* body included, or to leave, and the budget's timer is not among them:
\* DrainNeedsNoDeadline would be empty if it were.
Fairness ==
    /\ \A c \in Conns : WF_vars(EndResponse(c)) /\ WF_vars(CloseExchange(c))
    /\ WF_vars(JobStops)
    /\ WF_vars(Drained)

Spec == Init /\ [][Next]_vars /\ Fairness

-----------------------------------------------------------------------------
(* Properties *)

\* Every variable keeps its type; the exchanges marked as last are open ones,
\* so an exchange whose client left is no longer waited for.
TypeOK ==
    /\ lifecycle \in {"accepting", "draining", "closing", "closed"}
    /\ phase \in 0..5
    /\ task \in [Tasks -> {"pending", "running"} \cup Outcomes]
    /\ budget \in {"unarmed", "armed", "cleared", "spent"}
    /\ draining \in BOOLEAN
    /\ ending \subseteq Open
    /\ conn \in [Conns -> ConnStates]
    /\ job \in {"waiting", "ticking", "stopping", "stopped"}
    /\ pool \in {"open", "ending", "ended"}
    /\ exitCode \in {-1, 0, 1}

\* Exit code 0 is the statement that nobody was cut off: the process leaves
\* with it only when no exchange is open, the job is at rest and the pool has
\* ended, whatever hung, failed or was signalled again on the way.
CleanExitCutsNothing ==
    exitCode = 0 => Open = {} /\ job = "stopped" /\ pool = "ended"

\* The pool goes last: it is never asked to end while a client is still being
\* answered or the job's tick holds a connection of it.
PoolOutlivesItsUsers ==
    pool # "open" => Open = {} /\ job = "stopped"

\* The guard follows the listener: a request is refused only once the listener
\* is closed, and from then on none gets to a route behind the guard, one that
\* arrived earlier and is still being parsed included.
GuardFollowsListener ==
    [][\A c \in Conns : conn'[c] # conn[c] =>
          /\ conn'[c] = "refusing" => draining
          /\ conn'[c] \in {"handling", "streaming"} => ~draining]_vars

\* server.close() terminates by itself: if the in-flight phase lasts for ever, it
\* is because a client sends no request, or not all of one, or because of an
\* event stream.  A connection that was being answered never holds the drain,
\* whatever it negotiated and whenever its request arrived.
DrainNeedsNoDeadline ==
    <>[](phase = 3 /\ Running) =>
        <>[](\E c \in Conns : conn[c] \in {"fresh", "parsing", "streaming"})

\* One signal ends the process, whatever hangs: the budget covers the whole
\* sequence (its timer fires once armed).
SignalEndsProcess ==
    WF_vars(BudgetExpires) => (phase = 1 ~> ~Running)

\* What server.ts says of the long-lived phase: once it is over the drain does
\* not meet an event stream.
DrainMeetsNoStream ==
    draining => \A c \in Conns : conn[c] # "streaming"

=============================================================================

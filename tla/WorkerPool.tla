----------------------------- MODULE WorkerPool -----------------------------
(***************************************************************************)
(* The pool of worker threads behind CPU-bound handlers                    *)
(* (src/src/workers/worker-pool.ts) and the threads it drives              *)
(* (worker-runtime.ts).  The pool's methods and callbacks run to           *)
(* completion on the main thread, so each is one step computed on the      *)
(* record `pool`; the threads answer, die and get destroyed at their own   *)
(* pace, and their messages and exit events arrive later.  A thread is     *)
(* spawned only to run a task, so Threads needs no more members than       *)
(* Tasks has.  A task's id is the task: dispatch() gives each call of      *)
(* run() a fresh one.                                                      *)
(***************************************************************************)
EXTENDS Integers, FiniteSets, SequencesExt

CONSTANTS
    Tasks,          \* calls of run()
    Uncloneable,    \* those whose payload postMessage refuses
    Drainers,       \* calls of drain()
    Size,           \* options.size
    MaxQueueDepth,  \* options.maxQueueDepth
    None            \* no task

\* What the constructor checks.
OptionsValid ==
    /\ IsFiniteSet(Tasks) /\ Uncloneable \subseteq Tasks /\ None \notin Tasks
    /\ Size \in Nat \ {0}
    /\ MaxQueueDepth \in Nat

ASSUME PoolAssumption == OptionsValid

Threads == 1..Cardinality(Tasks)

VARIABLES
    pool,       \* the pool object and what it has sent to its threads
    mail,       \* responses on their way to the pool, <<thread, task>>
    down,       \* threads that have ended
    exits,      \* thread -> error and exit events on their way to the pool
    drainCall   \* drainer -> what its promise is waiting for

vars == <<pool, mail, down, exits, drainCall>>

Init ==
    /\ pool = [state |-> "open",       \* this.state
               workers |-> {},         \* this.workers
               idle |-> <<>>,          \* this.idle, a stack
               queue |-> <<>>,         \* this.queue
               current |-> [w \in Threads |-> None],
               retired |-> {},         \* records with retired = true
               spawned |-> 0,          \* threads created so far
               posted |-> [w \in Threads |-> {}],  \* requests a thread has not answered
               ending |-> {},          \* threads terminate() was called on
               destroying |-> {},      \* threads destroyAll awaits
               destroyed |-> FALSE,    \* destroyAll is done, drained resolved
               promise |-> [t \in Tasks |-> "unsent"]]
    /\ mail = {}
    /\ down = {}
    /\ exits = [w \in Threads |-> 0]
    /\ drainCall = [d \in Drainers |-> "none"]

-----------------------------------------------------------------------------
(* The pool's internals, as functions of the pool *)

\* A promise takes the first outcome; a second one is remembered as "twice".
\* "answered": by the thread, with a result or an error; "lost": the task timed
\* out or its thread crashed; "refused": shed, or the pool was not open.
Settle(p, t, outcome) ==
    [p EXCEPT !.promise[t] = IF @ = "pending" THEN outcome ELSE "twice"]

\* acquireWorker() and spawn(): the most recently idle thread, else a new one.
\* Mutant of Free: the size is off by one.
FreeOverSize(p) == p.idle # <<>> \/ Cardinality(p.workers) <= Size

Free(p) == p.idle # <<>> \/ Cardinality(p.workers) < Size
FreeThread(p) == IF p.idle # <<>> THEN Last(p.idle) ELSE p.spawned + 1
Acquire(p) ==
    IF p.idle # <<>>
    THEN [p EXCEPT !.idle = Front(@)]
    ELSE [p EXCEPT !.spawned = @ + 1, !.workers = @ \cup {p.spawned + 1}]

\* dispatch() onto a free thread.  A payload that cannot be cloned fails only
\* its caller: the thread is free again.
Dispatch(p, t) ==
    LET w == FreeThread(p)
        q == Acquire(p)
    IN  IF t \in Uncloneable
        THEN [Settle(q, t, "uncloneable") EXCEPT !.idle = Append(@, w)]
        ELSE [q EXCEPT !.current[w] = t, !.posted[w] = @ \cup {t}]

\* Mutant of Pump: a freed thread takes no queued task.
PumpNothing(p) == p

\* Mutant of Pump: one queued task per freed thread, whether or not it stays on it.
PumpOnce(p) ==
    IF p.queue # <<>> /\ p.state # "closed" /\ Free(p)
    THEN Dispatch([p EXCEPT !.queue = Tail(@)], Head(p.queue)) ELSE p

\* pump(): queued tasks in order, while there is a thread to put one on.
Pump(p) ==
    LET Take(q, t) == IF q.state # "closed" /\ Free(q)
                      THEN Dispatch([q EXCEPT !.queue = Tail(@)], t) ELSE q
    IN  FoldLeft(Take, p, p.queue)

\* destroyAll(): all records go, and their threads are awaited.
DestroyAll(p) ==
    [p EXCEPT !.state = "closed", !.workers = {}, !.idle = <<>>,
              !.retired = @ \cup p.workers, !.ending = @ \cup p.workers,
              !.destroying = p.workers]

\* settleDrainIfIdle()
SettleDrain(p) ==
    IF /\ p.state = "draining"
       /\ p.queue = <<>>
       /\ \A w \in p.workers : p.current[w] = None
    THEN DestroyAll(p) ELSE p

\* Mutant of Retire: the lost thread is not replaced.
RetireOnly(p, w) ==
    IF w \in p.retired THEN p
    ELSE [p EXCEPT !.retired = @ \cup {w}, !.workers = @ \ {w},
                   !.idle = SelectSeq(@, LAMBDA v : v # w),
                   !.ending = @ \cup {w}]

\* retire(): out of rotation, replaced if there is work, destroyed.
Retire(p, w) ==
    IF w \in p.retired THEN p
    ELSE SettleDrain(Pump(
            [p EXCEPT !.retired = @ \cup {w}, !.workers = @ \ {w},
                      !.idle = SelectSeq(@, LAMBDA v : v # w),
                      !.ending = @ \cup {w}]))

\* release()
Release(p, w) ==
    CASE w \in p.retired -> p
      [] w \notin p.retired /\ p.state = "closed" -> Retire(p, w)
      [] OTHER -> SettleDrain(Pump([p EXCEPT !.idle = Append(@, w)]))

-----------------------------------------------------------------------------
(* The public methods *)

\* run()
Admit(p, t) ==
    CASE p.state # "open" -> Settle(p, t, "refused")
      [] p.state = "open" /\ Free(p) ->
            IF t \in Uncloneable THEN SettleDrain(Pump(Dispatch(p, t)))
                                 ELSE Dispatch(p, t)
      [] p.state = "open" /\ ~Free(p) /\ Len(p.queue) >= MaxQueueDepth ->
            Settle(p, t, "refused")
      [] OTHER -> [p EXCEPT !.queue = Append(@, t)]

Run(t) ==
    /\ pool.promise[t] = "unsent"
    /\ pool' = Admit([pool EXCEPT !.promise[t] = "pending"], t)
    /\ UNCHANGED <<mail, down, exits, drainCall>>

\* drain(): the first call starts it; a call on a closed pool returns at once.
Drain(d) ==
    /\ drainCall[d] = "none"
    /\ pool' = IF pool.state = "open"
               THEN SettleDrain([pool EXCEPT !.state = "draining"]) ELSE pool
    /\ drainCall' = [drainCall EXCEPT ![d] =
                        IF pool.state = "closed" THEN "done" ELSE "waiting"]
    /\ UNCHANGED <<mail, down, exits>>

\* terminate(): every caller is rejected and every thread destroyed.
Terminate ==
    LET queued == ToSet(pool.queue)
        running == {pool.current[w] : w \in pool.workers} \ {None}
        dropped == [pool EXCEPT
            !.queue = <<>>,
            !.current = [w \in Threads |-> IF w \in pool.workers THEN None ELSE @[w]],
            !.promise = [t \in Tasks |-> IF t \in queued \cup running
                                         THEN "terminated" ELSE @[t]]]
    IN  /\ pool.state # "closed"
        /\ pool' = DestroyAll(dropped)
        /\ UNCHANGED <<mail, down, exits, drainCall>>

\* The threads destroyAll awaited are gone: resolveDrainedIfPending().
DestroyDone ==
    /\ pool.state = "closed" /\ ~pool.destroyed
    /\ pool.destroying \subseteq down
    /\ pool' = [pool EXCEPT !.destroyed = TRUE]
    /\ drainCall' = [d \in Drainers |-> IF drainCall[d] = "waiting" THEN "done"
                                        ELSE drainCall[d]]
    /\ UNCHANGED <<mail, down, exits>>

-----------------------------------------------------------------------------
(* The callbacks spawn() installs, and the deadline *)

\* onMessage(): a response that is not for the task on this thread is dropped.
OnMessage(w, t) ==
    /\ <<w, t>> \in mail
    /\ mail' = mail \ {<<w, t>>}
    /\ pool' = IF pool.current[w] # t THEN pool
               ELSE Release(Settle([pool EXCEPT !.current[w] = None], t, "answered"), w)
    /\ UNCHANGED <<down, exits, drainCall>>

\* Mutant of OnTimeout: the thread goes back into rotation.
OnTimeoutReuses(w) ==
    /\ pool.current[w] # None
    /\ pool' = Release(Settle([pool EXCEPT !.current[w] = None],
                              pool.current[w], "lost"), w)
    /\ UNCHANGED <<mail, down, exits, drainCall>>

\* onTimeout(): the timer is armed exactly while the thread has a task.
OnTimeout(w) ==
    /\ pool.current[w] # None
    /\ pool' = Retire(Settle([pool EXCEPT !.current[w] = None],
                             pool.current[w], "lost"), w)
    /\ UNCHANGED <<mail, down, exits, drainCall>>

\* Mutant of OnWorkerFailure: the task on the thread is forgotten.
OnWorkerFailureSilent(w) ==
    /\ exits[w] > 0
    /\ exits' = [exits EXCEPT ![w] = @ - 1]
    /\ pool' = IF w \in pool.retired THEN pool
               ELSE Retire([pool EXCEPT !.current[w] = None], w)
    /\ UNCHANGED <<mail, down, drainCall>>

\* onWorkerFailure(), for an error or an exit event.
OnWorkerFailure(w) ==
    LET t == pool.current[w]
        cleared == [pool EXCEPT !.current[w] = None]
    IN  /\ exits[w] > 0
        /\ exits' = [exits EXCEPT ![w] = @ - 1]
        /\ pool' = CASE w \in pool.retired -> pool
                     [] w \notin pool.retired /\ t # None ->
                            Retire(Settle(cleared, t, "lost"), w)
                     [] OTHER -> Retire(cleared, w)
        /\ UNCHANGED <<mail, down, drainCall>>

-----------------------------------------------------------------------------
(* The threads: serveTasks() answers every request it survives *)

Answer(w, t) ==
    /\ w \notin down
    /\ t \in pool.posted[w]
    /\ pool' = [pool EXCEPT !.posted[w] = @ \ {t}]
    /\ mail' = mail \cup {<<w, t>>}
    /\ UNCHANGED <<down, exits, drainCall>>

\* A crash gives an error and an exit event, process.exit() only the latter.
Die(w) ==
    /\ w \in pool.workers
    /\ w \notin down
    /\ down' = down \cup {w}
    /\ \E events \in 1..2 : exits' = [exits EXCEPT ![w] = events]
    /\ pool' = [pool EXCEPT !.posted[w] = {}]
    /\ UNCHANGED <<mail, drainCall>>

\* The terminate() of a thread takes effect.  Its exit event finds a record
\* that is retired already, which onWorkerFailure() ignores.
ThreadEnds(w) ==
    /\ w \in pool.ending
    /\ w \notin down
    /\ down' = down \cup {w}
    /\ pool' = [pool EXCEPT !.posted[w] = {}]
    /\ UNCHANGED <<mail, exits, drainCall>>

Next ==
    \/ \E t \in Tasks : Run(t)
    \/ \E d \in Drainers : Drain(d)
    \/ Terminate
    \/ DestroyDone
    \/ \E w \in Threads :
          \/ OnTimeout(w) \/ OnWorkerFailure(w) \/ Die(w) \/ ThreadEnds(w)
          \/ \E t \in Tasks : OnMessage(w, t) \/ Answer(w, t)

\* Timers fire, threads that are told to end do, and promises are settled.  A
\* thread need not answer, and neither drain() nor terminate() need be called.
Fairness ==
    /\ \A w \in Threads : WF_vars(OnTimeout(w)) /\ WF_vars(ThreadEnds(w))
    /\ WF_vars(DestroyDone)

Spec == Init /\ [][Next]_vars /\ Fairness

-----------------------------------------------------------------------------
(* Properties *)

Outcomes == {"answered", "lost", "uncloneable", "refused", "terminated"}

\* Every field keeps the shape the class gives it, and no more threads are in
\* rotation than the pool's size.
TypeOK ==
    /\ pool.state \in {"open", "draining", "closed"}
    /\ pool.workers \subseteq 1..pool.spawned
    /\ Cardinality(pool.workers) <= Size
    /\ pool.spawned \in 0..Cardinality(Threads)
    /\ Len(pool.queue) <= MaxQueueDepth
    /\ pool.current \in [Threads -> Tasks \cup {None}]
    /\ pool.promise \in [Tasks -> {"unsent", "pending", "twice"} \cup Outcomes]

\* No lost wake-up: a task waits only while every thread the pool may have is
\* busy, after any mix of answers, timeouts, crashes and clone failures.
QueuedOnlyWhenSaturated ==
    pool.queue # <<>> =>
        /\ pool.idle = <<>>
        /\ Cardinality(pool.workers) = Size
        /\ \A w \in pool.workers : pool.current[w] # None

\* Every accepted call is somewhere: its promise is pending exactly while it is
\* queued or on one thread in rotation, and is never settled twice.
PendingIsQueuedOrRunning ==
    /\ \A t \in Tasks :
          /\ pool.promise[t] # "twice"
          /\ pool.promise[t] = "pending" <=>
                \/ t \in ToSet(pool.queue)
                \/ \E w \in pool.workers : pool.current[w] = t
          /\ Cardinality({w \in Threads : pool.current[w] = t}) <= 1
    /\ Cardinality(ToSet(pool.queue)) = Len(pool.queue)

\* A thread is given a task only when it has answered the one before: whoever
\* timed out on it, nothing else of the pool's runs there.
OneTaskPerThread ==
    \A w \in pool.workers : pool.posted[w] \subseteq {pool.current[w]}

\* Every call of run() is settled even if no thread ever answers: deadlines
\* destroy threads, and replacements take over the queue.
EveryCallSettles ==
    \A t \in Tasks : []<>(pool.promise[t] # "pending")

\* A drain that has begun completes, whatever threads are lost on the way.
DrainCompletes ==
    \A d \in Drainers : []<>(drainCall[d] # "waiting")

=============================================================================

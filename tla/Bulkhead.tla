------------------------------ MODULE Bulkhead ------------------------------
(***************************************************************************)
(* The concurrency cap in front of one dependency                          *)
(* (src/src/resilience/bulkhead.ts).  Each caller runs withBulkhead: it    *)
(* acquires a permit, runs its function and releases the permit.  A step   *)
(* is one synchronous run of JavaScript: a call of acquire, a timer or     *)
(* abort callback, the resumption of a caller whose promise resolved, or   *)
(* a release together with the hand-off it performs.                       *)
(***************************************************************************)
EXTENDS Integers, FiniteSets, SequencesExt

CONSTANTS
    Callers,        \* the callers of withBulkhead
    MaxConcurrent,  \* options.maxConcurrent
    MaxQueue        \* options.maxQueue

\* What the constructor checks, and that callers are finitely many.
ASSUME BulkheadAssumption ==
    /\ IsFiniteSet(Callers)
    /\ MaxConcurrent \in Nat \ {0}
    /\ MaxQueue \in Nat

VARIABLES
    call,           \* caller -> how far its withBulkhead has come
    aborted,        \* callers whose AbortSignal has aborted
    waiters,        \* this.waiters, in arrival order
    inFlightCount,  \* this.inFlightCount
    timers,         \* callers whose queue timer is armed
    listeners       \* callers whose abort listener is attached

vars == <<call, aborted, waiters, inFlightCount, timers, listeners>>

\* "permit": the promise resolved with a permit, its continuation has not run.
Settled == {"released", "queue-full", "queue-timeout", "aborted"}
CallStates == {"idle", "pending", "permit", "running"} \cup Settled

Waiting == {c \in Callers : call[c] = "pending"}
Holders == {c \in Callers : call[c] \in {"permit", "running"}}

Init ==
    /\ call = [c \in Callers |-> "idle"]
    /\ aborted = {}
    /\ waiters = <<>>
    /\ inFlightCount = 0
    /\ timers = {}
    /\ listeners = {}

\* Another request of the same caller, with a signal of its own.
NewRequest(c) ==
    /\ call[c] \in Settled
    /\ call' = [call EXCEPT ![c] = "idle"]
    /\ aborted' = aborted \ {c}
    /\ UNCHANGED <<waiters, inFlightCount, timers, listeners>>

AcquireAborted(c) ==
    /\ call[c] = "idle"
    /\ c \in aborted
    /\ call' = [call EXCEPT ![c] = "aborted"]
    /\ UNCHANGED <<aborted, waiters, inFlightCount, timers, listeners>>

\* Mutant of AcquireSlot: the boundary is off by one.
AcquireSlotOffByOne(c) ==
    /\ call[c] = "idle"
    /\ c \notin aborted
    /\ inFlightCount <= MaxConcurrent
    /\ inFlightCount' = inFlightCount + 1
    /\ call' = [call EXCEPT ![c] = "permit"]
    /\ UNCHANGED <<aborted, waiters, timers, listeners>>

AcquireSlot(c) ==
    /\ call[c] = "idle"
    /\ c \notin aborted
    /\ inFlightCount < MaxConcurrent
    /\ inFlightCount' = inFlightCount + 1
    /\ call' = [call EXCEPT ![c] = "permit"]
    /\ UNCHANGED <<aborted, waiters, timers, listeners>>

AcquireRefused(c) ==
    /\ call[c] = "idle"
    /\ c \notin aborted
    /\ inFlightCount >= MaxConcurrent
    /\ Len(waiters) >= MaxQueue
    /\ call' = [call EXCEPT ![c] = "queue-full"]
    /\ UNCHANGED <<aborted, waiters, inFlightCount, timers, listeners>>

Enqueue(c) ==
    /\ call[c] = "idle"
    /\ c \notin aborted
    /\ inFlightCount >= MaxConcurrent
    /\ Len(waiters) < MaxQueue
    /\ call' = [call EXCEPT ![c] = "pending"]
    /\ waiters' = Append(waiters, c)
    /\ timers' = timers \cup {c}
    /\ listeners' = listeners \cup {c}
    /\ UNCHANGED <<aborted, inFlightCount>>

\* Mutant of Leave: the waiter is only marked settled and stays in the queue.
LeaveTombstone(c) == UNCHANGED waiters

\* leave(): the waiter is spliced out, wherever in the queue it stands.
Leave(c) ==
    IF \E i \in DOMAIN waiters : waiters[i] = c
    THEN \E i \in DOMAIN waiters : waiters[i] = c /\ waiters' = RemoveAt(waiters, i)
    ELSE UNCHANGED waiters

\* Settling a promise that is already settled has no effect.
Reject(c, reason) ==
    call' = [call EXCEPT ![c] = IF @ = "pending" THEN reason ELSE @]

QueueTimeout(c) ==
    /\ c \in timers
    /\ Leave(c)
    /\ timers' = timers \ {c}
    /\ listeners' = listeners \ {c}
    /\ Reject(c, "queue-timeout")
    /\ UNCHANGED <<aborted, inFlightCount>>

\* The caller's client hangs up while it has a place in the queue: onAbort.
AbortQueued(c) ==
    /\ c \notin aborted
    /\ c \in listeners
    /\ aborted' = aborted \cup {c}
    /\ Leave(c)
    /\ timers' = timers \ {c}
    /\ listeners' = listeners \ {c}
    /\ Reject(c, "aborted")
    /\ UNCHANGED inFlightCount

\* It hangs up when the bulkhead is not listening: before or after the wait.
AbortUnheard(c) ==
    /\ c \notin aborted
    /\ c \notin listeners
    /\ call[c] \notin Settled
    /\ aborted' = aborted \cup {c}
    /\ UNCHANGED <<call, waiters, inFlightCount, timers, listeners>>

\* Mutant of Resume: a caller that hung up meanwhile neither runs nor releases.
ResumeUnlessAborted(c) ==
    /\ call[c] = "permit"
    /\ c \notin aborted
    /\ call' = [call EXCEPT ![c] = "running"]
    /\ UNCHANGED <<aborted, waiters, inFlightCount, timers, listeners>>

\* withBulkhead resumes after its await and starts the function.
Resume(c) ==
    /\ call[c] = "permit"
    /\ call' = [call EXCEPT ![c] = "running"]
    /\ UNCHANGED <<aborted, waiters, inFlightCount, timers, listeners>>

\* Mutant of HandOff: the releaser decrements although the slot moves on.
HandOffDecrements(c) ==
    /\ inFlightCount' = inFlightCount - 1
    /\ IF waiters = <<>>
       THEN /\ call' = [call EXCEPT ![c] = "released"]
            /\ UNCHANGED <<waiters, timers, listeners>>
       ELSE LET next == Head(waiters) IN
            /\ waiters' = Tail(waiters)
            /\ timers' = timers \ {next}
            /\ listeners' = listeners \ {next}
            /\ call' = [call EXCEPT ![c] = "released", ![next] = "permit"]

\* Mutant of HandOff: the slot is returned and nobody is woken.
HandOffForgetsWaiters(c) ==
    /\ inFlightCount' = inFlightCount - 1
    /\ call' = [call EXCEPT ![c] = "released"]
    /\ UNCHANGED <<waiters, timers, listeners>>

\* Mutant of HandOff: pop() where shift() is meant.
HandOffNewest(c) ==
    IF waiters = <<>>
    THEN HandOffForgetsWaiters(c)
    ELSE LET next == Last(waiters) IN
         /\ waiters' = Front(waiters)
         /\ timers' = timers \ {next}
         /\ listeners' = listeners \ {next}
         /\ call' = [call EXCEPT ![c] = "released", ![next] = "permit"]
         /\ UNCHANGED inFlightCount

\* handOff(): the slot goes to the head waiter, or back to the count.
HandOff(c) ==
    IF waiters = <<>>
    THEN /\ inFlightCount' = inFlightCount - 1
         /\ call' = [call EXCEPT ![c] = "released"]
         /\ UNCHANGED <<waiters, timers, listeners>>
    ELSE LET next == Head(waiters) IN
         /\ waiters' = Tail(waiters)
         /\ timers' = timers \ {next}
         /\ listeners' = listeners \ {next}
         /\ call' = [call EXCEPT ![c] = "released", ![next] = "permit"]
         /\ UNCHANGED inFlightCount

\* The function ended, however it ended: the finally block.
Release(c) ==
    /\ call[c] = "running"
    /\ HandOff(c)
    /\ UNCHANGED aborted

Step(c) ==
    \/ NewRequest(c)
    \/ AcquireAborted(c)
    \/ AcquireSlot(c)
    \/ AcquireRefused(c)
    \/ Enqueue(c)
    \/ QueueTimeout(c)
    \/ AbortQueued(c)
    \/ AbortUnheard(c)
    \/ Resume(c)
    \/ Release(c)

Next == \E c \in Callers : Step(c)

\* Continuations run and the guarded functions end; nothing else is promised.
\* In particular no queue timer has to fire.
Fairness ==
    \A c \in Callers : WF_vars(Resume(c)) /\ WF_vars(Release(c))

Spec == Init /\ [][Next]_vars /\ Fairness

-----------------------------------------------------------------------------
(* Properties *)

\* Every variable keeps the shape the class gives it.
TypeOK ==
    /\ call \in [Callers -> CallStates]
    /\ aborted \subseteq Callers
    /\ waiters \in Seq(Callers)
    /\ inFlightCount \in 0..MaxConcurrent
    /\ timers \subseteq Callers
    /\ listeners \subseteq Callers

\* The cap: the count equals the permits that are out, a permit handed to a
\* waiter that has not resumed yet included, and never exceeds maxConcurrent.
CountIsPermitsOut ==
    /\ inFlightCount = Cardinality(Holders)
    /\ inFlightCount <= MaxConcurrent

\* No lost wake-up: a caller waits only while every slot is taken, through
\* every mix of release, timeout and abort.
QueuedOnlyWhenSaturated ==
    waiters # <<>> => inFlightCount = MaxConcurrent

\* waiters.length is the admission count: the queue holds exactly the callers
\* with an unsettled promise, each once, and at most maxQueue of them.
QueueIsPendingCallers ==
    /\ ToSet(waiters) = Waiting
    /\ Len(waiters) = Cardinality(Waiting)
    /\ Len(waiters) <= MaxQueue

\* Whoever settles first disarms the other two: no timer or abort listener
\* outlives the wait it belongs to.
NothingArmedAfterSettling ==
    timers = Waiting /\ listeners = Waiting

\* FIFO, no barging: in one step a caller gets a permit only if no caller that
\* queued before it is left in the queue.
FifoAdmission ==
    [][\A c \in Callers :
          call[c] # "permit" /\ call'[c] = "permit" =>
            IF c \in ToSet(waiters)
            THEN c = Head(waiters)
            ELSE waiters = <<>>]_vars

\* The oldest waiter is not starved: if calls end, every queued caller leaves
\* the queue, even if no queue timer ever fires.
EveryWaiterLeaves ==
    \A c \in Callers : call[c] = "pending" ~> call[c] # "pending"

=============================================================================

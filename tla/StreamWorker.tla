---------------------------- MODULE StreamWorker ----------------------------
(***************************************************************************)
(* Consumers of one Redis stream group with claim-on-stall recovery        *)
(* (src/src/redis/stream.worker.ts) over the stream commands as            *)
(* stream.memory.ts defines them.  A worker's tick reclaims what has been  *)
(* idle for too long, reads what is new, and handles the entries of each   *)
(* batch one after the other; every command to Redis is atomic, and        *)
(* commands of several workers interleave.  Time is the idle clock of each *)
(* pending entry, counted up to the reclaim floor.                         *)
(***************************************************************************)
EXTENDS Integers, FiniteSets, SequencesExt

CONSTANTS
    Workers,         \* consumers of the group, one per replica
    MaxEntries,      \* bound: entries appended to the stream
    MaxLen,          \* the publisher's MAXLEN
    Undecodable,     \* entries whose fields do not decode
    BatchSize,       \* options.batchSize
    ClaimBatchSize,  \* options.claimBatchSize
    HandlerTimeout,  \* options.handlerTimeoutMs
    MinIdle,         \* options.minIdleMs
    MaxDeliveries,   \* options.maxDeliveries
    MaxFaults,       \* bound: failed commands, crashes and stops
    None             \* no consumer

\* What resolveOptions checks.
OptionsValid ==
    /\ None \notin Workers
    /\ {MaxEntries, MaxLen, BatchSize, ClaimBatchSize, HandlerTimeout, MinIdle,
        MaxDeliveries} \subseteq Nat \ {0}
    /\ MaxFaults \in Nat
    /\ Undecodable \subseteq 1..MaxEntries
    /\ MinIdle > HandlerTimeout

ASSUME StreamAssumption == OptionsValid

Entries == 1..MaxEntries

VARIABLES
    appended,  \* entries written; the stream holds the last MaxLen of them
    cursor,    \* the group's last delivered entry
    pel,       \* the pending list: entry -> consumer, idle time, deliveries
    worker,    \* worker -> its loop
    faults,    \* bound: faults so far
    settled    \* history: entries a handler finished or the parking lot took

redis == <<appended, cursor, pel>>
vars == <<redis, worker, faults, settled>>

NotPending == [consumer |-> None, idle |-> 0, count |-> 0]

\* Between two ticks, nothing in hand.  elapsed is how long the handler has run,
\* held how long ago Redis delivered the batch, counted up to the reclaim floor.
Resting == [phase |-> "idle", todo |-> <<>>, reclaimed |-> FALSE, elapsed |-> 0,
            held |-> 0, stopping |-> FALSE]

\* The group exists ('$' on an empty stream) and every loop is running.
Init ==
    /\ appended = 0
    /\ cursor = 0
    /\ pel = [e \in Entries |-> NotPending]
    /\ worker = [w \in Workers |-> Resting]
    /\ faults = 0
    /\ settled = {}

-----------------------------------------------------------------------------
(* The stream *)

Pending(e) == pel[e].consumer # None
Trimmed(e) == e <= appended - MaxLen
PendingOf(w) == {e \in Entries : pel[e].consumer = w}

\* append(), by the publisher: MAXLEN evicts the oldest, pending or not.
AppendEntry ==
    /\ appended < MaxEntries
    /\ appended' = appended + 1
    /\ UNCHANGED <<cursor, pel, worker, faults, settled>>

\* The first n ids of a set of entries, in stream order.
FirstIds(S, n) ==
    LET ids == SetToSortSeq(S, <) IN SubSeq(ids, 1, IF Len(ids) < n THEN Len(ids) ELSE n)

-----------------------------------------------------------------------------
(* The loop of worker w *)

At(w, phase) == worker[w].phase = phase
Job(w) == Head(worker[w].todo)
Goto(w, phase) == worker' = [worker EXCEPT ![w].phase = phase]

\* A tick that threw keeps nothing but the stop that may have been asked for.
Abandoned(w) == [Resting EXCEPT !.stopping = worker[w].stopping]

Fault == faults < MaxFaults /\ faults' = faults + 1

\* A command took effect: its reply arrives, or is lost and the tick throws.
Reply(w, loop) ==
    \/ worker' = [worker EXCEPT ![w] = loop] /\ UNCHANGED faults
    \/ worker' = [worker EXCEPT ![w] = Abandoned(w)] /\ Fault

\* processEntries() at the head of a batch: an undecodable entry is parked, any
\* other is handled.
Process(todo) == IF Head(todo).id \in Undecodable THEN "park" ELSE "running"

\* The job at hand is over: the rest of its batch, the read that follows a
\* reclaimed batch, or the end of the tick.
NextJob(w) ==
    LET todo == Tail(worker[w].todo) IN
    [worker[w] EXCEPT !.todo = todo, !.elapsed = 0,
                      !.reclaimed = @ /\ todo # <<>>,
                      !.held = IF todo = <<>> THEN 0 ELSE @,
                      !.phase = CASE todo # <<>> -> Process(todo)
                                  [] todo = <<>> /\ worker[w].reclaimed -> "read"
                                  [] OTHER -> "idle"]

\* tick(): the reclaim interval has passed, or it has not.
BeginTick(w, phase) ==
    /\ At(w, "idle") /\ ~worker[w].stopping
    /\ Goto(w, phase)
    /\ UNCHANGED <<redis, faults, settled>>

BeginReclaim(w) == BeginTick(w, "xpending")
BeginRead(w) == BeginTick(w, "read")

\* reclaimStalled(), XPENDING ... IDLE: the delivery about to happen counts.
PendingEntries(w) ==
    LET stalled == {e \in Entries : Pending(e) /\ pel[e].idle >= MinIdle}
        ids == FirstIds(stalled, ClaimBatchSize)
    IN  /\ At(w, "xpending")
        /\ worker' = [worker EXCEPT
             ![w].todo = [i \in DOMAIN ids |-> [id |-> ids[i], count |-> pel[ids[i]].count + 1]],
             ![w].phase = IF ids = <<>> THEN "read" ELSE "xclaim"]
        /\ UNCHANGED <<redis, faults, settled>>

\* Mutant of Claimable: the idle floor is not repeated on the claim.
ClaimableAnyIdle(e) == Pending(e)

\* Mutant of Claimable: an entry at the delivery ceiling is left alone.
ClaimableBelowCeiling(e) ==
    Pending(e) /\ pel[e].idle >= MinIdle /\ pel[e].count < MaxDeliveries

\* claim() takes an entry nobody acknowledged or claimed in the meantime.
Claimable(e) == Pending(e) /\ pel[e].idle >= MinIdle

Redelivered(w, e) ==
    IF Trimmed(e) THEN NotPending
    ELSE [consumer |-> w, idle |-> 0, count |-> pel[e].count + 1]

\* reclaimStalled(), XCLAIM, and the batch it returns.
Claim(w) ==
    LET ids == {e \in {j.id : j \in ToSet(worker[w].todo)} : Claimable(e)}
        todo == SelectSeq(worker[w].todo, LAMBDA j : j.id \in ids /\ ~Trimmed(j.id))
    IN  /\ At(w, "xclaim")
        /\ pel' = [e \in Entries |->
                     IF e \in ids THEN Redelivered(w, e) ELSE pel[e]]
        /\ Reply(w, [worker[w] EXCEPT !.todo = todo, !.reclaimed = todo # <<>>,
                       !.phase = IF todo = <<>> THEN "read" ELSE Process(todo)])
        /\ UNCHANGED <<appended, cursor, settled>>

\* Mutant of ReadGroup: the first delivery is not counted.
ReadGroupUncounted(w) ==
    LET ids == FirstIds({e \in (cursor + 1)..appended : ~Trimmed(e)}, BatchSize)
        todo == [i \in DOMAIN ids |-> [id |-> ids[i], count |-> 0]]
    IN  /\ At(w, "read")
        /\ pel' = [e \in Entries |->
                     IF e \in ToSet(ids) THEN [consumer |-> w, idle |-> 0, count |-> 1]
                     ELSE pel[e]]
        /\ cursor' = IF ids = <<>> THEN cursor ELSE Last(ids)
        /\ Reply(w, [worker[w] EXCEPT !.todo = todo,
                       !.phase = IF ids = <<>> THEN "idle" ELSE Process(todo)])
        /\ UNCHANGED <<appended, settled>>

\* XREADGROUP >: what no consumer has been given yet, or nothing after the block.
ReadGroup(w) ==
    LET ids == FirstIds({e \in (cursor + 1)..appended : ~Trimmed(e)}, BatchSize)
        todo == [i \in DOMAIN ids |-> [id |-> ids[i], count |-> 1]]
    IN  /\ At(w, "read")
        /\ pel' = [e \in Entries |->
                     IF e \in ToSet(ids) THEN [consumer |-> w, idle |-> 0, count |-> 1]
                     ELSE pel[e]]
        /\ cursor' = IF ids = <<>> THEN cursor ELSE Last(ids)
        /\ Reply(w, [worker[w] EXCEPT !.todo = todo,
                       !.phase = IF ids = <<>> THEN "idle" ELSE Process(todo)])
        /\ UNCHANGED <<appended, settled>>

HandlerSucceeds(w) ==
    /\ At(w, "running")
    /\ worker' = [worker EXCEPT ![w].phase = "ack", ![w].elapsed = 0]
    /\ settled' = settled \union {Job(w).id}
    /\ UNCHANGED <<redis, faults>>

\* Mutant of AtCeiling: the delivery being made is counted twice.
AtCeilingEarly(w) == Job(w).count + 1 >= MaxDeliveries

AtCeiling(w) == Job(w).count >= MaxDeliveries

\* The handler rejects or overruns: the entry is left pending, or parked.
HandlerFails(w) ==
    /\ At(w, "running")
    /\ worker' = [worker EXCEPT ![w] =
                    IF AtCeiling(w) THEN [@ EXCEPT !.phase = "park", !.elapsed = 0]
                    ELSE NextJob(w)]
    /\ UNCHANGED <<redis, faults, settled>>

\* park(): onPark first, the acknowledgement second.
Park(w) ==
    /\ At(w, "park")
    /\ Goto(w, "ack")
    /\ settled' = settled \union {Job(w).id}
    /\ UNCHANGED <<redis, faults>>

\* XACK of the one entry.
Ack(w) ==
    /\ At(w, "ack")
    /\ pel' = [pel EXCEPT ![Job(w).id] = NotPending]
    /\ Reply(w, NextJob(w))
    /\ UNCHANGED <<appended, cursor, settled>>

\* A command or the parking lot fails without effect: the tick throws.
CommandFails(w) ==
    /\ worker[w].phase \in {"xpending", "xclaim", "read", "park", "ack"}
    /\ Fault
    /\ worker' = [worker EXCEPT ![w] = Abandoned(w)]
    /\ UNCHANGED <<redis, settled>>

-----------------------------------------------------------------------------
(* Stopping, crashing, restarting, and time *)

\* stop(): the loop ends after the tick in flight.
Stop(w) ==
    /\ worker[w].phase \notin {"count", "delete", "stopped"} /\ ~worker[w].stopping
    /\ Fault
    /\ worker' = [worker EXCEPT ![w].stopping = TRUE]
    /\ UNCHANGED <<redis, settled>>

LoopEnds(w) ==
    /\ At(w, "idle") /\ worker[w].stopping
    /\ Goto(w, "count")
    /\ UNCHANGED <<redis, faults, settled>>

\* Mutant of ConsumerPendingCount: the consumer is retired unconditionally.
ConsumerPendingCountIgnored(w) ==
    /\ At(w, "count")
    /\ Goto(w, "delete")
    /\ UNCHANGED <<redis, faults, settled>>

ConsumerPendingCount(w) ==
    /\ At(w, "count")
    /\ Goto(w, IF PendingOf(w) = {} THEN "delete" ELSE "stopped")
    /\ UNCHANGED <<redis, faults, settled>>

\* XGROUP DELCONSUMER deletes what the consumer has pending.
DeleteConsumer(w) ==
    /\ At(w, "delete")
    /\ pel' = [e \in Entries |-> IF e \in PendingOf(w) THEN NotPending ELSE pel[e]]
    /\ Goto(w, "stopped")
    /\ UNCHANGED <<appended, cursor, faults, settled>>

\* Retiring fails quietly.
RetireFails(w) ==
    /\ worker[w].phase \in {"count", "delete"}
    /\ Goto(w, "stopped")
    /\ UNCHANGED <<redis, faults, settled>>

\* The process dies; what it was given stays pending.
Crash(w) ==
    /\ ~At(w, "stopped")
    /\ Fault
    /\ worker' = [worker EXCEPT ![w] = [Resting EXCEPT !.phase = "stopped"]]
    /\ UNCHANGED <<redis, settled>>

\* start() under the same consumer name, once stop() has resolved.
Start(w) ==
    /\ At(w, "stopped")
    /\ worker' = [worker EXCEPT ![w] = Resting]
    /\ UNCHANGED <<redis, faults, settled>>

\* Processing a batch: from its delivery to the end of its last job.
Processing(w) == worker[w].phase \in {"running", "park", "ack"}

\* Time passes while handlers run, while the parking lot and Redis take their
\* time over an answer, and while workers wait; never past a handler's deadline.
Tick ==
    /\ \A w \in Workers : worker[w].elapsed < HandlerTimeout
    /\ pel' = [e \in Entries |->
                 IF Pending(e) /\ pel[e].idle < MinIdle THEN [pel[e] EXCEPT !.idle = @ + 1]
                 ELSE pel[e]]
    /\ worker' = [w \in Workers |->
                    [worker[w] EXCEPT
                       !.elapsed = IF At(w, "running") THEN @ + 1 ELSE @,
                       !.held = IF Processing(w) /\ @ < MinIdle THEN @ + 1 ELSE @]]
    /\ UNCHANGED <<appended, cursor, faults, settled>>

\* What the loop does by itself.
Loop(w) ==
    \/ BeginReclaim(w) \/ BeginRead(w)
    \/ PendingEntries(w) \/ Claim(w) \/ ReadGroup(w)
    \/ HandlerSucceeds(w) \/ HandlerFails(w)
    \/ Park(w) \/ Ack(w)
    \/ LoopEnds(w) \/ ConsumerPendingCount(w) \/ DeleteConsumer(w) \/ Start(w)

Next ==
    \/ AppendEntry
    \/ \E w \in Workers :
         Loop(w) \/ CommandFails(w) \/ RetireFails(w) \/ Stop(w) \/ Crash(w)
    \/ Tick

\* Redis answers, handlers end or are timed out, a stopped worker is restarted,
\* time passes, and the reclaim interval elapses again and again.
Fairness ==
    /\ \A w \in Workers : WF_vars(Loop(w)) /\ SF_vars(BeginReclaim(w))
    /\ WF_vars(Tick)

Spec == Init /\ [][Next]_vars /\ Fairness

-----------------------------------------------------------------------------
(* Properties *)

Phases == {"idle", "xpending", "xclaim", "read", "running", "park", "ack",
            "count", "delete", "stopped"}
Jobs == [id : Entries, count : Nat \ {0}]

\* The stream, the pending list and every loop have their types.
TypeOK ==
    /\ appended \in 0..MaxEntries
    /\ cursor \in 0..appended
    /\ pel \in [Entries -> [consumer : Workers \union {None}, idle : 0..MinIdle, count : Nat]]
    /\ \A w \in Workers :
         /\ worker[w].phase \in Phases
         /\ \A j \in ToSet(worker[w].todo) : j \in Jobs
         /\ worker[w].elapsed \in 0..HandlerTimeout
         /\ worker[w].held \in 0..MinIdle
         /\ worker[w].reclaimed \in BOOLEAN /\ worker[w].stopping \in BOOLEAN
    /\ faults \in 0..MaxFaults
    /\ settled \subseteq Entries

\* At-least-once: an entry the group was given is still pending, or was handled
\* or parked, unless MAXLEN evicted it -- through lost replies, failed commands,
\* crashes, reclaims and retired consumers.
NothingLost ==
    \A e \in 1..cursor : Pending(e) \/ e \in settled \/ Trimmed(e)

\* Workers v and w are both running the handler of one entry.
SharedRun(v, w) ==
    v # w /\ At(v, "running") /\ At(w, "running") /\ Job(v).id = Job(w).id

\* Two workers reclaiming in the same instant "divide the entries rather than
\* duplicating them": one entry runs on two workers only if one of them was given
\* its batch MinIdle ago or more, whatever happened to claims, replies,
\* acknowledgements and workers since.
SharedRunNeedsStall ==
    \A v, w \in Workers :
        SharedRun(v, w) => worker[v].held >= MinIdle \/ worker[w].held >= MinIdle

\* What stream.worker.ts says its check of MinIdle > HandlerTimeout achieves: an
\* entry does not run on two workers as long as no handler overruns its deadline.
NoConcurrentRuns == \A v, w \in Workers : ~SharedRun(v, w)

\* A decodable entry is parked only after the group delivered it MaxDeliveries
\* times: the count a worker acts on never runs ahead of the pending list.
ParkedOnlyAtCeiling ==
    \A w \in Workers :
        At(w, "park") /\ Job(w).id \notin Undecodable /\ Pending(Job(w).id)
            => pel[Job(w).id].count >= MaxDeliveries

\* A handler is not run for an entry that had already reached the ceiling:
\* "Anything already at REDIS_STREAM_MAX_DELIVERIES is parked instead of run."
ParkedInsteadOfRun ==
    \A w \in Workers : At(w, "running") => Job(w).count <= MaxDeliveries

\* Every pending entry leaves the pending list: handled, parked, or dropped
\* after eviction, whatever happened to the worker that held it.  (The same as
\* Pending(e) ~> ~Pending(e).)
EveryPendingEntryLeaves == \A e \in Entries : []<>~Pending(e)

=============================================================================

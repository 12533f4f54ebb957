---------------------------- MODULE OutboxRelay ----------------------------
(***************************************************************************)
(* The transactional outbox: events are written in the transaction of the  *)
(* change they announce (src/src/outbox/outbox.store.ts), and a relay in   *)
(* every replica claims due rows with FOR UPDATE SKIP LOCKED, dispatches   *)
(* them and records the outcomes in the same transaction (relay.ts).  What *)
(* a transaction writes is visible to others at its commit; a rollback or  *)
(* a crash discards it but not the dispatches made meanwhile, and a        *)
(* dispatch that timed out may still deliver.                              *)
(***************************************************************************)
EXTENDS Integers, FiniteSets, SequencesExt

CONSTANTS
    Messages,     \* rows that may be enqueued
    Relays,       \* replicas, each with one relay job
    Stoppable,    \* those whose job is stopped during the run
    BatchSize,    \* options.batchSize
    MaxBatches,   \* options.maxBatchesPerTick
    MaxAttempts,  \* options.maxAttempts
    MaxFaults     \* bound: store failures and crashes

\* What runOutboxBatch, runOutboxRelay and claimDue check.
OptionsValid ==
    /\ IsFiniteSet(Messages) /\ Stoppable \subseteq Relays
    /\ {BatchSize, MaxBatches, MaxAttempts} \subseteq Nat \ {0}
    /\ MaxFaults \in Nat

ASSUME OutboxAssumption == OptionsValid

VARIABLES
    status,      \* message -> the row's status column and fate
    attempts,    \* message -> the row's attempts column
    due,         \* committed pending rows with available_at <= now(), in order
    relay,       \* relay -> its tick in flight
    job,         \* relay -> the handle startOutboxRelay returned
    late,        \* message -> dispatches still running after their timeout
    faults,      \* bound: failures so far
    delivered    \* history: message -> dispatches that reached anybody

rows == <<status, attempts, due>>
vars == <<status, attempts, due, relay, job, late, faults, delivered>>

Idle == [phase |-> "idle", batch |-> <<>>, marks |-> <<>>, round |-> 0]

Init ==
    /\ status = [m \in Messages |-> "none"]
    /\ attempts = [m \in Messages |-> 0]
    /\ due = <<>>
    /\ relay = [r \in Relays |-> Idle]
    /\ job = [r \in Relays |-> "started"]
    /\ late = [m \in Messages |-> 0]
    /\ faults = 0
    /\ delivered = [m \in Messages |-> 0]

-----------------------------------------------------------------------------
(* The writer's transaction *)

Enqueue(m) ==
    /\ status[m] = "none"
    /\ status' = [status EXCEPT ![m] = "uncommitted"]
    /\ UNCHANGED <<attempts, due, relay, job, late, faults, delivered>>

\* The row's available_at is when its transaction began: it may sort before rows
\* that became visible earlier.
CommitWrite(m) ==
    /\ status[m] = "uncommitted"
    /\ status' = [status EXCEPT ![m] = "pending"]
    /\ \E i \in 1..(Len(due) + 1) : due' = InsertAt(due, i, m)
    /\ UNCHANGED <<attempts, relay, job, late, faults, delivered>>

\* Mutant of RollbackWrite: the row was written outside the caller's transaction.
RollbackWriteKeepsRow(m) ==
    /\ status[m] = "uncommitted"
    /\ status' = [status EXCEPT ![m] = "rolled back"]
    /\ due' = Append(due, m)
    /\ UNCHANGED <<attempts, relay, job, late, faults, delivered>>

RollbackWrite(m) ==
    /\ status[m] = "uncommitted"
    /\ status' = [status EXCEPT ![m] = "rolled back"]
    /\ UNCHANGED <<attempts, due, relay, job, late, faults, delivered>>

\* The available_at of a rescheduled row has passed.
BecomeDue(m) ==
    /\ status[m] = "delayed"
    /\ status' = [status EXCEPT ![m] = "pending"]
    /\ due' = Append(due, m)
    /\ UNCHANGED <<attempts, relay, job, late, faults, delivered>>

-----------------------------------------------------------------------------
(* The job: startOutboxRelay *)

\* The interval fires; schedule() does nothing while a tick is in flight.
Schedule(r) ==
    /\ job[r] = "started"
    /\ relay[r].phase = "idle"
    /\ relay' = [relay EXCEPT ![r].phase = "claim", ![r].round = 1]
    /\ UNCHANGED <<rows, job, late, faults, delivered>>

\* stop(): no further ticks; it resolves when the one in flight is done.
Stop(r) ==
    /\ r \in Stoppable
    /\ job[r] = "started"
    /\ job' = [job EXCEPT ![r] = "stopping"]
    /\ UNCHANGED <<rows, relay, late, faults, delivered>>

\* Mutant of Stopped: stop() resolves without awaiting the tick in flight.
StoppedAtOnce(r) ==
    /\ job[r] = "stopping"
    /\ job' = [job EXCEPT ![r] = "stopped"]
    /\ relay' = [relay EXCEPT ![r] = Idle]
    /\ UNCHANGED <<rows, late, faults, delivered>>

\* stop() resolves once the tick in flight is done, and the shutdown goes on: the
\* pool is closed and the process exits, with whatever the relay has in hand.
Stopped(r) ==
    /\ job[r] = "stopping"
    /\ relay[r].phase = "idle"
    /\ job' = [job EXCEPT ![r] = "stopped"]
    /\ relay' = [relay EXCEPT ![r] = Idle]
    /\ UNCHANGED <<rows, late, faults, delivered>>

-----------------------------------------------------------------------------
(* One batch: runOutboxBatch *)

LockedBy(r) == ToSet(relay[r].batch)
Locked == UNION {LockedBy(r) : r \in Relays}
Current(r) == relay[r].batch[Len(relay[r].marks) + 1]

FirstOf(s, n) == SubSeq(s, 1, IF Len(s) < n THEN Len(s) ELSE n)

\* Mutant of Claimable: SKIP LOCKED without FOR UPDATE.
ClaimableLocked == due

\* Mutant of Claimable: only rows that never failed are selected.
ClaimableFresh == SelectSeq(due, LAMBDA m : m \notin Locked /\ attempts[m] = 0)

Claimable == SelectSeq(due, LAMBDA m : m \notin Locked)

\* BEGIN and claimDue()
ClaimDue(r) ==
    LET batch == FirstOf(Claimable, BatchSize) IN
    /\ relay[r].phase = "claim"
    /\ relay' = [relay EXCEPT ![r].batch = batch,
                              ![r].phase = IF batch = <<>> THEN "commit" ELSE "dispatch"]
    /\ UNCHANGED <<rows, job, late, faults, delivered>>

\* The dispatcher resolves, rejects, or the deadline wins the race.
DispatchDelivers(r) ==
    /\ relay[r].phase = "dispatch"
    /\ delivered' = [delivered EXCEPT ![Current(r)] = @ + 1]
    /\ relay' = [relay EXCEPT ![r].phase = "remove"]
    /\ UNCHANGED <<rows, job, late, faults>>

\* A dispatch that is still to end, or that ends in an error, may have reached
\* subscribers (only one of them has to fail) or the stream (the reply is lost).
MayHaveReached(m) ==
    \/ UNCHANGED delivered
    \/ delivered' = [delivered EXCEPT ![m] = @ + 1]

DispatchRejects(r) ==
    /\ relay[r].phase = "dispatch"
    /\ MayHaveReached(Current(r))
    /\ relay' = [relay EXCEPT ![r].phase = "retry"]
    /\ UNCHANGED <<rows, job, late, faults>>

DispatchTimesOut(r) ==
    /\ relay[r].phase = "dispatch"
    /\ relay' = [relay EXCEPT ![r].phase = "retry"]
    /\ late' = [late EXCEPT ![Current(r)] = @ + 1]
    /\ UNCHANGED <<rows, job, faults, delivered>>

LateEnds(m) ==
    /\ late[m] > 0
    /\ late' = [late EXCEPT ![m] = @ - 1]
    /\ MayHaveReached(m)
    /\ UNCHANGED <<rows, relay, job, faults>>

\* What a mark makes of its row: remove(), deadLetter() or reschedule().
Verdict(m, outcome) ==
    CASE outcome = "remove" -> "removed"
      [] outcome = "retry" /\ attempts[m] + 1 >= MaxAttempts -> "dead"
      [] OTHER -> "delayed"

\* The mark's statement runs in the transaction.
Mark(r) ==
    LET marks == Append(relay[r].marks, relay[r].phase) IN
    /\ relay[r].phase \in {"remove", "retry"}
    /\ relay' = [relay EXCEPT ![r].marks = marks,
                    ![r].phase = IF Len(marks) = Len(relay[r].batch)
                                 THEN "commit" ELSE "dispatch"]
    /\ UNCHANGED <<rows, job, late, faults, delivered>>

\* Mutant of AfterBatch: one batch too many.
AfterBatchOneMore(r) ==
    IF Len(relay[r].batch) = BatchSize /\ relay[r].round <= MaxBatches
    THEN [Idle EXCEPT !.phase = "claim", !.round = relay[r].round + 1]
    ELSE Idle

\* After a batch: another one if it came back full, else the tick is over.
AfterBatch(r) ==
    IF Len(relay[r].batch) = BatchSize /\ relay[r].round < MaxBatches
    THEN [Idle EXCEPT !.phase = "claim", !.round = relay[r].round + 1]
    ELSE Idle

\* Every mark of the batch becomes visible at once.
ApplyMarks(r) ==
    LET batch == relay[r].batch
        outcome == [m \in LockedBy(r) |->
                      relay[r].marks[CHOOSE i \in DOMAIN batch : batch[i] = m]]
    IN  /\ status' = [m \in Messages |-> IF m \in LockedBy(r)
                                         THEN Verdict(m, outcome[m]) ELSE status[m]]
        /\ attempts' = [m \in Messages |->
                          IF m \in LockedBy(r) /\ outcome[m] = "retry"
                          THEN attempts[m] + 1 ELSE attempts[m]]
        /\ due' = SelectSeq(due, LAMBDA m : m \notin LockedBy(r))

Commit(r) ==
    /\ relay[r].phase = "commit"
    /\ ApplyMarks(r)
    /\ relay' = [relay EXCEPT ![r] = AfterBatch(r)]
    /\ UNCHANGED <<job, late, faults, delivered>>

\* The commit took effect and its answer was lost: the tick ends with an error.
CommitUnacknowledged(r) ==
    /\ relay[r].phase = "commit"
    /\ faults < MaxFaults
    /\ faults' = faults + 1
    /\ ApplyMarks(r)
    /\ relay' = [relay EXCEPT ![r] = Idle]
    /\ UNCHANGED <<job, late, delivered>>

\* A statement fails and the batch rolls back, or the process dies and is
\* started again; either way the locks go and the rows are as they were.
Rollback(r) ==
    /\ relay[r].phase # "idle"
    /\ faults < MaxFaults
    /\ faults' = faults + 1
    /\ relay' = [relay EXCEPT ![r] = Idle]
    /\ UNCHANGED <<rows, job, late, delivered>>

Tick(r) ==
    \/ Schedule(r) \/ ClaimDue(r)
    \/ DispatchDelivers(r) \/ DispatchRejects(r) \/ DispatchTimesOut(r)
    \/ Mark(r) \/ Commit(r)

Next ==
    \/ \E m \in Messages :
          Enqueue(m) \/ CommitWrite(m) \/ RollbackWrite(m) \/ BecomeDue(m) \/ LateEnds(m)
    \/ \E r \in Relays :
          Tick(r) \/ CommitUnacknowledged(r) \/ Rollback(r)
          \/ Stop(r) \/ Stopped(r)

\* Intervals fire, dispatches end by their deadline and statements return;
\* delays pass.  Nothing is promised about what a dispatch achieves.
Fairness ==
    /\ \A r \in Relays : WF_vars(Tick(r)) /\ WF_vars(Stopped(r))
    /\ \A m \in Messages : WF_vars(BecomeDue(m))

Spec == Init /\ [][Next]_vars /\ Fairness

-----------------------------------------------------------------------------
(* Properties *)

Statuses == {"none", "uncommitted", "rolled back", "pending", "delayed", "dead",
             "removed"}

\* Every variable keeps its shape; the attempts column stays within its limit.
TypeOK ==
    /\ status \in [Messages -> Statuses]
    /\ attempts \in [Messages -> 0..MaxAttempts]
    /\ due \in Seq(Messages)
    /\ \A r \in Relays :
          /\ relay[r].phase \in {"idle", "claim", "dispatch", "remove", "retry", "commit"}
          /\ relay[r].batch \in Seq(Messages) /\ Len(relay[r].batch) <= BatchSize
          /\ relay[r].marks \in Seq({"remove", "retry"})
          /\ relay[r].round \in 0..MaxBatches
    /\ job \in [Relays -> {"started", "stopping", "stopped"}]
    /\ late \in [Messages -> Nat]
    /\ faults \in 0..MaxFaults
    /\ delivered \in [Messages -> Nat]

\* A row is held by one relay at a time, once, and only while it is due: two
\* relays never dispatch the same row concurrently.
ClaimsAreDisjoint ==
    /\ \A r, q \in Relays : r # q => LockedBy(r) \cap LockedBy(q) = {}
    /\ \A r \in Relays :
          /\ Cardinality(LockedBy(r)) = Len(relay[r].batch)
          /\ LockedBy(r) \subseteq ToSet(due)

\* A row's fate is the one its history earned: removed only if delivered, dead
\* only after MaxAttempts failures and in the ladder only before, and delivered
\* only if the transaction that wrote it committed.
FateMatchesHistory ==
    \A m \in Messages :
        /\ status[m] = "removed" => delivered[m] >= 1
        /\ status[m] = "dead" => attempts[m] = MaxAttempts
        /\ status[m] \in {"pending", "delayed"} => attempts[m] < MaxAttempts
        /\ delivered[m] >= 1 => status[m] \notin {"none", "uncommitted", "rolled back"}

\* Relays that have dispatched m in the transaction they are in.
InHand(m) ==
    {r \in Relays : \E i \in DOMAIN relay[r].batch :
        /\ relay[r].batch[i] = m
        /\ \/ i <= Len(relay[r].marks)
           \/ i = Len(relay[r].marks) + 1 /\ relay[r].phase \in {"remove", "retry"}}

\* At least once, and no more often than the row can tell: of the dispatches
\* that reached somebody or still may, each is one of the failed attempts the
\* row counts, the one it was removed for, one of a batch not committed yet, or
\* lost with a transaction that failed.  A stop and the exit after it add none
\* ("keeps a deploy from creating duplicates it did not have to").
DuplicatesAreExplained ==
    \A m \in Messages :
        delivered[m] + late[m] <=
            attempts[m] + (IF status[m] = "removed" THEN 1 ELSE 0)
                + Cardinality(InHand(m)) + faults

\* Every committed message is delivered or dead-lettered, as long as one
\* replica keeps its relay running: it is not due or delayed for ever, and it
\* leaves these two only to be removed or dead.
EveryMessageSettles ==
    \A m \in Messages : []<>(status[m] \notin {"pending", "delayed"})

=============================================================================

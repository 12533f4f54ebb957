-------------------------- MODULE IdempotencyStore --------------------------
(***************************************************************************)
(* The idempotency protocol for one (scope, key) pair: requests that carry *)
(* the same Idempotency-Key claim the key, run once and record what they   *)
(* answered, or replay it (src/src/idempotency/idempotency.middleware.ts). *)
(* Claims are atomic here, as in the in-memory store (memory.store.ts);    *)
(* PostgresIdempotency splits them into SQL statements and implements this *)
(* module.  The response of a request is the request.  Its operation is    *)
(* apart from it: withTimeout (src/src/lib/route-decorators) answers 504   *)
(* at the deadline and does not end an operation that ignores its signal,  *)
(* as createUser does.                                                     *)
(***************************************************************************)
EXTENDS Integers, FiniteSetsExt

CONSTANTS
    Requests,   \* requests with this key, retries included
    PrintOf,    \* request -> fingerprint of its body
    None,       \* no request
    Lease,      \* options.leaseMs
    Retention,  \* options.retentionMs
    MaxTime     \* bound: the clock stops here

\* What the constructors check.
OptionsValid ==
    /\ None \notin Requests
    /\ Lease \in Nat \ {0}
    /\ Retention \in Nat \ {0}
    /\ MaxTime \in Nat

ASSUME IdempotencyAssumption == OptionsValid

VARIABLES
    now,         \* the clock of the store
    record,      \* the row of the key
    phase,       \* request -> how far it has come
    operating,   \* requests whose operation is running
    replayed,    \* request -> the response it was answered from the record
    claimedAt,   \* history: request -> when it claimed the key, or -1
    recordedAt   \* history: request -> when its response was recorded, or -1

vars == <<now, record, phase, operating, replayed, claimedAt, recordedAt>>

Absent == [state |-> "absent", owner |-> None, fingerprint |-> None,
           response |-> None, claimedAt |-> 0, expiresAt |-> 0]

Phases == {"new", "executing", "storing", "releasing", "released", "flushed", "crashed",
           "replayed", "conflict", "mismatch", "error"}

Init ==
    /\ now = 0
    /\ record = Absent
    /\ phase = [r \in Requests |-> "new"]
    /\ operating = {}
    /\ replayed = [r \in Requests |-> None]
    /\ claimedAt = [r \in Requests |-> -1]
    /\ recordedAt = [r \in Requests |-> -1]

-----------------------------------------------------------------------------
(* The record *)

Expired == record.expiresAt <= now

Stale == record.state = "in_progress" /\ record.claimedAt + Lease <= now

\* isDead()
Dead == record.state # "absent" /\ (Expired \/ Stale)

\* Mutant of Owned: the claim id is not compared.
OwnedByAnyone(r) == record.state = "in_progress"

\* ownedRecord()
Owned(r) == record.state = "in_progress" /\ record.owner = r

Claimed(r) ==
    [state |-> "in_progress", owner |-> r, fingerprint |-> PrintOf[r],
     response |-> None, claimedAt |-> now, expiresAt |-> now + Retention]

-----------------------------------------------------------------------------
(* claim(), and what the middleware does with each outcome *)

Goto(r, p) == phase' = [phase EXCEPT ![r] = p]

ClaimTaken(r) ==
    /\ phase[r] = "new"
    /\ record.state = "absent" \/ Dead
    /\ record' = Claimed(r)
    /\ claimedAt' = [claimedAt EXCEPT ![r] = now]
    /\ Goto(r, "executing")
    /\ operating' = operating \cup {r}
    /\ UNCHANGED <<now, replayed, recordedAt>>

Live == record.state # "absent" /\ ~Dead

ClaimMismatch(r) ==
    /\ phase[r] = "new"
    /\ Live
    /\ record.fingerprint # PrintOf[r]
    /\ Goto(r, "mismatch")
    /\ UNCHANGED <<now, record, operating, replayed, claimedAt, recordedAt>>

ClaimReplay(r) ==
    /\ phase[r] = "new"
    /\ Live
    /\ record.fingerprint = PrintOf[r]
    /\ record.state = "completed"
    /\ replayed' = [replayed EXCEPT ![r] = record.response]
    /\ Goto(r, "replayed")
    /\ UNCHANGED <<now, record, operating, claimedAt, recordedAt>>

ClaimInProgress(r) ==
    /\ phase[r] = "new"
    /\ Live
    /\ record.fingerprint = PrintOf[r]
    /\ record.state = "in_progress"
    /\ Goto(r, "conflict")
    /\ UNCHANGED <<now, record, operating, replayed, claimedAt, recordedAt>>

\* The store cannot answer: the request fails and the key is left alone.
ClaimFails(r) ==
    /\ phase[r] = "new"
    /\ Goto(r, "error")
    /\ UNCHANGED <<now, record, operating, replayed, claimedAt, recordedAt>>

-----------------------------------------------------------------------------
(* captureResponse() *)

\* The operation ends and its outcome is answered through res.json or res.end:
\* a replayable status is stored, anything else, a raw chunk included, releases
\* the claim.
Answer(r) ==
    /\ phase[r] = "executing"
    /\ \E p \in {"storing", "releasing"} : Goto(r, p)
    /\ operating' = operating \ {r}
    /\ UNCHANGED <<now, record, replayed, claimedAt, recordedAt>>

\* The route's deadline comes first: a 504, which is not replayable, is answered
\* while the operation goes on.
AnswerTimeout(r) ==
    /\ phase[r] = "executing"
    /\ Goto(r, "releasing")
    /\ UNCHANGED <<now, record, operating, replayed, claimedAt, recordedAt>>

\* An operation that outlived its answer settles, and nobody is told.
OperationEnds(r) ==
    /\ r \in operating
    /\ phase[r] # "executing"
    /\ operating' = operating \ {r}
    /\ UNCHANGED <<now, record, phase, replayed, claimedAt, recordedAt>>

\* Mutant of Complete: the retention is not counted from the response.
CompleteKeepsExpiry(r) ==
    /\ phase[r] = "storing"
    /\ IF Owned(r)
       THEN /\ record' = [record EXCEPT !.state = "completed", !.response = r]
            /\ recordedAt' = [recordedAt EXCEPT ![r] = now]
       ELSE UNCHANGED <<record, recordedAt>>
    /\ Goto(r, "flushed")
    /\ UNCHANGED <<now, operating, replayed, claimedAt>>

\* complete() takes effect and the response is flushed, owned or not, and whether
\* or not the store's answer arrives.
Complete(r) ==
    /\ phase[r] = "storing"
    /\ IF Owned(r)
       THEN /\ record' = [record EXCEPT !.state = "completed", !.response = r,
                                        !.expiresAt = now + Retention]
            /\ recordedAt' = [recordedAt EXCEPT ![r] = now]
       ELSE UNCHANGED <<record, recordedAt>>
    /\ Goto(r, "flushed")
    /\ UNCHANGED <<now, operating, replayed, claimedAt>>

\* release(), likewise.
Release(r) ==
    /\ phase[r] = "releasing"
    /\ record' = IF Owned(r) THEN Absent ELSE record
    /\ Goto(r, IF Owned(r) THEN "released" ELSE "flushed")
    /\ UNCHANGED <<now, operating, replayed, claimedAt, recordedAt>>

\* The store fails without effect: the response goes out, the claim stays until
\* its lease ends.
StoreFails(r) ==
    /\ phase[r] \in {"storing", "releasing"}
    /\ Goto(r, "flushed")
    /\ UNCHANGED <<now, record, operating, replayed, claimedAt, recordedAt>>

\* The process dies: before it answered, or before the store heard of it.
Crash(r) ==
    /\ phase[r] \in {"executing", "storing", "releasing"}
    /\ Goto(r, "crashed")
    /\ operating' = operating \ {r}
    /\ UNCHANGED <<now, record, replayed, claimedAt, recordedAt>>

-----------------------------------------------------------------------------

\* purgeExpired()
Purge ==
    /\ record.state # "absent"
    /\ Expired
    /\ record' = Absent
    /\ UNCHANGED <<now, phase, operating, replayed, claimedAt, recordedAt>>

Tick ==
    /\ now < MaxTime
    /\ now' = now + 1
    /\ UNCHANGED <<record, phase, operating, replayed, claimedAt, recordedAt>>

Request(r) ==
    \/ ClaimTaken(r) \/ ClaimMismatch(r) \/ ClaimReplay(r)
    \/ ClaimInProgress(r) \/ ClaimFails(r)
    \/ Answer(r) \/ AnswerTimeout(r) \/ OperationEnds(r)
    \/ Complete(r) \/ Release(r) \/ StoreFails(r) \/ Crash(r)

Next == Tick \/ Purge \/ \E r \in Requests : Request(r)

Spec == Init /\ [][Next]_vars

-----------------------------------------------------------------------------
(* Properties *)

Prints == {PrintOf[r] : r \in Requests}
Times == 0..MaxTime

\* Every variable keeps its shape.
TypeOK ==
    /\ now \in Times
    /\ record \in [state : {"absent", "in_progress", "completed"},
                   owner : Requests \cup {None},
                   fingerprint : Prints \cup {None},
                   response : Requests \cup {None},
                   claimedAt : Times, expiresAt : 0..(MaxTime + Retention)]
    /\ phase \in [Requests -> Phases]
    /\ operating \subseteq Requests
    /\ replayed \in [Requests -> Requests \cup {None}]
    /\ claimedAt \in [Requests -> Times \cup {-1}]
    /\ recordedAt \in [Requests -> Times \cup {-1}]

Protected == IF Lease <= Retention THEN Lease ELSE Retention

\* Two operations of the key run at the same time only if the later request
\* claimed the key a full lease after the earlier, or the earlier had been
\* answered with a timeout and its claim released: no other mix of crashes,
\* store failures, late answers and purges lets a duplicate in.
NoOverlapUnderClaim ==
    \A r, q \in operating :
        r # q /\ "released" \notin {phase[r], phase[q]} =>
            \/ claimedAt[r] + Protected <= claimedAt[q]
            \/ claimedAt[q] + Protected <= claimedAt[r]

\* A replayed response was produced by a request with the same body, which
\* recorded it: never by a request whose claim had been taken over.
ReplayIsRecordedResponse ==
    \A r \in Requests :
        replayed[r] # None =>
            /\ PrintOf[replayed[r]] = PrintOf[r]
            /\ recordedAt[replayed[r]] >= 0

\* Once a response is recorded, no request executes again until the retention
\* of that response is over.
NoRerunWithinRetention ==
    [][\A q, r \in Requests :
          /\ phase[q] # "executing" /\ phase'[q] = "executing"
          /\ recordedAt[r] >= 0
          => recordedAt[r] + Retention <= now]_vars

=============================================================================

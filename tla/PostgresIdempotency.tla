------------------------ MODULE PostgresIdempotency ------------------------
(***************************************************************************)
(* The idempotency protocol over PostgreSQL                                *)
(* (src/src/idempotency/postgres.store.ts).  claim() is up to three rounds *)
(* of INSERT, SELECT and a conditional UPDATE, each atomic, with the       *)
(* statements of other requests, releases and purges in between; the       *)
(* other operations are one statement each and are those of                *)
(* IdempotencyStore.  A request that is claiming is "new" to the abstract  *)
(* protocol, which this module implements.                                 *)
(***************************************************************************)
EXTENDS IdempotencyStore

CONSTANT ClaimAttempts  \* CLAIM_ATTEMPTS

ASSUME ClaimAttemptsAssumption == ClaimAttempts \in Nat \ {0}

VARIABLES
    sql,      \* request -> the statement claim() sends next
    attempt,  \* request -> the loop counter of claim()
    writes,   \* history: how often the row was inserted, changed or deleted
    began     \* history: request -> writes when its claim() began

pgVars == <<vars, sql, attempt, writes, began>>

Statements == {"insert", "read", "takeover", "returned", "contention"}

PgInit ==
    /\ Init
    /\ sql = [r \in Requests |-> "insert"]
    /\ attempt = [r \in Requests |-> 1]
    /\ writes = 0
    /\ began = [r \in Requests |-> -1]

Begin(r) == began' = IF began[r] = -1 THEN [began EXCEPT ![r] = writes] ELSE began

\* The claim returned: the row was written with a claim id of r.
WriteClaim(r) ==
    /\ record' = [state |-> "in_progress", owner |-> r, fingerprint |-> PrintOf[r],
                  response |-> None, claimedAt |-> now, expiresAt |-> now + Retention]
    /\ claimedAt' = [claimedAt EXCEPT ![r] = now]
    /\ Goto(r, "executing")
    /\ operating' = operating \cup {r}
    /\ sql' = [sql EXCEPT ![r] = "returned"]
    /\ writes' = writes + 1
    /\ UNCHANGED <<now, replayed, recordedAt, attempt>>

\* Mutant of NextAttempt: one attempt too many.
NextAttemptLate(r) ==
    IF attempt[r] <= ClaimAttempts
    THEN /\ attempt' = [attempt EXCEPT ![r] = @ + 1]
         /\ sql' = [sql EXCEPT ![r] = "insert"]
         /\ UNCHANGED phase
    ELSE /\ sql' = [sql EXCEPT ![r] = "contention"]
         /\ Goto(r, "error")
         /\ UNCHANGED attempt

\* Mutant of NextAttempt: a lost race is an error at once.
NextAttemptNone(r) ==
    /\ sql' = [sql EXCEPT ![r] = "contention"]
    /\ Goto(r, "error")
    /\ UNCHANGED attempt

\* `continue`, or the error after the last attempt.
NextAttempt(r) ==
    IF attempt[r] < ClaimAttempts
    THEN /\ attempt' = [attempt EXCEPT ![r] = @ + 1]
         /\ sql' = [sql EXCEPT ![r] = "insert"]
         /\ UNCHANGED phase
    ELSE /\ sql' = [sql EXCEPT ![r] = "contention"]
         /\ Goto(r, "error")
         /\ UNCHANGED attempt

\* CLAIM_SQL
InsertClaims(r) ==
    /\ phase[r] = "new" /\ sql[r] = "insert"
    /\ record.state = "absent"
    /\ Begin(r)
    /\ WriteClaim(r)

InsertConflicts(r) ==
    /\ phase[r] = "new" /\ sql[r] = "insert"
    /\ record.state # "absent"
    /\ Begin(r)
    /\ sql' = [sql EXCEPT ![r] = "read"]
    /\ UNCHANGED <<vars, attempt, writes>>

\* READ_SQL, when the row is gone
ReadNothing(r) ==
    /\ phase[r] = "new" /\ sql[r] = "read"
    /\ record.state = "absent"
    /\ NextAttempt(r)
    /\ UNCHANGED <<now, record, operating, replayed, claimedAt, recordedAt, writes, began>>

\* READ_SQL, with "expired" or "stale" true
ReadDead(r) ==
    /\ phase[r] = "new" /\ sql[r] = "read"
    /\ record.state # "absent"
    /\ Expired \/ Stale
    /\ sql' = [sql EXCEPT ![r] = "takeover"]
    /\ UNCHANGED <<vars, attempt, writes, began>>

\* Mutant of ReadLive: the fingerprints are not compared before a replay.
ReadLiveAnyPrint(r) ==
    /\ phase[r] = "new" /\ sql[r] = "read"
    /\ record.state # "absent"
    /\ ~Expired /\ ~Stale
    /\ Goto(r, CASE record.state = "completed" -> "replayed"
                 [] record.state # "completed" /\ record.fingerprint # PrintOf[r] -> "mismatch"
                 [] OTHER -> "conflict")
    /\ replayed' = IF record.state = "completed"
                   THEN [replayed EXCEPT ![r] = record.response] ELSE replayed
    /\ sql' = [sql EXCEPT ![r] = "returned"]
    /\ UNCHANGED <<now, record, operating, claimedAt, recordedAt, attempt, writes, began>>

\* READ_SQL, with a live row: mismatch, replay or in progress
ReadLive(r) ==
    /\ phase[r] = "new" /\ sql[r] = "read"
    /\ record.state # "absent"
    /\ ~Expired /\ ~Stale
    /\ Goto(r, CASE record.fingerprint # PrintOf[r] -> "mismatch"
                 [] record.fingerprint = PrintOf[r] /\ record.state = "completed" -> "replayed"
                 [] OTHER -> "conflict")
    /\ replayed' = IF record.fingerprint = PrintOf[r] /\ record.state = "completed"
                   THEN [replayed EXCEPT ![r] = record.response] ELSE replayed
    /\ sql' = [sql EXCEPT ![r] = "returned"]
    /\ UNCHANGED <<now, record, operating, claimedAt, recordedAt, attempt, writes, began>>

\* Mutant of TakeOver: the row is updated by key alone.
TakeOverBlindly(r) ==
    /\ phase[r] = "new" /\ sql[r] = "takeover"
    /\ record.state # "absent"
    /\ WriteClaim(r)
    /\ UNCHANGED began

\* TAKEOVER_SQL, its WHERE clause evaluated again
TakeOver(r) ==
    /\ phase[r] = "new" /\ sql[r] = "takeover"
    /\ record.state # "absent"
    /\ \/ record.expiresAt <= now
       \/ record.state = "in_progress" /\ record.claimedAt + Lease <= now
    /\ WriteClaim(r)
    /\ UNCHANGED began

\* TAKEOVER_SQL, no row matched
TakeOverMisses(r) ==
    /\ phase[r] = "new" /\ sql[r] = "takeover"
    /\ \/ record.state = "absent"
       \/ /\ record.expiresAt > now
          /\ record.state # "in_progress" \/ record.claimedAt + Lease > now
    /\ NextAttempt(r)
    /\ UNCHANGED <<now, record, operating, replayed, claimedAt, recordedAt, writes, began>>

\* The query rejects.
QueryFails(r) ==
    /\ ClaimFails(r)
    /\ sql' = [sql EXCEPT ![r] = "returned"]
    /\ UNCHANGED <<attempt, writes, began>>

\* COMPLETE_SQL, RELEASE_SQL and PURGE_SQL are the atomic operations of the
\* protocol; so are the steps the store takes no part in.
Other ==
    /\ \/ Tick \/ Purge
       \/ \E r \in Requests :
             \/ Answer(r) \/ AnswerTimeout(r) \/ OperationEnds(r)
             \/ Complete(r) \/ Release(r) \/ StoreFails(r) \/ Crash(r)
    /\ writes' = IF record' = record THEN writes ELSE writes + 1
    /\ UNCHANGED <<sql, attempt, began>>

Statement(r) ==
    \/ InsertClaims(r) \/ InsertConflicts(r)
    \/ ReadNothing(r) \/ ReadDead(r) \/ ReadLive(r)
    \/ TakeOver(r) \/ TakeOverMisses(r) \/ QueryFails(r)

PgNext == Other \/ \E r \in Requests : Statement(r)

PgSpec == PgInit /\ [][PgNext]_pgVars

-----------------------------------------------------------------------------
(* Properties *)

\* Every variable of the store keeps its shape.
PgTypeOK ==
    /\ TypeOK
    /\ sql \in [Requests -> Statements]
    /\ attempt \in [Requests -> 1..ClaimAttempts]
    /\ writes \in Nat
    /\ began \in [Requests -> Nat \cup {-1}]

\* claim() gives up only under real contention: the row changed at least once
\* in each of its attempts.
ContentionMeansChurn ==
    \A r \in Requests :
        sql[r] = "contention" => writes - began[r] >= ClaimAttempts

\* The three-statement claim is as good as an atomic one: every behaviour of
\* the SQL store is a behaviour of the protocol.
ImplementsProtocol == Spec

=============================================================================

# Verification of the service's concurrent core

The repository is an Express service in TypeScript: a request pipeline in front
of Postgres, Redis and remote HTTP services, with background jobs, a pool of
worker threads and long-lived streams. Most of its files map a request to a
verdict without keeping state. This project is about the others: the parts in
which several requests, timers, threads or replicas share state, and in which
the order of their steps decides whether the result is right.

Paths below are relative to `src/src/`.

## 1. The system's parts

| Part | State | Operations | What is hard | What makes it correct |
| --- | --- | --- | --- | --- |
| Bulkhead `resilience/bulkhead.ts` | in-flight count, queue of waiters, a timer and an abort listener per waiter | acquire, enqueue, time out, abort, release with hand-off | three ways to settle one waiter race; a slot is handed to a caller whose continuation has not run | cap, no lost wake-up, exact queue, FIFO |
| Circuit breaker `resilience/circuit-breaker.ts` | state, ring of buckets, probe counter, generation, open-until | acquire, settle with an outcome, read the state | attempts settle episodes after they began; the ring is reused without a timer | exact probe budget, window = recent history, stragglers decide nothing |
| HTTP client `resilience/http-client.ts` | none of its own; composes the two above | attempt ladder under one deadline | every exit must give back permit and ticket | to be modelled as a composition |
| Worker pool `workers/worker-pool.ts` | threads, idle stack, queue, tasks in flight, drain promise | run, message, timeout, thread error and exit, drain, terminate | late answers, threads lost with work queued, drain racing both | every call settles once, one task per thread, drain completes |
| Idempotency keys `idempotency/` | one row per key: claim, lease, fingerprint, response | claim (up to three rounds of INSERT, SELECT, UPDATE), complete, release, purge | statements of several requests interleave; crashes between run and record; leases end under slow handlers; an operation outlives its timed-out response | no second run while the first holds a young claim or its response is retained |
| Outbox `outbox/` | rows with attempts and due time, one relay per replica | enqueue in a transaction, claim with SKIP LOCKED, dispatch, mark, commit | dispatches cannot be rolled back, deadlines race them, a rejected one may have reached somebody, commits are lost | at least once, and no more often than attempts and faults account for; every row is settled |
| Stream worker `redis/stream.worker.ts` | consumer group, pending list with idle times and delivery counts | read, reclaim, handle, acknowledge, park, stop, retire | another consumer acts between XPENDING and XCLAIM; replies are lost after taking effect | nothing lost, two handlers on one entry only after a stall of the idle floor, parked only at the ceiling |
| Shutdown `shutdown/`, `server.ts` | lifecycle, phase, budget, open exchanges | signal, phases, drain, guard, exit | clients keep arriving; tasks hang; keep-alive connections never end by themselves | clean exit cuts nobody off, the pool goes last, a signal ends the process |
| Job queue `queue/` | jobs with attempts, dead letters | produce, process, retry, dead-letter, replay | last attempt and dead-letter write are two steps | every job is done or dead-lettered once |
| Sessions `auth/token-store.ts`, `auth/auth.service.ts` | refresh-token records with family and user | issue, consume, refresh, revoke token, family, user | refreshes of one token race; revocation between consume and issue | one live token per family |
| Magic links, webhook replay guard | one-time entries with expiry | issue, consume; remember, sweep | two consumers of one entry | consumed at most once |
| Health `health/` | cached report, probe in flight | probe under a time limit, coalesced | a slow check answering after its limit | no stale report past its age |
| SSE `sse/`, WebSockets `ws/` | replay ring, live set; connection with heartbeat, bucket, close handshake | publish, attach with replay, close; message, ping, close | a subscriber joining between replay and live; slow consumers | no gap and no duplicate after a resume |
| Event bus `events/` | handler lists | emit, subscribe, unsubscribe | handlers changing the list during emission | each handler once |
| Database `db/` | advisory locks, transactions, row versions | lock, retry a transaction, versioned update | lost updates, a retried body with effects | one winner per version |
| Last administrator `users/last-admin.ts` | roles | demote, delete | two demotions at once | at least one administrator |
| Field encryption `crypto/`, `users/user-pii.rotation.ts` | key ring, rows sealed under a key | rotate in batches | a write racing the rotation | no row left under a retired key |
| DI container, route cache, CSV ingest, pagination, HTTP ranges and preconditions | small or none | pure algorithms and small machines | chunk boundaries, boundary values | equal to a reference definition |

The parts meet in four places. The HTTP client takes a bulkhead permit, then a
breaker ticket, then retries under one deadline. A route behind the
idempotency middleware writes its change and its outbox rows in one
transaction; the relay dispatches the rows to the event bus or to the Redis
stream; stream workers handle them in other processes. The shutdown sequence
stops all of it in order.

`PROJECT.json` lists every component, the modelled ones and the rest, and
`hazards` lists, at its line, what in this code a test would hardly reach.

## 2. Modules

A step of a module is what cannot be interrupted in the code: one synchronous
run of JavaScript between two awaits, one SQL statement, one Redis command.

**Bulkhead** -- `call` is how far each caller's `withBulkhead` has come; the
other variables are the fields of the class and the two resources of a waiter.
`acquire` is four actions, one per early return; `QueueTimeout` and
`AbortQueued` are the two callbacks; `Release` is the permit's release with
`handOff` in the same step; `Resume` is the caller's continuation, a step of its
own because a caller that has its permit may not have noticed yet.

**CircuitBreaker** -- the fields of the class, the permits callers hold, and the
history needed to say what the ring should contain. `Expire` is the lazy
half-open transition every reader makes; `Settle` is `record()` with the
transition it causes. Rates are fractions, so no rounding is modelled away.

**WorkerPool** -- the pool object is one record and its private methods are
functions from pool to pool, because each public call or event runs several of
them to completion. Threads answer, die and end at their own pace: responses
(`mail`) and exit events (`exits`) are in flight and may arrive after the pool
has retired the thread.

**IdempotencyStore** is the protocol for one key with atomic claims, as the
in-memory store and the middleware have it: execute, record, release, replay,
conflict, mismatch, store failures, crashes and the purge. A request's operation
(`operating`) is apart from its response: `withTimeout` answers 504 at the
deadline, the middleware releases the claim because a 504 is not replayable, and
an operation that does not look at its signal, such as `createUser`, goes on.
**PostgresIdempotency** extends it with the SQL store's claim, one action per
statement, and implements it: `ImplementsProtocol` is the abstract
specification itself, a claiming request being `new` to it.

**OutboxRelay** -- writers' transactions, two relays, each a tick that claims,
dispatches row by row, marks and commits. Rows locked by a relay are skipped by
the other. A rollback discards the marks and keeps the dispatches; a dispatch
that lost its race against the deadline goes on in `late`. A dispatch that
rejects may have reached somebody all the same: one of several subscribers
failed, or the reply of the XADD was lost. `Stopped` is the end of `stop()` with
the exit of the process that follows it and would drop whatever the relay has in
hand.

**StreamWorker** -- the stream, the pending list and two workers with their loop
phases. The commands are translated from `stream.memory.ts`, the repository's
own definition of them. A lost reply is a command that took effect and whose
worker goes on as if it had failed. Time passes while a handler runs, up to its
deadline, and while an acknowledgement or the parking lot is awaited, for as long
as that takes: those two awaits have no deadline in the code. `held` is how long
a worker has had its batch, counted up to `MinIdle`.

**ServerShutdown** -- the composition in `server.ts`: lifecycle, sequencer and
budget, drain, guard, event streams, one background job and the three resources,
with clients that connect, send, wait and hang up. A step is a macrotask with its
microtasks, so the end of one phase and the start of the next are one step. A
request arrives at the drain's listener (`Request`) and meets the guard in a later
step (`Guard`), after the body parsers and the session; `/metrics`, CORS
preflights and bodies the parsers reject are answered without meeting it
(`AnswerAheadOfGuard`).

**MC modules** give each of them its small instance; **BulkheadProofs** holds
the proofs.

## 3. Runs

| Run | Instance | What it shows |
| --- | --- | --- |
| `bulkhead` | 5 callers, 2 slots, 2 places | cap, exact queue, no lost wake-up, FIFO, and that every waiter leaves although no queue timer has to fire |
| `breaker` | 3 callers, ring of 2 slices, clock to 7, pause of 1 or 2 out of 3 | probe budget, window equal to the history, stragglers, the pause, evidence for opening |
| `breaker_sibling` | the same with a threshold of 1 | a finding, section 6 |
| `pool_safety` | 4 tasks (one that cannot be cloned), 2 threads, 1 place | no lost wake-up, every pending call is queued or on one thread, one task per thread |
| `pool_live` | 4 tasks (two that cannot be cloned), 1 thread, 2 places | every call settles and a drain completes although no thread has to answer |
| `idempotency` | 3 requests, two with the same body, lease 1, retention 2, clock to 4 | operations overlap only after a lease or the release of a timed-out request, replays are recorded responses of the same body, giving up means churn, refinement, no second run within the retention |
| `outbox` | 2 rows, 2 relays, batches of 2, 2 attempts, 1 fault | disjoint claims, fate matches history, no more dispatches than attempts and faults explain, stops included, every row settles |
| `stream` | 3 entries (one does not decode), MAXLEN 2, 2 workers, batches of 2, 1 fault | nothing lost, concurrent handlers only after a stall of `MinIdle`, parked only at the ceiling, every pending entry leaves |
| `stream_ceiling`, `stream_batch` | 1 and 2 entries | findings, section 6 |
| `shutdown` | 3 connections, 1 job, 3 resources | exit code 0 cuts nobody off, the pool outlives its users, the guard follows the listener, the drain needs no deadline, a signal ends the process |
| `shutdown_stream` | 2 connections | a finding, section 6 |

**Why the bounds are enough.** Each is the smallest that lets every case of the
code happen together with its rival. Five callers are two running, two queued
and one refused. The breaker's clock runs through two laps of its ring, so a
slot is stale, reused and counted; its pause of 3 has a jitter window of 2, so
that the shortest pause, the longest and the excluded end differ. A pool of two
threads with four tasks has one task queued and one shed while a thread is
replaced; `pool_live` has two uncloneable tasks in a row at the head of its queue
when its thread becomes free. The idempotency clock lets a key be claimed, taken
over, recorded and retained. One fault in the outbox and the stream already
produces every kind of partial failure; two relays or workers are what any of
their races needs. In `stream`, `MinIdle` is above one handler timeout, as the
options require, and no larger: `SharedRunNeedsStall` does not rely on more.
Three connections are one being served, one idle or silent and one streaming.

**Bounds on counters**: `MaxTime`, `MaxPerSlice` (breaker), `MaxTime`
(idempotency), `MaxFaults` (outbox, stream), `MaxEntries` (stream). Where a
clock stops or everything has been handled the system stops too, and those runs
do not check for deadlock.

**Symmetry** is used for interchangeable callers, tasks, retries and workers,
and only in runs without liveness properties.

**Mutants.** Every property of a passing run has a mutated definition, kept next
to the original and named in its comment, that breaks it the way a plausible
slip in the code would.

## 4. Fairness

- Bulkhead: continuations of resolved promises run, and guarded functions end
  (the HTTP client gives each attempt a deadline). Queue timers need not fire.
- WorkerPool: task timers fire, terminated threads end, promises settle. A
  thread need not answer.
- OutboxRelay: the interval fires, statements return, delays pass. Whether a
  dispatch succeeds is left open.
- StreamWorker: the loop goes on, time passes, and the reclaim interval comes
  again and again: strong fairness for `BeginReclaim`, because the loop
  alternates between reading and reclaiming on a timer.
- ServerShutdown: handlers end, clients read the responses they are sent, so that
  these are flushed, and the drain's and the job's callbacks run. Clients need
  neither leave nor send anything, the rest of a body included: `DrainNeedsNoDeadline`
  names those who do not among what may hold the drain. The budget's timer is not
  in the fairness, so that the drain has to end by itself; the one property that
  needs the timer, `SignalEndsProcess`, assumes it in its own statement.

"Eventually settled" is written `[]<>` not waiting, wherever what has settled
stays so.

CircuitBreaker and IdempotencyStore have no liveness property: nothing happens
in them unless a caller comes.

## 5. Proofs

`BulkheadProofs` proves, for any finite set of callers, any positive
`MaxConcurrent` and any `MaxQueue` (`BulkheadAssumption`, what the constructor
checks):

| Theorem | Statement |
| --- | --- |
| `TypeCorrect` | `Spec => []TypeOK` |
| `CapHolds` | the count is the number of permits out, at most `MaxConcurrent` |
| `NoLostWakeup` | somebody waits only while every slot is taken |
| `QueueHoldsTheWaiting` | the queue is the unsettled callers, once each, within `MaxQueue` |
| `DisposedOnEveryExit` | a timer and a listener are armed exactly for those who wait |
| `SlotsAreGrantedInOrder` | FIFO, no barging, as an action property |

The properties are not inductive one by one. That a hand-off keeps the count
equal to the permits needs that the head of the queue is a waiting caller and
not a holder; that a timer or an abort removes one waiter from the queue needs
that it stands there exactly once; that a timer belongs to a waiter needs the
disposal. The inductive invariant `Inv` is their conjunction, with the queue as
a duplicate-free sequence whose members are the waiting callers (`QueueInv`):
cardinalities follow from it by a bijection with the positions
(`LengthIsCardinality`), and one holder more or less is `CountingHolders`. The
lemmas on sequences (`AppendFresh`, `TailRemovesHead`, `RemoveAtRemovesOne`) say
what the three changes of the queue do to it. There is one lemma per action
that changes the queue or the count; `QuietStep` covers those that change
neither, `LeavingStep` the timeout and the abort, and `ReleaseToCount` and
`ReleaseToWaiter` the two halves of a release. FIFO follows from `Inv` and the
shape of the steps.

**Only model-checked**: all liveness (the prover handles neither fairness nor
ENABLED); the refinement of the idempotency protocol; and the safety of the
other modules, so far.

## 6. Where the code and its own words differ

- `breaker_sibling`: a probe that settles after the circuit closed on its
  sibling is still of the current generation, goes through the rate check and
  can open the circuit; the comment on `generation` says it cannot drive a
  transition.
- `stream_ceiling`: the delivery count is compared with the ceiling after a
  failure that was caught, so an entry whose consumers die is run again past it;
  the documentation says it is parked instead of run.
- `stream_batch`: a batch is handled sequentially while the idle clocks of all
  its entries run, so `minIdleMs > handlerTimeoutMs`, which is what the options
  require, does not keep an entry from being reclaimed while its handler runs.
  Nor would a floor above a whole batch of handler timeouts: acknowledging and
  parking take their time too. What does hold is `SharedRunNeedsStall`.
- `shutdown_stream`: the event hub accepts new streams after `closeAll`, and the
  listener is open until the WebSocket server has closed; a stream opened in
  between holds the drain until the budget is spent.

Without a run: a request that arrived before the listener closed and is still
being parsed, or waits for its session, meets the guard afterwards and is refused,
although the comment in `shutdown.middleware.ts:36-37` says "In-flight requests
never see this"; `docs/idempotency.md:145-146` gives as the guarantee that
"duplicates are absorbed; a crash between commit and record costs one
re-execution", and a 504 costs one as well, since it releases the claim of an
operation that goes on; the probe counter may be non-zero while the circuit is closed,
against the comment on the field; a second `drain()` of a closed pool resolves
before its threads are gone; and after the budget is spent the process exits
before the drain's report of connections cut off is written.

## 7. Not modelled

Cryptography, parsing and formatting of wire formats, logging, metrics, OAuth
redirects, object storage and configuration: no shared state, or nothing but
I/O. In the modelled parts: recovery from a destroyed consumer group, the
schedule of the purge, the drain's own `timeoutMs`, a handler that outlives its
client during the drain, a stream handler that goes on after its deadline. Of the
shutdown tasks only the resources can fail in the model: the waits, `closeAll`,
the WebSocket server's `close`, the drain and the jobs' `stop` resolve or hang,
their errors being caught or ignored where they arise. The resources are those of
a process whose relay publishes to Redis; without it there is no `outbox-redis`.

## 8. Plan

In this order, each with its properties and, where marked, proofs:

1. **Sessions**: token records, refreshes between consume and issue, revocation
   by token, family and user; one live token per family (to be proved). With
   them the one-time stores: magic links and the webhook replay guard.
2. **Job queue**: attempts, backoff, dead-lettering, replay of dead letters.
3. **HTTP client**: `Bulkhead` and `CircuitBreaker` composed under the attempt
   ladder; no exit leaks a permit or a probe.
4. **Push**: event bus, SSE log, hub and resume; an abstract subscriber that
   sees every event once, implemented by ring and replay. WebSocket connection.
5. **Database**: advisory locks, retried transactions, versioned updates, the
   last administrator, key rotation against writes.
6. **Health**: coalesced probes and the cached report, joined to the lifecycle.
7. **Pure algorithms** against reference definitions: pagination, byte ranges,
   preconditions, backoff, the CSV parser over chunk boundaries.
8. **Proofs**: the idempotency protocol (inductive invariant: an executing
   request owns the row or its lease is over; a completed row names who recorded
   it; every recorded response is the row's or expired) and the refinement by
   the SQL store; sessions; disjoint claims of the outbox; the shutdown order.

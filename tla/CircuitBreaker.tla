--------------------------- MODULE CircuitBreaker ---------------------------
(***************************************************************************)
(* The failure detector in front of one dependency                         *)
(* (src/src/resilience/circuit-breaker.ts).  Callers acquire a permit,     *)
(* make an attempt and settle the permit with an outcome; permits of one   *)
(* episode may settle in any order, in a later episode included.  The      *)
(* history is a ring of buckets indexed by the slice of time the clock is  *)
(* in.  A step is one synchronous call of the class, or a clock tick.      *)
(***************************************************************************)
EXTENDS Integers, FiniteSets, FiniteSetsExt

CONSTANTS
    Callers,                   \* whoever holds permits
    BucketMs,                  \* floor(windowMs / bucketCount)
    BucketCount,               \* options.bucketCount
    RateNum, RateDen,          \* options.failureRateThreshold, a fraction
    MinimumThroughput,         \* options.minimumThroughput
    OpenMs,                    \* options.openMs
    JitterWindow,              \* floor(openMs * openJitterRatio)
    HalfOpenProbes,            \* options.halfOpenProbes
    HalfOpenSuccessThreshold,  \* options.halfOpenSuccessThreshold
    MaxTime,                   \* bound: the clock stops here
    MaxPerSlice                \* bound: outcomes recorded in one slice

\* What the constructor checks.
OptionsValid ==
    /\ IsFiniteSet(Callers)
    /\ {BucketMs, BucketCount, OpenMs, HalfOpenProbes, MinimumThroughput,
        HalfOpenSuccessThreshold, RateNum, RateDen} \subseteq Nat \ {0}
    /\ RateNum <= RateDen
    /\ JitterWindow \in 0..(OpenMs - 1)
    /\ {MaxTime, MaxPerSlice} \subseteq Nat

ASSUME BreakerAssumption == OptionsValid

VARIABLES
    now,                        \* the clock the breaker reads
    currentState,               \* this.currentState
    openUntil,                  \* this.openUntil
    probesInFlight,             \* this.probesInFlight
    consecutiveProbeSuccesses,  \* this.consecutiveProbeSuccesses
    generation,                 \* this.generation
    buckets,                    \* this.buckets
    permit,                     \* caller -> the permit it has not settled
    recorded,                   \* history: outcomes by slice since the last close
    trippedAt                   \* history: when the circuit last opened

vars == <<now, currentState, openUntil, probesInFlight,
          consecutiveProbeSuccesses, generation, buckets, permit, recorded,
          trippedAt>>

Outcomes == {"success", "failure", "ignored"}
NoPermit == [issuedIn |-> "none", generation |-> 0]
EmptyBucket == [epoch |-> -1, successes |-> 0, failures |-> 0]

Epoch(t) == t \div BucketMs
Slices == 0..Epoch(MaxTime)

Init ==
    /\ now = 0
    /\ currentState = "closed"
    /\ openUntil = 0
    /\ probesInFlight = 0
    /\ consecutiveProbeSuccesses = 0
    /\ generation = 0
    /\ buckets = [i \in 0..(BucketCount - 1) |-> EmptyBucket]
    /\ permit = [c \in Callers |-> NoPermit]
    /\ recorded = [e \in Slices |-> [successes |-> 0, failures |-> 0]]
    /\ trippedAt = 0

-----------------------------------------------------------------------------
(* The window *)

\* Mutant of WithOutcome: a stale slot is added to instead of reset.
WithOutcomeStale(bs, outcome) ==
    LET i == Epoch(now) % BucketCount IN
    [bs EXCEPT ![i].epoch = Epoch(now),
               ![i].successes = @ + (IF outcome = "success" THEN 1 ELSE 0),
               ![i].failures = @ + (IF outcome = "failure" THEN 1 ELSE 0)]

\* currentBucket(), and the count record() adds to it.
WithOutcome(bs, outcome) ==
    LET i == Epoch(now) % BucketCount
        bucket == IF bs[i].epoch = Epoch(now)
                  THEN bs[i] ELSE [EmptyBucket EXCEPT !.epoch = Epoch(now)]
    IN  CASE outcome = "success" -> [bs EXCEPT ![i] = [bucket EXCEPT !.successes = @ + 1]]
          [] outcome = "failure" -> [bs EXCEPT ![i] = [bucket EXCEPT !.failures = @ + 1]]
          [] outcome = "ignored" -> bs

\* totals(): slots whose slice has left the window do not count.
Counted(bs) ==
    {i \in DOMAIN bs : bs[i].epoch >= Epoch(now) - (BucketCount - 1)}
TotalSuccesses(bs) == MapThenSumSet(LAMBDA i : bs[i].successes, Counted(bs))
TotalFailures(bs) == MapThenSumSet(LAMBDA i : bs[i].failures, Counted(bs))

\* Mutant of RateTrips: any number of outcomes is enough.
RateTripsAnyVolume(bs) ==
    TotalFailures(bs) * RateDen >= RateNum * (TotalSuccesses(bs) + TotalFailures(bs))

RateTrips(bs) ==
    LET failures == TotalFailures(bs)
        total == TotalSuccesses(bs) + failures
    IN  /\ total >= MinimumThroughput
        /\ failures * RateDen >= RateNum * total

-----------------------------------------------------------------------------
(* Transitions *)

\* The `state` getter: an open circuit whose time is up becomes half-open.
Expired == currentState = "open" /\ now >= openUntil
StateRead == IF Expired THEN "half-open" ELSE currentState

Expire ==
    /\ currentState' = StateRead
    /\ generation' = IF Expired THEN generation + 1 ELSE generation
    /\ consecutiveProbeSuccesses' = IF Expired THEN 0 ELSE consecutiveProbeSuccesses

\* Reading `state`, or stats().
ReadState ==
    /\ Expire
    /\ probesInFlight' = IF Expired THEN 0 ELSE probesInFlight
    /\ UNCHANGED <<now, openUntil, buckets, permit, recorded, trippedAt>>

AcquireClosed(c) ==
    /\ permit[c] = NoPermit
    /\ StateRead = "closed"
    /\ permit' = [permit EXCEPT ![c] = [issuedIn |-> "closed", generation |-> generation]]
    /\ UNCHANGED <<now, currentState, openUntil, probesInFlight, consecutiveProbeSuccesses,
                   generation, buckets, recorded, trippedAt>>

\* Mutant of AcquireProbe: the probe budget is off by one.
AcquireProbeOffByOne(c) ==
    LET inFlight == IF Expired THEN 0 ELSE probesInFlight IN
    /\ permit[c] = NoPermit
    /\ StateRead = "half-open"
    /\ inFlight <= HalfOpenProbes
    /\ Expire
    /\ probesInFlight' = inFlight + 1
    /\ permit' = [permit EXCEPT ![c] = [issuedIn |-> "half-open", generation |-> generation']]
    /\ UNCHANGED <<now, openUntil, buckets, recorded, trippedAt>>

\* The refusals of acquire(), open or all probes out, change nothing that a
\* read of `state` does not change.
AcquireProbe(c) ==
    LET inFlight == IF Expired THEN 0 ELSE probesInFlight IN
    /\ permit[c] = NoPermit
    /\ StateRead = "half-open"
    /\ inFlight < HalfOpenProbes
    /\ Expire
    /\ probesInFlight' = inFlight + 1
    /\ permit' = [permit EXCEPT ![c] = [issuedIn |-> "half-open", generation |-> generation']]
    /\ UNCHANGED <<now, openUntil, buckets, recorded, trippedAt>>

\* Mutant of Pause: the spread includes the jitter window's end.
PauseInclusive == {OpenMs - JitterWindow + spread : spread \in 0..JitterWindow}

\* How long an episode may last: the jitter moves only the end of the pause.
Pause == {OpenMs - JitterWindow + spread :
             spread \in IF JitterWindow > 0 THEN 0..(JitterWindow - 1) ELSE {0}}

Trip ==
    /\ \E pause \in Pause : openUntil' = now + pause
    /\ probesInFlight' = 0
    /\ consecutiveProbeSuccesses' = 0
    /\ currentState' = "open"
    /\ trippedAt' = now

Close(left, bs) ==
    /\ buckets' = [i \in DOMAIN bs |-> EmptyBucket]
    /\ recorded' = [e \in Slices |-> [successes |-> 0, failures |-> 0]]
    /\ consecutiveProbeSuccesses' = 0
    /\ probesInFlight' = left
    /\ currentState' = "closed"

\* Mutant of OfThisEpisode: the permit's generation is not compared.
OfThisEpisodeUnchecked(p) == p.issuedIn = "half-open"

OfThisEpisode(p) == p.issuedIn = "half-open" /\ p.generation = generation

\* Mutant of ProbesLeft: every probe releases a slot, a straggler too.
ProbesLeftUnchecked(p) ==
    IF p.issuedIn = "half-open" THEN Max({0, probesInFlight - 1}) ELSE probesInFlight

ProbesLeft(p) ==
    IF OfThisEpisode(p) THEN Max({0, probesInFlight - 1}) ELSE probesInFlight

\* What record() decides once the window is updated.
Verdict(p, outcome, bs) ==
    CASE currentState = "half-open" /\ OfThisEpisode(p) ->
            CASE outcome = "failure" -> "trip"
              [] outcome = "success" ->
                    IF consecutiveProbeSuccesses + 1 >= HalfOpenSuccessThreshold
                    THEN "close" ELSE "count"
              [] OTHER -> "none"
      [] currentState = "closed" /\ (p.issuedIn = "closed" \/ OfThisEpisode(p)) ->
            IF outcome = "failure" /\ RateTrips(bs) THEN "trip" ELSE "none"
      [] OTHER -> "none"

\* record(), called once by the permit of c.
Record(c, outcome) ==
    LET p == permit[c]
        bs == WithOutcome(buckets, outcome)
        seen == IF outcome = "ignored" THEN recorded
                ELSE [recorded EXCEPT ![Epoch(now)] =
                        IF outcome = "success" THEN [@ EXCEPT !.successes = @ + 1]
                                               ELSE [@ EXCEPT !.failures = @ + 1]]
        verdict == Verdict(p, outcome, bs)
    IN  /\ p # NoPermit
        /\ permit' = [permit EXCEPT ![c] = NoPermit]
        /\ \/ /\ verdict = "trip"
              /\ Trip
              /\ buckets' = bs
              /\ recorded' = seen
           \/ /\ verdict = "close"
              /\ Close(ProbesLeft(p), bs)
              /\ UNCHANGED <<openUntil, trippedAt>>
           \/ /\ verdict \in {"count", "none"}
              /\ probesInFlight' = ProbesLeft(p)
              /\ consecutiveProbeSuccesses' =
                    IF verdict = "count" THEN consecutiveProbeSuccesses + 1
                                         ELSE consecutiveProbeSuccesses
              /\ buckets' = bs
              /\ recorded' = seen
              /\ UNCHANGED <<currentState, openUntil, trippedAt>>
        /\ UNCHANGED <<now, generation>>

Roomy ==
    recorded[Epoch(now)].successes + recorded[Epoch(now)].failures < MaxPerSlice

Settle(c) ==
    \E outcome \in Outcomes :
        /\ outcome = "ignored" \/ Roomy
        /\ Record(c, outcome)

Tick ==
    /\ now < MaxTime
    /\ now' = now + 1
    /\ UNCHANGED <<currentState, openUntil, probesInFlight, consecutiveProbeSuccesses,
                   generation, buckets, permit, recorded, trippedAt>>

Next ==
    \/ Tick
    \/ ReadState
    \/ \E c \in Callers : AcquireClosed(c) \/ AcquireProbe(c) \/ Settle(c)

Spec == Init /\ [][Next]_vars

-----------------------------------------------------------------------------
(* Properties *)

Probes(g) ==
    {c \in Callers : permit[c].issuedIn = "half-open" /\ permit[c].generation = g}

\* Every variable keeps the shape the class gives it; the counters stay within
\* the limits the options set.
TypeOK ==
    /\ now \in 0..MaxTime
    /\ currentState \in {"closed", "open", "half-open"}
    /\ openUntil \in 0..(MaxTime + OpenMs)
    /\ probesInFlight \in 0..HalfOpenProbes
    /\ consecutiveProbeSuccesses \in 0..(HalfOpenSuccessThreshold - 1)
    /\ generation \in Nat
    /\ buckets \in [0..(BucketCount - 1) ->
                      [epoch : {-1} \cup Slices, successes : Nat, failures : Nat]]
    /\ permit \in [Callers -> [issuedIn : {"none", "closed", "half-open"}, generation : Nat]]
    /\ recorded \in [Slices -> [successes : Nat, failures : Nat]]
    /\ trippedAt \in 0..MaxTime

\* The probe budget neither leaks nor is overspent: outside the open state the
\* counter is exactly the number of unsettled probes of the current episode,
\* whatever stragglers of earlier episodes settle in between, so a half-open
\* circuit without a probe out always admits one.
ProbeBudgetExact ==
    /\ currentState # "open" => probesInFlight = Cardinality(Probes(generation))
    /\ currentState = "half-open" => Cardinality(Probes(generation)) <= HalfOpenProbes

\* The ring computes the sliding window: totals() is the number of outcomes
\* recorded since the last close in the current slice and the BucketCount - 1
\* slices before it, whatever stale slots the ring still holds.
WindowIsRecentHistory ==
    LET recent == {e \in Slices : e <= Epoch(now) /\ e > Epoch(now) - BucketCount} IN
    /\ TotalSuccesses(buckets) = MapThenSumSet(LAMBDA e : recorded[e].successes, recent)
    /\ TotalFailures(buckets) = MapThenSumSet(LAMBDA e : recorded[e].failures, recent)

\* An attempt that settles after its episode ended decides nothing: neither the
\* state nor the probe instant moves when a permit of an earlier generation
\* settles, nor when one issued while closed settles in another state.
StragglersDecideNothing ==
    [][\A c \in Callers :
          /\ permit[c] # NoPermit
          /\ permit'[c] = NoPermit
          /\ \/ permit[c].issuedIn = "half-open" /\ permit[c].generation # generation
             \/ permit[c].issuedIn = "closed" /\ currentState # "closed"
          => UNCHANGED <<currentState, openUntil>>]_vars

\* The jitter moves the end of the pause and nothing else: whoever is admitted
\* first after a trip is admitted at least OpenMs - JitterWindow later; whatever
\* settles meanwhile, the gate opens at the moment chosen by the trip, which is
\* before OpenMs are over, or exactly then if there is no jitter.
PauseIsKept ==
    [][currentState = "open" =>
         /\ currentState' # "open" => now - trippedAt >= OpenMs - JitterWindow
         /\ openUntil' = openUntil
         /\ IF JitterWindow > 0 THEN openUntil - trippedAt < OpenMs
            ELSE openUntil - trippedAt = OpenMs]_vars

\* A closed circuit opens only when the outcomes recorded since it last closed
\* justify it: enough of them in the window, and the failure rate reached.
ClosedOpensOnEvidence ==
    [][currentState = "closed" /\ currentState' = "open" =>
         LET recent == {e \in Slices : e <= Epoch(now) /\ e > Epoch(now) - BucketCount}
             bad == MapThenSumSet(LAMBDA e : recorded'[e].failures, recent)
             good == MapThenSumSet(LAMBDA e : recorded'[e].successes, recent)
         IN  /\ good + bad >= MinimumThroughput
             /\ bad * RateDen >= RateNum * (good + bad)]_vars

\* The doc comment of `generation`: a probe that settles after the circuit
\* closed on a sibling probe "cannot drive a transition".
SiblingProbeDrivesNothing ==
    [][\A c \in Callers :
          /\ permit[c].issuedIn = "half-open"
          /\ permit'[c] = NoPermit
          /\ currentState = "closed"
          => currentState' = "closed"]_vars

=============================================================================

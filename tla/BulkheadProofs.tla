--------------------------- MODULE BulkheadProofs ---------------------------
(***************************************************************************)
(* The safety properties of Bulkhead, for any number of callers and any    *)
(* limits.  None of them is inductive alone: that a hand-off keeps the     *)
(* count right needs the head waiter to be pending, which needs the queue  *)
(* to be the pending callers without repetition, which needs timers and    *)
(* abort listeners to belong to pending callers only.                      *)
(***************************************************************************)
EXTENDS Bulkhead, TLAPS, FiniteSetTheorems, SequenceTheorems

NoRepeats(s) == \A i, j \in 1..Len(s) : s[i] = s[j] => i = j

\* The queue without its length: what the hand-off and the callbacks rely on.
QueueInv ==
    /\ NoRepeats(waiters)
    /\ ToSet(waiters) = Waiting
    /\ Len(waiters) <= MaxQueue

\* The inductive invariant.
Inv ==
    /\ TypeOK
    /\ CountIsPermitsOut
    /\ QueuedOnlyWhenSaturated
    /\ QueueInv
    /\ NothingArmedAfterSettling

-----------------------------------------------------------------------------
(* Queues without repetition *)

\* Appending a newcomer (enqueue) adds it once.
LEMMA AppendFresh ==
    ASSUME NEW S, NEW s \in Seq(S), NEW e \in S, NoRepeats(s), e \notin ToSet(s)
    PROVE  /\ Append(s, e) \in Seq(S)
           /\ Len(Append(s, e)) = Len(s) + 1
           /\ NoRepeats(Append(s, e))
           /\ ToSet(Append(s, e)) = ToSet(s) \cup {e}
<1> DEFINE t == Append(s, e)
<1>1. /\ t \in Seq(S) /\ Len(t) = Len(s) + 1
      /\ \A i \in 1..Len(s) : t[i] = s[i]
      /\ t[Len(s) + 1] = e
      /\ DOMAIN t = 1..(Len(s) + 1) /\ DOMAIN s = 1..Len(s) /\ Len(s) \in Nat
  BY AppendProperties, LenProperties
<1>2. NoRepeats(t)
  BY <1>1 DEF NoRepeats, ToSet
<1>3. ToSet(t) = ToSet(s) \cup {e}
  BY <1>1 DEF ToSet
<1> QED BY <1>1, <1>2, <1>3

\* Taking the head (handOff) removes exactly the oldest waiter.
LEMMA TailRemovesHead ==
    ASSUME NEW S, NEW s \in Seq(S), s # <<>>, NoRepeats(s)
    PROVE  /\ Tail(s) \in Seq(S)
           /\ Len(Tail(s)) = Len(s) - 1
           /\ NoRepeats(Tail(s))
           /\ Head(s) \in ToSet(s)
           /\ ToSet(Tail(s)) = ToSet(s) \ {Head(s)}
<1> DEFINE t == Tail(s)
<1>1. /\ t \in Seq(S) /\ Len(t) = Len(s) - 1
      /\ \A i \in 1..Len(t) : t[i] = s[i + 1]
      /\ Head(s) = s[1]
      /\ DOMAIN t = 1..Len(t) /\ DOMAIN s = 1..Len(s)
      /\ Len(s) \in Nat \ {0}
  BY HeadTailProperties, LenProperties, EmptySeq
<1>2. NoRepeats(t)
  BY <1>1 DEF NoRepeats
<1>3. ASSUME NEW x \in ToSet(s), x # Head(s) PROVE x \in ToSet(t)
  <2>1. PICK i \in 1..Len(s) : x = s[i]
    BY <1>1 DEF ToSet
  <2>2. i - 1 \in 1..Len(t) /\ t[i - 1] = x
    BY <1>1, <1>3, <2>1
  <2> QED BY <1>1, <2>2 DEF ToSet
<1>4. ASSUME NEW x \in ToSet(t) PROVE x \in ToSet(s) /\ x # Head(s)
  BY <1>1 DEF ToSet, NoRepeats
<1>5. Head(s) \in ToSet(s)
  BY <1>1 DEF ToSet
<1>6. ToSet(t) = ToSet(s) \ {Head(s)}
  BY <1>3, <1>4
<1> QED BY <1>1, <1>2, <1>5, <1>6

\* Splicing one waiter out (leave) keeps all others.
LEMMA RemoveAtRemovesOne ==
    ASSUME NEW S, NEW s \in Seq(S), NEW k \in 1..Len(s), NoRepeats(s)
    PROVE  /\ RemoveAt(s, k) \in Seq(S)
           /\ Len(RemoveAt(s, k)) = Len(s) - 1
           /\ NoRepeats(RemoveAt(s, k))
           /\ ToSet(RemoveAt(s, k)) = ToSet(s) \ {s[k]}
<1> DEFINE a == SubSeq(s, 1, k - 1)
           b == SubSeq(s, k + 1, Len(s))
           t == RemoveAt(s, k)
<1>1. Len(s) \in Nat /\ DOMAIN s = 1..Len(s) /\ \A i \in 1..Len(s) : s[i] \in S
  BY LenProperties, ElementOfSeq
<1>2. /\ a \in Seq(S) /\ Len(a) = k - 1
      /\ \A i \in 1..(k - 1) : a[i] = s[i]
  OBVIOUS
<1>3. /\ b \in Seq(S) /\ Len(b) = Len(s) - k
      /\ \A i \in 1..(Len(s) - k) : b[i] = s[k + i]
  OBVIOUS
<1>c. t = a \o b
  BY DEF RemoveAt
<1> HIDE DEF a, b, t
<1>4. /\ t \in Seq(S) /\ Len(t) = Len(s) - 1
      /\ \A i \in 1..(Len(s) - 1) : t[i] = IF i <= k - 1 THEN a[i] ELSE b[i - (k - 1)]
  <2>1. /\ t \in Seq(S) /\ Len(t) = Len(a) + Len(b)
        /\ \A i \in 1..(Len(a) + Len(b)) :
             t[i] = IF i <= Len(a) THEN a[i] ELSE b[i - Len(a)]
    BY <1>2, <1>3, <1>c, ConcatProperties
  <2> QED BY <1>1, <1>2, <1>3, <2>1
<1>5. \A i \in 1..(Len(s) - 1) : t[i] = IF i < k THEN s[i] ELSE s[i + 1]
  <2> SUFFICES ASSUME NEW i \in 1..(Len(s) - 1)
               PROVE  t[i] = IF i < k THEN s[i] ELSE s[i + 1]
    OBVIOUS
  <2>1. CASE i < k
    BY <1>1, <1>2, <1>4, <2>1
  <2>2. CASE i >= k
    <3>1. PICK j \in 1..(Len(s) - k) : j = i - (k - 1)
      BY <1>1, <2>2
    <3>2. t[i] = b[j]
      BY <1>1, <1>4, <2>2, <3>1
    <3>3. b[j] = s[k + j]
      BY <1>3
    <3>4. k + j = i + 1 /\ ~(i < k)
      BY <1>1, <2>2, <3>1
    <3> QED BY <3>2, <3>3, <3>4
  <2> QED BY <1>1, <2>1, <2>2
<1>6. DOMAIN t = 1..(Len(s) - 1)
  BY <1>4, LenProperties
<1>7. NoRepeats(t)
  <2> DEFINE at(i) == IF i < k THEN i ELSE i + 1
  <2>1. \A i \in 1..(Len(s) - 1) : at(i) \in 1..Len(s) /\ t[i] = s[at(i)]
    BY <1>1, <1>5
  <2>2. \A i, j \in 1..(Len(s) - 1) : at(i) = at(j) => i = j
    BY <1>1
  <2> HIDE DEF at
  <2>3. \A i, j \in 1..(Len(s) - 1) : t[i] = t[j] => at(i) = at(j)
    BY <2>1 DEF NoRepeats
  <2> QED BY <1>4, <2>2, <2>3 DEF NoRepeats
<1>8. ASSUME NEW x \in ToSet(s), x # s[k] PROVE x \in ToSet(t)
  <2>1. PICK i \in 1..Len(s) : x = s[i]
    BY <1>1 DEF ToSet
  <2>2. CASE i < k
    BY <1>1, <1>5, <1>6, <2>1, <2>2 DEF ToSet
  <2>3. CASE i > k
    <3>1. i - 1 \in 1..(Len(s) - 1) /\ t[i - 1] = x
      BY <1>1, <1>5, <2>1, <2>3
    <3> QED BY <1>6, <3>1 DEF ToSet
  <2> QED BY <1>1, <1>8, <2>1, <2>2, <2>3
<1>9. ASSUME NEW x \in ToSet(t) PROVE x \in ToSet(s) /\ x # s[k]
  <2>1. PICK i \in 1..(Len(s) - 1) : x = t[i]
    BY <1>6 DEF ToSet
  <2> QED BY <1>1, <1>5, <2>1 DEF ToSet, NoRepeats
<1>10. ToSet(t) = ToSet(s) \ {s[k]}
  BY <1>8, <1>9
<1> QED BY <1>4, <1>7, <1>10 DEF t

\* The length of a queue without repetition is the number of its members.
LEMMA LengthIsCardinality ==
    ASSUME NEW S, NEW s \in Seq(S), NoRepeats(s)
    PROVE  Cardinality(ToSet(s)) = Len(s)
<1>1. Len(s) \in Nat /\ DOMAIN s = 1..Len(s) /\ s \in [1..Len(s) -> S]
  BY LenProperties
<1>2. s \in Bijection(1..Len(s), ToSet(s))
  BY <1>1 DEF Bijection, Injection, Surjection, IsInjective, NoRepeats, ToSet
<1>3. IsFiniteSet(1..Len(s)) /\ Cardinality(1..Len(s)) = Len(s)
  BY <1>1, FS_Interval
<1> QED BY <1>2, <1>3, FS_Bijection DEF ExistsBijection

-----------------------------------------------------------------------------
(* The invariant is inductive *)

\* The permits that are out are finitely many, and one more or one fewer changes
\* their number by one.
LEMMA CountingHolders ==
    /\ IsFiniteSet(Holders)
    /\ Cardinality(Holders) \in Nat
    /\ \A c \in Callers \ Holders : Cardinality(Holders \cup {c}) = Cardinality(Holders) + 1
    /\ \A c \in Holders : Cardinality(Holders \ {c}) = Cardinality(Holders) - 1
    /\ \A c \in Holders : \A d \in Callers \ Holders :
          Cardinality((Holders \ {c}) \cup {d}) = Cardinality(Holders)
<1>1. IsFiniteSet(Holders)
  BY BulkheadAssumption, FS_Subset DEF Holders
<1>2. Cardinality(Holders) \in Nat
  BY <1>1, FS_CardinalityType
<1>3. \A c \in Callers \ Holders : Cardinality(Holders \cup {c}) = Cardinality(Holders) + 1
  BY <1>1, FS_AddElement
<1>4. \A c \in Holders :
        /\ IsFiniteSet(Holders \ {c})
        /\ Cardinality(Holders \ {c}) = Cardinality(Holders) - 1
  BY <1>1, FS_RemoveElement
<1>5. ASSUME NEW c \in Holders, NEW d \in Callers \ Holders
      PROVE  Cardinality((Holders \ {c}) \cup {d}) = Cardinality(Holders)
  <2>1. d \notin Holders \ {c}
    OBVIOUS
  <2>2. Cardinality((Holders \ {c}) \cup {d}) = Cardinality(Holders \ {c}) + 1
    BY <1>4, <1>5, <2>1, FS_AddElement
  <2>3. Cardinality(Holders \ {c}) = Cardinality(Holders) - 1
    BY <1>4
  <2> QED BY <1>2, <2>2, <2>3
<1> QED BY <1>1, <1>2, <1>3, <1>4, <1>5

\* An empty bulkhead satisfies the invariant.
LEMMA InitInv == Init => Inv
<1> SUFFICES ASSUME Init PROVE Inv
  OBVIOUS
<1> USE BulkheadAssumption DEF Init
<1>1. Holders = {} /\ Waiting = {} /\ ToSet(waiters) = {} /\ Len(waiters) = 0
  BY DEF Holders, Waiting, ToSet
<1>2. TypeOK
  BY DEF TypeOK, CallStates
<1>3. CountIsPermitsOut
  BY <1>1, FS_EmptySet DEF CountIsPermitsOut
<1>4. QueueInv
  BY <1>1 DEF QueueInv, NoRepeats
<1>5. QueuedOnlyWhenSaturated /\ NothingArmedAfterSettling
  BY <1>1 DEF QueuedOnlyWhenSaturated, NothingArmedAfterSettling
<1> QED BY <1>2, <1>3, <1>4, <1>5 DEF Inv

\* A step that moves nobody into or out of the queue or the set of holders
\* preserves the invariant.
LEMMA QuietStep ==
    ASSUME Inv, call' \in [Callers -> CallStates],
           Waiting' = Waiting, Holders' = Holders, aborted' \subseteq Callers,
           UNCHANGED <<waiters, inFlightCount, timers, listeners>>
    PROVE  Inv'
<1> USE DEF Inv
<1>1. TypeOK'
  BY DEF TypeOK
<1>2. CountIsPermitsOut' /\ QueuedOnlyWhenSaturated'
  BY DEF CountIsPermitsOut, QueuedOnlyWhenSaturated
<1>3. QueueInv' /\ NothingArmedAfterSettling'
  BY DEF QueueInv, NothingArmedAfterSettling
<1> QED BY <1>1, <1>2, <1>3

\* A queued caller that times out or hangs up: spliced out, disarmed, rejected.
LEMMA LeavingStep ==
    ASSUME Inv, NEW c \in Waiting, NEW reason \in Settled,
           Leave(c), Reject(c, reason), aborted' \subseteq Callers,
           timers' = timers \ {c}, listeners' = listeners \ {c},
           UNCHANGED inFlightCount
    PROVE  Inv'
<1> USE DEF Inv
<1>1. c \in Callers /\ call[c] = "pending" /\ waiters \in Seq(Callers)
  BY DEF Waiting, TypeOK
<1>2. PICK k \in 1..Len(waiters) : waiters[k] = c /\ waiters' = RemoveAt(waiters, k)
  <2>1. c \in ToSet(waiters) /\ DOMAIN waiters = 1..Len(waiters)
    BY <1>1, LenProperties DEF QueueInv
  <2>2. \E k \in DOMAIN waiters : waiters[k] = c
    BY <2>1 DEF ToSet
  <2> QED BY <2>1, <2>2 DEF Leave
<1>3. /\ waiters' \in Seq(Callers) /\ Len(waiters') = Len(waiters) - 1
      /\ NoRepeats(waiters') /\ ToSet(waiters') = ToSet(waiters) \ {c}
  BY <1>1, <1>2, RemoveAtRemovesOne DEF QueueInv
<1>4. call' = [call EXCEPT ![c] = reason]
  BY <1>1 DEF Reject, TypeOK
<1>5. call' \in [Callers -> CallStates]
  BY <1>4 DEF TypeOK, CallStates
<1>6. Waiting' = Waiting \ {c} /\ Holders' = Holders
  BY <1>1, <1>4 DEF TypeOK, Waiting, Holders, Settled
<1>7. TypeOK'
  BY <1>3, <1>5 DEF TypeOK
<1>8. CountIsPermitsOut'
  BY <1>6 DEF CountIsPermitsOut
<1>9. waiters # <<>>
  BY <1>1, <1>2, LenProperties
<1>10. QueuedOnlyWhenSaturated'
  BY <1>9 DEF QueuedOnlyWhenSaturated
<1>11. QueueInv'
  BY <1>1, <1>3, <1>6, LenProperties, BulkheadAssumption DEF QueueInv
<1>12. NothingArmedAfterSettling'
  BY <1>6 DEF NothingArmedAfterSettling
<1> QED BY <1>7, <1>8, <1>10, <1>11, <1>12

\* acquire() takes a free slot.
LEMMA AcquireSlotStep ==
    ASSUME Inv, NEW c \in Callers, AcquireSlot(c)
    PROVE  Inv'
<1> USE DEF Inv, AcquireSlot
<1>1. call' \in [Callers -> CallStates]
  BY DEF TypeOK, CallStates
<1>2. Waiting' = Waiting /\ Holders' = Holders \cup {c} /\ c \notin Holders
  BY DEF TypeOK, Waiting, Holders
<1>3. Cardinality(Holders') = Cardinality(Holders) + 1
  BY <1>2, CountingHolders
<1>4. inFlightCount' \in 0..MaxConcurrent
  BY BulkheadAssumption DEF TypeOK
<1>5. TypeOK'
  BY <1>1, <1>4 DEF TypeOK
<1>6. CountIsPermitsOut'
  BY <1>3, <1>4 DEF CountIsPermitsOut
<1>7. waiters = <<>>
  BY BulkheadAssumption DEF QueuedOnlyWhenSaturated, TypeOK
<1>8. QueuedOnlyWhenSaturated'
  BY <1>7 DEF QueuedOnlyWhenSaturated
<1>9. QueueInv' /\ NothingArmedAfterSettling'
  BY <1>2 DEF QueueInv, NothingArmedAfterSettling
<1> QED BY <1>5, <1>6, <1>8, <1>9

\* acquire() puts a caller at the end of the queue.
LEMMA EnqueueStep ==
    ASSUME Inv, NEW c \in Callers, Enqueue(c)
    PROVE  Inv'
<1> USE DEF Inv, Enqueue
<1>1. call' \in [Callers -> CallStates]
  BY DEF TypeOK, CallStates
<1>2. Waiting' = Waiting \cup {c} /\ c \notin Waiting /\ Holders' = Holders
  BY DEF TypeOK, Waiting, Holders
<1>3. /\ waiters' \in Seq(Callers) /\ Len(waiters') = Len(waiters) + 1
      /\ NoRepeats(waiters') /\ ToSet(waiters') = ToSet(waiters) \cup {c}
  BY <1>2, AppendFresh DEF TypeOK, QueueInv
<1>4. TypeOK'
  BY <1>1, <1>3 DEF TypeOK
<1>5. CountIsPermitsOut'
  BY <1>2 DEF CountIsPermitsOut
<1>6. QueuedOnlyWhenSaturated'
  BY BulkheadAssumption DEF QueuedOnlyWhenSaturated, TypeOK
<1>7. QueueInv'
  <2>1. Len(waiters) \in Nat
    BY LenProperties DEF TypeOK
  <2> QED BY <1>2, <1>3, <2>1, BulkheadAssumption DEF QueueInv
<1>8. NothingArmedAfterSettling'
  BY <1>2 DEF NothingArmedAfterSettling
<1> QED BY <1>4, <1>5, <1>6, <1>7, <1>8

\* withBulkhead resumes with its permit.
LEMMA ResumeStep ==
    ASSUME Inv, NEW c \in Callers, Resume(c)
    PROVE  Inv'
<1> USE DEF Inv, Resume
<1>1. call' \in [Callers -> CallStates]
  BY DEF TypeOK, CallStates
<1>2. Waiting' = Waiting /\ Holders' = Holders
  BY DEF TypeOK, Waiting, Holders
<1>3. TypeOK'
  BY <1>1 DEF TypeOK
<1>4. CountIsPermitsOut' /\ QueuedOnlyWhenSaturated'
  BY <1>2 DEF CountIsPermitsOut, QueuedOnlyWhenSaturated
<1>5. QueueInv' /\ NothingArmedAfterSettling'
  BY <1>2 DEF QueueInv, NothingArmedAfterSettling
<1> QED BY <1>3, <1>4, <1>5

\* A permit is released with nobody waiting: the slot goes back to the count.
LEMMA ReleaseToCount ==
    ASSUME Inv, NEW c \in Callers, Release(c), waiters = <<>>
    PROVE  Inv'
<1> USE DEF Inv
<1>1. /\ call[c] = "running" /\ call' = [call EXCEPT ![c] = "released"]
      /\ inFlightCount' = inFlightCount - 1
      /\ UNCHANGED <<aborted, waiters, timers, listeners>>
  BY DEF Release, HandOff
<1>2. call' \in [Callers -> CallStates]
  BY <1>1 DEF TypeOK, CallStates, Settled
<1>3. Waiting' = Waiting /\ Holders' = Holders \ {c} /\ c \in Holders
  BY <1>1 DEF TypeOK, Waiting, Holders
<1>4. Cardinality(Holders') = Cardinality(Holders) - 1
  BY <1>3, CountingHolders
<1>5. Cardinality(Holders') \in Nat
  BY <1>3, CountingHolders, FS_RemoveElement, FS_CardinalityType
<1>6. inFlightCount' = Cardinality(Holders') /\ inFlightCount' <= MaxConcurrent
  BY <1>1, <1>4, BulkheadAssumption DEF TypeOK, CountIsPermitsOut
<1>7. inFlightCount' \in 0..MaxConcurrent
  BY <1>5, <1>6, BulkheadAssumption
<1>8. TypeOK'
  BY <1>1, <1>2, <1>7 DEF TypeOK
<1>9. CountIsPermitsOut' /\ QueuedOnlyWhenSaturated'
  BY <1>1, <1>6 DEF CountIsPermitsOut, QueuedOnlyWhenSaturated
<1>10. QueueInv' /\ NothingArmedAfterSettling'
  BY <1>1, <1>3 DEF QueueInv, NothingArmedAfterSettling
<1> QED BY <1>8, <1>9, <1>10

\* A permit is released and handed to the oldest waiter: the count stands.
LEMMA ReleaseToWaiter ==
    ASSUME Inv, NEW c \in Callers, Release(c), waiters # <<>>
    PROVE  Inv'
<1> USE DEF Inv
<1> DEFINE next == Head(waiters)
<1>1. /\ call[c] = "running"
      /\ call' = [call EXCEPT ![c] = "released", ![next] = "permit"]
      /\ waiters' = Tail(waiters)
      /\ timers' = timers \ {next} /\ listeners' = listeners \ {next}
      /\ UNCHANGED <<aborted, inFlightCount>>
  BY DEF Release, HandOff
<1>2. /\ waiters' \in Seq(Callers) /\ Len(waiters') = Len(waiters) - 1
      /\ NoRepeats(waiters') /\ next \in ToSet(waiters)
      /\ ToSet(waiters') = ToSet(waiters) \ {next}
  BY <1>1, TailRemovesHead DEF TypeOK, QueueInv
<1>3. next \in Callers /\ call[next] = "pending" /\ next # c
  BY <1>1, <1>2 DEF QueueInv, Waiting
<1> HIDE DEF next
<1>4. call' \in [Callers -> CallStates]
  BY <1>1, <1>3 DEF TypeOK, CallStates, Settled
<1>5. /\ Waiting' = Waiting \ {next}
      /\ Holders' = (Holders \ {c}) \cup {next}
      /\ c \in Holders /\ next \in Callers \ Holders
  BY <1>1, <1>3 DEF TypeOK, Waiting, Holders
<1>6. Cardinality(Holders') = Cardinality(Holders)
  BY <1>5, CountingHolders
<1>7. TypeOK'
  BY <1>1, <1>2, <1>4 DEF TypeOK
<1>8. CountIsPermitsOut' /\ QueuedOnlyWhenSaturated'
  BY <1>1, <1>6 DEF CountIsPermitsOut, QueuedOnlyWhenSaturated
<1>9. QueueInv'
  <2>1. Len(waiters) \in Nat
    BY LenProperties DEF TypeOK
  <2> QED BY <1>2, <1>5, <2>1, BulkheadAssumption DEF QueueInv
<1>10. NothingArmedAfterSettling'
  BY <1>1, <1>5 DEF NothingArmedAfterSettling
<1> QED BY <1>7, <1>8, <1>9, <1>10

\* Every action of a caller keeps the invariant.
LEMMA StepInv ==
    ASSUME Inv, NEW c \in Callers, Step(c)
    PROVE  Inv'
<1>1. CASE NewRequest(c)
  <2>1. call' \in [Callers -> CallStates] /\ Waiting' = Waiting /\ Holders' = Holders
    BY <1>1 DEF NewRequest, Inv, TypeOK, CallStates, Settled, Waiting, Holders
  <2>2. aborted' \subseteq Callers /\ UNCHANGED <<waiters, inFlightCount, timers, listeners>>
    BY <1>1 DEF NewRequest, Inv, TypeOK
  <2> QED BY <2>1, <2>2, QuietStep
<1>2. CASE AcquireAborted(c)
  <2>1. call' \in [Callers -> CallStates] /\ Waiting' = Waiting /\ Holders' = Holders
    BY <1>2 DEF AcquireAborted, Inv, TypeOK, CallStates, Settled, Waiting, Holders
  <2>2. aborted' \subseteq Callers /\ UNCHANGED <<waiters, inFlightCount, timers, listeners>>
    BY <1>2 DEF AcquireAborted, Inv, TypeOK
  <2> QED BY <2>1, <2>2, QuietStep
<1>3. CASE AcquireSlot(c)
  BY <1>3, AcquireSlotStep
<1>4. CASE AcquireRefused(c)
  <2>1. call' \in [Callers -> CallStates] /\ Waiting' = Waiting /\ Holders' = Holders
    BY <1>4 DEF AcquireRefused, Inv, TypeOK, CallStates, Settled, Waiting, Holders
  <2>2. aborted' \subseteq Callers /\ UNCHANGED <<waiters, inFlightCount, timers, listeners>>
    BY <1>4 DEF AcquireRefused, Inv, TypeOK
  <2> QED BY <2>1, <2>2, QuietStep
<1>5. CASE Enqueue(c)
  BY <1>5, EnqueueStep
<1>6. CASE QueueTimeout(c)
  <2>1. c \in Waiting /\ aborted' \subseteq Callers
    BY <1>6 DEF QueueTimeout, Inv, TypeOK, NothingArmedAfterSettling
  <2> QED BY <1>6, <2>1, LeavingStep DEF QueueTimeout, Settled
<1>7. CASE AbortQueued(c)
  <2>1. c \in Waiting /\ aborted' \subseteq Callers
    BY <1>7 DEF AbortQueued, Inv, TypeOK, NothingArmedAfterSettling
  <2> QED BY <1>7, <2>1, LeavingStep DEF AbortQueued, Settled
<1>8. CASE AbortUnheard(c)
  <2>1. call' \in [Callers -> CallStates] /\ Waiting' = Waiting /\ Holders' = Holders
    BY <1>8 DEF AbortUnheard, Inv, TypeOK, Waiting, Holders
  <2>2. aborted' \subseteq Callers /\ UNCHANGED <<waiters, inFlightCount, timers, listeners>>
    BY <1>8 DEF AbortUnheard, Inv, TypeOK
  <2> QED BY <2>1, <2>2, QuietStep
<1>9. CASE Resume(c)
  BY <1>9, ResumeStep
<1>10. CASE Release(c)
  BY <1>10, ReleaseToCount, ReleaseToWaiter
<1> QED BY <1>1, <1>2, <1>3, <1>4, <1>5, <1>6, <1>7, <1>8, <1>9, <1>10 DEF Step

\* Every step of the bulkhead, and every stuttering step, keeps the invariant.
LEMMA NextInv == Inv /\ [Next]_vars => Inv'
<1> SUFFICES ASSUME Inv, [Next]_vars PROVE Inv'
  OBVIOUS
<1>1. CASE Next
  BY <1>1, StepInv DEF Next
<1>2. CASE UNCHANGED vars
  <2>1. Waiting' = Waiting /\ Holders' = Holders
    BY <1>2 DEF vars, Waiting, Holders
  <2> QED BY <1>2, <2>1 DEF vars, Inv, TypeOK, CountIsPermitsOut,
             QueuedOnlyWhenSaturated, QueueInv, NothingArmedAfterSettling
<1> QED BY <1>1, <1>2

\* The inductive invariant holds in every reachable state.
LEMMA AlwaysInv == Spec => []Inv
BY InitInv, NextInv, PTL DEF Spec

-----------------------------------------------------------------------------
(* What the bulkhead promises, for any number of callers, slots and places *)

\* The state keeps its types; the count stays between 0 and maxConcurrent.
THEOREM TypeCorrect == Spec => []TypeOK
<1>1. Inv => TypeOK
  BY DEF Inv
<1> QED BY <1>1, AlwaysInv, PTL

\* The cap: release() and handOff() keep inFlightCount equal to the permits that
\* are out, and it never passes maxConcurrent.
THEOREM CapHolds == Spec => []CountIsPermitsOut
<1>1. Inv => CountIsPermitsOut
  BY DEF Inv
<1> QED BY <1>1, AlwaysInv, PTL

\* No lost wake-up: nobody is queued while acquire() would find a free slot.
THEOREM NoLostWakeup == Spec => []QueuedOnlyWhenSaturated
<1>1. Inv => QueuedOnlyWhenSaturated
  BY DEF Inv
<1> QED BY <1>1, AlwaysInv, PTL

\* waiters holds exactly the callers whose promise is unsettled, once each, so
\* that waiters.length is a sound admission count against maxQueue.
THEOREM QueueHoldsTheWaiting == Spec => []QueueIsPendingCallers
<1>1. Inv => QueueIsPendingCallers
  <2> SUFFICES ASSUME Inv PROVE QueueIsPendingCallers
    OBVIOUS
  <2>1. Cardinality(ToSet(waiters)) = Len(waiters)
    BY LengthIsCardinality DEF Inv, TypeOK, QueueInv
  <2> QED BY <2>1 DEF Inv, QueueInv, QueueIsPendingCallers
<1> QED BY <1>1, AlwaysInv, PTL

\* dispose() runs on every way out of the queue: no timer and no abort listener
\* is left armed for a caller that does not wait.
THEOREM DisposedOnEveryExit == Spec => []NothingArmedAfterSettling
<1>1. Inv => NothingArmedAfterSettling
  BY DEF Inv
<1> QED BY <1>1, AlwaysInv, PTL

\* Slots are granted in arrival order, and acquire() lets no newcomer pass a
\* caller that is queued.
THEOREM SlotsAreGrantedInOrder == Spec => FifoAdmission
<1> DEFINE Fifo ==
      \A c \in Callers :
          call[c] # "permit" /\ call'[c] = "permit" =>
            IF c \in ToSet(waiters) THEN c = Head(waiters) ELSE waiters = <<>>
<1>1. Inv /\ [Next]_vars => [Fifo]_vars
  <2> SUFFICES ASSUME Inv, NEW d \in Callers, Step(d),
                      NEW c \in Callers, call[c] # "permit", call'[c] = "permit"
               PROVE  IF c \in ToSet(waiters) THEN c = Head(waiters) ELSE waiters = <<>>
    BY DEF Next
  <2>1. call \in [Callers -> CallStates] /\ ToSet(waiters) = Waiting
    BY DEF Inv, TypeOK, QueueInv
  <2>2. CASE AcquireSlot(d)
    <3>1. waiters = <<>> /\ c = d
      BY <2>1, <2>2, BulkheadAssumption
      DEF AcquireSlot, Inv, TypeOK, QueuedOnlyWhenSaturated
    <3> QED BY <2>1, <2>2, <3>1 DEF AcquireSlot, Waiting
  <2>3. CASE Release(d)
    <3>1. waiters # <<>> /\ c = Head(waiters)
      BY <2>1, <2>3 DEF Release, HandOff
    <3>2. Head(waiters) \in ToSet(waiters)
      BY <3>1, TailRemovesHead DEF Inv, TypeOK, QueueInv
    <3> QED BY <3>1, <3>2
  <2>4. CASE ~AcquireSlot(d) /\ ~Release(d)
    <3>1. call'[c] # "permit"
      BY <2>1, <2>4 DEF Step, NewRequest, AcquireAborted, AcquireRefused, Enqueue,
         QueueTimeout, AbortQueued, AbortUnheard, Resume, Reject
    <3> QED BY <3>1
  <2> QED BY <2>2, <2>3, <2>4
<1> QED BY <1>1, AlwaysInv, PTL DEF Spec, FifoAdmission

=============================================================================

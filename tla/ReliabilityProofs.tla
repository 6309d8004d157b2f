--------------------------- MODULE ReliabilityProofs ---------------------------
(***************************************************************************)
(* The two mechanisms of app/features/platform/reliability.  The circuit   *)
(* breaker keeps its two safety promises for any number of threads, any    *)
(* threshold and any cooldown; idempotent() implements OnceStore for any   *)
(* number of attempts and bodies, through crashes and database errors,     *)
(* provided produce leaves nothing in the session when it raises.          *)
(***************************************************************************)
EXTENDS CircuitBreaker, Idempotency, TLAPS

------------------------------------------------------------------------------
(* The circuit breaker.                                                    *)

LEMMA InitBreaker == BreakerInit => BreakerInv
<1> SUFFICES ASSUME BreakerInit
             PROVE  BreakerInv
  OBVIOUS
<1>1. doomed \in [Thread -> BOOLEAN] /\ healthy \in BOOLEAN
  BY Zenon DEF BreakerInit
<1>2. /\ fails = 0 /\ openAge = NotOpened /\ probeAge = Cooldown /\ misled = {}
      /\ at \in [Thread -> {"idle", "reserve", "call", "probe"}]
      /\ callAge \in [Thread -> 0..Cooldown]
      /\ \A t \in Thread : at[t] = "idle" /\ callAge[t] = 0
  BY BreakerConstants DEF BreakerInit
<1>3. BreakerTypeOK
  BY <1>1, <1>2, BreakerConstants DEF BreakerTypeOK, NotOpened
<1>4. YoungProbesAreProtected /\ TrueReaders /\ OneProbeAtATime
  BY <1>2 DEF YoungProbesAreProtected, TrueReaders, OneProbeAtATime, Young
<1> QED
  BY <1>2, <1>3, <1>4, BreakerConstants DEF BreakerInv, TrippedIffFailing, NotOpened

\* Every step keeps the bounds on ages and counts, and the count and the circuit in
\* agreement.
LEMMA NextBreakerType ==
    ASSUME BreakerTypeOK, TrippedIffFailing, [BreakerNext]_circuit
    PROVE  BreakerTypeOK' /\ TrippedIffFailing'
<1> USE BreakerConstants
    DEF BreakerTypeOK, TrippedIffFailing, breaker, NotOpened
<1>1. CASE UNCHANGED circuit
  BY <1>1 DEF circuit
<1>2. ASSUME NEW t \in Thread, ReadState(t)
      PROVE  BreakerTypeOK' /\ TrippedIffFailing'
  BY <1>2 DEF ReadState, Enter
<1>3. ASSUME NEW t \in Thread, Reserve(t)
      PROVE  BreakerTypeOK' /\ TrippedIffFailing'
  <2>1. CASE ProbeFree /\ at' = [at EXCEPT ![t] = "probe"]
    <3>1. probeAge' \in 0..Cooldown /\ misled' \subseteq Thread
      BY <1>3 DEF Reserve
    <3>2. doomed' = [doomed EXCEPT ![t] = ~healthy] /\ healthy' = healthy
      BY <1>3, <2>1 DEF Reserve, Enter
    <3>3. doomed' \in [Thread -> BOOLEAN]
      BY <3>2, Zenon
    <3>4. at' \in [Thread -> {"idle", "reserve", "call", "probe"}]
      BY <2>1
    <3>5. UNCHANGED <<fails, openAge, callAge>>
      BY <1>3 DEF Reserve
    <3> QED
      BY <3>1, <3>2, <3>3, <3>4, <3>5
  <2>2. CASE ~ProbeFree
    BY <1>3, <2>2 DEF Reserve
  <2> QED
    BY <1>3, <2>1, <2>2 DEF Reserve, Enter
<1>4. ASSUME NEW t \in Thread, Report(t)
      PROVE  BreakerTypeOK' /\ TrippedIffFailing'
  <2>1. CASE RecordSuccess
    BY <1>4, <2>1 DEF Report, Leave, RecordSuccess
  <2>2. CASE RecordFailure
    BY <1>4, <2>2 DEF Report, Leave, RecordFailure
  <2> QED
    BY <1>4, <2>1, <2>2 DEF Report
<1>5. ASSUME NEW t \in Thread, Vanish(t)
      PROVE  BreakerTypeOK' /\ TrippedIffFailing'
  BY <1>5 DEF Vanish, Leave
<1>6. CASE Tick
  <2>1. Older(openAge) \in NotOpened..Cooldown
           /\ (Older(openAge) = NotOpened <=> openAge = NotOpened)
           /\ Older(probeAge) \in 0..Cooldown
    BY DEF Older
  <2>2. \A t \in Thread : Older(callAge[t]) \in 0..Cooldown
    BY DEF Older
  <2>3. callAge' \in [Thread -> 0..Cooldown]
    BY <1>6, <2>2 DEF Tick
  <2> QED
    BY <1>6, <2>1, <2>3 DEF Tick
<1>7. CASE Recover
  BY <1>7 DEF Recover
<1> QED
  BY <1>1, <1>2, <1>3, <1>4, <1>5, <1>6, <1>7 DEF BreakerNext

\* Every step keeps young probes protected, and lets no second one go to a thread
\* that looked after the last report.
LEMMA NextBreaker == BreakerInv /\ [BreakerNext]_circuit => BreakerInv'
<1> SUFFICES ASSUME BreakerInv, [BreakerNext]_circuit
             PROVE  BreakerInv'
  OBVIOUS
<1> DEFINE Resting == \A t \in Thread : at[t] # "probe" => callAge[t] = 0
<1>0. BreakerTypeOK' /\ TrippedIffFailing'
  BY NextBreakerType DEF BreakerInv
<1>a. BreakerTypeOK /\ TrippedIffFailing /\ YoungProbesAreProtected /\ TrueReaders /\ Resting
         /\ OneProbeAtATime
  BY DEF BreakerInv
<1> SUFFICES YoungProbesAreProtected' /\ TrueReaders' /\ Resting' /\ OneProbeAtATime'
  BY <1>0 DEF BreakerInv
<1> USE BreakerConstants
    DEF BreakerTypeOK, YoungProbesAreProtected, TrueReaders, OneProbeAtATime, Young,
        breaker, NotOpened
<1>1. CASE UNCHANGED circuit
  BY <1>1, <1>a DEF circuit
<1>2. ASSUME NEW t \in Thread, ReadState(t)
      PROVE  YoungProbesAreProtected' /\ TrueReaders' /\ Resting' /\ OneProbeAtATime'
  <2>1. UNCHANGED <<fails, openAge, probeAge, callAge, misled>>
    BY <1>2 DEF ReadState
  <2>2. /\ at[t] = "idle" /\ at'[t] # "probe"
        /\ at'[t] = "reserve" => openAge = Cooldown
        /\ \A u \in Thread \ {t} : at'[u] = at[u]
    BY <1>2, <1>a DEF ReadState, Enter, State
  <2> QED
    BY <1>a, <2>1, <2>2
<1>3. ASSUME NEW t \in Thread, Reserve(t)
      PROVE  YoungProbesAreProtected' /\ TrueReaders' /\ Resting' /\ OneProbeAtATime'
  <2>1. /\ UNCHANGED <<fails, openAge, callAge>> /\ at[t] = "reserve"
        /\ \A u \in Thread \ {t} : at'[u] = at[u]
    BY <1>3, <1>a DEF Reserve, Enter
  <2>2. CASE ProbeFree /\ at'[t] = "probe" /\ probeAge' = 0 /\ misled' = misled
    <3>1. \A u \in Thread \ {t} : Young(u) /\ t \notin misled => FALSE
      BY <1>a, <2>1, <2>2 DEF ProbeFree
    <3>2. callAge[t] = 0
      BY <1>a, <2>1
    <3>3. YoungProbesAreProtected'
      BY <1>a, <2>1, <2>2
    <3>4. OneProbeAtATime'
      BY <1>a, <2>1, <2>2, <3>1
    <3>5. TrueReaders' /\ Resting'
      BY <1>a, <2>1, <2>2
    <3> QED
      BY <3>3, <3>4, <3>5
  <2>3. CASE at'[t] = "idle" /\ misled' = misled \ {t} /\ probeAge' = probeAge
    BY <1>a, <2>1, <2>3
  <2> QED
    BY <1>3, <1>a, <2>2, <2>3 DEF Reserve, Enter
<1>4. ASSUME NEW t \in Thread, Report(t)
      PROVE  YoungProbesAreProtected' /\ TrueReaders' /\ Resting' /\ OneProbeAtATime'
  <2>1. /\ at'[t] = "idle" /\ callAge'[t] = 0
        /\ \A u \in Thread \ {t} : at'[u] = at[u] /\ callAge'[u] = callAge[u]
        /\ misled' = (misled \ {t}) \cup {u \in Thread : at[u] = "reserve"}
    BY <1>4, <1>a DEF Report, Leave
  <2>2. openAge' = NotOpened \/ openAge' = 0
    BY <1>4, <1>a DEF Report, RecordSuccess, RecordFailure, TrippedIffFailing
  <2>3. YoungProbesAreProtected'
    BY <1>a, <2>1, <2>2
  <2>4. TrueReaders' /\ Resting'
    BY <1>a, <2>1
  <2>5. OneProbeAtATime'
    BY <1>a, <2>1
  <2> QED
    BY <2>3, <2>4, <2>5
<1>5. ASSUME NEW t \in Thread, Vanish(t)
      PROVE  YoungProbesAreProtected' /\ TrueReaders' /\ Resting' /\ OneProbeAtATime'
  <2>1. /\ at'[t] = "idle" /\ callAge'[t] = 0
        /\ \A u \in Thread \ {t} : at'[u] = at[u] /\ callAge'[u] = callAge[u]
        /\ misled' = misled \ {t} /\ UNCHANGED <<fails, openAge, probeAge>>
    BY <1>5, <1>a DEF Vanish, Leave
  <2> QED
    BY <1>a, <2>1
<1>6. CASE Tick
  <2>1. /\ openAge' = Older(openAge) /\ probeAge' = Older(probeAge)
        /\ UNCHANGED <<at, misled>>
    BY <1>6 DEF Tick
  <2>2. \A u \in Thread : callAge'[u] = IF at[u] = "probe" THEN Older(callAge[u]) ELSE 0
    BY <1>6 DEF Tick
  <2>3. \A u \in Thread : Young(u)' => Young(u) /\ callAge'[u] = callAge[u] + 1
    BY <1>a, <2>1, <2>2 DEF Older
  <2>4. YoungProbesAreProtected'
    BY <1>a, <2>1, <2>3 DEF Older
  <2>5. TrueReaders' /\ Resting'
    BY <1>a, <2>1, <2>2 DEF Older
  <2>6. OneProbeAtATime'
    BY <1>a, <2>1, <2>3
  <2> QED
    BY <2>4, <2>5, <2>6
<1>7. CASE Recover
  BY <1>7, <1>a DEF Recover
<1> QED
  BY <1>1, <1>2, <1>3, <1>4, <1>5, <1>6, <1>7 DEF BreakerNext

\* The variables keep their types: ages and counts stay within their bounds.
THEOREM BreakerType == BreakerSpec => []BreakerTypeOK
<1>1. BreakerInv => BreakerTypeOK
  BY DEF BreakerInv
<1> QED
  BY <1>1, InitBreaker, NextBreaker, PTL DEF BreakerSpec

\* The circuit is away from closed exactly while Threshold failures stand.
THEOREM BreakerTripped == BreakerSpec => []TrippedIffFailing
<1>1. BreakerInv => TrippedIffFailing
  BY DEF BreakerInv
<1> QED
  BY <1>1, InitBreaker, NextBreaker, PTL DEF BreakerSpec

\* "Exactly one probe at a time" (reliability.py:156), whatever calls from before the
\* opening report meanwhile, except to a thread that looked before such a report.
THEOREM BreakerOneProbe == BreakerSpec => []OneProbeAtATime
<1>1. BreakerInv => OneProbeAtATime
  BY DEF BreakerInv
<1> QED
  BY <1>1, InitBreaker, NextBreaker, PTL DEF BreakerSpec

\* The whole inductive invariant of the breaker, the ages of openings, reservations
\* and probes included (_Breaker).
THEOREM BreakerInvariant == BreakerSpec => []BreakerInv
BY InitBreaker, NextBreaker, PTL DEF BreakerSpec

------------------------------------------------------------------------------
(* Idempotency keys.                                                       *)

LEMMA InitIdempotency == Init => IdempotencyInv
BY IdempotencyConstants
DEF Init, IdempotencyInv, TypeOK, OwnerInv, StoredInv, Absent, InFlight, Row

LEMMA NextIdempotency ==
    ASSUME ~PartialWork, IdempotencyInv, [Next]_vars
    PROVE  IdempotencyInv'
<1> USE IdempotencyConstants
    DEF IdempotencyInv, TypeOK, OwnerInv, StoredInv, InFlight, Goto, Return
<1>1. CASE UNCHANGED vars
  BY <1>1 DEF vars
<1>2. ASSUME NEW r \in Request, Lookup(r)
      PROVE  IdempotencyInv'
  <2>1. CASE row.status = "absent" /\ Goto(r, "absent") /\ UNCHANGED reply
    BY <1>2, <2>1 DEF Lookup
  <2>2. CASE Return(r, Conflict)
    BY <1>2, <2>2 DEF Lookup
  <2>3. CASE row.status = "done" /\ Return(r, row.stored)
    BY <1>2, <2>3 DEF Lookup, Row
  <2> QED
    BY <1>2, <2>1, <2>2, <2>3 DEF Lookup
<1>3. ASSUME NEW r \in Request, Claim(r)
      PROVE  IdempotencyInv'
  <2>1. CASE row.status = "absent"
    <3>1. /\ row' = Claimed(r)
          /\ pc' = [pc EXCEPT ![r] = "claimed"]
          /\ UNCHANGED <<reply, body, dirty, made, effect>>
      BY <1>3, <2>1 DEF Claim
    <3>2. \A u \in Request : ~InFlight(u)
      BY <2>1
    <3>3. row' \in Row
      BY <3>1 DEF Claimed, Row
    <3>4. pc' \in [Request -> {"start", "absent", "claimed", "produced", "raised", "over"}]
      BY <3>1
    <3>5. /\ row'.status = "in_progress" /\ row'.owner = r /\ row'.age = "fresh"
          /\ row'.body = body[r]
      BY <3>1 DEF Claimed
    <3>6. \A u \in Request \ {r} : pc'[u] = pc[u]
      BY <3>1
    <3>7. OwnerInv'
      <4>1. pc'[r] = "claimed" /\ pc[r] = "absent" /\ effect' = None
        BY <1>3, <2>1, <3>1 DEF Claim
      <4>2. \A u \in Request : reply'[u] = reply[u] /\ u \notin dirty'
        BY <3>1
      <4> QED
        BY <3>1, <3>2, <3>5, <3>6, <4>1, <4>2
    <3> QED
      BY <2>1, <3>1, <3>3, <3>4, <3>5, <3>7
  <2>2. CASE row.status # "absent"
    BY <1>3, <2>2 DEF Claim
  <2> QED
    BY <2>1, <2>2
<1>4. ASSUME NEW r \in Request, Produce(r)
      PROVE  IdempotencyInv'
  <2>1. effect = None /\ made = 0 /\ row.status = "in_progress" /\ row.owner = r
    BY <1>4 DEF Produce
  <2>2. /\ made' = 1 /\ effect' = body[r] /\ effect' # None
        /\ pc' = [pc EXCEPT ![r] = "produced"]
        /\ UNCHANGED <<row, body, dirty, reply>>
        /\ made' \in 0..MaxEffects
    BY <1>4, <2>1 DEF Produce, Publish
  <2>3. \A u \in Request \ {r} : ~InFlight(u) /\ pc'[u] = pc[u]
    BY <2>1, <2>2
  <2>4. OwnerInv'
    <3>1. pc'[r] = "produced" /\ pc[r] = "claimed" /\ row.age = "fresh"
      BY <1>4, <2>2 DEF Produce
    <3> QED
      BY <2>1, <2>2, <2>3, <3>1
  <2>5. TypeOK'
    BY <2>2
  <2>6. StoredInv'
    BY <2>1, <2>2
  <2> QED
    BY <2>4, <2>5, <2>6
<1>5. ASSUME NEW r \in Request, ProduceRaises(r)
      PROVE  IdempotencyInv'
  BY <1>5 DEF ProduceRaises
<1>6. ASSUME NEW r \in Request, Release(r)
      PROVE  IdempotencyInv'
  BY <1>6 DEF Release, Absent, Row
<1>7. ASSUME NEW r \in Request, ReleaseFails(r)
      PROVE  IdempotencyInv'
  BY <1>7 DEF ReleaseFails
<1>8. ASSUME NEW r \in Request, Record(r)
      PROVE  IdempotencyInv'
  BY <1>8 DEF Record, Row
<1>9. ASSUME NEW r \in Request, RecordFails(r)
      PROVE  IdempotencyInv'
  BY <1>9 DEF RecordFails
<1>10. ASSUME NEW r \in Request, Crash(r)
      PROVE  IdempotencyInv'
  BY <1>10 DEF Crash
<1>11. CASE DayPasses
  BY <1>11 DEF DayPasses, Row
<1>12. CASE Purge
  <2>1. \A u \in Request : ~InFlight(u)
    BY <1>12 DEF Purge
  <2> QED
    BY <1>12, <2>1 DEF Purge, Absent, Row
<1> QED
  BY <1>1, <1>2, <1>3, <1>4, <1>5, <1>6, <1>7, <1>8, <1>9, <1>10, <1>11, <1>12
  DEF Next

\* A step of the implementation is a step of OnceStore or leaves its variables
\* alone: creating the vendor is Execute, an answer with a result is Answer, a
\* conflict or an error is TurnAway, and the purge is Forget.
LEMMA StepImplementsOnce ==
    ASSUME ~PartialWork, IdempotencyInv, [Next]_vars
    PROVE  [Once!Next]_<<body, effect, reply>>
<1> USE IdempotencyConstants
    DEF IdempotencyInv, TypeOK, OwnerInv, StoredInv, Goto, Return
<1> USE DEF Once!Next, Once!Execute, Once!Answer, Once!TurnAway, Once!Forget
<1>1. CASE UNCHANGED vars
  BY <1>1 DEF vars
<1>2. ASSUME NEW r \in Request, Lookup(r)
      PROVE  [Once!Next]_<<body, effect, reply>>
  <2>1. reply[r] = None /\ effect' = effect /\ body' = body
    BY <1>2 DEF Lookup
  <2>2. CASE UNCHANGED reply
    BY <2>1, <2>2
  <2>3. CASE reply' = [reply EXCEPT ![r] = Conflict]
    BY <2>1, <2>3
  <2>4. CASE /\ row.status = "done" /\ row.body = body[r]
             /\ reply' = [reply EXCEPT ![r] = row.stored]
    <3>1. effect = body[r] /\ reply' = [reply EXCEPT ![r] = effect]
      BY <2>4
    <3> QED
      BY <2>1, <3>1
  <2> QED
    BY <1>2, <2>2, <2>3, <2>4 DEF Lookup
<1>3. ASSUME NEW r \in Request, Claim(r)
      PROVE  [Once!Next]_<<body, effect, reply>>
  <2>1. reply[r] = None /\ effect' = effect /\ body' = body
    BY <1>3 DEF Claim
  <2> QED
    BY <1>3, <2>1 DEF Claim
<1>4. ASSUME NEW r \in Request, Produce(r)
      PROVE  [Once!Next]_<<body, effect, reply>>
  BY <1>4 DEF Produce, Publish
<1>5. ASSUME NEW r \in Request, ProduceRaises(r) \/ Crash(r)
      PROVE  [Once!Next]_<<body, effect, reply>>
  BY <1>5 DEF ProduceRaises, Crash
<1>6. ASSUME NEW r \in Request, Release(r) \/ ReleaseFails(r)
      PROVE  [Once!Next]_<<body, effect, reply>>
  <2>1. /\ reply[r] = None /\ effect' = effect /\ body' = body
        /\ reply' = [reply EXCEPT ![r] = Error]
    BY <1>6 DEF Release, ReleaseFails
  <2> QED
    BY <2>1
<1>7. ASSUME NEW r \in Request, Record(r) \/ RecordFails(r)
      PROVE  [Once!Next]_<<body, effect, reply>>
  <2>1. /\ effect = body[r] /\ effect # None /\ reply[r] = None
        /\ effect' = effect /\ body' = body /\ reply' = [reply EXCEPT ![r] = effect]
    BY <1>7 DEF Record, RecordFails
  <2> QED
    BY <2>1
<1>8. CASE DayPasses
  BY <1>8 DEF DayPasses
<1>9. CASE Purge
  BY <1>9 DEF Purge
<1> QED
  BY <1>1, <1>2, <1>3, <1>4, <1>5, <1>6, <1>7, <1>8, <1>9 DEF Next

\* The idempotency key keeps the promise of OnceStore: one effect while the key is
\* remembered, and no client is given any other result.
THEOREM IdempotencyImplementsOnce ==
    ASSUME ~PartialWork
    PROVE  Spec => ImplementsOnce
<1>1. Init => Once!Init
  BY DEF Init, Once!Init
<1>2. Init => IdempotencyInv
  BY InitIdempotency
<1>3. IdempotencyInv /\ [Next]_vars => IdempotencyInv'
  BY NextIdempotency
<1>4. IdempotencyInv /\ [Next]_vars => [Once!Next]_<<body, effect, reply>>
  BY StepImplementsOnce
<1> QED
  BY <1>1, <1>2, <1>3, <1>4, PTL DEF Spec, ImplementsOnce, Once!Spec

\* While the key is remembered one vendor at most is committed for it.
THEOREM IdempotencyAtMostOnce ==
    ASSUME ~PartialWork
    PROVE  Spec => []AtMostOneVendor
<1>1. IdempotencyInv => AtMostOneVendor
  BY DEF IdempotencyInv, StoredInv, AtMostOneVendor
<1>2. IdempotencyInv /\ [Next]_vars => IdempotencyInv'
  BY NextIdempotency
<1> QED
  BY <1>1, <1>2, InitIdempotency, PTL DEF Spec

\* The attempt that owns the key runs alone and a stored result is the one that
\* took effect, through crashes and database errors (idempotent()).
THEOREM IdempotencyInvariant ==
    ASSUME ~PartialWork
    PROVE  Spec => []IdempotencyInv
<1>1. IdempotencyInv /\ [Next]_vars => IdempotencyInv'
  BY NextIdempotency
<1> QED
  BY <1>1, InitIdempotency, PTL DEF Spec
==============================================================================

---------------------------- MODULE CircuitBreaker ----------------------------
(***************************************************************************)
(* The per-dependency circuit breaker of app/features/platform/reliability:*)
(* one _Breaker object shared by the threads that call one dependency      *)
(* through call_protected, or as the model gateway does (allow before the  *)
(* request, record after it, app/agents/llm_config.py:393).                *)
(*                                                                         *)
(* Its lock is taken three times on the way of a call: once by state(),    *)
(* once more by allow() when the state it read was half-open, and once by  *)
(* record() after the call.  Anything may happen in between.               *)
(*                                                                         *)
(* Time is only ever compared with the cooldown, so the model keeps ages   *)
(* that stop at Cooldown instead of time stamps; probe_at = 0.0, the       *)
(* distant past, is the age Cooldown.  The failure count is only compared  *)
(* with the threshold and stops there.                                     *)
(***************************************************************************)
EXTENDS Integers, FiniteSets

CONSTANTS
    Thread,     \* threads that call the dependency
    Threshold,  \* consecutive failures that open the circuit
    Cooldown    \* clock ticks an open circuit waits before it lets a probe go

ASSUME BreakerConstants ==
    /\ Threshold \in Nat \ {0}
    /\ Cooldown \in Nat \ {0}

VARIABLES
    fails,      \* consecutive failures, up to Threshold
    openAge,    \* ticks since opened_at, up to Cooldown; NotOpened if 0.0
    probeAge,   \* ticks since probe_at, up to Cooldown
    at,         \* where each thread is in call_protected
    callAge,    \* ticks since a thread's probe was granted, up to Cooldown
    doomed,     \* the thread's call began while the dependency was down
    healthy,    \* the dependency answers
    misled      \* history: threads between their two looks at the breaker, or in the
                \* probe they got, past whose first look a call has reported

breaker == <<fails, openAge, probeAge>>
circuit == <<breaker, at, callAge, doomed, healthy, misled>>

NotOpened == -1

BreakerTypeOK ==
    /\ fails \in 0..Threshold
    /\ openAge \in NotOpened..Cooldown
    /\ probeAge \in 0..Cooldown
    /\ at \in [Thread -> {"idle", "reserve", "call", "probe"}]
    /\ callAge \in [Thread -> 0..Cooldown]
    /\ doomed \in [Thread -> BOOLEAN]
    /\ healthy \in BOOLEAN
    /\ misled \subseteq Thread

BreakerInit ==
    /\ fails = 0
    /\ openAge = NotOpened
    /\ probeAge = Cooldown
    /\ at = [t \in Thread |-> "idle"]
    /\ callAge = [t \in Thread |-> 0]
    /\ doomed = [t \in Thread |-> FALSE]
    /\ healthy = FALSE
    /\ misled = {}

Older(age) == IF age = NotOpened \/ age = Cooldown THEN age ELSE age + 1

\* state(), read under the lock.
State ==
    IF openAge = NotOpened THEN "closed"
    ELSE IF openAge = Cooldown THEN "half_open" ELSE "open"

------------------------------------------------------------------------------
\* The protected function is entered.
Enter(t, as) ==
    /\ at' = [at EXCEPT ![t] = as]
    /\ doomed' = [doomed EXCEPT ![t] = ~healthy]

\* allow(), first half: closed lets the call through, open turns it away, and
\* half-open goes on to ask for the probe, after the lock was released.
ReadState(t) ==
    /\ at[t] = "idle"
    /\ \/ State = "closed" /\ Enter(t, "call")
       \/ State = "half_open" /\ at' = [at EXCEPT ![t] = "reserve"] /\ UNCHANGED doomed
       \/ State = "open" /\ UNCHANGED <<at, doomed>>
    /\ UNCHANGED <<breaker, callAge, healthy, misled>>

\* allow(), second half: the reservation, free again one cooldown after it was
\* made.  The state read before is not read again.
NoReservation == TRUE
ProbeFree == probeAge >= Cooldown

Reserve(t) ==
    /\ at[t] = "reserve"
    /\ \/ /\ ProbeFree
          /\ probeAge' = 0
          /\ Enter(t, "probe")
          /\ UNCHANGED misled
       \/ /\ ~ProbeFree
          /\ at' = [at EXCEPT ![t] = "idle"]
          /\ misled' = misled \ {t}
          /\ UNCHANGED <<probeAge, doomed>>
    /\ UNCHANGED <<fails, openAge, callAge, healthy>>

\* The thread is out of the protected function.
Leave(t) ==
    /\ at[t] \in {"call", "probe"}
    /\ at' = [at EXCEPT ![t] = "idle"]
    /\ callAge' = [callAge EXCEPT ![t] = 0]
    /\ doomed' = [doomed EXCEPT ![t] = FALSE]
    /\ UNCHANGED healthy

\* record(True) and record(False), under the lock.  Both free the reservation.
RecordSuccess == fails' = 0 /\ openAge' = NotOpened

LateTrip ==
    /\ fails' = IF fails < Threshold THEN fails + 1 ELSE fails
    /\ openAge' = IF fails >= Threshold THEN 0 ELSE openAge
FirstOpening ==
    /\ fails' = IF fails < Threshold THEN fails + 1 ELSE fails
    /\ openAge' = IF fails < Threshold /\ fails' >= Threshold THEN 0 ELSE openAge
RecordFailure ==
    /\ fails' = IF fails < Threshold THEN fails + 1 ELSE fails
    /\ openAge' = IF fails' >= Threshold THEN 0 ELSE openAge

\* The call came back, or raised.  One that began before the dependency
\* recovered may still fail after it.
Report(t) ==
    /\ Leave(t)
    /\ probeAge' = Cooldown
    /\ misled' = (misled \ {t}) \cup {u \in Thread : at[u] = "reserve"}
    /\ RecordSuccess \/ (doomed[t] /\ RecordFailure)

\* record() is never reached: the calling thread is torn down inside the call
\* (something other than an Exception was raised), or the model gateway got an
\* empty answer and goes on to the next provider (llm_config.py:421).
Vanish(t) ==
    /\ doomed[t]
    /\ Leave(t)
    /\ misled' = misled \ {t}
    /\ UNCHANGED breaker

\* The clock moves on.  A reservation as old as the cooldown has expired.
LastingReservation ==
    /\ openAge' = Older(openAge)
    /\ callAge' = [t \in Thread |-> IF at[t] = "probe" THEN Older(callAge[t]) ELSE 0]
    /\ UNCHANGED <<fails, probeAge, at, doomed, healthy, misled>>
Tick ==
    /\ openAge' = Older(openAge)
    /\ probeAge' = Older(probeAge)
    /\ callAge' = [t \in Thread |-> IF at[t] = "probe" THEN Older(callAge[t]) ELSE 0]
    /\ UNCHANGED <<fails, at, doomed, healthy, misled>>

\* The environment: the dependency comes back for good.
Recover ==
    /\ ~healthy
    /\ healthy' = TRUE
    /\ UNCHANGED <<breaker, at, callAge, doomed, misled>>

BreakerNext ==
    \/ \E t \in Thread : ReadState(t) \/ Reserve(t) \/ Report(t) \/ Vanish(t)
    \/ Tick
    \/ Recover

BreakerSpec == BreakerInit /\ [][BreakerNext]_circuit

\* Time passes, threads keep calling, and a call that was entered comes back:
\* the clients behind the breaker all carry request time-outs.
FairSpec ==
    /\ BreakerSpec
    /\ WF_circuit(Tick)
    /\ \A t \in Thread :
         WF_circuit(ReadState(t)) /\ WF_circuit(Reserve(t)) /\ WF_circuit(Report(t))

------------------------------------------------------------------------------
(***************************************************************************)
(* Properties.                                                             *)
(***************************************************************************)

\* The circuit is away from closed exactly while Threshold consecutive failures
\* stand against the dependency, whichever threads report in which order; the
\* operator view breaker_states() shows the two side by side.
TrippedIffFailing == openAge # NotOpened <=> fails >= Threshold

\* "Exactly one probe at a time" (reliability.py:156): while a probe is out that is
\* younger than the cooldown, no other is let go, whatever calls from before the
\* circuit opened report meanwhile.  Excepted: a thread that had read "half-open" before
\* such a report and asks for its probe after it, since allow() does not look again.
Young(t) == at[t] = "probe" /\ callAge[t] < Cooldown

OneProbeAtATime ==
    \A t, u \in Thread :
        t # u /\ Young(t) /\ Young(u) => t \in misled \/ u \in misled

\* What keeps it so.  A young probe is protected by the reservation; a report ends the
\* reservation, but it also closes the circuit or starts the cooldown again, so nobody
\* who looks afterwards finds the circuit half-open before the probe is old.
YoungProbesAreProtected ==
    \A t \in Thread :
        Young(t) => probeAge <= callAge[t] \/ openAge = NotOpened \/ openAge <= callAge[t]
TrueReaders == \A t \in Thread : at[t] = "reserve" /\ t \notin misled => openAge = Cooldown
BreakerInv ==
    /\ BreakerTypeOK
    /\ TrippedIffFailing
    /\ YoungProbesAreProtected
    /\ TrueReaders
    /\ \A t \in Thread : at[t] # "probe" => callAge[t] = 0
    /\ OneProbeAtATime

\* Once the dependency answers again the circuit closes for good, although
\* probes before that may have vanished without a report and calls from before
\* that may still report failures.
ClosesAfterRecovery == healthy ~> [](openAge = NotOpened)
==============================================================================

------------------------------- MODULE OnceStore -------------------------------
(***************************************************************************)
(* What an idempotency key promises, for one key: while the key is         *)
(* remembered, the operation behind it takes effect once, and every client *)
(* that is given a result asked for just that execution and is given its   *)
(* result.                                                                 *)
(***************************************************************************)
CONSTANTS
    Request,   \* attempts that carry the key
    Body,      \* request bodies; a result is named by the body it came from
    None,      \* nothing has happened yet
    Conflict,  \* the answer to an attempt that was turned away
    Error      \* the answer to an attempt whose execution raised

VARIABLES
    body,      \* what each attempt asks for
    effect,    \* the body the operation took effect with, or None
    reply      \* what each attempt was answered

Init ==
    /\ body \in [Request -> Body]
    /\ effect = None
    /\ reply = [r \in Request |-> None]

Execute ==
    /\ effect = None
    /\ effect' \in Body
    /\ UNCHANGED <<body, reply>>

Answer(r) ==
    /\ effect = body[r]
    /\ reply[r] = None
    /\ reply' = [reply EXCEPT ![r] = effect]
    /\ UNCHANGED <<body, effect>>

TurnAway(r) ==
    /\ reply[r] = None
    /\ \E why \in {Conflict, Error} : reply' = [reply EXCEPT ![r] = why]
    /\ UNCHANGED <<body, effect>>

\* The key is forgotten after its time to live.
Forget ==
    /\ effect' = None
    /\ UNCHANGED <<body, reply>>

Next == Execute \/ Forget \/ \E r \in Request : Answer(r) \/ TurnAway(r)

Spec == Init /\ [][Next]_<<body, effect, reply>>
==============================================================================

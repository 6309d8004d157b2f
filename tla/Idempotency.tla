------------------------------ MODULE Idempotency ------------------------------
(***************************************************************************)
(* idempotent() of app/features/platform/reliability, as POST              *)
(* /api/v2/vendors calls it: attempts that carry one Idempotency-Key (and  *)
(* one actor and route) against the row of that key in idempotency_keys.   *)
(*                                                                         *)
(* Each attempt is one request thread with one database session.  The      *)
(* claim, the operation and the record of its result are three             *)
(* transactions of that session, so other attempts, errors and a crash     *)
(* come between them.  produce() is create_vendor, audit and a commit.     *)
(***************************************************************************)
EXTENDS Integers

CONSTANTS
    Request, Body, None, Conflict, Error,
    Crashes,        \* the process may die between two transactions
    DbErrors,       \* a database error may leave the session unusable
    PartialWork,    \* produce may raise with rows flushed and not rolled back
    MaxEffects      \* bound: vendors created for one key

ASSUME IdempotencyConstants ==
    /\ Crashes \in BOOLEAN /\ DbErrors \in BOOLEAN /\ PartialWork \in BOOLEAN
    /\ MaxEffects \in Nat
    /\ None \notin Body \cup Request \cup {Conflict, Error}
    /\ Conflict \notin Body /\ Error \notin Body

VARIABLES
    row,      \* the key's row: status, request body, result; who wrote it, age
    pc,       \* where each attempt is
    body,     \* the request body of each attempt
    dirty,    \* attempts whose session holds flushed, uncommitted vendor rows
    reply,    \* what each attempt was answered
    made,     \* vendors committed for the key since it was last forgotten
    effect    \* history: the body of the first of them

vars == <<row, pc, body, dirty, reply, made, effect>>

\* "absent" is no row; an expired row is older than _IDEM_TTL_SECONDS.
Row == [status: {"absent", "in_progress", "done"}, body: Body \cup {None},
        stored: Body \cup {None}, owner: Request \cup {None},
        age: {"fresh", "expired"}]
Absent == [status |-> "absent", body |-> None, stored |-> None, owner |-> None,
           age |-> "fresh"]
Claimed(r) == [status |-> "in_progress", body |-> body[r], stored |-> None,
               owner |-> r, age |-> "fresh"]

TypeOK ==
    /\ row \in Row
    /\ pc \in [Request -> {"start", "absent", "claimed", "produced", "raised", "over"}]
    /\ body \in [Request -> Body]
    /\ dirty \subseteq Request
    /\ reply \in [Request -> Body \cup {None, Conflict, Error}]
    /\ made \in 0..MaxEffects
    /\ effect \in Body \cup {None}

Init ==
    /\ row = Absent
    /\ pc = [r \in Request |-> "start"]
    /\ body \in [Request -> Body]
    /\ dirty = {}
    /\ reply = [r \in Request |-> None]
    /\ made = 0
    /\ effect = None

------------------------------------------------------------------------------
Goto(r, where) == pc' = [pc EXCEPT ![r] = where]
Return(r, answer) ==
    /\ Goto(r, "over")
    /\ reply' = [reply EXCEPT ![r] = answer]

\* A commit of r's session publishes the vendor rows it holds.
Publish(r) ==
    /\ made < MaxEffects
    /\ made' = made + 1
    /\ effect' = IF effect = None THEN body[r] ELSE effect

\* The SELECT without the comparison of request_hash.
BodyBlindLookup(r) ==
    /\ pc[r] = "start"
    /\ \/ row.status = "absent" /\ Goto(r, "absent") /\ UNCHANGED reply
       \/ row.status = "in_progress" /\ Return(r, Conflict)
       \/ row.status = "done" /\ Return(r, row.stored)
    /\ UNCHANGED <<row, body, dirty, made, effect>>
\* The SELECT: a row answers the attempt, no row sends it on to claim the key.
Lookup(r) ==
    /\ pc[r] = "start"
    /\ \/ row.status = "absent" /\ Goto(r, "absent") /\ UNCHANGED reply
       \/ /\ row.status # "absent"
          /\ row.body # body[r] \/ row.status = "in_progress"
          /\ Return(r, Conflict)
       \/ row.status = "done" /\ row.body = body[r] /\ Return(r, row.stored)
    /\ UNCHANGED <<row, body, dirty, made, effect>>

\* The INSERT as an upsert, which no row refuses.
UpsertClaim(r) ==
    /\ pc[r] = "absent"
    /\ row' = Claimed(r)
    /\ Goto(r, "claimed")
    /\ UNCHANGED <<body, dirty, reply, made, effect>>
\* The INSERT and its commit.  The primary key refuses a second claim.
Claim(r) ==
    /\ pc[r] = "absent"
    /\ \/ /\ row.status = "absent"
          /\ row' = Claimed(r)
          /\ Goto(r, "claimed")
          /\ UNCHANGED reply
       \/ row.status # "absent" /\ Return(r, Conflict) /\ UNCHANGED row
    /\ UNCHANGED <<body, dirty, made, effect>>

\* produce() returns: the vendor and its audit entry are committed.
Produce(r) ==
    /\ pc[r] = "claimed"
    /\ Publish(r)
    /\ Goto(r, "produced")
    /\ UNCHANGED <<row, body, dirty, reply>>

\* produce() raises: nothing is committed yet, but no rollback is done either,
\* and what was flushed is still in the session's open transaction.
ProduceRaises(r) ==
    /\ pc[r] = "claimed"
    /\ Goto(r, "raised")
    /\ dirty' = dirty \/ (PartialWork /\ dirty' = dirty \cup {r})
    /\ UNCHANGED <<row, body, reply, made, effect>>

\* The handler of the exception: DELETE the key and commit, then raise again.
\* The commit takes along what produce had flushed.
Release(r) ==
    /\ pc[r] = "raised"
    /\ row' = Absent
    /\ IF r \in dirty THEN Publish(r) ELSE UNCHANGED <<made, effect>>
    /\ dirty' = dirty \ {r}
    /\ Return(r, Error)
    /\ UNCHANGED body

\* A database error inside produce leaves the session unusable until a rollback;
\* the DELETE fails too, which is swallowed.
ReleaseFails(r) ==
    /\ DbErrors
    /\ pc[r] = "raised"
    /\ dirty' = dirty \ {r}
    /\ Return(r, Error)
    /\ UNCHANGED <<row, body, made, effect>>

\* The result is stored under the key, in whatever row the key now has; a
\* failure to store it is swallowed.
Record(r) ==
    /\ pc[r] = "produced"
    /\ row' = IF row.status = "absent" THEN row
              ELSE [row EXCEPT !.status = "done", !.stored = body[r]]
    /\ Return(r, body[r])
    /\ UNCHANGED <<body, dirty, made, effect>>

RecordFails(r) ==
    /\ DbErrors
    /\ pc[r] = "produced"
    /\ Return(r, body[r])
    /\ UNCHANGED <<row, body, dirty, made, effect>>

\* The process dies: the session rolls back and nobody is answered.
Crash(r) ==
    /\ Crashes
    /\ pc[r] \in {"absent", "claimed", "produced", "raised"}
    /\ Goto(r, "over")
    /\ dirty' = dirty \ {r}
    /\ UNCHANGED <<row, body, reply, made, effect>>

\* A day passes.  No attempt runs for a day.
InFlight(r) == pc[r] \in {"claimed", "produced", "raised"}
DayPasses ==
    /\ row.status # "absent" /\ row.age = "fresh"
    /\ \A r \in Request : ~InFlight(r)
    /\ row' = [row EXCEPT !.age = "expired"]
    /\ UNCHANGED <<pc, body, dirty, reply, made, effect>>

\* A request with another key completes and deletes the expired rows, those
\* still in progress among them.
Purge ==
    /\ row.age = "expired"
    /\ row' = Absent
    /\ made' = 0 /\ effect' = None
    /\ UNCHANGED <<pc, body, dirty, reply>>

Next ==
    \/ \E r \in Request :
          \/ Lookup(r) \/ Claim(r)
          \/ Produce(r) \/ ProduceRaises(r)
          \/ Release(r) \/ ReleaseFails(r)
          \/ Record(r) \/ RecordFails(r) \/ Crash(r)
    \/ DayPasses
    \/ Purge

Spec == Init /\ [][Next]_vars

------------------------------------------------------------------------------
(***************************************************************************)
(* Properties.                                                             *)
(***************************************************************************)

\* The key's promise, as OnceStore states it: errors of the database and crashes
\* between any two transactions cost answers, never a second vendor.
Once == INSTANCE OnceStore WITH body <- body, effect <- effect, reply <- reply
ImplementsOnce == Once!Spec

\* "Run produce at most once for a given (key, actor, route)": one vendor at most
\* is committed for the key while it is remembered.
AtMostOneVendor == made <= 1

(***************************************************************************)
(* Why the promise is kept when produce leaves nothing behind as it raises:*)
(* the attempt that is between claim and record owns the row, so there is  *)
(* one such attempt, it runs with nothing committed for the key, and a     *)
(* stored result is the one that took effect.                              *)
(***************************************************************************)
OwnerInv ==
    \A r \in Request :
        /\ InFlight(r) => /\ row.status = "in_progress"
                          /\ row.owner = r
                          /\ row.age = "fresh"
        /\ pc[r] \in {"claimed", "raised"} => effect = None
        /\ pc[r] = "produced" => effect = body[r]
        /\ pc[r] # "over" => reply[r] = None
        /\ r \notin dirty
        /\ row.owner = r => row.body = body[r]

StoredInv ==
    /\ row.status = "absent" => effect = None
    /\ row.status = "done" => effect = row.stored /\ row.stored \in Body
                              /\ row.stored = row.body
    /\ made = IF effect = None THEN 0 ELSE 1

IdempotencyInv == TypeOK /\ OwnerInv /\ StoredInv
==============================================================================

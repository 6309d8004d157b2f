--------------------------- MODULE FindingRegister ---------------------------
(***************************************************************************)
(* Findings: how their numbers are minted, and how an engagement's count   *)
(* of open actions follows them.                                           *)
(*                                                                         *)
(* The database is SQLite.  A transaction takes the write lock at its first*)
(* UPDATE, INSERT or DELETE and keeps it; what a request reads before that *)
(* may be stale by then.  So a request that reads first has two steps,     *)
(* Load... and its commit, and one that writes first is one step.          *)
(*                                                                         *)
(* Columns that neither a number nor the count depends on (texts, dates,   *)
(* notes, attachments, risk acceptance, severity) are left out.            *)
(***************************************************************************)
EXTENDS Integers, FiniteSets

CONSTANTS
    Session,     \* requests being served
    Engagement,
    None,        \* no engagement
    MaxId        \* bound: the highest number minted

ASSUME RegisterConstants ==
    /\ None \notin Engagement
    /\ MaxId \in Nat \ {0}

VARIABLES
    find,      \* finding records, by number
    counter,   \* id_counters.last_seq of the entity "finding"
    rollup,    \* open_actions of each engagement
    req,       \* requests that have read and not yet written
    minted,    \* history: numbers ever committed
    reused,    \* history: the number of a deleted finding was minted again
    misread    \* history: engagements last rolled up from something stale

vars == <<find, counter, rollup, req, minted, reused, misread>>

Id == 1..MaxId

\* "Draft" stands for Draft and Published, "Active" for every other status but
\* Closed, in whatever spelling.
Status == {"Draft", "Active", "Closed"}
FindingRecord == [eng: Engagement \cup {None}, status: Status, planned: {"no", "yes"}]
Absent == [eng |-> None, status |-> "none", planned |-> "no"]

Unread == -1
Count == Unread..MaxId
Idle == [op |-> "idle"]
Collided == [op |-> "collided"]
Creation == [op: {"create", "add"}, id: Id, eng: Engagement \cup {None}, status: Status]
Change == [op: {"update"}, id: Id, from: Status, to: Status, counted: Count, seen: Count]
Planning == [op: {"plan"}, id: Id, from: Status]

Present == {i \in Id : find[i] # Absent}
Open(register, e) ==
    Cardinality({i \in Id : register[i].eng = e /\ register[i].status \notin {"Closed", "none"}})

TypeOK ==
    /\ find \in [Id -> FindingRecord \cup {Absent}]
    /\ counter \in 0..MaxId
    /\ rollup \in [Engagement -> 0..MaxId]
    /\ req \in [Session -> Creation \cup Change \cup Planning \cup {Idle, Collided}]
    /\ Present \subseteq minted /\ minted \subseteq Id
    /\ reused \in {"no", "yes"}
    /\ misread \subseteq Engagement

Init ==
    /\ find = [i \in Id |-> Absent]
    /\ counter = 0
    /\ rollup = [e \in Engagement |-> 0]
    /\ req = [t \in Session |-> Idle]
    /\ minted = {} /\ reused = "no" /\ misread = {}

\* _recompute_open_actions, on what the transaction sees; no engagement, no rollup.
NoRecompute(register, e) == UNCHANGED <<rollup, misread>>  \* wrong: no recount
Recompute(register, e) ==
    IF e = None THEN UNCHANGED <<rollup, misread>>
    ELSE /\ rollup' = [rollup EXCEPT ![e] = Open(register, e)]
         /\ misread' = misread \ {e}

Read(t, r) ==
    /\ req[t] = Idle
    /\ req' = [req EXCEPT ![t] = r]
    /\ UNCHANGED <<find, counter, rollup, minted, reused, misread>>

Done(t) == req' = [req EXCEPT ![t] = Idle]

------------------------------------------------------------------------------
\* next_id reads the counter before it writes it.  "create" is create_finding;
\* "add" is register_proassess and raise_performance_capa, which add a finding
\* without counting it.
LoadCounter(t, op, e, status) ==
    /\ counter < MaxId
    /\ Read(t, [op |-> op, id |-> counter + 1, eng |-> e, status |-> status])

\* The UPDATE stores the number read plus one; the INSERT fails, and with it the
\* request, when that number is taken: finding_id is unique.
Anything(i) == TRUE   \* wrong: no unique constraint
Free(i) == find[i] = Absent
Create(t) ==
    LET r == req[t]
        register == [find EXCEPT ![r.id] = [eng |-> r.eng, status |-> r.status, planned |-> "no"]]
    IN  /\ r.op \in {"create", "add"}
        /\ Free(r.id)
        /\ find' = register
        /\ counter' = r.id
        /\ minted' = minted \cup {r.id}
        /\ reused' = IF r.id \in minted \ Present THEN "yes" ELSE reused
        /\ IF r.op = "create" THEN Recompute(register, r.eng) ELSE UNCHANGED <<rollup, misread>>
        /\ Done(t)

Collide(t) ==
    /\ req[t].op \in {"create", "add"} /\ ~Free(req[t].id)
    /\ req' = [req EXCEPT ![t] = Collided]
    /\ UNCHANGED <<find, counter, rollup, minted, reused, misread>>

------------------------------------------------------------------------------
\* PUT /v2/findings/{fid} loads the finding, and for an assessor who is not named
\* on it the engagement too (_assessor_owns): the session keeps that row, and the
\* rollup is compared with it later.  A request that changes no column writes
\* nothing before it counts.
LoadUpdate(t, i, to) ==
    LET f == find[i]
        seenValues == IF f.eng = None THEN {Unread} ELSE {Unread, rollup[f.eng]}
    IN  /\ f # Absent
        /\ \E seen \in seenValues :
             Read(t, [op |-> "update", id |-> i, from |-> f.status, to |-> to, seen |-> seen,
                      counted |-> IF f.status = to /\ f.eng # None THEN Open(find, f.eng) ELSE Unread])

\* An open_actions equal to the one in the loaded row is not written.
Update(t) ==
    LET r == req[t]
        e == find[r.id].eng
        register == IF r.from = r.to THEN find ELSE [find EXCEPT ![r.id].status = r.to]
        n == IF r.counted = Unread THEN Open(register, e) ELSE r.counted
        stale == (r.seen # Unread /\ r.seen # rollup[e]) \/ n # Open(register, e)
    IN  /\ r.op = "update" /\ find[r.id] # Absent
        /\ find' = register
        /\ IF e = None
             THEN UNCHANGED <<rollup, misread>>
             ELSE /\ rollup' = [rollup EXCEPT ![e] = IF r.seen = n THEN @ ELSE n]
                  /\ misread' = IF stale THEN misread \cup {e} ELSE misread \ {e}
        /\ Done(t)
        /\ UNCHANGED <<counter, minted, reused>>

\* DELETE /v2/findings/{fid}
Delete(i) ==
    LET register == [find EXCEPT ![i] = Absent]
    IN  /\ find[i] # Absent
        /\ find' = register
        /\ Recompute(register, find[i].eng)
        /\ UNCHANGED <<counter, req, minted, reused>>

------------------------------------------------------------------------------
\* POST /v2/remediations: the finding goes to remediation, from any status, and
\* is not counted again.
CreateRemediation(i) ==
    /\ find[i] # Absent
    /\ find' = [find EXCEPT ![i].status = "Active", ![i].planned = "yes"]
    /\ UNCHANGED <<counter, rollup, req, minted, reused, misread>>

\* POST /v2/findings/{fid}/remediation: a plan is made if there is none yet, and
\* only a draft changes its status.
LoadPlan(t, i) ==
    /\ find[i] # Absent /\ find[i].planned = "no"
    /\ Read(t, [op |-> "plan", id |-> i, from |-> find[i].status])
Plan(t) ==
    LET r == req[t]
    IN  /\ r.op = "plan" /\ find[r.id] # Absent
        /\ find' = [find EXCEPT ![r.id].planned = "yes",
                                ![r.id].status = IF r.from = "Draft" THEN "Active" ELSE @]
        /\ Done(t)
        /\ UNCHANGED <<counter, rollup, minted, reused, misread>>

\* The request fails, because its row is gone or for another reason, or its error
\* was reported.
Fail(t) ==
    /\ req[t] # Idle
    /\ Done(t)
    /\ UNCHANGED <<find, counter, rollup, minted, reused, misread>>

Next ==
    \/ \E t \in Session, op \in {"create", "add"}, e \in Engagement \cup {None}, status \in Status :
          /\ op = "add" => status = "Active"
          /\ LoadCounter(t, op, e, status)
    \/ \E t \in Session : Create(t) \/ Collide(t) \/ Update(t) \/ Plan(t) \/ Fail(t)
    \/ \E t \in Session, i \in Id : LoadPlan(t, i) \/ \E to \in Status : LoadUpdate(t, i, to)
    \/ \E i \in Id : Delete(i) \/ CreateRemediation(i)

Spec == Init /\ [][Next]_vars

------------------------------------------------------------------------------
(***************************************************************************)
(* Properties.                                                             *)
(***************************************************************************)

\* open_actions may miss open actions (a finding added or reopened without a
\* recount), but it never shows more than there are, unless it was last computed
\* from a stale engagement row or a count taken before the lock.
NeverOvercounts ==
    \A e \in Engagement \ misread : rollup[e] <= Open(find, e)

\* The counter is never behind a number in use, where next_id would mint the same
\* taken number for ever, as long as no deleted finding's number was minted again.
CounterCoversIds == reused = "no" => \A i \in Present : i <= counter
==============================================================================

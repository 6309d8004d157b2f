------------------------------ MODULE Engagements ------------------------------
(***************************************************************************)
(* One engagement of the first API (app/routers/domain.py, and contracts   *)
(* of app/routers/lifecycle.py) with requests that overlap.  A request     *)
(* loads the row, computes from what it loaded, and at its commit the      *)
(* columns it changed are written: a column it set to the value it had     *)
(* loaded is not, whatever the row holds by then.                          *)
(***************************************************************************)
EXTENDS RiskEngine

CONSTANTS
    Request,    \* requests in flight at one time
    Irqs, Ddqs, \* answers that come in
    MaxRequests \* bound on the requests of a run

ASSUME EngagementConstants ==
    /\ Irqs \subseteq Irq /\ Ddqs \subseteq Ddq
    /\ None \notin Band \cup Range(Routes) \cup Range(Decisions)
    /\ MaxRequests \in Nat

VARIABLES
    row,      \* the engagement
    loaded,   \* what each request loaded
    steps,    \* sets of offboarding steps created
    requests, \* how many requests there were
    torn      \* history: since the last lone IRQ, a request committed over another's

vars == <<row, loaded, steps, requests, torn>>

Stages == {"sourcing", "inherent", "decision", "contract", "terminate"}
Statuses == {"draft", "terminated", "cancelled", "signed_off", "returned"}

Row == [stage: Stages, status: Statuses, inherent: Band \cup {None},
        route: Range(Routes) \cup {None}, residual: Band \cup {None},
        decision: Range(Decisions) \cup {None}]

TypeOK ==
    /\ row \in Row /\ loaded \in [Request -> Row \cup {None}]
    /\ steps \in 0 .. requests /\ requests \in 0 .. MaxRequests /\ torn \in BOOLEAN

\* create_engagement, and the purchase order that makes one.
Init ==
    /\ row = [stage |-> "sourcing", status |-> "draft", inherent |-> None, route |-> None,
              residual |-> None, decision |-> None]
    /\ loaded = [r \in Request |-> None]
    /\ steps = 0 /\ requests = 0 /\ torn = FALSE

Load(r) ==
    /\ loaded[r] = None /\ requests < MaxRequests
    /\ loaded' = [loaded EXCEPT ![r] = row]
    /\ requests' = requests + 1
    /\ UNCHANGED <<row, steps, torn>>

\* The commit of a request that has made its row `after`.
Commit(r, after) ==
    /\ row' = [c \in DOMAIN row |-> IF after[c] # loaded[r][c] THEN after[c] ELSE row[c]]
    /\ loaded' = [loaded EXCEPT ![r] = None]
    /\ UNCHANGED requests

Disturbed(r) == torn \/ loaded[r] # row

------------------------------------------------------------------------------
\* submit_irq.  (KeepingIrq leaves the stage; ClearingIrq forgets the decision that
\* the old answers led to.)
KeepingIrq(before, irq) ==
    [before EXCEPT !.inherent = Inherent(irq), !.route = Route(irq)]
ClearingIrq(before, irq) ==
    [before EXCEPT !.inherent = Inherent(irq), !.route = Route(irq), !.stage = "inherent",
                   !.decision = None]
Scored(before, irq) ==
    [before EXCEPT !.inherent = Inherent(irq), !.route = Route(irq), !.stage = "inherent"]

SubmitIrq(r) ==
    /\ \E irq \in Irqs : Commit(r, Scored(loaded[r], irq))
    /\ torn' = (loaded[r] # row)
    /\ UNCHANGED steps

\* submit_ddq; an engagement without an inherent band counts as LOW.
Decided(before, ddq) ==
    LET residual == Residual(IF before.inherent = None THEN "LOW" ELSE before.inherent, ddq)
    IN [before EXCEPT !.residual = residual, !.decision = DecisionFor(residual),
                      !.stage = "decision"]

SubmitDdq(r) ==
    /\ \E ddq \in Ddqs : Commit(r, Decided(loaded[r], ddq))
    /\ torn' = Disturbed(r)
    /\ UNCHANGED steps

\* override, with a justification and a second approver: the decision stays.
Override(r) ==
    /\ \E band \in Band : Commit(r, [loaded[r] EXCEPT !.residual = band])
    /\ torn' = Disturbed(r)
    /\ UNCHANGED steps

\* gen_contract.
Contracted(before) ==
    IF before.stage = "decision" THEN [before EXCEPT !.stage = "contract"] ELSE before

GenContract(r) ==
    /\ Commit(r, Contracted(loaded[r]))
    /\ torn' = Disturbed(r)
    /\ UNCHANGED steps

\* delete_engagement and signoff.
SetStatus(r) ==
    /\ \E status \in {"cancelled", "signed_off", "returned"} :
         Commit(r, [loaded[r] EXCEPT !.status = status])
    /\ torn' = Disturbed(r)
    /\ UNCHANGED steps

\* terminate: each time with its offboarding steps (TerminateTwice: with two sets).
TerminateTwice(r) ==
    /\ Commit(r, [loaded[r] EXCEPT !.stage = "terminate", !.status = "terminated"])
    /\ steps' = steps + 2
    /\ torn' = Disturbed(r)
Terminate(r) ==
    /\ Commit(r, [loaded[r] EXCEPT !.stage = "terminate", !.status = "terminated"])
    /\ steps' = steps + 1
    /\ torn' = Disturbed(r)

Handle(r) ==
    /\ loaded[r] # None
    /\ \/ SubmitIrq(r) \/ SubmitDdq(r) \/ Override(r)
       \/ GenContract(r) \/ SetStatus(r) \/ Terminate(r)

Next == \E r \in Request : Load(r) \/ Handle(r)

Spec == Init /\ [][Next]_vars

------------------------------------------------------------------------------
(***************************************************************************)
(* Properties.                                                             *)
(***************************************************************************)

\* Where a decision is shown as standing, it is no milder than the inherent band
\* calls for, whatever was resubmitted or overridden in between, unless requests
\* have overlapped since the answers came in (submit_irq, submit_ddq).
DecisionCoversInherent ==
    ~torn /\ row.stage \in {"decision", "contract"} /\ row.inherent # None =>
        Rank(row.decision, Decisions) >= Rank(row.inherent, Bands)

\* An engagement under contract has a residual band and a decision, even when its
\* requests overlapped and wrote only part of their columns (gen_contract).
ContractHasVerdict ==
    row.stage \in {"decision", "contract"} => row.residual # None /\ row.decision # None
==============================================================================

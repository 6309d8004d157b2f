---------------------------- MODULE IssueRegister ----------------------------
(***************************************************************************)
(* The issue register of the vendor estate: the issues that sanctions      *)
(* screening and certificate revalidation raise, and what closes them.     *)
(*                                                                         *)
(* Four operations write it, each in a database session of its own: a      *)
(* screening endpoint, the revalidation endpoint, the filing of a          *)
(* certificate (register, direct or by mail), and the monitoring run,      *)
(* which screens every vendor and then revalidates in one transaction.     *)
(* The database is SQLite: a session's first flush takes the write lock    *)
(* and keeps it until commit or rollback, reads take no lock and see       *)
(* committed rows and the session's own.  What a session read before its   *)
(* first flush may therefore be stale when it writes.                      *)
(*                                                                         *)
(* An issue is closed for good, so only open issues are kept.              *)
(***************************************************************************)
EXTENDS Integers, FiniteSets

CONSTANTS
    Session,    \* database sessions, one per request or monitoring run
    Sweeper,    \* those that run run_all, for the scheduler or on request
    Nobody,     \* no session holds the write lock
    Vendor,     \* registered vendors
    Art,        \* artefacts (certificates), filed or yet to be filed
    NoArt,      \* no artefact
    Sanctions,  \* the subject of a sanctions issue
    OwnerOf,    \* the vendor an artefact belongs to
    WordOf,     \* the first word of an artefact's name
    VendorWords \* words the detail of a vendor's sanctions issue contains

ASSUME IssueConstants ==
    /\ Sweeper \subseteq Session
    /\ Nobody \notin Session
    /\ NoArt \notin Art
    /\ Sanctions \notin Art
    /\ OwnerOf \in [Art -> Vendor]

VARIABLES
    open,      \* the open issues
    critical,  \* vendors with VendorRecord.is_critical
    filed,     \* artefacts in artefact_records
    current,   \* those with is_current
    marked,    \* those with status Expired
    age,       \* how old the validity of an artefact is today
    band,      \* what screening a vendor's legal name against the feeds gives
    holder,    \* the session that holds the SQLite write lock
    step,      \* how far each session is
    work,      \* what each session has read
    pend       \* what each session has written and not committed

vars == <<open, critical, filed, current, marked, age, band, holder,
         step, work, pend>>

Band == {"Clear", "Review", "Hit"}
Kind == {"expired_certificate", "sanctions_review", "sanctions_hit"}
Age == {"valid", "expired", "overdue"}

\* twin tells an issue from one about the same subject that was there before it.
Issue == [vendor: Vendor, about: Art \cup {Sanctions}, kind: Kind, twin: BOOLEAN]

Step == {"idle", "judged", "sweeping", "checking", "raising",
         "chosen", "written"}

Work == [vendor: SUBSET Vendor, verdict: Band, arts: SUBSET Art,
         art: Art \cup {NoArt}, prior: Art \cup {NoArt}]
NoWork == [vendor |-> {}, verdict |-> "Clear", arts |-> {},
           art |-> NoArt, prior |-> NoArt]

Pend == [added: SUBSET Issue, closed: SUBSET Issue, critical: SUBSET Vendor,
         marked: SUBSET Art, filed: SUBSET Art, retired: SUBSET Art]
NoPend == [added |-> {}, closed |-> {}, critical |-> {},
           marked |-> {}, filed |-> {}, retired |-> {}]

TypeOK ==
    /\ open \subseteq Issue
    /\ critical \subseteq Vendor
    /\ filed \subseteq Art /\ current \subseteq Art /\ marked \subseteq Art
    /\ age \in [Art -> Age]
    /\ band \in [Vendor -> Band]
    /\ holder \in Session \cup {Nobody}
    /\ step \in [Session -> Step]
    /\ work \in [Session -> Work]
    /\ pend \in [Session -> Pend]

Init ==
    /\ open = {} /\ critical = {}
    /\ filed = {} /\ current = {} /\ marked = {}
    /\ age = [a \in Art |-> "valid"]
    /\ band = [v \in Vendor |-> "Clear"]
    /\ holder = Nobody
    /\ step = [t \in Session |-> "idle"]
    /\ work = [t \in Session |-> NoWork]
    /\ pend = [t \in Session |-> NoPend]

------------------------------------------------------------------------------
register == <<open, critical, filed, current, marked>>
world == <<age, band>>

\* The issues a query of session t finds open.
Visible(t) == (open \ pend[t].closed) \cup pend[t].added

\* A flush of session t takes the write lock, or waits while another session
\* holds it (NoLock does not wait).
NoLock(t) == UNCHANGED holder
TakeLock(t) == holder \in {t, Nobody} /\ holder' = t

Goto(t, s) == step' = [step EXCEPT ![t] = s]

\* Session t makes issues the open ones, as far as it can see.
SetIssues(t, issues) ==
    [pend[t] EXCEPT !.added = issues \ open, !.closed = open \ issues]

------------------------------------------------------------------------------
(***************************************************************************)
(* Sanctions screening.                                                    *)
(***************************************************************************)

SanctionsOf(v, issues) == {i \in issues : i.vendor = v /\ i.about = Sanctions}

KindOf(verdict) == IF verdict = "Hit" THEN "sanctions_hit" ELSE "sanctions_review"

NewIssue(v, subject, kind) ==
    [vendor |-> v, about |-> subject, kind |-> kind,
     twin |-> \E i \in open \cup UNION {pend[u].added : u \in Session} :
                 i.vendor = v /\ i.about = subject]

\* apply_screening_outcome on the open issues: Clear closes the vendor's
\* sanctions issues, another verdict updates one of them or adds the first.
Outcomes(v, verdict, issues) ==
    IF verdict = "Clear" THEN {issues \ SanctionsOf(v, issues)}
    ELSE IF SanctionsOf(v, issues) = {}
      THEN {issues \cup {NewIssue(v, Sanctions, KindOf(verdict))}}
      ELSE {(issues \ {i}) \cup {[i EXCEPT !.kind = KindOf(verdict)]} :
                i \in SanctionsOf(v, issues)}

\* A hit makes the vendor critical; nothing here takes that back.
\* (NoEscalations leaves it to the reader of the issue.)
NoEscalations(v, verdict) == {}
Escalations(v, verdict) == IF verdict = "Hit" THEN {v} ELSE {}

ApplyOutcome(t, v, verdict) ==
    \E issues \in Outcomes(v, verdict, Visible(t)) :
        pend' = [pend EXCEPT ![t] =
                    [SetIssues(t, issues) EXCEPT
                        !.critical = @ \cup Escalations(v, verdict)]]

\* A request has a verdict to apply to vendor v, computed from the feeds before
\* anything is written.
Judge(t, v, verdict) ==
    /\ t \notin Sweeper /\ step[t] = "idle"
    /\ work' = [work EXCEPT ![t] = [@ EXCEPT !.vendor = {v}, !.verdict = verdict]]
    /\ Goto(t, "judged")
    /\ UNCHANGED <<register, world, holder, pend>>

\* POST /sanctions/screen applies to the vendor of the request the verdict b on
\* whatever name the request gives; the vendor's own name is used if it gives none.
ScreenName(t, v, b) == Judge(t, v, b)

Worst(b, c) == IF "Hit" \in {b, c} THEN "Hit"
               ELSE IF "Review" \in {b, c} THEN "Review" ELSE "Clear"

\* POST /sanctions/screen-vendor: the worst verdict on the legal name, on the owners
\* and on the key people, whose worst is b.
ScreenEntities(t, v, b) == Judge(t, v, Worst(band[v], b))

\* next_id("screening") flushes the counter; then the outcome is applied.
ScreenApply(t) ==
    /\ step[t] = "judged"
    /\ TakeLock(t)
    /\ \E v \in work[t].vendor : ApplyOutcome(t, v, work[t].verdict)
    /\ Goto(t, "written")
    /\ UNCHANGED <<register, world, work>>

------------------------------------------------------------------------------
(***************************************************************************)
(* The monitoring run.                                                     *)
(***************************************************************************)

\* claim_due_run finds no run younger than the interval, or a request asks for
\* one whatever its age; run_all numbers the run and flushes it before its first
\* task.
StartRun(t) ==
    /\ t \in Sweeper /\ step[t] = "idle"
    /\ TakeLock(t)
    /\ work' = [work EXCEPT ![t].vendor = Vendor]
    /\ Goto(t, "sweeping")
    /\ UNCHANGED <<register, world, pend>>

\* One round of _task_sanctions_rescreen, which screens the legal name and nobody
\* else.
Rescreen(t, v) ==
    /\ step[t] = "sweeping"
    /\ v \in work[t].vendor
    /\ ApplyOutcome(t, v, band[v])
    /\ work' = [work EXCEPT ![t].vendor = @ \ {v}]
    /\ UNCHANGED <<register, world, holder, step>>

------------------------------------------------------------------------------
(***************************************************************************)
(* Certificate revalidation: the second task of the monitoring run, and an *)
(* endpoint of its own.                                                    *)
(***************************************************************************)

\* revalidation_run selects the current dated artefacts.
Revalidate(t) ==
    /\ \/ t \notin Sweeper /\ step[t] = "idle"
       \/ step[t] = "sweeping" /\ work[t].vendor = {}
    /\ work' = [work EXCEPT ![t].arts = current]
    /\ Goto(t, "checking")
    /\ UNCHANGED <<register, world, holder, pend>>

\* _refresh_artefact_status, and for one overdue the query for an open issue,
\* which autoflushes a status that changed.
Refreshed(a) == IF age[a] = "valid" \/ a \in marked THEN {} ELSE {a}

AboutArt(a, issues) == {i \in issues : i.about = a}

\* (RaisesOnChange asks only when the status has just changed.)
RaisesOnChange(t, a) ==
    age[a] = "overdue" /\ a \notin marked /\ AboutArt(a, Visible(t)) = {}
Raises(t, a) == age[a] = "overdue" /\ AboutArt(a, Visible(t)) = {}

Check(t, a) ==
    /\ step[t] = "checking"
    /\ a \in work[t].arts
    /\ work' = [work EXCEPT ![t].arts = @ \ {a},
                            ![t].art = IF Raises(t, a) THEN a ELSE NoArt]
    /\ Goto(t, IF Raises(t, a) THEN "raising" ELSE "checking")
    /\ pend' = [pend EXCEPT ![t].marked = @ \cup Refreshed(a)]
    /\ IF age[a] = "overdue" /\ (pend[t] # NoPend \/ Refreshed(a) # {})
         THEN TakeLock(t) ELSE UNCHANGED holder
    /\ UNCHANGED <<register, world>>

\* next_id("issue") flushes, and the issue is added.
Raise(t) ==
    /\ step[t] = "raising"
    /\ TakeLock(t)
    /\ LET a == work[t].art
           new == NewIssue(OwnerOf[a], a, "expired_certificate") IN
         pend' = [pend EXCEPT ![t] = SetIssues(t, Visible(t) \cup {new})]
    /\ work' = [work EXCEPT ![t].art = NoArt]
    /\ Goto(t, "checking")
    /\ UNCHANGED <<register, world>>

\* A task of a monitoring run raises half way: run_all notes it, keeps what the
\* task has written and goes on with the next task.
TaskRaises(t) ==
    /\ t \in Sweeper
    /\ step[t] \in {"sweeping", "checking"}
    /\ work[t].vendor \cup work[t].arts # {}
    /\ work' = [work EXCEPT ![t] = [@ EXCEPT !.vendor = {}, !.arts = {}]]
    /\ UNCHANGED <<register, world, holder, step, pend>>

------------------------------------------------------------------------------
(***************************************************************************)
(* Filing a certificate.                                                   *)
(***************************************************************************)

\* The artefact the new one replaces: the register finds a current one of the same
\* vendor and name, mail intake a current one of the vendor whose first word occurs
\* in the new name, and a request may name any number, that of another vendor's
\* artefact, of a retired one, of one not filed yet or of none.
File(t, a, p) ==
    /\ t \notin Sweeper /\ step[t] = "idle"
    /\ a \notin filed
    /\ \A u \in Session : work[u].art # a
    /\ work' = [work EXCEPT ![t] = [@ EXCEPT !.art = a, !.prior = p]]
    /\ Goto(t, "chosen")
    /\ UNCHANGED <<register, world, holder, pend>>

\* The words of an issue's detail.
Words(i) == IF i.about = Sanctions THEN VendorWords[i.vendor]
                                   ELSE {WordOf[i.about]}

\* _close_issues_for_artefact and _close_issues_for_vendor_cert.
\* (NothingSettled files the certificate and leaves the issues.)
NothingSettled(a, p, issues) == {}
Settled(a, p, issues) ==
    {i \in issues : \/ i.about = p
                    \/ i.vendor = OwnerOf[a] /\ WordOf[a] \in Words(i)}

\* next_id("artefact") flushes the counter; then create_artefact files.
FileApply(t) ==
    /\ step[t] = "chosen"
    /\ TakeLock(t)
    /\ LET a == work[t].art
           p == work[t].prior
           issues == IF p = NoArt THEN Visible(t)
                     ELSE Visible(t) \ Settled(a, p, Visible(t)) IN
         pend' = [pend EXCEPT ![t] =
                    [SetIssues(t, issues) EXCEPT
                        !.filed = {a}, !.marked = Refreshed(a),
                        !.retired = {p} \cap (filed \cup {a})]]
    /\ Goto(t, "written")
    /\ UNCHANGED <<register, world, work>>

------------------------------------------------------------------------------
\* The session audits and commits: the flush of the audit row takes the lock if
\* nothing did before, and what the session wrote becomes visible.
Done(t) ==
    \/ step[t] = "written"
    \/ step[t] = "checking" /\ work[t].arts = {}

Commit(t) ==
    /\ Done(t)
    /\ holder \in {t, Nobody}
    /\ holder' = Nobody
    /\ open' = Visible(t)
    /\ critical' = critical \cup pend[t].critical
    /\ filed' = filed \cup pend[t].filed
    /\ current' = (current \cup pend[t].filed) \ pend[t].retired
    /\ marked' = marked \cup pend[t].marked
    /\ step' = [step EXCEPT ![t] = "idle"]
    /\ work' = [work EXCEPT ![t] = NoWork]
    /\ pend' = [pend EXCEPT ![t] = NoPend]
    /\ UNCHANGED <<age, band>>

\* The endpoint raises, times out on the lock, or its process dies.
Fail(t) ==
    /\ step[t] # "idle"
    /\ holder' = IF holder = t THEN Nobody ELSE holder
    /\ step' = [step EXCEPT ![t] = "idle"]
    /\ work' = [work EXCEPT ![t] = NoWork]
    /\ pend' = [pend EXCEPT ![t] = NoPend]
    /\ UNCHANGED <<register, world>>

------------------------------------------------------------------------------
(***************************************************************************)
(* The world around the register.                                          *)
(***************************************************************************)

\* Days pass: the validity of an artefact in use runs out, and a month later it
\* is overdue.  (Certificates are filed while they are valid.)
Ageing(a) ==
    /\ age[a] # "overdue"
    /\ a \in current
    /\ age' = [age EXCEPT ![a] = IF @ = "valid" THEN "expired" ELSE "overdue"]
    /\ UNCHANGED <<register, band, holder, step, work, pend>>

\* A feed is ingested and committed, and screening a vendor now gives b.
LoadFeed(v, b) ==
    /\ holder = Nobody
    /\ band' = [band EXCEPT ![v] = b]
    /\ UNCHANGED <<register, age, holder, step, work, pend>>

Start(t) ==
    \/ \E v \in Vendor, b \in Band : ScreenName(t, v, b) \/ ScreenEntities(t, v, b)
    \/ StartRun(t)
    \/ step[t] = "idle" /\ Revalidate(t)
    \/ \E a \in Art, p \in Art \cup {NoArt} : File(t, a, p)

Proceed(t) ==
    \/ ScreenApply(t) \/ FileApply(t) \/ Raise(t) \/ Commit(t)
    \/ \E v \in Vendor : Rescreen(t, v)
    \/ step[t] = "sweeping" /\ Revalidate(t)
    \/ \E a \in Art : Check(t, a)

WorldStep ==
    \/ \E a \in Art : Ageing(a)
    \/ \E v \in Vendor, b \in Band : LoadFeed(v, b)

Next ==
    \/ \E t \in Session : Start(t) \/ Proceed(t) \/ TaskRaises(t) \/ Fail(t)
    \/ WorldStep

Spec == Init /\ [][Next]_vars

(***************************************************************************)
(* Fairness.  Time passes, so the scheduler's loop starts a run again and  *)
(* again; a session that is under way goes on: it computes, and when it    *)
(* waits for the lock SQLite's busy handler retries until one of the many  *)
(* releases is its turn.                                                   *)
(***************************************************************************)
Fairness ==
    /\ \A t \in Session : SF_vars(Proceed(t))
    /\ \A t \in Sweeper : SF_vars(StartRun(t))

LiveSpec == Spec /\ Fairness

------------------------------------------------------------------------------
(***************************************************************************)
(* Properties.                                                             *)
(***************************************************************************)

\* A vendor never has two open sanctions issues, whichever screenings and
\* monitoring runs overlap: apply_screening_outcome "maintain[s] a single open
\* sanctions Issue per vendor".
SingleSanctionsIssue ==
    \A i, j \in open :
        i.about = Sanctions /\ j.about = Sanctions /\ i.vendor = j.vendor => i = j

\* A monitoring run raises a certificate issue only for an artefact that is
\* current and has none open at the moment the run commits, although it looked
\* earlier: an artefact that a filing retires or an endpoint reports meanwhile
\* is not reported again.
SweepRaisesOnce ==
    [][\A t \in Sweeper, i \in open' \ open :
          step'[t] # step[t] /\ i \in pend[t].added /\ i.about \in Art =>
              i.about \in current /\ AboutArt(i.about, open) = {}]_vars

\* The commit that retires an artefact leaves no issue about it open.
RefreshSettles ==
    [][\A a \in current \ current' : AboutArt(a, open') = {}]_vars

\* From some point on no monitoring run is cut short.  (A failure that leaves
\* the state a step of the run would have left cuts nothing short.)
SweepsSucceed ==
    <>[][\A t \in Sweeper : Fail(t) \/ TaskRaises(t) => Proceed(t)]_vars

\* From some point on no request screens.
NoRequestScreens == <>[](\A t \in Session : step[t] # "judged")

\* Whatever requests apply, stale verdicts and those on other names and on owners
\* included, and whatever refreshed certificates close by a shared word: once the
\* verdict on the legal name stays, the nightly run brings it back.  A clear vendor
\* is without sanctions issue again and again, for good once requests stop
\* screening; one that is hit becomes critical and has its issue again and again.
VerdictPrevails ==
    SweepsSucceed =>
        \A v \in Vendor :
            /\ <>[](band[v] = "Clear") =>
                  /\ []<>(SanctionsOf(v, open) = {})
                  /\ NoRequestScreens => <>[](SanctionsOf(v, open) = {})
            /\ <>[](band[v] = "Hit") =>
                  []<>(\E i \in SanctionsOf(v, open) :
                          i.kind = "sanctions_hit" /\ v \in critical)

\* A current artefact more than 30 days past its expiry gets an issue, or is
\* replaced.
OverdueIsRaised ==
    SweepsSucceed =>
        \A a \in Art :
            (a \in current /\ age[a] = "overdue")
                ~> (AboutArt(a, open) # {} \/ a \notin current)

==============================================================================

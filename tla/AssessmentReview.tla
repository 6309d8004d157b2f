--------------------------- MODULE AssessmentReview ---------------------------
(***************************************************************************)
(* Assessment records and the engagements they belong to: how they are     *)
(* created, signed off, approved and hard-locked, recalled, reassigned, and*)
(* how an engagement's reassessment date follows them.                     *)
(*                                                                         *)
(* Requests overlap.  A handler that changes an assessment or an engagement*)
(* loads the row, decides on what it loaded, and writes at its commit only *)
(* the columns that differ from the loaded ones, as SQLAlchemy does; other *)
(* requests commit in between.  A handler that writes before it loads      *)
(* (next_id, the vendor's own row) holds the database lock from there on   *)
(* and is one step, and so is the dating of an engagement after a changed  *)
(* assessment: the query that loads the engagement sends the assessment's  *)
(* UPDATE ahead of itself.                                                 *)
(***************************************************************************)
EXTENDS Integers, Sequences, FiniteSets

CONSTANTS
    Session,         \* requests being served
    Engagement,
    User,
    None,            \* NULL
    Band,            \* inherent bands, HIGH among them
    Cadence,         \* days until the next assessment, by inherent band if known
    MaxAssessments,  \* bound: assessments created
    MaxDay           \* bound: days that pass

Reason == {"vendor", "engagement", "fix"}      \* why a reassessment is due

ASSUME ReviewConstants ==
    /\ "HIGH" \in Band
    /\ None \notin User \cup Band \cup Session \cup Reason
    /\ Cadence \in [Band \cup {None} -> Nat \ {0}]
    /\ MaxAssessments \in Nat
    /\ MaxDay \in Nat

VARIABLES
    asm,     \* assessment records, numbered in the order of creation
    eng,     \* engagement records
    req,     \* what each request in progress is about to write
    today,
    signed,  \* history: assessments some assessor's sign-off was committed for
    mixed    \* history: engagements whose last dating or scheduling left out a
             \* column it took for unchanged and another request had changed

vars == <<asm, eng, req, today, signed, mixed>>

\* The columns a request may change, and the whole row.
Column == [status   |-> {"Open", "Approved", "Recalled"},
           signoff  |-> {"no", "yes"},
           locked   |-> {"no", "yes"},
           assessor |-> User \cup {None}]
Row == [eng: Engagement, inherent: Band \cup {None}, status: Column.status,
        signoff: Column.signoff, locked: Column.locked, assessor: Column.assessor]

NoDate == -1
Date == NoDate..MaxDay
EngRow == [link: Nat, inherent: Band \cup {None}, reason: Reason \cup {None},
           last: Date, due: Int]
EngColumn == [inherent |-> Band \cup {None}, reason |-> Reason \cup {None},
              last |-> Date, due |-> Int]

\* A request in progress knows what it does to which assessment and the columns
\* its commit will write, or what it wants of which engagements and in which
\* columns that differs from the rows it loaded.
Idle == [op |-> "idle"]
IsUpdate(u) ==
    DOMAIN u \subseteq DOMAIN Column /\ \A c \in DOMAIN u : u[c] \in Column[c]

IsWish(want) ==
    DOMAIN want \subseteq DOMAIN EngColumn /\ \A c \in DOMAIN want : want[c] \in EngColumn[c]
IsRequest(r) ==
    \/ /\ r.op \in {"signoff", "approve", "recall", "reassign"}
       /\ r.id \in DOMAIN asm
       /\ IsUpdate(r.sets)
    \/ /\ r.op \in {"date", "schedule"}
       /\ r.of \subseteq Engagement /\ DOMAIN r.cols = r.of
       /\ IsWish(r.want)
       /\ \A e \in r.of : r.cols[e] \subseteq DOMAIN r.want

TypeOK ==
    /\ asm \in Seq(Row)
    /\ eng \in [Engagement -> EngRow]
    /\ \A e \in Engagement : eng[e].link <= Len(asm)
    /\ DOMAIN req = Session
    /\ \A t \in Session : req[t] # Idle => IsRequest(req[t])
    /\ today \in 0..MaxDay
    /\ signed \subseteq 1..Len(asm)
    /\ mixed \subseteq Engagement

Init ==
    /\ asm = <<>>
    /\ eng = [e \in Engagement |-> [link |-> 0, inherent |-> None,
                                    reason |-> None, last |-> NoDate, due |-> NoDate]]
    /\ req = [t \in Session |-> Idle]
    /\ today = 0
    /\ signed = {}
    /\ mixed = {}

------------------------------------------------------------------------------
\* assign_assessor: those of the pool with the fewest assessments not approved.
Open(u) == {a \in DOMAIN asm : asm[a].assessor = u /\ asm[a].status # "Approved"}
LeastLoaded(pool) ==
    {u \in pool : \A v \in pool : Cardinality(Open(u)) <= Cardinality(Open(v))}

\* create_assessment: HIGH inherent risk gets an assessor from the pool, if any.
Assessors(band, pool) ==
    IF band = "HIGH" /\ pool # {} THEN LeastLoaded(pool) ELSE {None}

\* "Open" stands for Drafted, In-Progress and Completed, which no handler tells apart.
NewRow(e, band, assessor) ==
    [eng |-> e, inherent |-> band, status |-> "Open", signoff |-> "no",
     locked |-> "no", assessor |-> assessor]

\* The engagement links its latest assessment and takes over the band.
LinkNext(e, id, band) ==       \* wrong: the number the counter gives next
    [eng EXCEPT ![e].link = id + 1,
                ![e].inherent = IF band = None THEN @ ELSE band]
Linked(e, id, band) ==
    [eng EXCEPT ![e].link = id,
                ![e].inherent = IF band = None THEN @ ELSE band]

\* POST /v2/assessments and the capture of a chat session; register_proassess
\* has no pool.
Create(e, band) ==
    /\ Len(asm) < MaxAssessments
    /\ \E pool \in {User, {}} : \E u \in Assessors(band, pool) :
         asm' = Append(asm, NewRow(e, band, u))
    /\ eng' = Linked(e, Len(asm) + 1, band)
    /\ UNCHANGED <<req, today, signed, mixed>>

\* The conversational assessment creates its record and then calls
\* register_proassess, which creates another one.
AutoAssess(e, band) ==
    /\ Len(asm) + 2 <= MaxAssessments
    /\ asm' = asm \o <<NewRow(e, band, None), NewRow(e, band, None)>>
    /\ eng' = [Linked(e, Len(asm) + 2, band) EXCEPT ![e].inherent = band]
    /\ UNCHANGED <<req, today, signed, mixed>>

------------------------------------------------------------------------------
\* A handler loads the row it is about and checks it: a HIGH assessment is
\* approved after it was signed off; a locked one is not recalled or reassigned.
\* Signing off is for the assigned assessor or an admin, so somebody always may;
\* the row does not say who did.
AlwaysApprove(row) == TRUE  \* wrong: no check
MayApprove(row) == row.inherent = "HIGH" => row.signoff = "yes"
Unlocked(row) == row.locked = "no"

\* The UPDATE names the columns whose value differs from the loaded one.
WholeRow(row, wanted) ==  \* wrong: every column, as loaded
    [c \in DOMAIN row |-> IF c \in DOMAIN wanted THEN wanted[c] ELSE row[c]]
Changed(row, wanted) ==
    [c \in {c \in DOMAIN wanted : wanted[c] # row[c]} |-> wanted[c]]

Load(t, op, a, wanted) ==
    /\ req[t] = Idle
    /\ req' = [req EXCEPT ![t] = [op |-> op, id |-> a, sets |-> Changed(asm[a], wanted)]]
    /\ UNCHANGED <<asm, eng, today, signed, mixed>>

LoadSignOff(t, a) == Load(t, "signoff", a, [signoff |-> "yes"])
LoadApprove(t, a) ==
    MayApprove(asm[a]) /\ Load(t, "approve", a, [status |-> "Approved", locked |-> "yes"])
LoadRecall(t, a) == Unlocked(asm[a]) /\ Load(t, "recall", a, [status |-> "Recalled"])
LoadReassign(t, a) ==
    /\ Unlocked(asm[a])
    /\ \E u \in User : Load(t, "reassign", a, [assessor |-> u, signoff |-> "no"])

Updated(row, sets) ==
    LET at(c) == IF c \in DOMAIN sets THEN sets[c] ELSE row[c]
    IN  [row EXCEPT !.status = at("status"), !.signoff = at("signoff"),
                    !.locked = at("locked"), !.assessor = at("assessor")]

\* record_last_assessment: stamp the date, compute the next one, drop the reason.
DatesKeepingReason(row) ==  \* wrong: the reason stays
    [last |-> today, due |-> today + Cadence[row.inherent], reason |-> row.reason]
Dates(row) == [last |-> today, due |-> today + Cadence[row.inherent], reason |-> None]

Merged(row, want, cols) ==
    LET at(c) == IF c \in cols THEN want[c] ELSE row[c]
    IN  [row EXCEPT !.inherent = at("inherent"), !.reason = at("reason"),
                    !.last = at("last"), !.due = at("due")]
Dated(row) == Merged(row, Dates(row), DOMAIN Dates(row))

\* The commit of a changed assessment, and of the dates of its engagement.
Write(t) ==
    /\ req[t].op \in {"signoff", "approve", "recall", "reassign"}
    /\ req[t].op \in {"signoff", "approve"} => DOMAIN req[t].sets # {}
    /\ LET r == req[t]
           e == asm[r.id].eng
       IN  /\ asm' = [asm EXCEPT ![r.id] = Updated(@, r.sets)]
           /\ IF r.op \in {"signoff", "approve"}
                THEN eng' = [eng EXCEPT ![e] = Dated(@)] /\ mixed' = mixed \ {e}
                ELSE UNCHANGED <<eng, mixed>>
           /\ signed' = IF r.op = "signoff" THEN signed \cup {r.id} ELSE signed
    /\ req' = [req EXCEPT ![t] = Idle]
    /\ UNCHANGED today

\* The request ends without a commit.
Abandon(t) ==
    /\ req[t] # Idle
    /\ req' = [req EXCEPT ![t] = Idle]
    /\ UNCHANGED <<asm, eng, today, signed, mixed>>

------------------------------------------------------------------------------
\* POST /v2/engagements/{eid}/assign: all the engagement's assessments change
\* hands, whatever their status.
Assign(e, u) ==
    /\ asm' = [a \in DOMAIN asm |->
                 IF asm[a].eng = e THEN [asm[a] EXCEPT !.assessor = u] ELSE asm[a]]
    /\ UNCHANGED <<eng, req, today, signed, mixed>>

\* schedule_reassessment: due today, with a reason.
Schedule(why) == [due |-> today, reason |-> why]
Scheduled(row, why) == Merged(row, Schedule(why), DOMAIN Schedule(why))

\* The vendor's data is edited, in its master record or by an integrity fix that
\* changes a field: all its engagements are due.
UpdateVendor ==
    /\ \E why \in {"vendor", "fix"} : eng' = [e \in Engagement |-> Scheduled(eng[e], why)]
    /\ mixed' = {}
    /\ UNCHANGED <<asm, req, today, signed>>

(***************************************************************************)
(* Requests that load engagements before the lock: the edit of an          *)
(* engagement, an integrity fix that changes nothing of the vendor, and a  *)
(* sign-off or approval repeated on an assessment that shows it already.   *)
(***************************************************************************)
LoadEngagements(t, op, es, want) ==
    /\ req' = [req EXCEPT ![t] =
         [op |-> op, of |-> es, want |-> want,
          cols |-> [e \in es |-> {c \in DOMAIN want : want[c] # eng[e][c]}]]]
    /\ UNCHANGED <<asm, eng, today, signed, mixed>>

LoadEdit(t, e, band) ==
    /\ req[t] = Idle
    /\ LoadEngagements(t, "schedule", {e},
          [inherent |-> band, due |-> today, reason |-> "engagement"])

LoadFix(t) ==
    /\ req[t] = Idle
    /\ LoadEngagements(t, "schedule", Engagement, Schedule("fix"))

LoadDates(t) ==
    /\ req[t].op \in {"signoff", "approve"}
    /\ DOMAIN req[t].sets = {}
    /\ LET e == asm[req[t].id].eng IN LoadEngagements(t, "date", {e}, Dates(eng[e]))

\* Their commit: does the row show the dates and the reason the request wanted?
Shows(row, want) == \A c \in DOMAIN want \ {"inherent"} : row[c] = want[c]

WriteEngagements(t) ==
    /\ req[t].op \in {"date", "schedule"}
    /\ LET r == req[t]
           row(e) == Merged(eng[e], r.want, r.cols[e])
       IN  /\ eng' = [e \in Engagement |-> IF e \in r.of THEN row(e) ELSE eng[e]]
           /\ mixed' = (mixed \ r.of)
                         \cup {e \in r.of : ~ Shows(row(e), r.want)}
    /\ req' = [req EXCEPT ![t] = Idle]
    /\ UNCHANGED <<asm, today, signed>>

NewDay ==
    /\ today < MaxDay
    /\ today' = today + 1
    /\ UNCHANGED <<asm, eng, req, signed, mixed>>

Next ==
    \/ \E e \in Engagement, band \in Band \cup {None} :
          \/ Create(e, band) \/ AutoAssess(e, band)
          \/ \E t \in Session : LoadEdit(t, e, band)
    \/ \E t \in Session, a \in DOMAIN asm :
          LoadSignOff(t, a) \/ LoadApprove(t, a) \/ LoadRecall(t, a) \/ LoadReassign(t, a)
    \/ \E t \in Session :
          Write(t) \/ Abandon(t) \/ LoadFix(t) \/ LoadDates(t) \/ WriteEngagements(t)
    \/ \E e \in Engagement, u \in User : Assign(e, u)
    \/ UpdateVendor
    \/ NewDay

Spec == Init /\ [][Next]_vars

------------------------------------------------------------------------------
(***************************************************************************)
(* Properties.                                                             *)
(***************************************************************************)
Approved(a) == asm[a].locked = "yes" \/ asm[a].status = "Approved"

\* However requests overlap, a HIGH assessment that was approved and locked had
\* been signed off by an assessor before (approve_assessment, line 176).
ApprovedHighWasSignedOff ==
    \A a \in DOMAIN asm : Approved(a) /\ asm[a].inherent = "HIGH" => a \in signed

\* A lock is never taken off: no request that loaded the record before it was
\* locked writes the lock it loaded (approve_assessment, line 178).
LockStays ==
    [][\A a \in DOMAIN asm : asm[a].locked = "yes" => asm'[a].locked = "yes"]_vars

\* An engagement shows the latest of its assessments, also after a conversation
\* that created two.
LinkIsLatest ==
    \A e \in Engagement :
        /\ \A a \in DOMAIN asm : asm[a].eng = e => a <= eng[e].link
        /\ eng[e].link # 0 => eng[e].link \in DOMAIN asm /\ asm[eng[e].link].eng = e

\* An engagement that carries a reason for reassessment is due by today: no late
\* sign-off leaves the reason next to a date in the future, unless a request wrote
\* only part of what it wanted over another's row.
FlaggedIsDue ==
    \A e \in Engagement \ mixed : eng[e].reason # None => eng[e].due <= today

\* An engagement that shows the date of a last assessment has an assessment that
\* was signed off or approved, always; and unless it carries a reason, its next
\* one is due later, with the same exception (record_last_assessment).
Reviewed(e) == \E a \in DOMAIN asm : asm[a].eng = e /\ (a \in signed \/ Approved(a))
DatedIsReviewed ==
    \A e \in Engagement : eng[e].last # NoDate =>
        /\ Reviewed(e)
        /\ e \notin mixed /\ eng[e].reason = None => eng[e].due > eng[e].last

\* The row of an engagement agrees with its assessments, whichever way they came
\* about and however reviews, data changes and days interleave: latest link,
\* reason for reassessment, last and next date.  A commit that left out a column
\* breaks the agreement only until the next one that did not.
EngagementAgrees == LinkIsLatest /\ FlaggedIsDue /\ DatedIsReviewed

(***************************************************************************)
(* What makes ApprovedHighWasSignedOff inductive: a row shows a sign-off   *)
(* only if one was committed, an approved status never comes without the   *)
(* lock, and a request that is about to set either had reason to.          *)
(***************************************************************************)
Sound(row, a) ==
    /\ row.signoff = "yes" => a \in signed
    /\ row.status = "Approved" => row.locked = "yes"
    /\ row.locked = "yes" /\ row.inherent = "HIGH" => a \in signed

Justified(r) == r.op \in {"signoff", "approve", "recall", "reassign"} =>
    /\ "signoff" \in DOMAIN r.sets /\ r.sets["signoff"] = "yes" => r.op = "signoff"
    /\ r.op = "approve" /\ asm[r.id].inherent = "HIGH" => r.id \in signed
    /\ "locked" \in DOMAIN r.sets => r.op = "approve" /\ r.sets["locked"] = "yes"
    /\ "status" \in DOMAIN r.sets /\ r.sets["status"] = "Approved" =>
         asm[r.id].locked = "yes" \/ "locked" \in DOMAIN r.sets

ReviewInv ==
    /\ TypeOK
    /\ \A a \in DOMAIN asm : Sound(asm[a], a)
    /\ \A t \in Session : req[t] # Idle => Justified(req[t])

\* "HIGH inherent risk requires assessor sign-off before approval": an approved
\* HIGH record shows the sign-off of its assessor.
ApprovedHighIsSignedOff ==
    \A a \in DOMAIN asm :
        Approved(a) /\ asm[a].inherent = "HIGH" => asm[a].signoff = "yes"
==============================================================================

------------------------ MODULE AssessmentReviewProofs ------------------------
(***************************************************************************)
(* However many requests overlap, on any number of assessments, a HIGH     *)
(* assessment is approved only after a sign-off was committed for it, a    *)
(* lock is never taken off, and the engagement's dates agree.              *)
(***************************************************************************)
EXTENDS AssessmentReview, SequenceTheorems, TLAPS

\* The columns of a row that no request changes keep their value, the others
\* take the value of the update, if it has one.
LEMMA UpdatedRow ==
    ASSUME NEW row \in Row, NEW u, IsUpdate(u)
    PROVE  /\ Updated(row, u) \in Row
           /\ Updated(row, u).eng = row.eng
           /\ Updated(row, u).inherent = row.inherent
           /\ Updated(row, u).status = IF "status" \in DOMAIN u THEN u["status"] ELSE row.status
           /\ Updated(row, u).signoff = IF "signoff" \in DOMAIN u THEN u["signoff"] ELSE row.signoff
           /\ Updated(row, u).locked = IF "locked" \in DOMAIN u THEN u["locked"] ELSE row.locked
<1> DEFINE at(c) == IF c \in DOMAIN u THEN u[c] ELSE row[c]
<1>1. /\ at("status") \in Column["status"] /\ at("signoff") \in Column["signoff"]
      /\ at("locked") \in Column["locked"] /\ at("assessor") \in Column["assessor"]
  <2>1. \A c \in DOMAIN Column : row[c] \in Column[c]
    BY DEF Row, Column
  <2>2. \A c \in DOMAIN Column : at(c) \in Column[c]
    BY <2>1 DEF IsUpdate
  <2>3. {"status", "signoff", "locked", "assessor"} \subseteq DOMAIN Column
    BY DEF Column
  <2> QED BY <2>2, <2>3
<1>2. Updated(row, u) = [row EXCEPT !.status = at("status"), !.signoff = at("signoff"),
                                    !.locked = at("locked"), !.assessor = at("assessor")]
  BY DEF Updated
<1>3. /\ at("status") = IF "status" \in DOMAIN u THEN u["status"] ELSE row.status
      /\ at("signoff") = IF "signoff" \in DOMAIN u THEN u["signoff"] ELSE row.signoff
      /\ at("locked") = IF "locked" \in DOMAIN u THEN u["locked"] ELSE row.locked
  OBVIOUS
<1> HIDE DEF at
<1>4. Updated(row, u) \in Row
  BY <1>1, <1>2 DEF Row, Column
<1>5. /\ Updated(row, u).eng = row.eng
      /\ Updated(row, u).inherent = row.inherent
      /\ Updated(row, u).status = at("status")
      /\ Updated(row, u).signoff = at("signoff")
      /\ Updated(row, u).locked = at("locked")
  BY <1>2 DEF Row
<1> QED BY <1>3, <1>4, <1>5

\* The differences from the loaded row are an update, and only of what was wanted.
LEMMA ChangedIsUpdate ==
    ASSUME NEW row \in Row, NEW wanted, IsUpdate(wanted)
    PROVE  /\ IsUpdate(Changed(row, wanted))
           /\ DOMAIN Changed(row, wanted) = {c \in DOMAIN wanted : wanted[c] # row[c]}
           /\ \A c \in DOMAIN Changed(row, wanted) : Changed(row, wanted)[c] = wanted[c]
BY DEF Changed, IsUpdate

LEMMA NewRowType ==
    ASSUME NEW e \in Engagement, NEW band \in Band \cup {None}, NEW u \in User \cup {None}
    PROVE  /\ NewRow(e, band, u) \in Row
           /\ NewRow(e, band, u).signoff = "no"
           /\ NewRow(e, band, u).status = "Open"
           /\ NewRow(e, band, u).locked = "no"
BY DEF NewRow, Row, Column

LEMMA AssessorType ==
    ASSUME NEW band, NEW pool \in {User, {}}, NEW u \in Assessors(band, pool)
    PROVE  u \in User \cup {None}
BY DEF Assessors, LeastLoaded

LEMMA MergedRow ==
    ASSUME NEW row \in EngRow, NEW want, IsWish(want), NEW cols \in SUBSET DOMAIN want
    PROVE  LET new == Merged(row, want, cols)
           IN  /\ new \in EngRow
               /\ new.link = row.link
               /\ new.reason = IF "reason" \in cols THEN want["reason"] ELSE row.reason
               /\ new.last = IF "last" \in cols THEN want["last"] ELSE row.last
               /\ new.due = IF "due" \in cols THEN want["due"] ELSE row.due
<1> DEFINE at(c) == IF c \in cols THEN want[c] ELSE row[c]
           new == Merged(row, want, cols)
<1>1. /\ at("inherent") \in EngColumn["inherent"] /\ at("reason") \in EngColumn["reason"]
      /\ at("last") \in EngColumn["last"] /\ at("due") \in EngColumn["due"]
  <2>1. \A c \in DOMAIN EngColumn : row[c] \in EngColumn[c]
    BY DEF EngRow, EngColumn
  <2>2. \A c \in DOMAIN EngColumn : at(c) \in EngColumn[c]
    BY <2>1 DEF IsWish
  <2>3. {"inherent", "reason", "last", "due"} \subseteq DOMAIN EngColumn
    BY DEF EngColumn
  <2> QED BY <2>2, <2>3
<1>2. new = [row EXCEPT !.inherent = at("inherent"), !.reason = at("reason"),
                        !.last = at("last"), !.due = at("due")]
  BY DEF Merged
<1>3. /\ at("reason") = IF "reason" \in cols THEN want["reason"] ELSE row.reason
      /\ at("last") = IF "last" \in cols THEN want["last"] ELSE row.last
      /\ at("due") = IF "due" \in cols THEN want["due"] ELSE row.due
  OBVIOUS
<1> HIDE DEF at
<1>4. new \in EngRow
  BY <1>1, <1>2 DEF EngRow, EngColumn
<1>5. new.link = row.link /\ new.reason = at("reason") /\ new.last = at("last") /\ new.due = at("due")
  BY <1>2 DEF EngRow
<1> QED BY <1>3, <1>4, <1>5

\* A dated row is due later and has no reason.
LEMMA DatedRow ==
    ASSUME NEW row \in EngRow, today \in 0..MaxDay
    PROVE  /\ IsWish(Dates(row)) /\ DOMAIN Dates(row) = {"last", "due", "reason"}
           /\ Dates(row).last = today /\ Dates(row).due > today /\ Dates(row).reason = None
           /\ Dated(row) \in EngRow
           /\ Dated(row).link = row.link
           /\ Dated(row).last = today /\ Dated(row).due > today /\ Dated(row).reason = None
<1> DEFINE want == Dates(row)
<1>1. row.inherent \in Band \cup {None}
  BY DEF EngRow
<1>2. Cadence[row.inherent] \in Nat \ {0}
  BY <1>1, ReviewConstants
<1>3. today \in Nat /\ today \in Date
  BY ReviewConstants DEF Date, NoDate
<1>4. today + Cadence[row.inherent] \in Int /\ today + Cadence[row.inherent] > today
  BY <1>2, <1>3
<1>5. /\ DOMAIN want = {"last", "due", "reason"}
      /\ want.last = today /\ want.due = today + Cadence[row.inherent] /\ want.reason = None
  BY DEF Dates
<1> HIDE DEF want
<1>6. IsWish(want)
  BY <1>3, <1>4, <1>5 DEF IsWish, EngColumn
<1>7. Dated(row) = Merged(row, want, DOMAIN want)
  BY DEF Dated, want
<1>8. /\ Dated(row) \in EngRow /\ Dated(row).link = row.link
      /\ Dated(row).last = want.last /\ Dated(row).due = want.due /\ Dated(row).reason = want.reason
  BY <1>5, <1>6, <1>7, MergedRow
<1> QED BY <1>4, <1>5, <1>6, <1>8 DEF want

\* A scheduled row is due and says why.
LEMMA ScheduledRow ==
    ASSUME NEW row \in EngRow, today \in 0..MaxDay, NEW why \in Reason
    PROVE  /\ IsWish(Schedule(why)) /\ DOMAIN Schedule(why) = {"due", "reason"}
           /\ Schedule(why).due = today /\ Schedule(why).reason = why
           /\ Scheduled(row, why) \in EngRow
           /\ Scheduled(row, why).link = row.link
           /\ Scheduled(row, why).last = row.last
           /\ Scheduled(row, why).due = today /\ Scheduled(row, why).reason = why
<1> DEFINE want == Schedule(why)
<1>1. /\ DOMAIN want = {"due", "reason"} /\ want.due = today /\ want.reason = why
  BY DEF Schedule
<1>2. today \in Int
  BY ReviewConstants
<1> HIDE DEF want
<1>3. IsWish(want)
  BY <1>1, <1>2 DEF IsWish, EngColumn
<1>4. Scheduled(row, why) = Merged(row, want, DOMAIN want)
  BY DEF Scheduled, want
<1>5. /\ Scheduled(row, why) \in EngRow /\ Scheduled(row, why).link = row.link
      /\ Scheduled(row, why).last = row.last
      /\ Scheduled(row, why).due = want.due /\ Scheduled(row, why).reason = want.reason
  BY <1>1, <1>3, <1>4, MergedRow
<1> QED BY <1>1, <1>3, <1>5 DEF want

(***************************************************************************)
(* The inductive invariant in the parts that actions touch separately.     *)
(***************************************************************************)
Rows ==
    /\ asm \in Seq(Row)
    /\ signed \subseteq 1..Len(asm)
    /\ \A a \in DOMAIN asm : Sound(asm[a], a)

\* What a request wants of an engagement is a date in the future, or a reason and
\* a date that has come.
Sensible(r) ==
    /\ r.op = "schedule" =>
         /\ "due" \in DOMAIN r.want /\ "reason" \in DOMAIN r.want
         /\ "last" \notin DOMAIN r.want
         /\ r.want["reason"] # None /\ r.want["due"] <= today
    /\ r.op = "date" =>
         /\ "due" \in DOMAIN r.want /\ "reason" \in DOMAIN r.want /\ "last" \in DOMAIN r.want
         /\ r.want["reason"] = None /\ r.want["due"] > r.want["last"]
         /\ r.want["last"] # NoDate

Ready(r) == IsRequest(r) /\ Justified(r) /\ Sensible(r)

Reqs ==
    /\ DOMAIN req = Session
    /\ \A t \in Session : req[t] # Idle => Ready(req[t])

Engs ==
    /\ eng \in [Engagement -> EngRow]
    /\ \A e \in Engagement : eng[e].link <= Len(asm)
    /\ today \in 0..MaxDay
    /\ mixed \subseteq Engagement
    /\ FlaggedIsDue

IInv == Rows /\ Reqs /\ Engs

LEMMA Parts == IInv => ReviewInv /\ FlaggedIsDue
BY DEF IInv, Rows, Reqs, Engs, Ready, ReviewInv, TypeOK

LEMMA InitParts == Init => IInv
<1> SUFFICES ASSUME Init
             PROVE  IInv
  OBVIOUS
<1>1. Rows
  BY EmptySeq DEF Init, Rows
<1>2. Reqs
  BY DEF Init, Reqs
<1>3. Engs
  BY ReviewConstants DEF Init, Engs, EngRow, Date, NoDate, FlaggedIsDue
<1> QED
  BY <1>1, <1>2, <1>3 DEF IInv

\* Nothing that a request in flight relies on is taken back.
Grows ==
    /\ \A a \in DOMAIN asm : /\ a \in DOMAIN asm' /\ asm'[a].inherent = asm[a].inherent
                             /\ asm[a].locked = "yes" => asm'[a].locked = "yes"
    /\ signed \subseteq signed'
    /\ today \in Int /\ today' \in Int /\ today <= today'

LEMMA ReadyStays ==
    ASSUME Grows, NEW r, Ready(r)
    PROVE  /\ IsRequest(r)' /\ Justified(r)' /\ Sensible(r)'
<1>1. IsRequest(r)'
  BY DEF Grows, Ready, IsRequest
<1>2. Justified(r)'
  BY DEF Grows, Ready, IsRequest, Justified
<1>3. Sensible(r)'
  <2>1. r.op = "schedule" => r.want["due"] \in Int
    BY DEF Ready, IsRequest, Sensible, IsWish, EngColumn
  <2> QED
    BY <2>1 DEF Grows, Ready, Sensible
<1> QED
  BY <1>1, <1>2, <1>3

LEMMA ReqsKept ==
    ASSUME Reqs, Grows, DOMAIN req' = Session,
           \A t \in Session : req'[t] \in {req[t], Idle} \/ Ready(req'[t])
    PROVE  Reqs'
<1> SUFFICES ASSUME NEW t \in Session, req'[t] # Idle
             PROVE  Ready(req[t])'
  BY DEF Reqs
<1>1. Ready(req'[t])
  BY DEF Reqs
<1>2. PICK r : r = req'[t]
  OBVIOUS
<1>3. IsRequest(r)' /\ Justified(r)' /\ Sensible(r)'
  BY <1>1, <1>2, ReadyStays
<1> QED
  BY <1>2, <1>3 DEF Ready, IsRequest, Justified, Sensible

LEMMA EngsKept ==
    ASSUME Engs, mixed' \subseteq Engagement, eng' \in [Engagement -> EngRow],
           today' \in 0..MaxDay, today <= today',
           \A f \in Engagement : eng'[f].link <= Len(asm'),
           \A f \in Engagement \ mixed' : eng'[f].reason # None =>
               \/ f \notin mixed /\ eng[f].reason # None /\ eng'[f].due = eng[f].due
               \/ eng'[f].due <= today'
    PROVE  Engs'
<1>1. FlaggedIsDue'
  <2> SUFFICES ASSUME NEW f \in Engagement \ mixed', eng'[f].reason # None
               PROVE  eng'[f].due <= today'
    BY DEF FlaggedIsDue
  <2>1. CASE f \notin mixed /\ eng[f].reason # None /\ eng'[f].due = eng[f].due
    <3>1. eng[f].due <= today /\ eng[f].due \in Int /\ today \in Int /\ today' \in Int
      BY <2>1, ReviewConstants DEF Engs, FlaggedIsDue, EngRow
    <3> QED
      BY <2>1, <3>1
  <2> QED
    BY <2>1
<1> QED
  BY <1>1 DEF Engs

------------------------------------------------------------------------------
\* Adding rows disturbs neither the old rows nor the requests about them.
LEMMA AddedRows ==
    ASSUME IInv, NEW new \in Seq(Row), asm' = asm \o new, UNCHANGED <<req, signed, today>>,
           \A i \in DOMAIN new : new[i].signoff = "no" /\ new[i].status = "Open"
                                 /\ new[i].locked = "no"
    PROVE  Rows' /\ Reqs' /\ Len(asm') = Len(asm) + Len(new)
<1>1. asm \in Seq(Row)
  BY DEF IInv, Rows
<1>2. /\ asm' \in Seq(Row)
      /\ Len(asm') = Len(asm) + Len(new)
      /\ \A a \in DOMAIN asm : a \in DOMAIN asm' /\ asm'[a] = asm[a]
      /\ \A a \in DOMAIN asm' : a \in DOMAIN asm \/
            (a - Len(asm) \in DOMAIN new /\ asm'[a] = new[a - Len(asm)])
  BY <1>1
<1>3. Rows'
  BY <1>1, <1>2 DEF IInv, Rows, Sound
<1>4. Reqs'
  <2>1. Grows
    BY <1>2, ReviewConstants DEF Grows, IInv, Engs
  <2> QED
    BY <2>1, ReqsKept DEF IInv, Reqs
<1> QED
  BY <1>2, <1>3, <1>4

LEMMA LinkedEngs ==
    ASSUME IInv, NEW e \in Engagement, NEW band \in Band \cup {None}, NEW id \in Nat
    PROVE  /\ Linked(e, id, band) \in [Engagement -> EngRow]
           /\ \A f \in Engagement :
                /\ Linked(e, id, band)[f].link \in {eng[f].link, id}
                /\ Linked(e, id, band)[f].reason = eng[f].reason
                /\ Linked(e, id, band)[f].due = eng[f].due
BY DEF Linked, IInv, Engs, EngRow

\* Linking one of the added rows keeps the engagements in order.
LEMMA LinkGrows ==
    ASSUME IInv, NEW n \in Nat, Len(asm) \in Nat, Len(asm') = Len(asm) + n,
           today' = today, mixed' = mixed,
           eng' \in [Engagement -> EngRow],
           \A f \in Engagement : /\ eng'[f].link \in {eng[f].link, Len(asm) + n}
                                 /\ eng'[f].reason = eng[f].reason
                                 /\ eng'[f].due = eng[f].due
    PROVE  Engs'
<1>1. /\ \A f \in Engagement : eng[f].link \in Nat /\ eng[f].link <= Len(asm)
      /\ today \in 0..MaxDay /\ today \in Int /\ mixed \subseteq Engagement
  BY ReviewConstants DEF IInv, Engs, EngRow
<1>2. \A f \in Engagement : eng'[f].link <= Len(asm')
  BY <1>1
<1> QED
  BY <1>1, <1>2, EngsKept DEF IInv

LEMMA CreateParts ==
    ASSUME IInv, NEW e \in Engagement, NEW band \in Band \cup {None}, Create(e, band)
    PROVE  IInv'
<1>1. PICK pool \in {User, {}} : \E u \in Assessors(band, pool) :
         asm' = Append(asm, NewRow(e, band, u))
  BY DEF Create
<1>2. PICK u \in Assessors(band, pool) : asm' = Append(asm, NewRow(e, band, u))
  BY <1>1
<1> DEFINE new == <<NewRow(e, band, u)>>
<1>3. NewRow(e, band, u) \in Row /\ u \in User \cup {None}
  BY AssessorType, NewRowType
<1>8. new \in Seq(Row) /\ Len(new) = 1 /\ DOMAIN new = {1} /\ new[1] = NewRow(e, band, u)
  BY <1>3
<1>4. asm \in Seq(Row) /\ Len(asm) \in Nat
  BY DEF IInv, Rows
<1>5. asm' = asm \o new
  BY <1>2, <1>3, <1>4
<1>6. Rows' /\ Reqs' /\ Len(asm') = Len(asm) + 1
  <2>1. \A i \in DOMAIN new : new[i].signoff = "no" /\ new[i].status = "Open"
                                 /\ new[i].locked = "no"
    BY <1>3, <1>8, NewRowType
  <2>2. UNCHANGED <<req, signed, today, mixed>>
    BY DEF Create
  <2> QED
    BY <1>8, <1>5, <2>1, <2>2, AddedRows
<1>7. Engs'
  <2>1. eng' = Linked(e, Len(asm) + 1, band) /\ today' = today /\ mixed' = mixed
    BY DEF Create
  <2>2. Len(asm) + 1 \in Nat
    BY <1>4
  <2>3. /\ eng' \in [Engagement -> EngRow]
        /\ \A f \in Engagement : /\ eng'[f].link \in {eng[f].link, Len(asm) + 1}
                                  /\ eng'[f].reason = eng[f].reason
                                  /\ eng'[f].due = eng[f].due
    BY <2>1, <2>2, LinkedEngs
  <2> QED
    BY <1>4, <1>6, <2>1, <2>3, LinkGrows
<1> QED
  BY <1>6, <1>7 DEF IInv

LEMMA AutoAssessParts ==
    ASSUME IInv, NEW e \in Engagement, NEW band \in Band \cup {None}, AutoAssess(e, band)
    PROVE  IInv'
<1> DEFINE row == NewRow(e, band, None)
           new == <<row, row>>
<1>1. row \in Row /\ row.signoff = "no" /\ row.status = "Open" /\ row.locked = "no"
  BY NewRowType
<1>2. new \in Seq(Row) /\ Len(new) = 2 /\ \A i \in DOMAIN new : new[i] = row
  BY <1>1
<1>3. asm' = asm \o new /\ UNCHANGED <<req, signed, today, mixed>>
  BY DEF AutoAssess
<1>4. Len(asm) \in Nat
  BY DEF IInv, Rows
<1> HIDE DEF new, row
<1>5. Rows' /\ Reqs' /\ Len(asm') = Len(asm) + 2
  BY <1>1, <1>2, <1>3, AddedRows
<1>6. Engs'
  <2>1. eng' = [Linked(e, Len(asm) + 2, band) EXCEPT ![e].inherent = band]
    BY DEF AutoAssess
  <2>2. Len(asm) + 2 \in Nat
    BY <1>4
  <2>3. /\ eng' \in [Engagement -> EngRow]
        /\ \A f \in Engagement : /\ eng'[f].link \in {eng[f].link, Len(asm) + 2}
                                  /\ eng'[f].reason = eng[f].reason
                                  /\ eng'[f].due = eng[f].due
    <3> DEFINE g == Linked(e, Len(asm) + 2, band)
    <3>1. /\ g \in [Engagement -> EngRow]
          /\ \A f \in Engagement : /\ g[f].link \in {eng[f].link, Len(asm) + 2}
                                    /\ g[f].reason = eng[f].reason
                                    /\ g[f].due = eng[f].due
      BY <2>2, LinkedEngs
    <3>2. eng' = [g EXCEPT ![e].inherent = band]
      BY <2>1
    <3> HIDE DEF g
    <3>3. eng' \in [Engagement -> EngRow]
      BY <3>1, <3>2 DEF EngRow
    <3> QED
      BY <3>1, <3>2, <3>3 DEF EngRow
  <2> QED
    BY <1>3, <1>4, <1>5, <2>3, LinkGrows
<1> QED
  BY <1>5, <1>6 DEF IInv

------------------------------------------------------------------------------
\* A request that loads record a to make it wanted is justified, whatever the
\* others do until its commit, if wanted has a reason now.
LEMMA LoadParts ==
    ASSUME IInv, NEW t \in Session, NEW a \in DOMAIN asm, NEW wanted, IsUpdate(wanted),
           NEW op \in {"signoff", "approve", "recall", "reassign"}, Load(t, op, a, wanted),
           "signoff" \in DOMAIN wanted /\ wanted["signoff"] = "yes" => op = "signoff",
           op = "approve" => MayApprove(asm[a]) /\ wanted = [status |-> "Approved", locked |-> "yes"],
           op # "approve" => "locked" \notin DOMAIN wanted,
           op # "approve" /\ "status" \in DOMAIN wanted => wanted["status"] # "Approved"
    PROVE  IInv'
<1> DEFINE u == Changed(asm[a], wanted)
           r == [op |-> op, id |-> a, sets |-> u]
<1>1. asm[a] \in Row /\ Sound(asm[a], a)
  BY DEF IInv, Rows
<1>2. /\ IsUpdate(u)
      /\ DOMAIN u = {c \in DOMAIN wanted : wanted[c] # asm[a][c]}
      /\ \A c \in DOMAIN u : u[c] = wanted[c]
  BY <1>1, ChangedIsUpdate
<1> HIDE DEF u
<1>3. Justified(r)
  <2>1. CASE op = "approve"
    BY <1>1, <1>2, <2>1 DEF Justified, MayApprove, Sound, Row, Column
  <2>2. CASE op # "approve"
    BY <1>2, <2>2 DEF Justified
  <2> QED
    BY <2>1, <2>2
<1>4. req' = [req EXCEPT ![t] = r] /\ UNCHANGED <<asm, eng, today, signed, mixed>>
  BY DEF Load, u
<1>5. Ready(r)
  BY <1>2, <1>3 DEF Ready, IsRequest, Sensible
<1> HIDE DEF r
<1>6. Reqs'
  <2>1. Grows
    BY <1>4, ReviewConstants DEF Grows, IInv, Engs
  <2>2. \A v \in Session : req'[v] \in {req[v], Idle} \/ Ready(req'[v])
    BY <1>4, <1>5 DEF IInv, Reqs
  <2>3. DOMAIN req' = Session
    BY <1>4 DEF IInv, Reqs
  <2> QED
    BY <2>1, <2>2, <2>3, ReqsKept DEF IInv
<1> QED
  BY <1>4, <1>6 DEF IInv, Rows, Engs, Sound, FlaggedIsDue

LEMMA LoadsParts ==
    ASSUME IInv, NEW t \in Session, NEW a \in DOMAIN asm,
           LoadSignOff(t, a) \/ LoadApprove(t, a) \/ LoadRecall(t, a) \/ LoadReassign(t, a)
    PROVE  IInv'
<1>1. CASE LoadSignOff(t, a)
  <2>1. IsUpdate([signoff |-> "yes"])
    BY DEF IsUpdate, Column
  <2> QED
    BY <1>1, <2>1, LoadParts DEF LoadSignOff
<1>2. CASE LoadApprove(t, a)
  <2>1. IsUpdate([status |-> "Approved", locked |-> "yes"])
    BY DEF IsUpdate, Column
  <2> QED
    BY <1>2, <2>1, LoadParts DEF LoadApprove
<1>3. CASE LoadRecall(t, a)
  <2>1. IsUpdate([status |-> "Recalled"])
    BY DEF IsUpdate, Column
  <2> QED
    BY <1>3, <2>1, LoadParts DEF LoadRecall
<1>4. CASE LoadReassign(t, a)
  <2>1. PICK u \in User : Load(t, "reassign", a, [assessor |-> u, signoff |-> "no"])
    BY <1>4 DEF LoadReassign
  <2>2. IsUpdate([assessor |-> u, signoff |-> "no"])
    BY DEF IsUpdate, Column
  <2> QED
    BY <2>1, <2>2, LoadParts
<1> QED
  BY <1>1, <1>2, <1>3, <1>4

------------------------------------------------------------------------------
\* Dating an engagement that was loaded under the lock leaves it in order.
LEMMA DatedEngs ==
    ASSUME IInv, NEW e \in Engagement, eng' = [eng EXCEPT ![e] = Dated(@)],
           mixed' = mixed \ {e}, today' = today, Len(asm') = Len(asm)
    PROVE  Engs' /\ \A f \in Engagement : eng'[f].link = eng[f].link
<1>1. /\ eng \in [Engagement -> EngRow] /\ today \in 0..MaxDay /\ today \in Int
      /\ mixed \subseteq Engagement
      /\ \A f \in Engagement : eng[f] \in EngRow /\ eng[f].link <= Len(asm)
  BY ReviewConstants DEF IInv, Engs
<1> DEFINE new == Dated(eng[e])
<1>2. new \in EngRow /\ new.link = eng[e].link /\ new.reason = None
  BY <1>1, DatedRow
<1>3. eng' = [eng EXCEPT ![e] = new]
  OBVIOUS
<1> HIDE DEF new
<1>4. eng' \in [Engagement -> EngRow] /\ \A f \in Engagement : eng'[f].link = eng[f].link
  BY <1>1, <1>2, <1>3
<1>5. \A f \in Engagement \ mixed' : eng'[f].reason # None =>
        f \notin mixed /\ eng[f].reason # None /\ eng'[f].due = eng[f].due
  BY <1>1, <1>2, <1>3
<1> QED
  BY <1>1, <1>4, <1>5, EngsKept DEF IInv

\* A commit makes of its record what the request was justified to make of it,
\* and disturbs no other request: what they rely on only grows.
LEMMA WriteParts ==
    ASSUME IInv, NEW t \in Session, Write(t)
    PROVE  /\ IInv'
           /\ \A a \in DOMAIN asm : asm[a].locked = "yes" => asm'[a].locked = "yes"
<1> DEFINE r == req[t]
           new == Updated(asm[r.id], r.sets)
<1>1. /\ r.id \in DOMAIN asm /\ IsUpdate(r.sets) /\ Justified(r)
      /\ r.op \in {"signoff", "approve", "recall", "reassign"}
  BY DEF IInv, Reqs, Ready, IsRequest, Write, Idle
<1>2. asm \in Seq(Row) /\ asm[r.id] \in Row /\ Sound(asm[r.id], r.id)
  BY <1>1 DEF IInv, Rows
<1>3. /\ new \in Row
      /\ new.eng = asm[r.id].eng /\ new.inherent = asm[r.id].inherent
      /\ new.status = IF "status" \in DOMAIN r.sets THEN r.sets["status"] ELSE asm[r.id].status
      /\ new.signoff = IF "signoff" \in DOMAIN r.sets THEN r.sets["signoff"] ELSE asm[r.id].signoff
      /\ new.locked = IF "locked" \in DOMAIN r.sets THEN r.sets["locked"] ELSE asm[r.id].locked
  BY <1>1, <1>2, UpdatedRow
<1>4. /\ asm' = [asm EXCEPT ![r.id] = new]
      /\ signed' = IF r.op = "signoff" THEN signed \cup {r.id} ELSE signed
      /\ \/ UNCHANGED <<eng, mixed>>
         \/ LET e == asm[r.id].eng
            IN  eng' = [eng EXCEPT ![e] = Dated(@)] /\ mixed' = mixed \ {e}
      /\ req' = [req EXCEPT ![t] = Idle]
      /\ today' = today
  BY DEF Write
<1> HIDE DEF new
<1>5. /\ new.locked = "yes" \/ asm[r.id].locked # "yes"
      /\ new.signoff = "yes" => r.id \in signed'
      /\ new.status = "Approved" => new.locked = "yes"
      /\ new.locked = "yes" /\ new.inherent = "HIGH" => r.id \in signed'
  BY <1>1, <1>2, <1>3, <1>4 DEF Justified, Sound
<1>6. /\ asm' \in Seq(Row) /\ Len(asm') = Len(asm) /\ DOMAIN asm' = DOMAIN asm
      /\ asm'[r.id] = new
      /\ \A a \in DOMAIN asm : a # r.id => asm'[a] = asm[a]
  BY <1>1, <1>2, <1>3, <1>4
<1>7. signed \subseteq signed' /\ signed' \subseteq signed \cup {r.id}
  BY <1>4
<1>8. Rows'
  BY <1>1, <1>5, <1>6, <1>7 DEF IInv, Rows, Sound
<1>9. \A a \in DOMAIN asm : /\ asm[a].locked = "yes" => asm'[a].locked = "yes"
                            /\ asm'[a].inherent = asm[a].inherent
  BY <1>3, <1>5, <1>6
<1>10. Reqs'
  <2>1. Grows
    BY <1>4, <1>6, <1>7, <1>9, ReviewConstants DEF Grows, IInv, Engs
  <2>2. DOMAIN req' = Session /\ \A v \in Session : req'[v] \in {req[v], Idle}
    BY <1>4 DEF IInv, Reqs
  <2> QED
    BY <2>1, <2>2, ReqsKept DEF IInv
<1>11. Engs'
  <2>1. CASE UNCHANGED <<eng, mixed>>
    BY <1>4, <1>6, <2>1 DEF IInv, Engs, FlaggedIsDue
  <2>2. CASE ~ UNCHANGED <<eng, mixed>>
    <3>1. asm[r.id].eng \in Engagement
      BY <1>2 DEF Row
    <3> QED
      BY <1>4, <1>6, <2>2, <3>1, DatedEngs
  <2> QED
    BY <2>1, <2>2
<1> QED
  BY <1>8, <1>9, <1>10, <1>11 DEF IInv

------------------------------------------------------------------------------
LEMMA AssignParts ==
    ASSUME IInv, NEW e \in Engagement, NEW u \in User, Assign(e, u)
    PROVE  /\ IInv'
           /\ \A a \in DOMAIN asm : asm[a].locked = "yes" => asm'[a].locked = "yes"
<1>1. asm \in Seq(Row) /\ UNCHANGED <<eng, req, today, signed, mixed>>
  BY DEF IInv, Rows, Assign
<1>2. \A row \in Row :
        LET new == IF row.eng = e THEN [row EXCEPT !.assessor = u] ELSE row
        IN  /\ new \in Row /\ new.inherent = row.inherent /\ new.status = row.status
            /\ new.locked = row.locked /\ new.signoff = row.signoff
  BY DEF Row, Column
<1>3. /\ asm' \in Seq(Row) /\ Len(asm') = Len(asm) /\ DOMAIN asm' = DOMAIN asm
      /\ \A a \in DOMAIN asm :
           /\ asm'[a].inherent = asm[a].inherent /\ asm'[a].status = asm[a].status
           /\ asm'[a].locked = asm[a].locked /\ asm'[a].signoff = asm[a].signoff
  BY <1>1, <1>2 DEF Assign
<1>4. Rows'
  BY <1>1, <1>3 DEF IInv, Rows, Sound
<1>5. Reqs'
  <2>1. Grows
    BY <1>1, <1>3, ReviewConstants DEF Grows, IInv, Engs
  <2> QED
    BY <1>1, <2>1, ReqsKept DEF IInv, Reqs
<1>6. Engs'
  BY <1>1, <1>3 DEF IInv, Engs, FlaggedIsDue
<1> QED
  BY <1>3, <1>4, <1>5, <1>6 DEF IInv

\* Scheduling all engagements under the lock makes reason and date agree.
LEMMA UpdateVendorParts ==
    ASSUME IInv, UpdateVendor
    PROVE  IInv' /\ \A f \in Engagement : /\ eng'[f].link = eng[f].link
                                          /\ eng'[f].last = eng[f].last
                                          /\ eng'[f].reason # None
<1>1. PICK why \in {"vendor", "fix"} : eng' = [e \in Engagement |-> Scheduled(eng[e], why)]
  BY DEF UpdateVendor
<1>2. mixed' = {} /\ UNCHANGED <<asm, req, today, signed>>
  BY DEF UpdateVendor
<1>3. /\ today \in 0..MaxDay /\ today \in Int /\ \A f \in Engagement : eng[f] \in EngRow
      /\ why \in Reason /\ why # None
  BY ReviewConstants DEF IInv, Engs, Reason
<1>4. \A f \in Engagement :
        /\ eng'[f] \in EngRow /\ eng'[f].link = eng[f].link /\ eng'[f].last = eng[f].last
        /\ eng'[f].due = today /\ eng'[f].reason = why
  BY <1>1, <1>3, ScheduledRow
<1>5. eng' \in [Engagement -> EngRow]
  BY <1>1, <1>4
<1>6. \A f \in Engagement : eng'[f].link <= Len(asm')
  BY <1>2, <1>4 DEF IInv, Engs
<1>7. Engs'
  BY <1>2, <1>3, <1>4, <1>5, <1>6, EngsKept DEF IInv
<1> QED
  BY <1>2, <1>3, <1>4, <1>7 DEF IInv, Rows, Reqs, Ready, IsRequest, Sensible, Sound, Justified

\* A request that loads engagements wants what makes sense together.
LEMMA LoadEngagementsParts ==
    ASSUME IInv, NEW t \in Session, NEW op \in {"date", "schedule"},
           NEW es \in SUBSET Engagement, NEW want, IsWish(want),
           Sensible([op |-> op, of |-> es, want |-> want,
                     cols |-> [e \in es |-> {c \in DOMAIN want : want[c] # eng[e][c]}]]),
           LoadEngagements(t, op, es, want)
    PROVE  IInv'
<1> DEFINE r == [op |-> op, of |-> es, want |-> want,
                 cols |-> [e \in es |-> {c \in DOMAIN want : want[c] # eng[e][c]}]]
<1>1. /\ req' = [req EXCEPT ![t] = r] /\ UNCHANGED <<asm, eng, today, signed, mixed>>
      /\ DOMAIN req = Session
  BY DEF LoadEngagements, IInv, Reqs
<1>2. Ready(r)
  <2>1. r.op = op /\ r.of = es /\ r.want = want /\ DOMAIN r.cols = es
    OBVIOUS
  <2>2. \A e \in es : r.cols[e] \subseteq DOMAIN want
    OBVIOUS
  <2>3. Justified(r)
    BY <2>1 DEF Justified
  <2> HIDE DEF r
  <2>4. IsRequest(r)
    BY <2>1, <2>2 DEF IsRequest
  <2> QED
    BY <2>3, <2>4 DEF Ready, r
<1> HIDE DEF r
<1>3. Grows
  BY <1>1, ReviewConstants DEF Grows, IInv, Engs
<1>4. Reqs'
  <2>1. \A v \in Session : req'[v] \in {req[v], Idle} \/ Ready(req'[v])
    BY <1>1, <1>2
  <2> QED
    BY <1>1, <1>3, <2>1, ReqsKept DEF IInv
<1> QED
  BY <1>1, <1>4 DEF IInv, Rows, Engs, Sound, FlaggedIsDue

LEMMA LoadEditParts ==
    ASSUME IInv, NEW t \in Session, NEW e \in Engagement, NEW band \in Band \cup {None},
           LoadEdit(t, e, band)
    PROVE  IInv'
<1> DEFINE want == [inherent |-> band, due |-> today, reason |-> "engagement"]
<1>1. today \in Int /\ "engagement" \in Reason /\ "engagement" # None
  BY ReviewConstants DEF IInv, Engs, Reason
<1>2. /\ DOMAIN want = {"inherent", "due", "reason"}
      /\ want["inherent"] = band /\ want["due"] = today /\ want["reason"] = "engagement"
  OBVIOUS
<1>3. LoadEngagements(t, "schedule", {e}, want)
  BY DEF LoadEdit
<1> HIDE DEF want
<1>4. IsWish(want)
  BY <1>1, <1>2 DEF IsWish, EngColumn
<1>5. Sensible([op |-> "schedule", of |-> {e}, want |-> want,
                cols |-> [f \in {e} |-> {c \in DOMAIN want : want[c] # eng[f][c]}]])
  BY <1>1, <1>2 DEF Sensible
<1> QED
  BY <1>3, <1>4, <1>5, LoadEngagementsParts

LEMMA LoadFixParts ==
    ASSUME IInv, NEW t \in Session, LoadFix(t)
    PROVE  IInv'
<1> DEFINE want == Schedule("fix")
<1>1. today \in Int /\ today \in 0..MaxDay /\ "fix" \in Reason /\ "fix" # None
  BY ReviewConstants DEF IInv, Engs, Reason
<1>2. /\ DOMAIN want = {"due", "reason"} /\ want["due"] = today /\ want["reason"] = "fix"
  BY DEF Schedule
<1>3. LoadEngagements(t, "schedule", Engagement, want)
  BY DEF LoadFix
<1> HIDE DEF want
<1>4. IsWish(want)
  BY <1>1, <1>2 DEF IsWish, EngColumn
<1>5. Sensible([op |-> "schedule", of |-> Engagement, want |-> want,
                cols |-> [f \in Engagement |-> {c \in DOMAIN want : want[c] # eng[f][c]}]])
  BY <1>1, <1>2 DEF Sensible
<1> QED
  BY <1>3, <1>4, <1>5, LoadEngagementsParts

LEMMA LoadDatesParts ==
    ASSUME IInv, NEW t \in Session, LoadDates(t)
    PROVE  IInv'
<1> DEFINE e == asm[req[t].id].eng
           want == Dates(eng[e])
<1>1. req[t].op \in {"signoff", "approve"} /\ LoadEngagements(t, "date", {e}, want)
  BY DEF LoadDates
<1>2. req[t].id \in DOMAIN asm
  BY <1>1 DEF IInv, Reqs, Ready, IsRequest, Idle
<1>3. e \in Engagement
  <2>1. asm[req[t].id] \in Row
    BY <1>2 DEF IInv, Rows
  <2> QED
    BY <2>1 DEF Row
<1>4. eng[e] \in EngRow /\ today \in 0..MaxDay /\ today \in Int /\ today # NoDate
  BY <1>3, ReviewConstants DEF IInv, Engs, NoDate
<1>5. /\ IsWish(want) /\ DOMAIN want = {"last", "due", "reason"}
      /\ want["last"] = today /\ want["due"] > today /\ want["reason"] = None
  BY <1>4, DatedRow
<1> HIDE DEF e, want
<1>6. Sensible([op |-> "date", of |-> {e}, want |-> want,
                cols |-> [f \in {e} |-> {c \in DOMAIN want : want[c] # eng[f][c]}]])
  BY <1>4, <1>5 DEF Sensible
<1> QED
  BY <1>1, <1>3, <1>5, <1>6, LoadEngagementsParts

\* A commit of rows loaded before: a row that shows all that was wanted is in
\* order, the others are marked.
LEMMA WriteEngagementsRows ==
    ASSUME IInv, NEW t \in Session, WriteEngagements(t)
    PROVE  LET r == req[t]
           IN  /\ Ready(r) /\ r.op \in {"date", "schedule"} /\ r.of \subseteq Engagement
               /\ mixed' \subseteq Engagement /\ mixed \ r.of = mixed' \ r.of
               /\ eng' \in [Engagement -> EngRow]
               /\ \A f \in Engagement \ r.of : eng'[f] = eng[f]
               /\ \A f \in Engagement : eng'[f].link = eng[f].link
               /\ \A f \in r.of :
                    /\ eng'[f].last \in {eng[f].last} \cup
                          (IF "last" \in DOMAIN r.want THEN {r.want["last"]} ELSE {})
                    /\ f \notin mixed' => \A c \in DOMAIN r.want \ {"inherent"} :
                                             eng'[f][c] = r.want[c]
<1> DEFINE r == req[t]
           row(f) == Merged(eng[f], r.want, r.cols[f])
<1>1. /\ Ready(r) /\ r.op \in {"date", "schedule"}
      /\ r.of \subseteq Engagement /\ IsWish(r.want)
      /\ \A f \in r.of : r.cols[f] \subseteq DOMAIN r.want
  <2>1. r.op \in {"date", "schedule"} /\ Ready(r)
    BY DEF WriteEngagements, IInv, Reqs, Idle
  <2> QED
    BY <2>1 DEF Ready, IsRequest
<1>2. /\ eng' = [f \in Engagement |-> IF f \in r.of THEN row(f) ELSE eng[f]]
      /\ mixed' = (mixed \ r.of) \cup {f \in r.of : ~ Shows(row(f), r.want)}
  BY DEF WriteEngagements
<1>3. \A f \in Engagement : eng[f] \in EngRow
  BY DEF IInv, Engs
<1>4. \A f \in r.of :
        /\ row(f) \in EngRow /\ row(f).link = eng[f].link
        /\ row(f).last = IF "last" \in r.cols[f] THEN r.want["last"] ELSE eng[f].last
  BY <1>1, <1>3, MergedRow
<1> HIDE DEF r, row
<1>5. \A f \in Engagement : eng'[f] = IF f \in r.of THEN row(f) ELSE eng[f]
  BY <1>2
<1>6. eng' \in [Engagement -> EngRow]
  BY <1>2, <1>3, <1>4
<1>7. \A f \in Engagement : eng'[f].link = eng[f].link
  BY <1>4, <1>5
<1>8. ASSUME NEW f \in r.of
      PROVE  /\ eng'[f].last \in {eng[f].last} \cup
                   (IF "last" \in DOMAIN r.want THEN {r.want["last"]} ELSE {})
             /\ f \notin mixed' => \A c \in DOMAIN r.want \ {"inherent"} : eng'[f][c] = r.want[c]
  <2>1. eng'[f] = row(f) /\ r.cols[f] \subseteq DOMAIN r.want
    BY <1>1, <1>5
  <2>2. f \notin mixed' => Shows(row(f), r.want)
    BY <1>2
  <2> QED
    BY <1>4, <2>1, <2>2 DEF Shows
<1>9. mixed' \subseteq Engagement /\ mixed \ r.of = mixed' \ r.of
  BY <1>1, <1>2 DEF IInv, Engs
<1> QED
  BY <1>1, <1>5, <1>6, <1>7, <1>8, <1>9 DEF r

LEMMA WriteEngagementsParts ==
    ASSUME IInv, NEW t \in Session, WriteEngagements(t)
    PROVE  IInv'
<1> DEFINE r == req[t]
<1>1. /\ Ready(r) /\ r.op \in {"date", "schedule"} /\ r.of \subseteq Engagement
      /\ mixed' \subseteq Engagement /\ mixed \ r.of = mixed' \ r.of
      /\ eng' \in [Engagement -> EngRow]
      /\ \A f \in Engagement \ r.of : eng'[f] = eng[f]
      /\ \A f \in Engagement : eng'[f].link = eng[f].link
      /\ \A f \in r.of : f \notin mixed' => \A c \in DOMAIN r.want \ {"inherent"} :
                                               eng'[f][c] = r.want[c]
  BY WriteEngagementsRows
<1>2. req' = [req EXCEPT ![t] = Idle] /\ UNCHANGED <<asm, today, signed>>
  BY DEF WriteEngagements
<1>3. today \in 0..MaxDay /\ today \in Int
  BY ReviewConstants DEF IInv, Engs
<1> HIDE DEF r
<1>4. ASSUME NEW f \in Engagement \ mixed', eng'[f].reason # None
      PROVE  \/ f \notin mixed /\ eng[f].reason # None /\ eng'[f].due = eng[f].due
             \/ eng'[f].due <= today'
  <2>1. CASE f \in r.of
    <3>1. "due" \in DOMAIN r.want \ {"inherent"} /\ "reason" \in DOMAIN r.want \ {"inherent"}
      BY <1>1 DEF Ready, Sensible
    <3>2. eng'[f]["due"] = r.want["due"] /\ eng'[f]["reason"] = r.want["reason"]
      BY <1>1, <2>1, <3>1
    <3>3. r.want["reason"] # None
      BY <1>4, <3>2
    <3>4. r.want["due"] <= today
      BY <1>1, <3>3 DEF Ready, Sensible
    <3> QED
      BY <1>2, <3>2, <3>4
  <2>2. CASE f \notin r.of
    BY <1>1, <1>4, <2>2
  <2> QED
    BY <2>1, <2>2
<1>5. Engs'
  <2>1. \A f \in Engagement : eng'[f].link <= Len(asm')
    BY <1>1, <1>2 DEF IInv, Engs
  <2> QED
    BY <1>1, <1>2, <1>3, <1>4, <2>1, EngsKept DEF IInv
<1>6. Reqs'
  <2>1. Grows
    BY <1>2, <1>3 DEF Grows
  <2>2. DOMAIN req' = Session /\ \A v \in Session : req'[v] \in {req[v], Idle}
    BY <1>2 DEF IInv, Reqs
  <2> QED
    BY <2>1, <2>2, ReqsKept DEF IInv
<1> QED
  BY <1>2, <1>5, <1>6 DEF IInv, Rows, Sound

------------------------------------------------------------------------------
\* Every step keeps the parts of the invariant and every lock.
LEMMA NextParts ==
    ASSUME IInv, [Next]_vars
    PROVE  /\ IInv'
           /\ \A a \in DOMAIN asm : asm[a].locked = "yes" => asm'[a].locked = "yes"
<1>1. CASE UNCHANGED vars
  BY <1>1 DEF vars, IInv, Rows, Reqs, Engs, Sound, Justified, FlaggedIsDue, Ready, IsRequest,
              Sensible
<1>2. ASSUME NEW e \in Engagement, NEW band \in Band \cup {None}, Create(e, band)
      PROVE  IInv' /\ \A a \in DOMAIN asm : asm'[a] = asm[a]
  <2>1. \A a \in DOMAIN asm : asm'[a] = asm[a]
    BY <1>2 DEF Create, IInv, Rows
  <2> QED
    BY <1>2, <2>1, CreateParts
<1>3. ASSUME NEW e \in Engagement, NEW band \in Band \cup {None}, AutoAssess(e, band)
      PROVE  IInv' /\ \A a \in DOMAIN asm : asm'[a] = asm[a]
  <2>1. \A a \in DOMAIN asm : asm'[a] = asm[a]
    BY <1>3 DEF AutoAssess, IInv, Rows
  <2> QED
    BY <1>3, <2>1, AutoAssessParts
<1>4. CASE UpdateVendor
  BY <1>4, UpdateVendorParts DEF UpdateVendor
<1>10. ASSUME NEW t \in Session, LoadFix(t) \/ LoadDates(t) \/ WriteEngagements(t) \/
               \E e \in Engagement, band \in Band \cup {None} : LoadEdit(t, e, band)
       PROVE  IInv' /\ asm' = asm
  <2>1. asm' = asm
    BY <1>10 DEF LoadFix, LoadDates, LoadEdit, LoadEngagements, WriteEngagements
  <2> QED
    BY <1>10, <2>1, LoadEditParts, LoadFixParts, LoadDatesParts, WriteEngagementsParts
<1>5. ASSUME NEW t \in Session, NEW a \in DOMAIN asm,
             LoadSignOff(t, a) \/ LoadApprove(t, a) \/ LoadRecall(t, a) \/ LoadReassign(t, a)
      PROVE  IInv' /\ asm' = asm
  BY <1>5, LoadsParts DEF LoadSignOff, LoadApprove, LoadRecall, LoadReassign, Load
<1>6. ASSUME NEW t \in Session, Write(t)
      PROVE  IInv' /\ \A a \in DOMAIN asm : asm[a].locked = "yes" => asm'[a].locked = "yes"
  BY <1>6, WriteParts
<1>7. ASSUME NEW t \in Session, Abandon(t)
      PROVE  IInv' /\ asm' = asm
  <2>1. req' = [req EXCEPT ![t] = Idle] /\ UNCHANGED <<asm, eng, today, signed, mixed>>
    BY <1>7 DEF Abandon
  <2>2. Reqs'
    <3>1. Grows
      BY <2>1, ReviewConstants DEF Grows, IInv, Engs
    <3>2. DOMAIN req' = Session /\ \A v \in Session : req'[v] \in {req[v], Idle}
      BY <2>1 DEF IInv, Reqs
    <3> QED
      BY <3>1, <3>2, ReqsKept DEF IInv
  <2> QED
    BY <2>1, <2>2 DEF IInv, Rows, Engs, Sound, FlaggedIsDue
<1>8. ASSUME NEW e \in Engagement, NEW u \in User, Assign(e, u)
      PROVE  IInv' /\ \A a \in DOMAIN asm : asm[a].locked = "yes" => asm'[a].locked = "yes"
  BY <1>8, AssignParts
<1>9. CASE NewDay
  <2>1. UNCHANGED <<asm, eng, req, signed, mixed>> /\ today \in Int /\ today' = today + 1
        /\ today' \in 0..MaxDay
    BY <1>9, ReviewConstants DEF NewDay, IInv, Engs
  <2>2. Engs'
    BY <2>1, EngsKept DEF IInv, Engs
  <2>3. Reqs'
    <3>1. Grows
      BY <2>1 DEF Grows
    <3> QED
      BY <2>1, <3>1, ReqsKept DEF IInv, Reqs
  <2> QED
    BY <2>1, <2>2, <2>3 DEF IInv, Rows, Sound
<1> QED
  BY <1>1, <1>2, <1>3, <1>4, <1>5, <1>6, <1>7, <1>8, <1>9, <1>10 DEF Next

\* The parts hold throughout.
THEOREM ReviewParts == Spec => []IInv
<1>1. IInv /\ [Next]_vars => IInv'
  BY NextParts
<1> QED
  BY <1>1, InitParts, PTL DEF Spec

\* The invariant of the sign-off protocol (create_assessment to v2_reassign)
\* holds throughout.
THEOREM ReviewInvariant == Spec => []ReviewInv
<1>1. IInv => ReviewInv
  BY Parts
<1> QED
  BY <1>1, ReviewParts, PTL

\* However requests overlap, a HIGH assessment is approved and locked only after
\* an assessor's sign-off was committed for it (approve_assessment, line 176).
THEOREM ApprovedAfterSignOff == Spec => []ApprovedHighWasSignedOff
<1>1. IInv => ApprovedHighWasSignedOff
  BY DEF IInv, Rows, Sound, ApprovedHighWasSignedOff, Approved
<1> QED
  BY <1>1, ReviewParts, PTL

\* An engagement that carries a reason is due by today, however edits, fixes and
\* reviews that loaded its row overlap, unless its last write left out a column
\* (schedule_reassessment and record_last_assessment).
THEOREM FlagMeansDue == Spec => []FlaggedIsDue
<1>1. IInv => FlaggedIsDue
  BY DEF IInv, Engs
<1> QED
  BY <1>1, ReviewParts, PTL

\* No stale request takes a lock off (approve_assessment, line 178).
THEOREM LocksStay == Spec => LockStays
<1>1. IInv /\ [Next]_vars =>
        [\A a \in DOMAIN asm : asm[a].locked = "yes" => asm'[a].locked = "yes"]_vars
  BY NextParts
<1> QED
  BY <1>1, ReviewParts, PTL DEF Spec, LockStays

\* The records, engagements and requests keep their types (AssessmentRecord).
THEOREM ReviewTyped == Spec => []TypeOK
<1>1. ReviewInv => TypeOK
  BY DEF ReviewInv
<1> QED
  BY <1>1, ReviewInvariant, PTL

------------------------------------------------------------------------------
(***************************************************************************)
(* The link: a step either leaves every link and every record's engagement *)
(* alone, or appends records of one engagement and links the last of them. *)
(***************************************************************************)
LEMMA LinkKept ==
    ASSUME LinkIsLatest, DOMAIN asm' = DOMAIN asm,
           \A a \in DOMAIN asm : asm'[a].eng = asm[a].eng,
           \A f \in Engagement : eng'[f].link = eng[f].link
    PROVE  LinkIsLatest'
BY DEF LinkIsLatest

LEMMA LinkMoved ==
    ASSUME IInv, LinkIsLatest, NEW e \in Engagement, NEW n \in Nat, n > 0,
           Len(asm') = Len(asm) + n, asm' \in Seq(Row),
           \A a \in DOMAIN asm : asm'[a] = asm[a],
           \A a \in DOMAIN asm' : a > Len(asm) => asm'[a].eng = e,
           eng'[e].link = Len(asm'),
           \A f \in Engagement \ {e} : eng'[f].link = eng[f].link
    PROVE  LinkIsLatest'
<1>1. /\ Len(asm) \in Nat /\ Len(asm') \in Nat
      /\ DOMAIN asm = 1..Len(asm) /\ DOMAIN asm' = 1..Len(asm')
  BY DEF IInv, Rows
<1>2. Len(asm') \in DOMAIN asm' /\ asm'[Len(asm')].eng = e
  BY <1>1
<1>3. ASSUME NEW f \in Engagement, f # e, NEW a \in DOMAIN asm', asm'[a].eng = f
      PROVE  a \in DOMAIN asm /\ asm[a].eng = f
  BY <1>1, <1>3
<1>4. ASSUME NEW f \in Engagement, f # e
      PROVE  /\ \A a \in DOMAIN asm' : asm'[a].eng = f => a <= eng'[f].link
             /\ eng'[f].link # 0 => eng'[f].link \in DOMAIN asm' /\ asm'[eng'[f].link].eng = f
  <2>1. eng'[f].link = eng[f].link
    BY <1>4
  <2>2. \A a \in DOMAIN asm' : asm'[a].eng = f => a <= eng'[f].link
    BY <1>3, <1>4, <2>1 DEF LinkIsLatest
  <2>3. eng[f].link # 0 => eng[f].link \in DOMAIN asm /\ asm[eng[f].link].eng = f
    BY DEF LinkIsLatest
  <2> QED
    BY <1>1, <2>1, <2>2, <2>3
<1> QED
  BY <1>1, <1>2, <1>4 DEF LinkIsLatest

LEMMA NextLink == IInv /\ LinkIsLatest /\ [Next]_vars => LinkIsLatest'
<1> SUFFICES ASSUME IInv, LinkIsLatest, [Next]_vars
             PROVE  LinkIsLatest'
  OBVIOUS
<1>0. /\ asm \in Seq(Row) /\ Len(asm) \in Nat /\ DOMAIN asm = 1..Len(asm)
      /\ eng \in [Engagement -> EngRow]
  BY DEF IInv, Rows, Engs
<1>1. CASE UNCHANGED vars
  BY <1>1, LinkKept DEF vars
<1>2. ASSUME NEW e \in Engagement, NEW band \in Band \cup {None}, Create(e, band)
      PROVE  LinkIsLatest'
  <2>1. PICK pool \in {User, {}} : \E u \in Assessors(band, pool) :
           asm' = Append(asm, NewRow(e, band, u))
    BY <1>2 DEF Create
  <2>2. PICK u \in Assessors(band, pool) : asm' = Append(asm, NewRow(e, band, u))
    BY <2>1
  <2>3. NewRow(e, band, u) \in Row /\ NewRow(e, band, u).eng = e
    BY AssessorType, NewRowType DEF NewRow
  <2>4. /\ Len(asm') = Len(asm) + 1 /\ asm' \in Seq(Row)
        /\ \A a \in DOMAIN asm : asm'[a] = asm[a]
        /\ \A a \in DOMAIN asm' : a > Len(asm) => asm'[a].eng = e
    BY <1>0, <2>2, <2>3
  <2>5. eng' = Linked(e, Len(asm) + 1, band)
    BY <1>2 DEF Create
  <2>6. eng'[e].link = Len(asm') /\ \A f \in Engagement \ {e} : eng'[f].link = eng[f].link
    BY <1>0, <2>4, <2>5 DEF Linked, EngRow
  <2> QED
    BY <2>4, <2>6, LinkMoved
<1>3. ASSUME NEW e \in Engagement, NEW band \in Band \cup {None}, AutoAssess(e, band)
      PROVE  LinkIsLatest'
  <2> DEFINE row == NewRow(e, band, None)
  <2>1. row \in Row /\ row.eng = e
    BY NewRowType DEF NewRow
  <2>2. asm' = asm \o <<row, row>>
    BY <1>3 DEF AutoAssess
  <2> HIDE DEF row
  <2>3. <<row, row>> \in Seq(Row) /\ Len(<<row, row>>) = 2
    BY <2>1
  <2>4. /\ Len(asm') = Len(asm) + 2 /\ asm' \in Seq(Row)
        /\ \A a \in DOMAIN asm : asm'[a] = asm[a]
        /\ \A a \in DOMAIN asm' : a > Len(asm) => asm'[a].eng = e
    BY <1>0, <2>1, <2>2, <2>3
  <2>5. eng' = [Linked(e, Len(asm) + 2, band) EXCEPT ![e].inherent = band]
    BY <1>3 DEF AutoAssess
  <2>6. eng'[e].link = Len(asm') /\ \A f \in Engagement \ {e} : eng'[f].link = eng[f].link
    BY <1>0, <2>4, <2>5 DEF Linked, EngRow
  <2> QED
    BY <2>4, <2>6, LinkMoved
<1>4. CASE UpdateVendor
  <2>1. asm' = asm
    BY <1>4 DEF UpdateVendor
  <2> QED
    BY <1>4, <2>1, UpdateVendorParts, LinkKept
<1>5. ASSUME NEW t \in Session, LoadFix(t) \/ LoadDates(t) \/ WriteEngagements(t) \/
              \E e \in Engagement, band \in Band \cup {None} : LoadEdit(t, e, band)
      PROVE  LinkIsLatest'
  <2>1. asm' = asm
    BY <1>5 DEF LoadFix, LoadDates, LoadEdit, LoadEngagements, WriteEngagements
  <2>2. \A f \in Engagement : eng'[f].link = eng[f].link
    <3>1. CASE WriteEngagements(t)
      BY <3>1, WriteEngagementsRows
    <3>2. CASE ~ WriteEngagements(t)
      BY <1>5, <3>2 DEF LoadFix, LoadDates, LoadEdit, LoadEngagements
    <3> QED
      BY <3>1, <3>2
  <2> QED
    BY <2>1, <2>2, LinkKept
<1>6. ASSUME NEW t \in Session, NEW a \in DOMAIN asm,
             LoadSignOff(t, a) \/ LoadApprove(t, a) \/ LoadRecall(t, a) \/ LoadReassign(t, a)
      PROVE  LinkIsLatest'
  <2>1. asm' = asm /\ eng' = eng
    BY <1>6 DEF LoadSignOff, LoadApprove, LoadRecall, LoadReassign, Load
  <2> QED
    BY <2>1, LinkKept
<1>7. ASSUME NEW t \in Session, Write(t)
      PROVE  LinkIsLatest'
  <2>1. /\ DOMAIN asm' = DOMAIN asm /\ Len(asm') = Len(asm) /\ today' = today
        /\ req[t].id \in DOMAIN asm /\ IsUpdate(req[t].sets)
        /\ asm' = [asm EXCEPT ![req[t].id] = Updated(@, req[t].sets)]
    BY <1>0, <1>7 DEF Write, IInv, Reqs, Ready, IsRequest, Idle
  <2>2. asm[req[t].id] \in Row
    BY <1>0, <2>1
  <2>3. \A a \in DOMAIN asm : asm'[a].eng = asm[a].eng
    BY <2>1, <2>2, UpdatedRow
  <2>4. \A f \in Engagement : eng'[f].link = eng[f].link
    <3>1. asm[req[t].id].eng \in Engagement
      BY <2>2 DEF Row
    <3>2. CASE eng' = eng
      BY <3>2
    <3>3. CASE eng' # eng
      BY <1>7, <2>1, <3>1, <3>3, DatedEngs DEF Write
    <3> QED
      BY <3>2, <3>3
  <2> QED
    BY <2>1, <2>3, <2>4, LinkKept
<1>8. ASSUME NEW t \in Session, Abandon(t)
      PROVE  LinkIsLatest'
  BY <1>8, LinkKept DEF Abandon
<1>9. ASSUME NEW e \in Engagement, NEW u \in User, Assign(e, u)
      PROVE  LinkIsLatest'
  <2>1. \A a \in DOMAIN asm : asm[a] \in Row
    BY <1>0
  <2>2. DOMAIN asm' = DOMAIN asm /\ eng' = eng /\ \A a \in DOMAIN asm : asm'[a].eng = asm[a].eng
    BY <1>9, <2>1 DEF Assign, Row
  <2> QED
    BY <2>2, LinkKept
<1>10. CASE NewDay
  BY <1>10, LinkKept DEF NewDay
<1> QED
  BY <1>1, <1>2, <1>3, <1>4, <1>5, <1>6, <1>7, <1>8, <1>9, <1>10 DEF Next

\* An engagement shows the latest of its assessments, however many were created
\* and whichever way (create_assessment, run_proassess_autonomous).
THEOREM LatestIsLinked == Spec => []LinkIsLatest
<1>1. Init => LinkIsLatest
  BY DEF Init, LinkIsLatest
<1> QED
  BY <1>1, NextLink, ReviewParts, PTL DEF Spec

------------------------------------------------------------------------------
(***************************************************************************)
(* Dates: they are set together, by a commit that signs off or locks or by *)
(* a request that found its record signed off or locked; a request about   *)
(* to approve locks its record or finds it locked, likewise for sign-offs. *)
(***************************************************************************)
Backed(r) ==
    /\ r.op = "approve" => "locked" \in DOMAIN r.sets \/ asm[r.id].locked = "yes"
    /\ r.op = "signoff" => "signoff" \in DOMAIN r.sets \/ r.id \in signed
    /\ r.op = "date" => \A e \in r.of : Reviewed(e)

DateInv == DatedIsReviewed /\ \A t \in Session : req[t] # Idle => Backed(req[t])

\* What no step takes back.
RowsStay ==
    /\ \A a \in DOMAIN asm : /\ a \in DOMAIN asm' /\ asm'[a].eng = asm[a].eng
                             /\ asm[a].locked = "yes" => asm'[a].locked = "yes"
    /\ signed \subseteq signed'

LEMMA ReviewedStays ==
    ASSUME IInv, RowsStay, NEW f, Reviewed(f)
    PROVE  Reviewed(f)'
<1>1. PICK a \in DOMAIN asm : asm[a].eng = f /\ (a \in signed \/ Approved(a))
  BY DEF Reviewed
<1>2. Approved(a) => asm[a].locked = "yes"
  BY <1>1 DEF Approved, IInv, Rows, Sound
<1> QED
  BY <1>1, <1>2 DEF RowsStay, Reviewed, Approved

\* A step keeps DatedIsReviewed if every engagement it gives a date is reviewed
\* and the rows it leaves unmarked without a reason are in order.
LEMMA DatesKept ==
    ASSUME IInv, DatedIsReviewed, RowsStay,
           \A f \in Engagement :
               /\ eng'[f].last # NoDate => eng[f].last # NoDate \/ Reviewed(f) \/ Reviewed(f)'
               /\ f \notin mixed' /\ eng'[f].reason = None /\ eng'[f].last # NoDate =>
                    \/ eng'[f].due > eng'[f].last
                    \/ /\ f \notin mixed /\ eng[f].reason = None
                       /\ eng'[f].due = eng[f].due /\ eng'[f].last = eng[f].last
    PROVE  DatedIsReviewed'
<1> SUFFICES ASSUME NEW f \in Engagement, eng'[f].last # NoDate
             PROVE  /\ Reviewed(f)'
                    /\ f \notin mixed' /\ eng'[f].reason = None => eng'[f].due > eng'[f].last
  BY DEF DatedIsReviewed, NoDate
<1>1. Reviewed(f)'
  <2>1. eng[f].last # NoDate => Reviewed(f)
    BY DEF DatedIsReviewed
  <2> QED
    BY <2>1, ReviewedStays
<1> QED
  BY <1>1 DEF DatedIsReviewed

LEMMA BackedStays ==
    ASSUME IInv, RowsStay, NEW r, Ready(r), Backed(r)
    PROVE  Backed(r)'
<1>1. r.op = "approve" => r.id \in DOMAIN asm
  BY DEF Ready, IsRequest
<1>2. r.op = "date" => \A e \in r.of : Reviewed(e)'
  BY ReviewedStays DEF Backed
<1> QED
  BY <1>1, <1>2 DEF Backed, RowsStay

LEMMA BackedKept ==
    ASSUME IInv, DateInv, RowsStay,
           \A t \in Session : req'[t] \in {req[t], Idle} \/ (Ready(req'[t]) /\ Backed(req'[t]))
    PROVE  \A t \in Session : req'[t] # Idle => Backed(req[t])'
<1> SUFFICES ASSUME NEW t \in Session, req'[t] # Idle
             PROVE  Backed(req[t])'
  OBVIOUS
<1>1. Ready(req'[t]) /\ Backed(req'[t])
  BY DEF DateInv, IInv, Reqs
<1>2. PICK r : r = req'[t]
  OBVIOUS
<1>3. Backed(r)'
  BY <1>1, <1>2, BackedStays
<1> QED
  BY <1>2, <1>3 DEF Backed, Reviewed, Approved

LEMMA NextRowsStay == IInv /\ [Next]_vars => RowsStay
<1> SUFFICES ASSUME IInv, [Next]_vars
             PROVE  /\ \A a \in DOMAIN asm : a \in DOMAIN asm' /\ asm'[a].eng = asm[a].eng
                    /\ signed \subseteq signed'
  BY NextParts DEF RowsStay
<1>0. asm \in Seq(Row) /\ Len(asm) \in Nat /\ DOMAIN asm = 1..Len(asm)
  BY DEF IInv, Rows
<1>1. CASE UNCHANGED vars
  BY <1>1 DEF vars
<1>2. ASSUME NEW e \in Engagement, NEW band \in Band \cup {None}, Create(e, band)
      PROVE  (\A a \in DOMAIN asm : a \in DOMAIN asm' /\ asm'[a] = asm[a]) /\ signed' = signed
  BY <1>0, <1>2 DEF Create
<1>3. ASSUME NEW e \in Engagement, NEW band \in Band \cup {None}, AutoAssess(e, band)
      PROVE  (\A a \in DOMAIN asm : a \in DOMAIN asm' /\ asm'[a] = asm[a]) /\ signed' = signed
  <2>1. \E x, y : asm' = asm \o <<x, y>>
    BY <1>3 DEF AutoAssess
  <2>2. \A a \in DOMAIN asm : a \in DOMAIN asm' /\ asm'[a] = asm[a]
    BY <1>0, <2>1
  <2> QED
    BY <1>3, <2>2 DEF AutoAssess
<1>4. ASSUME UpdateVendor \/ \E t \in Session :
                LoadFix(t) \/ LoadDates(t) \/ WriteEngagements(t) \/
                \E e \in Engagement, band \in Band \cup {None} : LoadEdit(t, e, band)
      PROVE  asm' = asm /\ signed' = signed
  BY <1>4 DEF UpdateVendor, LoadFix, LoadDates, LoadEdit, LoadEngagements, WriteEngagements
<1>5. ASSUME NEW t \in Session, NEW a \in DOMAIN asm,
             LoadSignOff(t, a) \/ LoadApprove(t, a) \/ LoadRecall(t, a) \/ LoadReassign(t, a)
      PROVE  asm' = asm /\ signed' = signed
  BY <1>5 DEF LoadSignOff, LoadApprove, LoadRecall, LoadReassign, Load
<1>6. ASSUME NEW t \in Session, Write(t)
      PROVE  (\A a \in DOMAIN asm : a \in DOMAIN asm' /\ asm'[a].eng = asm[a].eng) /\ signed \subseteq signed'
  <2>1. /\ req[t].id \in DOMAIN asm /\ IsUpdate(req[t].sets)
        /\ asm' = [asm EXCEPT ![req[t].id] = Updated(@, req[t].sets)]
        /\ signed \subseteq signed'
    BY <1>6 DEF Write, IInv, Reqs, Ready, IsRequest, Idle
  <2>2. asm[req[t].id] \in Row
    BY <1>0, <2>1
  <2> QED
    BY <2>1, <2>2, UpdatedRow
<1>7. ASSUME NEW t \in Session, Abandon(t)
      PROVE  asm' = asm /\ signed' = signed
  BY <1>7 DEF Abandon
<1>8. ASSUME NEW e \in Engagement, NEW u \in User, Assign(e, u)
      PROVE  (\A a \in DOMAIN asm : a \in DOMAIN asm' /\ asm'[a].eng = asm[a].eng) /\ signed' = signed
  <2>1. \A a \in DOMAIN asm : asm[a] \in Row
    BY <1>0
  <2> QED
    BY <1>8, <2>1 DEF Assign, Row
<1>9. CASE NewDay
  BY <1>9 DEF NewDay
<1> QED
  BY <1>1, <1>2, <1>3, <1>4, <1>5, <1>6, <1>7, <1>8, <1>9 DEF Next

\* The commit that dates an engagement has the assessment to show for it.
LEMMA WriteDates ==
    ASSUME IInv, DateInv, RowsStay, NEW t \in Session, Write(t)
    PROVE  DatedIsReviewed'
<1> DEFINE r == req[t]
<1>0. /\ r.id \in DOMAIN asm /\ IsUpdate(r.sets) /\ Justified(r) /\ Backed(r)
      /\ asm \in Seq(Row) /\ eng \in [Engagement -> EngRow] /\ today \in 0..MaxDay
  BY DEF Write, DateInv, IInv, Reqs, Ready, IsRequest, Idle, Rows, Engs
<1>1. asm[r.id] \in Row
  BY <1>0
<1>2. PICK e \in Engagement : e = asm[r.id].eng
  BY <1>1 DEF Row
<1>3. CASE r.op \notin {"signoff", "approve"}
  <2>1. eng' = eng /\ mixed' = mixed
    BY <1>3 DEF Write
  <2> QED
    BY <2>1, DatesKept DEF DateInv
<1>4. CASE r.op \in {"signoff", "approve"}
  <2>1. eng' = [eng EXCEPT ![e] = Dated(@)] /\ mixed' = mixed \ {e}
    BY <1>2, <1>4 DEF Write
  <2>2. eng[e] \in EngRow
    BY <1>0
  <2>3. Dated(eng[e]).last = today /\ Dated(eng[e]).due > today
    BY <1>0, <2>2, DatedRow
  <2>4. r.id \in DOMAIN asm' /\ asm'[r.id].eng = e
    BY <1>0, <1>2 DEF RowsStay
  <2>5. r.id \in signed' \/ asm'[r.id].locked = "yes"
    <3>1. CASE r.op = "signoff"
      BY <3>1 DEF Write
    <3>2. CASE r.op = "approve"
      <4>1. asm' = [asm EXCEPT ![r.id] = Updated(@, r.sets)]
        BY DEF Write
      <4>2. Updated(asm[r.id], r.sets).locked =
              IF "locked" \in DOMAIN r.sets THEN r.sets["locked"] ELSE asm[r.id].locked
        BY <1>0, <1>1, UpdatedRow
      <4>3. "locked" \in DOMAIN r.sets => r.sets["locked"] = "yes"
        BY <1>0, <3>2 DEF Justified
      <4>4. "locked" \in DOMAIN r.sets \/ asm[r.id].locked = "yes"
        BY <1>0, <3>2 DEF Backed
      <4> QED
        BY <1>0, <4>1, <4>2, <4>3, <4>4
    <3> QED
      BY <1>4, <3>1, <3>2
  <2>6. Reviewed(e)'
    BY <2>4, <2>5 DEF Reviewed, Approved
  <2> HIDE DEF r
  <2>7. /\ eng'[e].last = today /\ eng'[e].due > today
        /\ \A f \in Engagement \ {e} : eng'[f] = eng[f] /\ (f \in mixed' <=> f \in mixed)
    BY <1>0, <2>1, <2>3
  <2>8. \A f \in Engagement :
          /\ eng'[f].last # NoDate => eng[f].last # NoDate \/ Reviewed(f) \/ Reviewed(f)'
          /\ f \notin mixed' /\ eng'[f].reason = None /\ eng'[f].last # NoDate =>
               \/ eng'[f].due > eng'[f].last
               \/ /\ f \notin mixed /\ eng[f].reason = None
                  /\ eng'[f].due = eng[f].due /\ eng'[f].last = eng[f].last
    BY <2>6, <2>7
  <2> QED
    BY <2>8, DatesKept DEF DateInv
<1> QED
  BY <1>3, <1>4

\* The commit of rows loaded before keeps the dates of those it leaves unmarked.
LEMMA WriteEngagementsDates ==
    ASSUME IInv, DateInv, RowsStay, NEW t \in Session, WriteEngagements(t)
    PROVE  DatedIsReviewed'
<1> DEFINE r == req[t]
<1>1. /\ Ready(r) /\ r.op \in {"date", "schedule"}
      /\ mixed \ r.of = mixed' \ r.of
      /\ \A f \in Engagement \ r.of : eng'[f] = eng[f]
      /\ \A f \in r.of :
           /\ eng'[f].last \in {eng[f].last} \cup
                 (IF "last" \in DOMAIN r.want THEN {r.want["last"]} ELSE {})
           /\ f \notin mixed' => \A c \in DOMAIN r.want \ {"inherent"} : eng'[f][c] = r.want[c]
  BY WriteEngagementsRows
<1>2. Backed(r)
  BY <1>1 DEF WriteEngagements, DateInv, Idle
<1> HIDE DEF r
<1>3. ASSUME NEW f \in Engagement
      PROVE  /\ eng'[f].last # NoDate => eng[f].last # NoDate \/ Reviewed(f)
             /\ f \notin mixed' /\ eng'[f].reason = None /\ eng'[f].last # NoDate =>
                  \/ eng'[f].due > eng'[f].last
                  \/ /\ f \notin mixed /\ eng[f].reason = None
                     /\ eng'[f].due = eng[f].due /\ eng'[f].last = eng[f].last
  <2>1. CASE f \notin r.of
    BY <1>1, <2>1
  <2>2. CASE f \in r.of /\ r.op = "date"
    <3>1. Reviewed(f)
      BY <1>2, <2>2 DEF Backed
    <3>2. /\ "due" \in DOMAIN r.want \ {"inherent"} /\ "last" \in DOMAIN r.want \ {"inherent"}
          /\ r.want["due"] > r.want["last"]
      BY <1>1, <2>2 DEF Ready, Sensible
    <3>3. f \notin mixed' => eng'[f]["due"] = r.want["due"] /\ eng'[f]["last"] = r.want["last"]
      BY <1>1, <2>2, <3>2
    <3> QED
      BY <3>1, <3>2, <3>3
  <2>3. CASE f \in r.of /\ r.op = "schedule"
    <3>1. /\ "reason" \in DOMAIN r.want \ {"inherent"} /\ "last" \notin DOMAIN r.want
          /\ r.want["reason"] # None
      BY <1>1, <2>3 DEF Ready, Sensible
    <3>2. f \notin mixed' => eng'[f]["reason"] = r.want["reason"]
      BY <1>1, <2>3, <3>1
    <3>3. eng'[f].last = eng[f].last
      BY <1>1, <2>3, <3>1
    <3> QED
      BY <3>1, <3>2, <3>3
  <2> QED
    BY <1>1, <2>1, <2>2, <2>3
<1> QED
  BY <1>3, DatesKept DEF DateInv

\* A request that loads an assessment it need not change finds it reviewed.
LEMMA LoadBacked ==
    ASSUME IInv, NEW t \in Session, NEW a \in DOMAIN asm,
           NEW op \in {"signoff", "approve", "recall", "reassign"}, NEW wanted,
           Load(t, op, a, wanted),
           op = "approve" => wanted = [status |-> "Approved", locked |-> "yes"],
           op = "signoff" => wanted = [signoff |-> "yes"]
    PROVE  /\ UNCHANGED <<asm, eng, mixed, signed>>
           /\ Backed(req'[t]) /\ \A v \in Session \ {t} : req'[v] = req[v]
<1> DEFINE r == [op |-> op, id |-> a, sets |-> Changed(asm[a], wanted)]
<1>1. /\ req' = [req EXCEPT ![t] = r] /\ UNCHANGED <<asm, eng, mixed, signed>>
      /\ DOMAIN req = Session
  BY DEF Load, IInv, Reqs
<1>2. asm[a] \in Row /\ Sound(asm[a], a)
  BY DEF IInv, Rows
<1>3. op = "approve" /\ asm[a].locked # "yes" => "locked" \in DOMAIN Changed(asm[a], wanted)
  BY DEF Changed
<1>4. op = "signoff" /\ asm[a].signoff # "yes" => "signoff" \in DOMAIN Changed(asm[a], wanted)
  BY DEF Changed
<1>5. Backed(r)
  BY <1>2, <1>3, <1>4 DEF Backed, Sound
<1> QED
  BY <1>1, <1>5

LEMMA LoadDatesBacked ==
    ASSUME IInv, DateInv, NEW t \in Session, LoadDates(t)
    PROVE  Backed(req'[t])
<1> DEFINE old == req[t]
           e == asm[old.id].eng
<1>1. /\ old.op \in {"signoff", "approve"} /\ DOMAIN old.sets = {}
      /\ LoadEngagements(t, "date", {e}, Dates(eng[e])) /\ DOMAIN req = Session
  BY DEF LoadDates, IInv, Reqs
<1>2. old.id \in DOMAIN asm /\ Backed(old)
  BY <1>1 DEF DateInv, IInv, Reqs, Ready, IsRequest, Idle
<1>3. old.id \in signed \/ asm[old.id].locked = "yes"
  BY <1>1, <1>2 DEF Backed
<1>4. Reviewed(e)
  BY <1>2, <1>3 DEF Reviewed, Approved
<1> HIDE DEF e
<1>5. req'[t].op = "date" /\ req'[t].of = {e}
  BY <1>1 DEF LoadEngagements
<1> QED
  BY <1>4, <1>5 DEF Backed

LEMMA NextDates == IInv /\ DateInv /\ [Next]_vars => DateInv'
<1> SUFFICES ASSUME IInv, DateInv, [Next]_vars
             PROVE  DateInv'
  OBVIOUS
<1>0. /\ RowsStay /\ IInv' /\ eng \in [Engagement -> EngRow] /\ DOMAIN req = Session
      /\ \A t \in Session : req'[t] # Idle => Ready(req[t])'
  BY NextRowsStay, NextParts DEF IInv, Engs, Reqs
<1>1. ASSUME UNCHANGED <<eng, mixed>>, \A t \in Session : req'[t] \in {req[t], Idle}
      PROVE  DateInv'
  BY <1>0, <1>1, DatesKept, BackedKept DEF DateInv
<1>2. ASSUME UNCHANGED <<req, mixed>>,
             \A f \in Engagement :
               /\ eng'[f].last = eng[f].last
               /\ eng'[f].reason = None => eng[f].reason = None /\ eng'[f].due = eng[f].due
      PROVE  DateInv'
  BY <1>0, <1>2, DatesKept, BackedKept DEF DateInv
<1>3. CASE UNCHANGED vars
  BY <1>1, <1>3 DEF vars
<1>4. ASSUME NEW e \in Engagement, NEW band \in Band \cup {None},
             Create(e, band) \/ AutoAssess(e, band)
      PROVE  DateInv'
  <2>1. CASE Create(e, band)
    BY <1>0, <1>2, <2>1 DEF Create, Linked, EngRow
  <2>2. CASE AutoAssess(e, band)
    BY <1>0, <1>2, <2>2 DEF AutoAssess, Linked, EngRow
  <2> QED
    BY <1>4, <2>1, <2>2
<1>5. CASE UpdateVendor
  <2>1. req' = req
    BY <1>5 DEF UpdateVendor
  <2>2. \A f \in Engagement : eng'[f].last = eng[f].last /\ eng'[f].reason # None
    BY <1>5, UpdateVendorParts
  <2>3. DatedIsReviewed'
    BY <1>0, <2>2, DatesKept DEF DateInv
  <2> QED
    BY <1>0, <2>1, <2>3, BackedKept DEF DateInv
<1>6. ASSUME NEW t \in Session, UNCHANGED <<asm, eng, mixed, signed, today>>,
             Backed(req'[t]), \A v \in Session \ {t} : req'[v] = req[v]
      PROVE  DateInv'
  <2>1. DatedIsReviewed'
    BY <1>0, <1>6, DatesKept DEF DateInv
  <2>2. \A v \in Session : req'[v] # Idle => Backed(req[v])'
    <3>1. ASSUME NEW v \in Session, req'[v] # Idle
          PROVE  Backed(req[v])'
      <4>1. Backed(req'[v])
        BY <1>6, <3>1 DEF DateInv
      <4> QED
        BY <1>6, <4>1 DEF Backed, Reviewed, Approved
    <3> QED
      BY <3>1
  <2> QED
    BY <2>1, <2>2 DEF DateInv
<1>7. ASSUME NEW t \in Session, NEW a \in DOMAIN asm,
             LoadSignOff(t, a) \/ LoadApprove(t, a) \/ LoadRecall(t, a) \/ LoadReassign(t, a)
      PROVE  DateInv'
  <2>0. today' = today
    BY <1>7 DEF LoadSignOff, LoadApprove, LoadRecall, LoadReassign, Load
  <2>1. CASE LoadSignOff(t, a)
    BY <1>6, <2>0, <2>1, LoadBacked DEF LoadSignOff
  <2>2. CASE LoadApprove(t, a)
    BY <1>6, <2>0, <2>2, LoadBacked DEF LoadApprove
  <2>3. CASE LoadRecall(t, a)
    BY <1>6, <2>0, <2>3, LoadBacked DEF LoadRecall
  <2>4. CASE LoadReassign(t, a)
    <3>1. PICK u \in User : Load(t, "reassign", a, [assessor |-> u, signoff |-> "no"])
      BY <2>4 DEF LoadReassign
    <3> QED
      BY <1>6, <2>0, <3>1, LoadBacked
  <2> QED
    BY <1>7, <2>1, <2>2, <2>3, <2>4
<1>8. ASSUME NEW t \in Session, LoadFix(t) \/ LoadDates(t) \/
               \E e \in Engagement, band \in Band \cup {None} : LoadEdit(t, e, band)
      PROVE  DateInv'
  <2>1. /\ UNCHANGED <<asm, eng, mixed, signed, today>>
        /\ \A v \in Session \ {t} : req'[v] = req[v]
    BY <1>0, <1>8 DEF LoadFix, LoadDates, LoadEdit, LoadEngagements
  <2>2. Backed(req'[t])
    <3>1. CASE LoadDates(t)
      BY <3>1, LoadDatesBacked
    <3>2. CASE ~ LoadDates(t)
      <4>1. \E es, want : LoadEngagements(t, "schedule", es, want)
        BY <1>8, <3>2 DEF LoadFix, LoadEdit
      <4>2. req'[t].op = "schedule"
        BY <1>0, <4>1 DEF LoadEngagements
      <4> QED
        BY <4>2 DEF Backed
    <3> QED
      BY <3>1, <3>2
  <2> QED
    BY <1>6, <2>1, <2>2
<1>9. ASSUME NEW t \in Session, Write(t) \/ WriteEngagements(t)
      PROVE  DateInv'
  <2>1. DatedIsReviewed'
    BY <1>0, <1>9, WriteDates, WriteEngagementsDates
  <2>2. \A v \in Session : req'[v] \in {req[v], Idle}
    BY <1>0, <1>9 DEF Write, WriteEngagements
  <2> QED
    BY <1>0, <2>1, <2>2, BackedKept DEF DateInv
<1>10. ASSUME NEW t \in Session, Abandon(t)
      PROVE  DateInv'
  BY <1>0, <1>1, <1>10 DEF Abandon
<1>11. ASSUME NEW e \in Engagement, NEW u \in User, Assign(e, u)
      PROVE  DateInv'
  BY <1>1, <1>11 DEF Assign
<1>12. CASE NewDay
  BY <1>1, <1>12 DEF NewDay
<1> QED
  BY <1>3, <1>4, <1>5, <1>7, <1>8, <1>9, <1>10, <1>11, <1>12 DEF Next

\* A dated engagement has an assessment that was signed off or approved, always, and
\* is due later unless it carries a reason or its last write left out a column
\* (record_last_assessment, schedule_reassessment).
THEOREM DatesAreReviewed == Spec => []DatedIsReviewed
<1>1. Init => DateInv
  BY DEF Init, DateInv, DatedIsReviewed
<1>2. DateInv => DatedIsReviewed
  BY DEF DateInv
<1> QED
  BY <1>1, <1>2, NextDates, ReviewParts, PTL DEF Spec

\* The row of an engagement agrees with its assessments throughout.
THEOREM EngagementsAgree == Spec => []EngagementAgrees
<1>1. LinkIsLatest /\ FlaggedIsDue /\ DatedIsReviewed => EngagementAgrees
  BY DEF EngagementAgrees
<1> QED
  BY <1>1, LatestIsLinked, FlagMeansDue, DatesAreReviewed, PTL
==============================================================================

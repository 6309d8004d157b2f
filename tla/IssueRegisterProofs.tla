------------------------- MODULE IssueRegisterProofs -------------------------
(***************************************************************************)
(* For any number of sessions, vendors and artefacts: a vendor never has   *)
(* two open sanctions issues, a monitoring run never reports an artefact a *)
(* second time, and a filing leaves no issue about what it retires.  The   *)
(* argument is that a session that has written holds the write lock, so    *)
(* the committed issues it read are those it commits on top of.            *)
(***************************************************************************)
EXTENDS IssueRegister, TLAPS

Single(issues) ==
    \A i, j \in issues :
        i.about = Sanctions /\ j.about = Sanctions /\ i.vendor = j.vendor => i = j

\* A session has written issues only under the lock, and a monitoring run does
\* nothing without it.
Placed(t) ==
    /\ t \in Sweeper /\ step[t] # "idle" => holder = t
    /\ step[t] = "sweeping" => t \in Sweeper
    /\ step[t] \in {"raising", "chosen"} => work[t].art \in Art

LockInv ==
    \A t \in Session :
        /\ pend[t].added # {} \/ pend[t].closed # {} => holder = t
        /\ Placed(t)

SingleInv ==
    /\ Single(open)
    /\ \A t \in Session : Single(Visible(t))

\* What a monitoring run has looked at is still so, because it holds the lock.
Unreported(a) == a \in current /\ AboutArt(a, open) = {}
Swept(t) ==
    /\ step[t] \in {"idle", "sweeping", "checking", "raising"}
    /\ work[t].arts \subseteq current
    /\ step[t] = "idle" => work[t].arts = {}
    /\ step[t] = "raising" => Unreported(work[t].art)
    /\ \A i \in pend[t].closed : i.about = Sanctions
    /\ \A i \in pend[t].added : i.about \in Art => Unreported(i.about)
SweepInv == \A t \in Sweeper : Swept(t)

\* A filing that retires an artefact has settled, under the lock, every issue about
\* it, its own and the committed ones, and does nothing more before it commits.
Filing(t) ==
    pend[t].retired # {} =>
        /\ step[t] = "written" /\ holder = t
        /\ \A a \in pend[t].retired : AboutArt(a, Visible(t)) = {}
FilingInv == \A t \in Session : Filing(t)

IssueInv == TypeOK /\ LockInv /\ SingleInv

LEMMA InitIssues == Init => IssueInv /\ SweepInv
BY IssueConstants DEF Init, IssueInv, TypeOK, LockInv, Placed, SingleInv, Single, Visible,
   SweepInv, Swept, NoPend, NoWork, Pend, Work, Band, Age, Step

\* apply_screening_outcome keeps one sanctions issue at most, and only adds and
\* removes sanctions issues.
LEMMA OutcomeSingle ==
    ASSUME NEW S \in SUBSET Issue, Single(S), NEW v \in Vendor, NEW b \in Band,
           NEW T \in Outcomes(v, b, S)
    PROVE  /\ T \in SUBSET Issue
           /\ Single(T)
           /\ \A i \in T \ S : i.about = Sanctions
           /\ \A i \in S \ T : i.about = Sanctions
<1> DEFINE new == NewIssue(v, Sanctions, KindOf(b))
<1>1. new \in Issue /\ new.vendor = v /\ new.about = Sanctions /\ KindOf(b) \in Kind
  BY IssueConstants DEF NewIssue, Issue, KindOf, Kind
<1>2. CASE b = "Clear"
  BY <1>2 DEF Outcomes, SanctionsOf, Single
<1>3. CASE b # "Clear" /\ SanctionsOf(v, S) = {}
  <2>1. T = S \cup {new}
    BY <1>3 DEF Outcomes
  <2> HIDE DEF new
  <2> QED
    BY <1>1, <1>3, <2>1 DEF SanctionsOf, Single
<1>4. CASE b # "Clear" /\ SanctionsOf(v, S) # {}
  <2>1. PICK i \in SanctionsOf(v, S) :
           T = (S \ {i}) \cup {[i EXCEPT !.kind = KindOf(b)]}
    BY <1>4 DEF Outcomes
  <2> DEFINE j == [i EXCEPT !.kind = KindOf(b)]
  <2>2. i \in S /\ i.vendor = v /\ i.about = Sanctions
    BY DEF SanctionsOf
  <2>3. j \in Issue /\ j.vendor = v /\ j.about = Sanctions
    BY <1>1, <2>2 DEF Issue
  <2>4. T = (S \ {i}) \cup {j}
    BY <2>1
  <2> HIDE DEF j
  <2> QED
    BY <2>2, <2>3, <2>4 DEF Single
<1> QED
  BY <1>2, <1>3, <1>4

\* A write under the lock: the session sees what it means to see, nobody else's
\* view changes.
LEMMA WriteIssues ==
    ASSUME IssueInv, NEW t \in Session, NEW T \in SUBSET Issue, Single(T),
           NEW r \in Pend, r.added = T \ open, r.closed = open \ T,
           pend' = [pend EXCEPT ![t] = r], holder' = t, holder \in {t, Nobody},
           open' = open, Placed(t)',
           \A u \in Session \ {t} : step'[u] = step[u] /\ work'[u] = work[u]
    PROVE  LockInv' /\ SingleInv'
<1>1. \A u \in Session \ {t} : holder # u /\ pend'[u] = pend[u] /\ Visible(u)' = Visible(u)
  BY IssueConstants DEF IssueInv, TypeOK, Visible
<1>2. pend'[t] = r /\ Visible(t)' = T
  BY DEF IssueInv, TypeOK, Visible
<1>3. LockInv'
  BY <1>1, <1>2, IssueConstants DEF IssueInv, LockInv, Placed
<1>4. SingleInv'
  BY <1>1, <1>2 DEF IssueInv, SingleInv, Single
<1> QED
  BY <1>3, <1>4

\* A session's change of its own reading, with or without the lock.
LEMMA OtherWrites ==
    ASSUME IssueInv, NEW t \in Session, open' = open, pend' \in [Session -> Pend],
           \A u \in Session : pend'[u].added = pend[u].added /\ pend'[u].closed = pend[u].closed,
           holder' = holder \/ (holder \in {t, Nobody} /\ holder' = t), Placed(t)',
           \A u \in Session \ {t} : step'[u] = step[u] /\ work'[u] = work[u]
    PROVE  LockInv' /\ SingleInv'
<1>1. \A u \in Session : Visible(u)' = Visible(u)
  BY DEF Visible
<1>2. LockInv'
  BY IssueConstants DEF IssueInv, LockInv, Placed
<1>3. SingleInv'
  BY <1>1 DEF IssueInv, SingleInv, Single
<1> QED
  BY <1>2, <1>3

\* A session ends: nothing of it is left, and the others never held the lock.
LEMMA SessionEnds ==
    ASSUME IssueInv, NEW t \in Session, open' = open,
           pend' = [pend EXCEPT ![t] = NoPend], step' = [step EXCEPT ![t] = "idle"],
           \A u \in Session \ {t} : work'[u] = work[u],
           holder' = IF holder = t THEN Nobody ELSE holder
    PROVE  LockInv' /\ SingleInv'
<1>1. Visible(t)' = open /\ \A u \in Session \ {t} : Visible(u)' = Visible(u)
  BY DEF Visible, IssueInv, TypeOK, NoPend
<1>2. LockInv'
  BY IssueConstants DEF IssueInv, LockInv, Placed, TypeOK, NoPend
<1>3. SingleInv'
  BY <1>1 DEF IssueInv, SingleInv, Single
<1> QED
  BY <1>2, <1>3

LEMMA CommitKeeps ==
    ASSUME IssueInv, NEW t \in Session, Commit(t)
    PROVE  LockInv' /\ SingleInv'
<1>1. \A u \in Session \ {t} : /\ holder # u /\ pend'[u] = pend[u] /\ step'[u] = step[u]
                              /\ pend[u].added = {} /\ pend[u].closed = {}
  BY IssueConstants DEF Commit, IssueInv, LockInv, TypeOK
<1>2. open' = Visible(t) /\ Single(open')
  BY DEF Commit, IssueInv, SingleInv, Single
<1>3. pend'[t].added = {} /\ pend'[t].closed = {} /\ step'[t] = "idle"
  BY DEF Commit, IssueInv, TypeOK, NoPend
<1>4. \A u \in Session : pend'[u].added = {} /\ pend'[u].closed = {}
  BY <1>1, <1>3
<1>5. \A u \in Session : Visible(u)' = open'
  BY <1>4 DEF Visible
<1>6. LockInv'
  <2>1. \A u \in Session \ {t} : work'[u] = work[u]
    BY DEF Commit, IssueInv, TypeOK
  <2>2. \A u \in Session \ {t} : Placed(u)'
    BY <1>1, <2>1 DEF IssueInv, LockInv, Placed
  <2>3. Placed(t)'
    BY <1>3 DEF Placed
  <2> QED
    BY <1>4, <2>2, <2>3 DEF LockInv
<1>7. SingleInv'
  BY <1>2, <1>5 DEF SingleInv, Single
<1> QED
  BY <1>6, <1>7

------------------------------------------------------------------------------
(***************************************************************************)
(* Types, one lemma for the steps of a session and one for its end.        *)
(***************************************************************************)

LEMMA NewIssueType ==
    ASSUME NEW v \in Vendor, NEW x \in Art \cup {Sanctions}, NEW k \in Kind
    PROVE  NewIssue(v, x, k) \in Issue /\ NewIssue(v, x, k).about = x
BY DEF NewIssue, Issue

LEMMA VisibleType ==
    ASSUME TypeOK, NEW t \in Session
    PROVE  Visible(t) \in SUBSET Issue /\ open \in SUBSET Issue
BY DEF TypeOK, Visible, Pend

\* The issues a filing leaves.
Left(t) == IF work[t].prior = NoArt THEN Visible(t)
           ELSE Visible(t) \ Settled(work[t].art, work[t].prior, Visible(t))

LEMMA SetIssuesType ==
    ASSUME TypeOK, NEW t \in Session, NEW T \in SUBSET Issue
    PROVE  /\ SetIssues(t, T) \in Pend
           /\ SetIssues(t, T).added = T \ open
           /\ SetIssues(t, T).closed = open \ T
BY VisibleType DEF TypeOK, SetIssues, Pend

LEMMA ApplyType ==
    ASSUME IssueInv, NEW t \in Session, NEW v \in Vendor, NEW b \in Band,
           ApplyOutcome(t, v, b)
    PROVE  \E T \in Outcomes(v, b, Visible(t)), r \in Pend :
             /\ T \in SUBSET Issue /\ Single(T)
             /\ r.added = T \ open /\ r.closed = open \ T
             /\ r.filed = pend[t].filed /\ r.retired = pend[t].retired
             /\ pend' = [pend EXCEPT ![t] = r]
<1>1. PICK T \in Outcomes(v, b, Visible(t)) :
         pend' = [pend EXCEPT ![t] =
                    [SetIssues(t, T) EXCEPT !.critical = @ \cup Escalations(v, b)]]
  BY DEF ApplyOutcome
<1>2. Visible(t) \in SUBSET Issue /\ Single(Visible(t)) /\ TypeOK
  BY VisibleType DEF IssueInv, SingleInv
<1>3. T \in SUBSET Issue /\ Single(T)
  BY <1>2, OutcomeSingle
<1> DEFINE r == [SetIssues(t, T) EXCEPT !.critical = @ \cup Escalations(v, b)]
<1>4. SetIssues(t, T) \in Pend /\ Escalations(v, b) \subseteq Vendor
  BY <1>2, <1>3, SetIssuesType DEF Escalations
<1>5. /\ r \in Pend /\ r.added = T \ open /\ r.closed = open \ T
      /\ r.filed = pend[t].filed /\ r.retired = pend[t].retired
  BY <1>2, <1>3, <1>4 DEF SetIssues, Pend, TypeOK
<1> QED
  BY <1>1, <1>3, <1>5

LEMMA NextIssues == IssueInv /\ [Next]_vars => IssueInv'
<1> SUFFICES ASSUME IssueInv, [Next]_vars
             PROVE  IssueInv'
  OBVIOUS
<1> USE DEF register, world
<1>0. TypeOK
  BY DEF IssueInv
<1>1. CASE UNCHANGED vars
  BY <1>1 DEF vars, IssueInv, TypeOK, LockInv, Placed, SingleInv, Single, Visible
<1>2. ASSUME NEW t \in Session, NEW v \in Vendor, NEW b \in Band,
             ScreenName(t, v, b) \/ ScreenEntities(t, v, b)
      PROVE  IssueInv'
  <2>1. Worst(band[v], b) \in Band
    BY DEF Worst, Band
  <2>2. PICK c \in Band : Judge(t, v, c)
    BY <1>2, <2>1 DEF ScreenName, ScreenEntities
  <2>3. TypeOK'
    BY <1>0, <2>2 DEF Judge, TypeOK, Goto, Work, Step
  <2>4. Placed(t)' /\ \A u \in Session \ {t} : step'[u] = step[u] /\ work'[u] = work[u]
    BY <1>0, <2>2 DEF Judge, TypeOK, Goto, IssueInv, LockInv, Placed
  <2>5. open' = open /\ pend' = pend /\ holder' = holder
    BY <2>2 DEF Judge
  <2>6. LockInv' /\ SingleInv'
    BY <1>0, <2>4, <2>5, OtherWrites DEF TypeOK
  <2> QED
    BY <2>3, <2>6 DEF IssueInv
<1>3. ASSUME NEW t \in Session, ScreenApply(t)
      PROVE  IssueInv'
  <2>1. PICK v \in work[t].vendor : ApplyOutcome(t, v, work[t].verdict)
    BY <1>3 DEF ScreenApply
  <2>2. v \in Vendor /\ work[t].verdict \in Band
    BY <1>0 DEF TypeOK, Work
  <2>3. PICK T \in SUBSET Issue, r \in Pend :
           /\ Single(T)
           /\ r.added = T \ open /\ r.closed = open \ T
           /\ pend' = [pend EXCEPT ![t] = r]
    BY <2>1, <2>2, ApplyType
  <2>4. TypeOK'
    BY <1>0, <1>3, <2>3 DEF ScreenApply, TypeOK, Goto, TakeLock, Step
  <2>5. /\ holder \in {t, Nobody} /\ holder' = t /\ open' = open
        /\ step'[t] = "written" /\ work' = work
        /\ \A u \in Session \ {t} : step'[u] = step[u]
    BY <1>0, <1>3 DEF ScreenApply, Goto, TakeLock, TypeOK
  <2>6. Placed(t)'
    BY <2>5 DEF Placed
  <2>7. LockInv' /\ SingleInv'
    BY <2>3, <2>5, <2>6, WriteIssues
  <2> QED
    BY <2>4, <2>7 DEF IssueInv
<1>4. ASSUME NEW t \in Session, StartRun(t)
      PROVE  IssueInv'
  <2>1. TypeOK'
    BY <1>0, <1>4 DEF StartRun, TypeOK, Goto, TakeLock, Work, Step
  <2>2. Placed(t)' /\ \A u \in Session \ {t} : step'[u] = step[u] /\ work'[u] = work[u]
    BY <1>0, <1>4 DEF StartRun, TypeOK, Goto, TakeLock, IssueInv, LockInv, Placed
  <2>3. open' = open /\ pend' = pend /\ (holder' = holder \/ (holder \in {t, Nobody} /\ holder' = t))
    BY <1>4 DEF StartRun, TakeLock
  <2>4. LockInv' /\ SingleInv'
    BY <1>0, <2>2, <2>3, OtherWrites DEF TypeOK
  <2> QED
    BY <2>1, <2>4 DEF IssueInv
<1>5. ASSUME NEW t \in Session, NEW v \in Vendor, Rescreen(t, v)
      PROVE  IssueInv'
  <2>1. PICK T \in SUBSET Issue, r \in Pend :
           /\ Single(T)
           /\ r.added = T \ open /\ r.closed = open \ T
           /\ pend' = [pend EXCEPT ![t] = r]
    BY <1>0, <1>5, ApplyType DEF Rescreen, TypeOK
  <2>2. TypeOK'
    BY <1>0, <1>5, <2>1 DEF Rescreen, TypeOK, Work
  <2>3. /\ holder = t /\ holder' = t /\ open' = open /\ step' = step
        /\ step[t] = "sweeping" /\ t \in Sweeper
        /\ \A u \in Session \ {t} : work'[u] = work[u]
    BY <1>0, <1>5 DEF Rescreen, IssueInv, LockInv, Placed, TypeOK
  <2>4. Placed(t)'
    BY <2>3 DEF Placed
  <2>5. LockInv' /\ SingleInv'
    BY <2>1, <2>3, <2>4, WriteIssues
  <2> QED
    BY <2>2, <2>5 DEF IssueInv
<1>6. ASSUME NEW t \in Session, TaskRaises(t)
      PROVE  IssueInv'
  <2>1. TypeOK'
    BY <1>0, <1>6 DEF TaskRaises, TypeOK, Goto, TakeLock, Work, Step
  <2>2. Placed(t)' /\ \A u \in Session \ {t} : step'[u] = step[u] /\ work'[u] = work[u]
    BY <1>0, <1>6 DEF TaskRaises, TypeOK, Goto, TakeLock, IssueInv, LockInv, Placed
  <2>3. open' = open /\ pend' = pend /\ (holder' = holder \/ (holder \in {t, Nobody} /\ holder' = t))
    BY <1>6 DEF TaskRaises, TakeLock
  <2>4. LockInv' /\ SingleInv'
    BY <1>0, <2>2, <2>3, OtherWrites DEF TypeOK
  <2> QED
    BY <2>1, <2>4 DEF IssueInv
<1>7. ASSUME NEW t \in Session, Revalidate(t)
      PROVE  IssueInv'
  <2>1. TypeOK'
    BY <1>0, <1>7 DEF Revalidate, TypeOK, Goto, TakeLock, Work, Step
  <2>2. Placed(t)' /\ \A u \in Session \ {t} : step'[u] = step[u] /\ work'[u] = work[u]
    BY <1>0, <1>7 DEF Revalidate, TypeOK, Goto, TakeLock, IssueInv, LockInv, Placed
  <2>3. open' = open /\ pend' = pend /\ (holder' = holder \/ (holder \in {t, Nobody} /\ holder' = t))
    BY <1>7 DEF Revalidate, TakeLock
  <2>4. LockInv' /\ SingleInv'
    BY <1>0, <2>2, <2>3, OtherWrites DEF TypeOK
  <2> QED
    BY <2>1, <2>4 DEF IssueInv
<1>8. ASSUME NEW t \in Session, NEW a \in Art, Check(t, a)
      PROVE  IssueInv'
  <2> DEFINE r == [pend[t] EXCEPT !.marked = @ \cup Refreshed(a)]
  <2>1. pend' = [pend EXCEPT ![t] = r] /\ r \in Pend
        /\ r.added = pend[t].added /\ r.closed = pend[t].closed
    BY <1>0, <1>8 DEF Check, TypeOK, Pend, Refreshed
  <2>2. holder' = holder \/ (holder \in {t, Nobody} /\ holder' = t)
    BY <1>8 DEF Check, TakeLock
  <2>3. /\ work' \in [Session -> Work] /\ step' \in [Session -> Step]
        /\ \A u \in Session \ {t} : step'[u] = step[u] /\ work'[u] = work[u]
        /\ step'[t] \in {"raising", "checking"}
        /\ step'[t] = "raising" => work'[t].art = a
    <3>1. work[t].arts \ {a} \in SUBSET Art /\ work[t] \in Work
      BY <1>0 DEF TypeOK, Work
    <3>2. work' \in [Session -> Work]
      BY <1>0, <1>8, <3>1 DEF Check, TypeOK, Work
    <3>3. step' \in [Session -> Step]
      BY <1>0, <1>8 DEF Check, Goto, TypeOK, Step
    <3>4. \A u \in Session \ {t} : step'[u] = step[u] /\ work'[u] = work[u]
      BY <1>0, <1>8 DEF Check, Goto, TypeOK
    <3>5. /\ step'[t] \in {"raising", "checking"}
          /\ step'[t] = "raising" => work'[t].art = a
      BY <1>0, <1>8, <3>1 DEF Check, Goto, TypeOK, Work
    <3> QED
      BY <3>2, <3>3, <3>4, <3>5
  <2>4. TypeOK'
    BY <1>0, <1>8, <2>1, <2>2, <2>3 DEF Check, TypeOK
  <2>5. pend' \in [Session -> Pend] /\ open' = open /\ step[t] # "idle"
    BY <1>0, <1>8, <2>1 DEF TypeOK, Check
  <2>6. \A u \in Session : pend'[u].added = pend[u].added /\ pend'[u].closed = pend[u].closed
    BY <1>0, <2>1 DEF TypeOK
  <2>7. Placed(t)'
    BY <2>2, <2>3, <2>5 DEF IssueInv, LockInv, Placed
  <2>8. LockInv' /\ SingleInv'
    BY <2>2, <2>3, <2>5, <2>6, <2>7, OtherWrites
  <2> QED
    BY <2>4, <2>8 DEF IssueInv
<1>9. ASSUME NEW t \in Session, Raise(t)
      PROVE  IssueInv'
  <2> DEFINE a == work[t].art
             new == NewIssue(OwnerOf[a], a, "expired_certificate")
             T == Visible(t) \cup {new}
             r == SetIssues(t, T)
  <2>1. a \in Art /\ OwnerOf[a] \in Vendor
    BY <1>9, IssueConstants DEF Raise, IssueInv, LockInv, Placed
  <2>2. new \in Issue /\ new.about = a
    BY <2>1, NewIssueType DEF Kind
  <2>3. T \in SUBSET Issue /\ Single(T)
    <3> HIDE DEF new
    <3> QED
      BY <1>0, <2>1, <2>2, VisibleType, IssueConstants DEF IssueInv, SingleInv, Single
  <2>4. r \in Pend /\ r.added = T \ open /\ r.closed = open \ T
    BY <1>0, <2>3, SetIssuesType
  <2>5. pend' = [pend EXCEPT ![t] = r]
    BY <1>9 DEF Raise
  <2> HIDE DEF r
  <2>6. /\ holder \in {t, Nobody} /\ holder' = t /\ open' = open
        /\ step'[t] = "checking" /\ step' \in [Session -> Step]
        /\ work' \in [Session -> Work]
        /\ \A u \in Session \ {t} : step'[u] = step[u] /\ work'[u] = work[u]
    BY <1>0, <1>9 DEF Raise, Goto, TakeLock, TypeOK, Work, Step
  <2>7. TypeOK'
    BY <1>0, <1>9, <2>4, <2>5, <2>6 DEF Raise, TypeOK
  <2>8. Placed(t)'
    BY <2>6 DEF Placed
  <2>9. LockInv' /\ SingleInv'
    BY <2>3, <2>4, <2>5, <2>6, <2>8, WriteIssues
  <2> QED
    BY <2>7, <2>9 DEF IssueInv
<1>10. ASSUME NEW t \in Session, NEW a \in Art, NEW p \in Art \cup {NoArt}, File(t, a, p)
      PROVE  IssueInv'
  <2>1. TypeOK'
    BY <1>0, <1>10 DEF File, TypeOK, Goto, TakeLock, Work, Step
  <2>2. Placed(t)' /\ \A u \in Session \ {t} : step'[u] = step[u] /\ work'[u] = work[u]
    BY <1>0, <1>10 DEF File, TypeOK, Goto, TakeLock, IssueInv, LockInv, Placed
  <2>3. open' = open /\ pend' = pend /\ (holder' = holder \/ (holder \in {t, Nobody} /\ holder' = t))
    BY <1>10 DEF File, TakeLock
  <2>4. LockInv' /\ SingleInv'
    BY <1>0, <2>2, <2>3, OtherWrites DEF TypeOK
  <2> QED
    BY <2>1, <2>4 DEF IssueInv
<1>11. ASSUME NEW t \in Session, FileApply(t)
       PROVE  IssueInv'
  <2> DEFINE T == Left(t)
             r == [SetIssues(t, T) EXCEPT
                      !.filed = {work[t].art}, !.marked = Refreshed(work[t].art),
                      !.retired = {work[t].prior} \cap (filed \cup {work[t].art})]
  <2>1. work[t].art \in Art /\ work[t].prior \in Art \cup {NoArt}
    BY <1>0, <1>11 DEF FileApply, IssueInv, LockInv, Placed, TypeOK, Work
  <2>2. T \in SUBSET Issue /\ Single(T)
    BY <1>0, VisibleType DEF Left, IssueInv, SingleInv, Single
  <2>3. /\ SetIssues(t, T) \in Pend
        /\ SetIssues(t, T).added = T \ open /\ SetIssues(t, T).closed = open \ T
    BY <1>0, <2>2, SetIssuesType
  <2>4. r \in Pend /\ r.added = T \ open /\ r.closed = open \ T
    <3>1. {work[t].prior} \cap (filed \cup {work[t].art}) \in SUBSET Art
      BY <1>0, <2>1 DEF TypeOK
    <3> QED
      BY <2>1, <2>3, <3>1 DEF Pend, Refreshed
  <2>5. pend' = [pend EXCEPT ![t] = r]
    BY <1>11 DEF FileApply, Left
  <2> HIDE DEF r, T
  <2>6. /\ holder \in {t, Nobody} /\ holder' = t /\ open' = open /\ work' = work
        /\ step'[t] = "written" /\ step' \in [Session -> Step]
        /\ \A u \in Session \ {t} : step'[u] = step[u]
    BY <1>0, <1>11 DEF FileApply, Goto, TakeLock, TypeOK, Step
  <2>7. TypeOK'
    BY <1>0, <1>11, <2>4, <2>5, <2>6 DEF FileApply, TypeOK
  <2>8. Placed(t)'
    BY <2>6 DEF Placed
  <2>9. LockInv' /\ SingleInv'
    BY <2>2, <2>4, <2>5, <2>6, <2>8, WriteIssues
  <2> QED
    BY <2>7, <2>9 DEF IssueInv
<1>12. ASSUME NEW t \in Session, Commit(t)
       PROVE  IssueInv'
  <2>1. TypeOK'
    BY <1>0, <1>12, VisibleType DEF Commit, TypeOK, Pend, Work, NoPend, NoWork, Band, Step
  <2> QED
    BY <1>12, <2>1, CommitKeeps DEF IssueInv
<1>13. ASSUME NEW t \in Session, Fail(t)
       PROVE  IssueInv'
  <2>1. TypeOK'
    BY <1>0, <1>13 DEF Fail, TypeOK, Pend, Work, NoPend, NoWork, Band, Step
  <2>2. \A u \in Session \ {t} : work'[u] = work[u]
    BY <1>0, <1>13 DEF Fail, TypeOK
  <2>3. LockInv' /\ SingleInv'
    BY <1>13, <2>2, SessionEnds DEF Fail
  <2> QED
    BY <2>1, <2>3 DEF IssueInv
<1>14. ASSUME NEW a \in Art, Ageing(a)
       PROVE  IssueInv'
  BY <1>14 DEF Ageing, IssueInv, TypeOK, Age, LockInv, Placed, SingleInv, Single, Visible
<1>15. ASSUME NEW v \in Vendor, NEW b \in Band, LoadFeed(v, b)
       PROVE  IssueInv'
  BY <1>15 DEF LoadFeed, IssueInv, TypeOK, LockInv, Placed, SingleInv, Single, Visible
<1> QED
  BY <1>1, <1>2, <1>3, <1>4, <1>5, <1>6, <1>7, <1>8, <1>9, <1>10, <1>11, <1>12, <1>13,
     <1>14, <1>15 DEF Next, Start, Proceed, WorldStep

------------------------------------------------------------------------------
(***************************************************************************)
(* The monitoring run.                                                     *)
(***************************************************************************)

\* Another session cannot commit while a run is under way, so what the run has
\* looked at stays; its own steps keep the record right.
LEMMA NextSweep == IssueInv /\ SweepInv /\ [Next]_vars => SweepInv'
<1> SUFFICES ASSUME IssueInv, SweepInv, [Next]_vars, NEW s \in Sweeper
             PROVE  Swept(s)'
  BY DEF SweepInv
<1> USE DEF register, world
<1>0. TypeOK /\ s \in Session /\ Swept(s)
  BY IssueConstants DEF IssueInv, SweepInv
\* The run itself does nothing and what it depends on does not change.
<1>1. ASSUME open' = open, current' = current, step'[s] = step[s], work'[s] = work[s],
             pend'[s] = pend[s]
      PROVE  Swept(s)'
  BY <1>0, <1>1 DEF Swept, Unreported
<1>2. CASE UNCHANGED vars
  BY <1>1, <1>2 DEF vars
\* Another session's step, a commit apart.
<1>3. ASSUME NEW t \in Session, t # s, ~Commit(t),
             Start(t) \/ Proceed(t) \/ TaskRaises(t) \/ Fail(t)
      PROVE  Swept(s)'
  <2>1. open' = open /\ current' = current
    BY <1>3 DEF Start, Proceed, TaskRaises, Fail, ScreenName, ScreenEntities, Judge,
       StartRun, Revalidate, File,
       ScreenApply, FileApply, Raise, Rescreen, Check
  <2>2. step'[s] = step[s] /\ work'[s] = work[s] /\ pend'[s] = pend[s]
    BY <1>0, <1>3 DEF Start, Proceed, TaskRaises, Fail, ScreenName, ScreenEntities, Judge,
       StartRun, Revalidate, File,
       ScreenApply, FileApply, Raise, Rescreen, Check, Goto, ApplyOutcome, TypeOK
  <2> QED
    BY <1>1, <2>1, <2>2
\* Another session can commit only while the run is not under way.
<1>4. ASSUME NEW t \in Session, t # s, Commit(t)
      PROVE  Swept(s)'
  <2>1. holder # s
    BY <1>0, <1>4, IssueConstants DEF Commit
  <2>2. step[s] = "idle" /\ pend[s].added = {} /\ pend[s].closed = {}
    BY <1>0, <2>1 DEF IssueInv, LockInv, Placed
  <2>3. step'[s] = step[s] /\ work'[s] = work[s] /\ pend'[s] = pend[s]
    BY <1>0, <1>4 DEF Commit, TypeOK
  <2> QED
    BY <1>0, <2>2, <2>3 DEF Swept
<1>5. CASE StartRun(s)
  <2>1. step'[s] = "sweeping" /\ work'[s].arts = work[s].arts
    BY <1>0, <1>5 DEF StartRun, Goto, TypeOK, Work
  <2>2. open' = open /\ current' = current /\ pend' = pend
    BY <1>5 DEF StartRun
  <2> QED
    BY <1>0, <2>1, <2>2 DEF Swept, Unreported
<1>6. ASSUME NEW v \in Vendor, Rescreen(s, v)
      PROVE  Swept(s)'
  <2>1. PICK T \in Outcomes(v, band[v], Visible(s)), r \in Pend :
           /\ T \in SUBSET Issue /\ r.added = T \ open /\ r.closed = open \ T
           /\ pend' = [pend EXCEPT ![s] = r]
    BY <1>0, <1>6, ApplyType DEF Rescreen, TypeOK
  <2>2. /\ \A i \in T \ Visible(s) : i.about = Sanctions
        /\ \A i \in Visible(s) \ T : i.about = Sanctions
    BY <1>0, <2>1, OutcomeSingle, VisibleType DEF IssueInv, SingleInv, TypeOK
  <2>3. pend'[s] = r /\ step' = step /\ open' = open /\ current' = current
        /\ work'[s].arts = work[s].arts /\ step[s] = "sweeping"
    BY <1>0, <1>6, <2>1 DEF Rescreen, TypeOK, Work
  <2>4. \A i \in pend'[s].closed : i.about = Sanctions
    BY <1>0, <2>1, <2>2, <2>3 DEF Visible, Swept
  <2>5. \A i \in pend'[s].added : i.about \in Art => Unreported(i.about)
    BY <1>0, <2>1, <2>2, <2>3, IssueConstants DEF Visible, Swept
  <2> QED
    BY <1>0, <2>3, <2>4, <2>5 DEF Swept, Unreported
<1>7. CASE Revalidate(s)
  <2>1. step'[s] = "checking" /\ work'[s].arts = current
    BY <1>0, <1>7 DEF Revalidate, Goto, TypeOK, Work
  <2>2. open' = open /\ current' = current /\ pend' = pend
    BY <1>7 DEF Revalidate
  <2> QED
    BY <1>0, <2>1, <2>2 DEF Swept, Unreported
<1>8. ASSUME NEW a \in Art, Check(s, a)
      PROVE  Swept(s)'
  <2>1. /\ open' = open /\ current' = current
        /\ pend'[s].added = pend[s].added /\ pend'[s].closed = pend[s].closed
    BY <1>0, <1>8 DEF Check, TypeOK, Pend
  <2>2. /\ work'[s].arts = work[s].arts \ {a}
        /\ work'[s].art = IF Raises(s, a) THEN a ELSE NoArt
        /\ step'[s] = IF Raises(s, a) THEN "raising" ELSE "checking"
    BY <1>0, <1>8 DEF Check, Goto, TypeOK, Work
  <2>3. a \in current /\ a \in Art
    BY <1>0, <1>8 DEF Check, Swept
  <2>4. Raises(s, a) => AboutArt(a, open) = {}
    BY <1>0, <2>3, IssueConstants DEF Raises, AboutArt, Visible, Swept
  <2> QED
    BY <1>0, <2>1, <2>2, <2>3, <2>4 DEF Swept, Unreported
<1>9. CASE Raise(s)
  <2> DEFINE a == work[s].art
             new == NewIssue(OwnerOf[a], a, "expired_certificate")
             T == Visible(s) \cup {new}
  <2>1. a \in Art /\ OwnerOf[a] \in Vendor /\ Unreported(a)
    BY <1>0, <1>9, IssueConstants DEF Raise, IssueInv, LockInv, Placed, Swept
  <2>2. new \in Issue /\ new.about = a
    BY <2>1, NewIssueType DEF Kind
  <2>3. T \in SUBSET Issue
    BY <1>0, <2>2, VisibleType
  <2>4. /\ pend'[s].added = T \ open /\ pend'[s].closed = open \ T
    BY <1>0, <1>9, <2>3, SetIssuesType DEF Raise, TypeOK
  <2>5. /\ open' = open /\ current' = current
        /\ step'[s] = "checking" /\ work'[s].arts = work[s].arts
    BY <1>0, <1>9 DEF Raise, Goto, TypeOK, Work
  <2> HIDE DEF new, a
  <2>6. \A i \in pend'[s].closed : i.about = Sanctions
    BY <1>0, <2>4 DEF Visible, Swept
  <2>7. \A i \in pend'[s].added : i.about \in Art => Unreported(i.about)
    BY <1>0, <2>1, <2>2, <2>4 DEF Visible, Swept
  <2> QED
    BY <1>0, <2>5, <2>6, <2>7 DEF Swept, Unreported
<1>10. CASE TaskRaises(s)
  <2>1. work'[s].arts = {} /\ work'[s].art = work[s].art
    BY <1>0, <1>10 DEF TaskRaises, TypeOK, Work
  <2>2. open' = open /\ current' = current /\ pend' = pend /\ step' = step
    BY <1>10 DEF TaskRaises
  <2> QED
    BY <1>0, <2>1, <2>2 DEF Swept, Unreported
<1>11. CASE Commit(s) \/ Fail(s)
  <2>1. step'[s] = "idle" /\ work'[s] = NoWork /\ pend'[s] = NoPend
    BY <1>0, <1>11 DEF Commit, Fail, TypeOK
  <2> QED
    BY <2>1 DEF Swept, NoWork, NoPend
<1>12. CASE WorldStep
  BY <1>1, <1>12 DEF WorldStep, Ageing, LoadFeed
<1>13. /\ \A v \in Vendor, b \in Band : ~ScreenName(s, v, b) /\ ~ScreenEntities(s, v, b)
       /\ \A a \in Art, p \in Art \cup {NoArt} : ~File(s, a, p)
       /\ ~ScreenApply(s) /\ ~FileApply(s)
  BY <1>0 DEF ScreenName, ScreenEntities, Judge, File, ScreenApply, FileApply, Swept
<1>14. ASSUME Start(s) \/ Proceed(s) \/ TaskRaises(s) \/ Fail(s)
       PROVE  Swept(s)'
  <2>1. CASE Start(s)
    BY <1>5, <1>7, <1>13, <2>1 DEF Start
  <2>2. CASE Proceed(s)
    BY <1>6, <1>7, <1>8, <1>9, <1>11, <1>13, <2>2 DEF Proceed
  <2> QED
    BY <1>10, <1>11, <1>14, <2>1, <2>2
<1>15. ASSUME NEW t \in Session, Start(t) \/ Proceed(t) \/ TaskRaises(t) \/ Fail(t)
       PROVE  Swept(s)'
  BY <1>3, <1>4, <1>14, <1>15
<1> QED
  BY <1>2, <1>12, <1>15 DEF Next

\* Nobody else commits while a filing holds the lock, and the filing itself can only
\* commit or fail.
LEMMA NextFiling == IssueInv /\ FilingInv /\ [Next]_vars => FilingInv'
<1> SUFFICES ASSUME IssueInv, FilingInv, [Next]_vars, NEW s \in Session
             PROVE  Filing(s)'
  BY DEF FilingInv
<1> USE DEF register, world
<1>0. TypeOK /\ Filing(s)
  BY DEF IssueInv, FilingInv
<1>1. ASSUME open' = open, step'[s] = step[s], pend'[s] = pend[s], holder = s => holder' = s
      PROVE  Filing(s)'
  BY <1>0, <1>1 DEF Filing, Visible
<1>2. CASE UNCHANGED vars
  BY <1>1, <1>2 DEF vars
<1>3. CASE WorldStep
  BY <1>1, <1>3 DEF WorldStep, Ageing, LoadFeed
\* Another session's step cannot take the lock away.
<1>4. ASSUME NEW t \in Session, t # s, ~Commit(t),
             Start(t) \/ Proceed(t) \/ TaskRaises(t) \/ Fail(t)
      PROVE  Filing(s)'
  <2>1. open' = open
    BY <1>4 DEF Start, Proceed, TaskRaises, Fail, ScreenName, ScreenEntities, Judge,
       StartRun, Revalidate, File,
       ScreenApply, FileApply, Raise, Rescreen, Check
  <2>2. step'[s] = step[s] /\ pend'[s] = pend[s]
    BY <1>0, <1>4 DEF Start, Proceed, TaskRaises, Fail, ScreenName, ScreenEntities, Judge,
       StartRun, Revalidate, File,
       ScreenApply, FileApply, Raise, Rescreen, Check, Goto, ApplyOutcome, TypeOK
  <2>3. holder = s => holder' = s
    BY <1>4, IssueConstants DEF Start, Proceed, TaskRaises, Fail, ScreenName, ScreenEntities, Judge,
       StartRun, Revalidate, File, ScreenApply, FileApply, Raise, Rescreen, Check, TakeLock
  <2> QED
    BY <1>1, <2>1, <2>2, <2>3
<1>5. ASSUME NEW t \in Session, t # s, Commit(t)
      PROVE  Filing(s)'
  <2>1. holder # s
    BY <1>5, IssueConstants DEF Commit
  <2>2. pend'[s] = pend[s]
    BY <1>0, <1>5 DEF Commit, TypeOK
  <2> QED
    BY <1>0, <2>1, <2>2 DEF Filing
\* The filing itself.
<1>6. CASE FileApply(s)
  <2> DEFINE a == work[s].art
             p == work[s].prior
             T == IF p = NoArt THEN Visible(s)
                  ELSE Visible(s) \ Settled(a, p, Visible(s))
             gone == {p} \cap (filed \cup {a})
  <2>1. T \in SUBSET Issue
    BY <1>0, VisibleType
  <2>2. /\ pend'[s].added = T \ open /\ pend'[s].closed = open \ T
        /\ pend'[s].retired = gone
        /\ open' = open /\ holder' = s /\ step'[s] = "written"
    <3> DEFINE r == [SetIssues(s, T) EXCEPT !.filed = {a}, !.marked = Refreshed(a),
                                            !.retired = gone]
    <3>1. pend' = [pend EXCEPT ![s] = r]
      BY <1>6 DEF FileApply
    <3>2. open' = open /\ holder' = s /\ step'[s] = "written"
      BY <1>0, <1>6 DEF FileApply, TakeLock, Goto, TypeOK
    <3>3. SetIssues(s, T) \in Pend /\ SetIssues(s, T).added = T \ open
          /\ SetIssues(s, T).closed = open \ T
      BY <1>0, <2>1, SetIssuesType
    <3> HIDE DEF T, gone
    <3>4. r.added = T \ open /\ r.closed = open \ T /\ r.retired = gone
      BY <3>3 DEF Pend
    <3> HIDE DEF r
    <3>5. pend'[s] = r
      BY <1>0, <3>1 DEF TypeOK
    <3> QED
      BY <3>2, <3>4, <3>5
  <2>3. Visible(s)' = T
    BY <1>0, <2>2 DEF Visible
  <2>4. \A q \in gone : AboutArt(q, T) = {}
    <3>1. a \in Art /\ filed \subseteq Art
      BY <1>0, <1>6 DEF FileApply, IssueInv, LockInv, Placed, TypeOK
    <3>2. gone # {} => p # NoArt
      BY <3>1, IssueConstants
    <3> QED
      BY <3>2 DEF AboutArt, Settled
  <2> HIDE DEF T, gone
  <2> QED
    BY <2>2, <2>3, <2>4 DEF Filing
\* What begins, goes on or ends without a filing retires nothing.
<1>7. CASE Commit(s) \/ Fail(s)
  BY <1>0, <1>7 DEF Commit, Fail, TypeOK, Filing, NoPend
<1>8. ASSUME pend[s].retired = {} \/ step[s] # "written", pend'[s].retired = pend[s].retired
      PROVE  Filing(s)'
  BY <1>0, <1>8 DEF Filing
<1>9. ASSUME Start(s) \/ TaskRaises(s)
      PROVE  Filing(s)'
  <2>1. step[s] # "written" /\ pend' = pend
    BY <1>9 DEF Start, TaskRaises, ScreenName, ScreenEntities, Judge, StartRun,
       Revalidate, File
  <2> QED
    BY <1>8, <2>1
<1>10. ASSUME NEW v \in Vendor, NEW b \in Band, ApplyOutcome(s, v, b), step[s] # "written"
       PROVE  Filing(s)'
  <2>1. pend'[s].retired = pend[s].retired
    BY <1>0, <1>10, ApplyType DEF TypeOK
  <2> QED
    BY <1>8, <1>10, <2>1
<1>11. CASE ScreenApply(s)
  <2>1. \A v \in work[s].vendor : v \in Vendor
    BY <1>0 DEF TypeOK, Work
  <2>2. work[s].verdict \in Band /\ step[s] # "written"
    BY <1>0, <1>11 DEF ScreenApply, TypeOK, Work
  <2> QED
    BY <1>10, <1>11, <2>1, <2>2 DEF ScreenApply
<1>12. ASSUME NEW v \in Vendor, Rescreen(s, v)
       PROVE  Filing(s)'
  <2>1. band[v] \in Band /\ step[s] # "written"
    BY <1>0, <1>12 DEF Rescreen, TypeOK
  <2> QED
    BY <1>10, <1>12, <2>1 DEF Rescreen
<1>13. CASE Raise(s)
  <2>1. pend'[s].retired = pend[s].retired /\ step[s] # "written"
    BY <1>0, <1>13 DEF Raise, SetIssues, TypeOK, Pend
  <2> QED
    BY <1>8, <2>1
<1>14. ASSUME NEW a \in Art, Check(s, a)
       PROVE  Filing(s)'
  <2>1. pend'[s].retired = pend[s].retired /\ step[s] # "written"
    BY <1>0, <1>14 DEF Check, TypeOK, Pend
  <2> QED
    BY <1>8, <2>1
<1>15. ASSUME step[s] = "sweeping", Revalidate(s)
       PROVE  Filing(s)'
  <2>1. pend' = pend
    BY <1>15 DEF Revalidate
  <2> QED
    BY <1>8, <1>15, <2>1
<1>16. CASE Proceed(s)
  BY <1>6, <1>7, <1>11, <1>12, <1>13, <1>14, <1>15, <1>16 DEF Proceed
<1>17. ASSUME NEW t \in Session, Start(t) \/ Proceed(t) \/ TaskRaises(t) \/ Fail(t)
       PROVE  Filing(s)'
  BY <1>4, <1>5, <1>7, <1>9, <1>16, <1>17
<1> QED
  BY <1>2, <1>3, <1>17 DEF Next

------------------------------------------------------------------------------
\* Every reachable state satisfies the invariants.
LEMMA Reachable == Spec => [](IssueInv /\ SweepInv)
<1>1. (IssueInv /\ SweepInv) /\ [Next]_vars => (IssueInv /\ SweepInv)'
  BY NextIssues, NextSweep
<1> QED
  BY InitIssues, <1>1, PTL DEF Spec

\* The register, the lock and what every session has read and written keep
\* their types.
THEOREM RegisterTyped == Spec => []TypeOK
<1>1. IssueInv /\ SweepInv => TypeOK
  BY DEF IssueInv
<1> QED
  BY Reachable, <1>1, PTL

\* A vendor never has two open sanctions issues, whichever screenings and
\* monitoring runs overlap (apply_screening_outcome under SQLite's write lock).
THEOREM OneSanctionsIssue == Spec => []SingleSanctionsIssue
<1>1. IssueInv /\ SweepInv => SingleSanctionsIssue
  BY DEF IssueInv, SingleInv, Single, SingleSanctionsIssue
<1> QED
  BY Reachable, <1>1, PTL

\* A monitoring run never reports an artefact that is no longer current or is
\* reported already (revalidation_run inside run_all).
THEOREM SweepReportsOnce == Spec => SweepRaisesOnce
<1> DEFINE Report == \A t \in Sweeper, i \in open' \ open :
                        step'[t] # step[t] /\ i \in pend[t].added /\ i.about \in Art =>
                           i.about \in current /\ AboutArt(i.about, open) = {}
<1>1. IssueInv /\ SweepInv /\ [Next]_vars => [Report]_vars
  BY DEF SweepInv, Swept, Unreported
<1> QED
  BY Reachable, <1>1, PTL DEF Spec, SweepRaisesOnce

\* The commit that retires an artefact leaves no issue about it open, whatever other
\* sessions raised or closed while the filing was under way (create_artefact,
\* _close_issues_for_artefact).
THEOREM FilingsSettle == Spec => RefreshSettles
<1> DEFINE Settles == \A a \in current \ current' : AboutArt(a, open') = {}
<1>1. Init => IssueInv /\ FilingInv
  <2>1. Init => IssueInv
    BY InitIssues
  <2>2. Init => FilingInv
    BY DEF Init, FilingInv, Filing, NoPend
  <2> QED
    BY <2>1, <2>2
<1>2. (IssueInv /\ FilingInv) /\ [Next]_vars => (IssueInv /\ FilingInv)'
  BY NextIssues, NextFiling
<1>3. IssueInv /\ FilingInv /\ [Next]_vars => [Settles]_vars
  <2> SUFFICES ASSUME IssueInv, FilingInv, Next, NEW a \in current \ current'
               PROVE  AboutArt(a, open') = {}
    BY DEF vars
  <2>1. PICK t \in Session : Commit(t)
    BY DEF Next, WorldStep, Ageing, LoadFeed, Start, Proceed, TaskRaises, Fail,
       ScreenName, ScreenEntities, Judge,
       StartRun, Revalidate, File, ScreenApply, FileApply, Raise, Rescreen, Check, register
  <2>2. a \in pend[t].retired /\ open' = Visible(t)
    BY <2>1 DEF Commit
  <2> QED
    BY <2>1, <2>2 DEF FilingInv, Filing
<1> QED
  BY <1>1, <1>2, <1>3, PTL DEF Spec, RefreshSettles

==============================================================================

-------------------------- MODULE ResearchJobsProofs --------------------------
(***************************************************************************)
(* ResearchJobs keeps its invariant and implements JobBoard, for any       *)
(* number of jobs, processes and crashes.                                  *)
(***************************************************************************)
EXTENDS ResearchJobs, TLAPS

USE DEF Goto, Fault, Answer, Ended, thread, page, findings

LEMMA InitTyped == Init => TypeOK
BY ResearchConstants DEF Init, TypeOK

LEMMA InitResearchInv == Init => ResearchInv
BY InitTyped DEF Init, TypeOK, ResearchInv, StageInv, ReportInv

\* A job's thread fails at most once in each of its transactions, which TypeOK
\* needs to bound faults; the bound follows from where the thread is.
FaultInv ==
    \A j \in Job :
        /\ stage[j] \in {"idle", "spawn", "research", "store", "indicate", "mark"} =>
              faults[j] = 0
        /\ stage[j] = "fail" => faults[j] = 1
        /\ faults[j] <= 2

\* A page is told of the result when the row says "done", and then nothing changes it.
ToldInv ==
    \A j \in Job :
        /\ client[j] \in {"filed", "unfiled", "empty"} =>
              status[j] \notin {"unborn", "running"} /\ client[j] = outcome[j]
        /\ j \in updated => filing[j] # "broken"

IInv == ResearchInv /\ FaultInv /\ ToldInv

LEMMA InitIInv == Init => IInv
BY InitResearchInv, ResearchConstants DEF Init, IInv, FaultInv, ToldInv

LEMMA StepTyped ==
    ASSUME IInv, Next
    PROVE  TypeOK'
<1> USE ResearchConstants DEF IInv, ResearchInv, TypeOK
<1>1. ASSUME NEW j \in Job, NEW w \in Worker, Insert(j, w) PROVE TypeOK'
  BY <1>1 DEF Insert
<1>2. ASSUME NEW j \in Job, Spawn(j) PROVE TypeOK'
  BY <1>2 DEF Spawn
<1>3. ASSUME NEW j \in Job, Research(j) PROVE TypeOK'
  BY <1>3 DEF Research, FaultInv
<1>4. ASSUME NEW j \in Job, Mark(j) PROVE TypeOK'
  BY <1>4 DEF Mark, Set, FaultInv
<1>5. ASSUME NEW j \in Job, MarkError(j) PROVE TypeOK'
  BY <1>5 DEF MarkError, Set, FaultInv
<1>6. ASSUME NEW j \in Job, Retain(j) PROVE TypeOK'
  BY <1>6 DEF Retain, OldRows
<1>7. ASSUME NEW j \in Job, Respond(j) PROVE TypeOK'
  BY <1>7 DEF Respond
<1>8. ASSUME NEW j \in Job, Poll(j) PROVE TypeOK'
  <2>1. misses[j] # Patience /\ misses[j] \in 0..Patience
    BY <1>8 DEF Poll, ReportInv
  <2>2. misses[j] + 1 \in 0..Patience
    BY <2>1
  <2>3. Told(j) \in {"failed", "none", "filed", "unfiled", "empty"}
    BY DEF Told
  <2>4. status[j] \in {"done", "error"} => Told(j) # "none"
    BY DEF Told, ReportInv
  <2>5. client' \in [Job -> {"nobody", "posting", "waiting", "filed", "unfiled",
                             "empty", "failed", "later", "refused"}]
    BY <1>8, <2>3, <2>4 DEF Poll
  <2> QED BY <1>8, <2>2, <2>5 DEF Poll
<1>9. ASSUME NEW j \in Job, GiveUp(j) \/ DayPasses(j) PROVE TypeOK'
  BY <1>9 DEF GiveUp, DayPasses
<1>10. ASSUME NEW w \in Worker, Crash(w) PROVE TypeOK'
  BY <1>10 DEF Crash
<1>11. ASSUME NEW j \in Job, Store(j) \/ Indicate(j) PROVE TypeOK'
  BY <1>11 DEF Store, Indicate, FaultInv
<1> QED
  BY <1>1, <1>2, <1>3, <1>4, <1>5, <1>6, <1>7, <1>8, <1>9, <1>10,
     <1>11 DEF Next, Thread

LEMMA StepParts ==
    ASSUME IInv, Next
    PROVE  StageInv' /\ ReportInv' /\ FaultInv' /\ ToldInv'
<1> DEFINE Parts == StageInv /\ ReportInv /\ FaultInv /\ ToldInv
<1> USE ResearchConstants DEF IInv, ResearchInv, TypeOK, StageInv, ReportInv,
        FaultInv, ToldInv
<1>1. ASSUME NEW j \in Job, NEW w \in Worker, Insert(j, w) PROVE Parts'
  BY <1>1 DEF Insert
<1>2. ASSUME NEW j \in Job, Spawn(j) PROVE Parts'
  BY <1>2 DEF Spawn
<1>3. ASSUME NEW j \in Job, Research(j) PROVE Parts'
  BY <1>3 DEF Research
<1>4. ASSUME NEW j \in Job, Mark(j) PROVE Parts'
  BY <1>4 DEF Mark, Set
<1>5. ASSUME NEW j \in Job, MarkError(j) PROVE Parts'
  BY <1>5 DEF MarkError, Set
<1>6. ASSUME NEW j \in Job, Retain(j) PROVE Parts'
  BY <1>6 DEF Retain, OldRows
<1>7. ASSUME NEW j \in Job, Respond(j) PROVE Parts'
  BY <1>7 DEF Respond
<1>8. ASSUME NEW j \in Job, Poll(j) PROVE Parts'
  BY <1>8 DEF Poll, Told
<1>9. ASSUME NEW j \in Job, GiveUp(j) \/ DayPasses(j) PROVE Parts'
  BY <1>9 DEF GiveUp, DayPasses
<1>10. ASSUME NEW w \in Worker, Crash(w) PROVE Parts'
  BY <1>10 DEF Crash
<1>11. ASSUME NEW j \in Job, Store(j) PROVE Parts'
  BY <1>11 DEF Store
<1>12. ASSUME NEW j \in Job, Indicate(j) PROVE Parts'
  BY <1>12 DEF Indicate
<1> QED
  BY <1>1, <1>2, <1>3, <1>4, <1>5, <1>6, <1>7, <1>8, <1>9, <1>10,
     <1>11, <1>12 DEF Next, Thread

LEMMA AlwaysIInv == Spec => []IInv
<1>1. IInv /\ [Next]_vars => IInv'
  <2>1. CASE Next
    BY <2>1, StepTyped, StepParts DEF IInv, ResearchInv
  <2>2. CASE UNCHANGED vars
    BY <2>2 DEF vars, IInv, ResearchInv, TypeOK, StageInv, ReportInv, FaultInv,
                ToldInv
  <2> QED BY <2>1, <2>2
<1> QED BY <1>1, InitIInv, PTL DEF Spec

\* The row, the thread, the report and the page of every job stay consistent,
\* whatever transactions fail and processes die.
THEOREM ResearchInvariant == Spec => []ResearchInv
<1>1. IInv => ResearchInv
  BY DEF IInv
<1> QED BY <1>1, AlwaysIInv, PTL

\* Indicators on the vendor come from a session that did not break, and the page that
\* gets the result learns whether there is a report behind them (_ai_research, _run and
\* pollResearch).
THEOREM UntracedIndicatorsAreTold == Spec => []IndicatorsAreTold
<1>1. ASSUME IInv, NEW j \in updated
      PROVE  /\ filing[j] # "broken"
             /\ client[j] \in {"filed", "unfiled", "empty"} =>
                   client[j] = IF j \in filed THEN "filed" ELSE "unfiled"
  <2>1. j \in Job
    BY <1>1 DEF IInv, ResearchInv, TypeOK
  <2>2. filing[j] # "broken"
    BY <1>1, <2>1 DEF IInv, ToldInv
  <2>3. outcome[j] = IF j \in filed THEN "filed" ELSE "unfiled"
    BY <1>1, <2>1 DEF IInv, ResearchInv, ReportInv
  <2> QED
    BY <1>1, <2>1, <2>2, <2>3 DEF IInv, ToldInv
<1>2. IInv => IndicatorsAreTold
  BY <1>1 DEF IndicatorsAreTold
<1> QED BY <1>2, AlwaysIInv, PTL

------------------------------------------------------------------------------
(* The refinement: every step of the jobs is a step of the board, or leaves *)
(* what the board shows as it is.                                           *)

Shown(j) == IF client[j] = "posting" THEN "waiting" ELSE client[j]

LEMMA StepBoard ==
    ASSUME IInv, [Next]_vars
    PROVE  [Board!Next]_<<status, filed, [j \in Job |-> Shown(j)]>>
<1> DEFINE told == [j \in Job |-> Shown(j)]
<1> DEFINE BoardStep == Board!Next \/ UNCHANGED <<status, filed, told>>
<1> USE ResearchConstants DEF IInv, ResearchInv, TypeOK, Shown
<1>1. ASSUME NEW j \in Job, NEW w \in Worker, Insert(j, w) PROVE BoardStep
  <2>1. status[j] = "unborn" /\ told[j] = "nobody"
    BY <1>1 DEF Insert, StageInv
  <2>2. CASE client' = [client EXCEPT ![j] = "posting"]
    <3>1. told' = [told EXCEPT ![j] = "waiting"]
      BY <2>2
    <3>2. Board!Open(j)
      BY <1>1, <2>1, <2>2, <3>1 DEF Insert, Board!Open
    <3> QED BY <3>2 DEF Board!Next
  <2>3. CASE client' = [client EXCEPT ![j] = "refused"]
    <3>1. told' = [told EXCEPT ![j] = "refused"]
      BY <2>3
    <3>2. UNCHANGED status
      BY <1>1, <2>3 DEF Insert
    <3>3. Board!Tell(j, "refused")
      BY <1>1, <2>1, <3>1, <3>2 DEF Insert, Board!Tell, Board!Waiting
    <3> QED BY <3>3 DEF Board!Next
  <2> QED BY <1>1, <2>2, <2>3 DEF Insert
<1>2. ASSUME NEW j \in Job, Spawn(j) \/ DayPasses(j) PROVE BoardStep
  BY <1>2 DEF Spawn, DayPasses
<1>3. ASSUME NEW j \in Job, Research(j) \/ Store(j) PROVE BoardStep
  BY <1>3 DEF Research, Store
<1>4. ASSUME NEW j \in Job, Mark(j) \/ MarkError(j) PROVE BoardStep
  <2>1. status[j] = "running"
    BY <1>4 DEF Mark, MarkError, StageInv
  <2>2. CASE \E v \in {"done", "error"} : status' = [status EXCEPT ![j] = v]
    <3>1. UNCHANGED <<filed, told>>
      BY <1>4 DEF Mark, MarkError
    <3>2. Board!Settle(j)
      BY <2>1, <2>2, <3>1 DEF Board!Settle
    <3> QED BY <3>2 DEF Board!Next
  <2>3. CASE UNCHANGED status
    BY <1>4, <2>3 DEF Mark, MarkError
  <2> QED BY <1>4, <2>1, <2>2, <2>3 DEF Mark, MarkError, Set
<1>5. ASSUME NEW j \in Job, Retain(j) PROVE BoardStep
  <2>1. CASE status' = [k \in Job |-> IF k \in OldRows THEN "gone" ELSE status[k]]
    <3>1. \A k \in old : status[k] # "unborn" /\ told[k] \notin {"nobody", "waiting"}
      BY DEF StageInv, ReportInv
    <3>2. Board!Forget(old)
      BY <1>5, <2>1, <3>1 DEF Retain, OldRows, Board!Forget, Board!Waiting
    <3>3. old \in SUBSET Job
      OBVIOUS
    <3> QED BY <3>2, <3>3 DEF Board!Next
  <2>2. CASE UNCHANGED status
    BY <1>5, <2>2 DEF Retain
  <2> QED BY <1>5, <2>1, <2>2 DEF Retain
<1>6. ASSUME NEW j \in Job, Respond(j) PROVE BoardStep
  <2>1. told[j] = "waiting"
    BY <1>6 DEF Respond
  <2>2. CASE client' = [client EXCEPT ![j] = "waiting"]
    <3>1. told' = told
      BY <1>6, <2>2 DEF Respond
    <3> QED BY <1>6, <3>1 DEF Respond
  <2>3. CASE client' = [client EXCEPT ![j] = "refused"]
    <3>1. told' = [told EXCEPT ![j] = "refused"]
      BY <2>3
    <3>2. Board!Tell(j, "refused")
      BY <1>6, <2>1, <3>1 DEF Respond, Board!Tell, Board!Waiting
    <3> QED BY <3>2 DEF Board!Next
  <2> QED BY <1>6, <2>2, <2>3 DEF Respond
<1>7. ASSUME NEW j \in Job, Poll(j) \/ GiveUp(j) PROVE BoardStep
  <2>1. told[j] = "waiting"
    BY <1>7 DEF Poll, GiveUp
  <2>2. ASSUME status[j] \in {"done", "error"}, Poll(j),
               client' = [client EXCEPT ![j] = Told(j)]
        PROVE  BoardStep
    <3>1. /\ Told(j) \in {"filed", "unfiled", "empty", "failed"}
          /\ Told(j) = "filed" => status[j] = "done" /\ j \in filed
          /\ Told(j) \in {"empty", "unfiled"} => status[j] = "done" /\ j \notin filed
          /\ Told(j) = "failed" => status[j] = "error"
      BY <2>2 DEF Told, ReportInv
    <3>2. PICK what \in {"filed", "unfiled", "empty", "failed"} : what = Told(j)
      BY <3>1
    <3>3. told' = [told EXCEPT ![j] = what]
      BY <2>2, <3>2
    <3>4. Board!Tell(j, what)
      BY <2>1, <2>2, <3>1, <3>2, <3>3 DEF Poll, Board!Tell, Board!Waiting
    <3> QED BY <3>4 DEF Board!Next
  <2>3. ASSUME client' = [client EXCEPT ![j] = "later"]
        PROVE  BoardStep
    <3>1. told' = [told EXCEPT ![j] = "later"]
      BY <2>3
    <3>2. UNCHANGED <<status, filed>>
      BY <1>7 DEF Poll, GiveUp
    <3>3. Board!Tell(j, "later")
      BY <2>1, <3>1, <3>2 DEF Board!Tell, Board!Waiting
    <3> QED BY <3>3 DEF Board!Next
  <2>4. ASSUME UNCHANGED client PROVE BoardStep
    BY <1>7, <2>4 DEF Poll, GiveUp
  <2> QED BY <1>7, <2>2, <2>3, <2>4 DEF Poll, GiveUp
<1>8. ASSUME NEW w \in Worker, Crash(w) PROVE BoardStep
  <2>1. PICK some \in SUBSET Job :
            some = {j \in Job : host[j] = w /\ client[j] = "posting"}
    OBVIOUS
  <2>2. told' = [j \in Job |-> IF j \in some THEN "refused" ELSE told[j]]
    BY <1>8, <2>1 DEF Crash
  <2>3. Board!Abandon(some)
    BY <1>8, <2>1, <2>2 DEF Crash, Board!Abandon
  <2> QED BY <2>3 DEF Board!Next
<1>9. CASE UNCHANGED vars
  BY <1>9 DEF vars
<1>10. ASSUME NEW j \in Job, Indicate(j) PROVE BoardStep
  <2>1. status[j] = "running" /\ j \notin filed
    BY <1>10 DEF Indicate, StageInv
  <2>2. CASE filed' = filed \cup {j}
    <3>1. Board!FileReport(j)
      BY <1>10, <2>1, <2>2 DEF Indicate, Board!FileReport
    <3> QED BY <3>1 DEF Board!Next
  <2>3. CASE UNCHANGED filed
    BY <1>10, <2>3 DEF Indicate
  <2> QED BY <1>10, <2>2, <2>3 DEF Indicate
<1>11. BoardStep
  BY <1>1, <1>2, <1>3, <1>4, <1>5, <1>6, <1>7, <1>8, <1>9, <1>10 DEF Next, Thread
<1> QED BY <1>11

\* The jobs implement the board: one verdict that stands, one report at most, and
\* nothing told that is not so.
THEOREM ResearchImplementsBoard == Spec => ImplementsBoard
<1>1. Init => Board!Init
  BY DEF Init, Board!Init
<1>2. IInv /\ [Next]_vars => [Board!Next]_<<status, filed, [j \in Job |->
          IF client[j] = "posting" THEN "waiting" ELSE client[j]]>>
  BY StepBoard DEF Shown
<1> QED BY <1>1, <1>2, AlwaysIInv, PTL DEF Spec, ImplementsBoard, Board!Spec
==============================================================================

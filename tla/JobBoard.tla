-------------------------------- MODULE JobBoard --------------------------------
(***************************************************************************)
(* What the research endpoints promise whoever starts a job: a job gets    *)
(* one verdict that stands until it is forgotten, its report is filed at   *)
(* most once, and nobody is told of a report that is not filed.            *)
(***************************************************************************)
CONSTANT Job

VARIABLES
    verdict,  \* what the board says of each job
    report,   \* the jobs whose report is in AI Reports
    told      \* what whoever started the job has been told

Waiting == {"nobody", "waiting"}

Init ==
    /\ verdict = [j \in Job |-> "unborn"]
    /\ report = {}
    /\ told = [j \in Job |-> "nobody"]

Open(j) ==
    /\ verdict[j] = "unborn" /\ told[j] = "nobody"
    /\ verdict' = [verdict EXCEPT ![j] = "running"]
    /\ told' = [told EXCEPT ![j] = "waiting"]
    /\ UNCHANGED report

FileReport(j) ==
    /\ verdict[j] = "running" /\ j \notin report
    /\ report' = report \cup {j}
    /\ UNCHANGED <<verdict, told>>

Settle(j) ==
    /\ verdict[j] = "running"
    /\ \E v \in {"done", "error"} : verdict' = [verdict EXCEPT ![j] = v]
    /\ UNCHANGED <<report, told>>

\* Only a job nobody waits for is forgotten.
Forget(gone) ==
    /\ \A j \in gone : verdict[j] # "unborn" /\ told[j] \notin Waiting
    /\ verdict' = [j \in Job |-> IF j \in gone THEN "gone" ELSE verdict[j]]
    /\ UNCHANGED <<report, told>>

\* "later" is the advice to look at the reports, "refused" an HTTP error.  A
\* process that dies leaves many unanswered at once.
Tell(j, what) ==
    /\ told[j] \in Waiting
    /\ what = "filed" => verdict[j] = "done" /\ j \in report
    /\ what \in {"empty", "unfiled"} => verdict[j] = "done" /\ j \notin report
    /\ what = "failed" => verdict[j] = "error"
    /\ told' = [told EXCEPT ![j] = what]
    /\ UNCHANGED <<verdict, report>>
Abandon(some) ==
    /\ \A j \in some : told[j] = "waiting"
    /\ told' = [j \in Job |-> IF j \in some THEN "refused" ELSE told[j]]
    /\ UNCHANGED <<verdict, report>>

Next ==
    \/ \E j \in Job :
          \/ Open(j) \/ FileReport(j) \/ Settle(j)
          \/ \E what \in {"filed", "unfiled", "empty", "failed", "later", "refused"} :
                Tell(j, what)
    \/ \E some \in SUBSET Job : Forget(some) \/ Abandon(some)

Spec == Init /\ [][Next]_<<verdict, report, told>>
==============================================================================

------------------------------ MODULE ResearchJobs ------------------------------
(***************************************************************************)
(* Background research: _start_research_job of app/routers/_shared.py, the *)
(* endpoints that call it, and the page that polls for the outcome.        *)
(*                                                                         *)
(* A request inserts a row in research_jobs and starts a thread of its     *)
(* process.  The thread runs up to four transactions, each in a session of *)
(* its own: research and filing, the mark "done", on any exception the     *)
(* mark "error", and retention.  Every one of them can fail, and the       *)
(* process can die before and after each.  Nothing takes up the job of a   *)
(* process that died.                                                      *)
(***************************************************************************)
EXTENDS Integers

CONSTANTS
    Job,         \* job identifiers, fresh for every request
    OnVendor,    \* jobs about a vendor, with something to say of its indicators
    Worker,      \* processes that serve requests
    None,
    Patience,    \* "unknown" answers after which the page stops polling
    MaxCrashes   \* bound: processes that die in a behaviour

ASSUME ResearchConstants ==
    /\ OnVendor \subseteq Job
    /\ Patience \in Nat \ {0}
    /\ MaxCrashes \in Nat
    /\ None \notin Job \cup Worker

VARIABLES
    status,   \* the row of each job: "unborn" before and "gone" after it exists
    outcome,  \* what result_json says when the job is done
    old,      \* rows that started more than a day ago
    filing,   \* how storing the report went, until the first session rolls back
    filed,    \* jobs whose report is committed to stored_documents
    updated,  \* jobs whose indicators are committed on the vendor
    stage,    \* where the request and then the thread of each job is
    host,     \* the process each job runs in
    faults,   \* history: transactions of the job's thread that failed
    client,   \* what the page that started the job knows
    misses,   \* "unknown" answers the page has counted
    crashes   \* processes that died so far

vars == <<status, outcome, old, filing, filed, updated, stage, host, faults, client,
          misses, crashes>>
findings == <<filing, filed, updated>>
thread == <<stage, host, faults>>
page == <<client, misses>>

TypeOK ==
    /\ status \in [Job -> {"unborn", "running", "done", "error", "gone"}]
    /\ outcome \in [Job -> {"none", "filed", "unfiled", "empty"}]
    /\ old \subseteq Job
    /\ filing \in [Job -> {"none", "stored", "skipped", "broken"}]
    /\ filed \subseteq Job
    /\ updated \subseteq Job
    /\ stage \in [Job -> {"idle", "spawn", "research", "store", "indicate", "mark",
                          "fail", "retain", "over", "dead"}]
    /\ host \in [Job -> Worker \cup {None}]
    /\ faults \in [Job -> 0..3]
    /\ client \in [Job -> {"nobody", "posting", "waiting", "filed", "unfiled", "empty",
                           "failed", "later", "refused"}]
    /\ misses \in [Job -> 0..Patience]
    /\ crashes \in 0..MaxCrashes

Init ==
    /\ status = [j \in Job |-> "unborn"]
    /\ outcome = [j \in Job |-> "none"]
    /\ filing = [j \in Job |-> "none"]
    /\ old = {} /\ filed = {} /\ updated = {}
    /\ stage = [j \in Job |-> "idle"]
    /\ host = [j \in Job |-> None]
    /\ faults = [j \in Job |-> 0]
    /\ client = [j \in Job |-> "nobody"]
    /\ misses = [j \in Job |-> 0]
    /\ crashes = 0

Goto(j, where) == stage' = [stage EXCEPT ![j] = where]
Fault(j) == faults' = [faults EXCEPT ![j] = @ + 1]
Answer(j, what) == client' = [client EXCEPT ![j] = what]

------------------------------------------------------------------------------
(* The request.                                                            *)

\* The row is inserted and committed, or the insert raises and the page sees 500.
Insert(j, w) ==
    /\ stage[j] = "idle" /\ client[j] = "nobody"
    /\ \/ /\ status' = [status EXCEPT ![j] = "running"]
          /\ Goto(j, "spawn")
          /\ host' = [host EXCEPT ![j] = w]
          /\ Answer(j, "posting")
       \/ Answer(j, "refused") /\ UNCHANGED <<status, stage, host>>
    /\ UNCHANGED <<outcome, old, findings, faults, misses, crashes>>

Spawn(j) ==
    /\ stage[j] = "spawn"
    /\ Goto(j, "research")
    /\ UNCHANGED <<status, outcome, old, findings, host, faults, page, crashes>>

\* The request audits the start and commits while the thread is already running;
\* when that fails the page sees 500 and never learns the job's identifier.
Respond(j) ==
    /\ client[j] = "posting" /\ stage[j] \notin {"spawn", "dead"}
    /\ \E what \in {"waiting", "refused"} : Answer(j, what)
    /\ UNCHANGED <<status, outcome, old, findings, thread, misses, crashes>>

------------------------------------------------------------------------------
(* The thread.                                                             *)

\* The first transaction asks the provider.  Findings that are missing or unusable
\* leave nothing.
Research(j) ==
    /\ stage[j] = "research"
    /\ \/ Goto(j, "store") /\ UNCHANGED <<outcome, faults>>
       \/ /\ outcome' = [outcome EXCEPT ![j] = "empty"]
          /\ Goto(j, "mark") /\ UNCHANGED faults
       \/ Goto(j, "fail") /\ Fault(j) /\ UNCHANGED outcome
    /\ UNCHANGED <<status, old, findings, host, page, crashes>>

\* A handler that rolls the session back, so that it can go on.
StoreRollingBack(j) ==
    /\ stage[j] = "store"
    /\ \E how \in {"stored", "skipped", "broken"} :
          /\ filing' = [filing EXCEPT ![j] = how]
          /\ IF how # "broken" THEN UNCHANGED <<outcome, updated, stage>>
             ELSE /\ outcome' = [outcome EXCEPT ![j] = "unfiled"]
                  /\ updated' = updated \cup ({j} \cap OnVendor)
                  /\ Goto(j, "mark")
    /\ UNCHANGED <<status, old, filed, host, faults, page, crashes>>
\* Usable findings are stored as a report.  A failure to do so is swallowed: one in a
\* flush breaks the session, any other (a report that cannot be encoded or is too
\* large, a number that cannot be read) leaves a session without a report.
Store(j) ==
    /\ stage[j] = "store"
    /\ Goto(j, "indicate")
    /\ \E how \in {"stored", "skipped", "broken"} :
          filing' = [filing EXCEPT ![j] = how]
    /\ UNCHANGED <<status, outcome, old, filed, updated, host, faults, page, crashes>>

\* A result that takes a report for filed when storing it has been tried.
IndicateUnchecked(j) ==
    /\ stage[j] = "indicate" /\ filing[j] # "broken"
    /\ filed' = filed \cup {k \in {j} : filing[k] = "stored"}
    /\ outcome' = [outcome EXCEPT ![j] = "filed"]
    /\ updated' = updated \cup ({j} \cap OnVendor)
    /\ Goto(j, "mark")
    /\ UNCHANGED <<status, old, filing, host, faults, page, crashes>>
\* The findings update the indicators of the vendor they are about, if any, and one
\* commit makes report and indicators permanent.
\* The next statement of a broken session raises, and everything is rolled back.
Indicate(j) ==
    /\ stage[j] = "indicate"
    /\ \/ /\ filing[j] # "broken"
          /\ filed' = filed \cup {k \in {j} : filing[k] = "stored"}
          /\ outcome' = [outcome EXCEPT ![j] =
                            IF filing[j] = "stored" THEN "filed" ELSE "unfiled"]
          /\ updated' = updated \cup ({j} \cap OnVendor)
          /\ Goto(j, "mark") /\ UNCHANGED <<filing, faults>>
       \/ /\ filing' = [filing EXCEPT ![j] = "none"]
          /\ Goto(j, "fail") /\ Fault(j) /\ UNCHANGED <<filed, outcome, updated>>
    /\ UNCHANGED <<status, old, host, page, crashes>>

\* UPDATE ... WHERE job_id: a row that is gone stays gone.
Set(j, verdict) ==
    status' = IF status[j] = "gone" THEN status ELSE [status EXCEPT ![j] = verdict]

\* A mark that does not wait for the research.
MarkEarly(j) ==
    /\ stage[j] \in {"research", "mark"}
    /\ Set(j, "done")
    /\ IF stage[j] = "mark"
         THEN Goto(j, "retain") /\ UNCHANGED outcome
         ELSE outcome' = [outcome EXCEPT ![j] = "filed"] /\ UNCHANGED stage
    /\ UNCHANGED <<old, findings, host, faults, page, crashes>>
\* The second transaction.
Mark(j) ==
    /\ stage[j] = "mark"
    /\ \/ Set(j, "done") /\ Goto(j, "retain") /\ UNCHANGED faults
       \/ Goto(j, "fail") /\ Fault(j) /\ UNCHANGED status
    /\ UNCHANGED <<outcome, old, findings, host, page, crashes>>

\* A handler of the exception that only logs.
MarkNothing(j) ==
    /\ stage[j] = "fail"
    /\ Goto(j, "retain")
    /\ UNCHANGED <<status, outcome, old, findings, host, faults, page, crashes>>
\* The handler of the exception, whichever of the two raised it; its own failure
\* is swallowed.
MarkError(j) ==
    /\ stage[j] = "fail"
    /\ Goto(j, "retain")
    /\ \/ Set(j, "error") /\ UNCHANGED faults
       \/ Fault(j) /\ UNCHANGED status
    /\ UNCHANGED <<outcome, old, findings, host, page, crashes>>

\* The rows retention deletes.
OldRows == old
\* The finally clause: old rows go, whatever their status; a failure is swallowed.
Retain(j) ==
    /\ stage[j] = "retain"
    /\ Goto(j, "over")
    /\ \/ /\ status' = [k \in Job |-> IF k \in OldRows THEN "gone" ELSE status[k]]
          /\ UNCHANGED faults
       \/ UNCHANGED <<status, faults>>
    /\ UNCHANGED <<outcome, old, findings, host, page, crashes>>

------------------------------------------------------------------------------
(* The page, the clock and the processes.                                  *)

\* One round of pollResearch: the row is read, or the read raises, or there is no
\* row; the last two look the same, and Patience of them end the polling.
Told(j) == IF status[j] = "error" THEN "failed" ELSE outcome[j]
Poll(j) ==
    /\ client[j] = "waiting"
    /\ \/ /\ status[j] \in {"done", "error"}
          /\ Answer(j, Told(j))
          /\ UNCHANGED misses
       \/ /\ misses' = [misses EXCEPT ![j] = @ + 1]
          /\ IF misses'[j] = Patience THEN Answer(j, "later") ELSE UNCHANGED client
    /\ UNCHANGED <<status, outcome, old, findings, thread, crashes>>

\* Eight minutes have gone by.
GiveUp(j) ==
    /\ client[j] = "waiting"
    /\ Answer(j, "later")
    /\ UNCHANGED <<status, outcome, old, findings, thread, misses, crashes>>

\* A day passes since the job started: its requests to the provider have timed
\* out, and the page has stopped polling.
Ended(j) == stage[j] \in {"over", "dead"}
DayPasses(j) ==
    /\ Ended(j) /\ j \notin old
    /\ client[j] \notin {"posting", "waiting"}
    /\ old' = old \cup {j}
    /\ UNCHANGED <<status, outcome, findings, thread, page, crashes>>

\* A process dies and another takes its place; the pages it was answering see an
\* error, the others poll the new process.
Crash(w) ==
    /\ crashes < MaxCrashes
    /\ crashes' = crashes + 1
    /\ LET hit(j) == host[j] = w /\ ~Ended(j) IN
       /\ stage' = [j \in Job |-> IF hit(j) THEN "dead" ELSE stage[j]]
       /\ client' = [j \in Job |-> IF host[j] = w /\ client[j] = "posting"
                                     THEN "refused" ELSE client[j]]
    /\ UNCHANGED <<status, outcome, old, findings, host, faults, misses>>

Thread(j) ==
    \/ Spawn(j) \/ Research(j) \/ Store(j) \/ Indicate(j)
    \/ Mark(j) \/ MarkError(j) \/ Retain(j)

Next ==
    \/ \E j \in Job :
          \/ \E w \in Worker : Insert(j, w)
          \/ Thread(j) \/ Respond(j)
          \/ Poll(j) \/ GiveUp(j) \/ DayPasses(j)
    \/ \E w \in Worker : Crash(w)

Spec == Init /\ [][Next]_vars
\* A thread that is alive takes its next step.
FairSpec == Spec /\ \A j \in Job : WF_vars(Thread(j))

------------------------------------------------------------------------------
(***************************************************************************)
(* Properties.                                                             *)
(***************************************************************************)

\* The board's promise: one verdict that stands, one report at most, and what the
\* page is told is so, whatever fails or dies between the transactions.
Board == INSTANCE JobBoard WITH
    verdict <- status,
    report <- filed,
    told <- [j \in Job |-> IF client[j] = "posting" THEN "waiting" ELSE client[j]]
ImplementsBoard == Board!Spec

\* Indicators that a job has put on the vendor do not outlive a broken session, and
\* the page that gets the job's result learns whether they have a report behind
\* them: never that nothing was found, and of a report only if it is filed.
IndicatorsAreTold ==
    \A j \in updated :
        /\ filing[j] # "broken"
        /\ client[j] \in {"filed", "unfiled", "empty"} =>
              client[j] = IF j \in filed THEN "filed" ELSE "unfiled"

\* A job that keeps saying "running" was let down by its process, or by two
\* transactions of its thread: one failure is always survived.
RunningEnds ==
    \A j \in Job :
        status[j] = "running" ~> \/ status[j] # "running"
                                 \/ stage[j] = "dead"
                                 \/ faults[j] >= 2

(***************************************************************************)
(* Why the promise is kept: before the mark the row says "running", and    *)
(* what the mark will say of the report is already so when it is made.     *)
(***************************************************************************)
StageInv ==
    \A j \in Job :
        /\ stage[j] = "idle" <=> status[j] = "unborn"
        /\ stage[j] \in {"spawn", "research", "store", "indicate", "mark", "fail"} =>
              status[j] = "running"
        /\ stage[j] \in {"idle", "spawn", "research", "store", "indicate"} =>
              j \notin filed \cup updated
        /\ stage[j] = "idle" => client[j] \in {"nobody", "refused"} /\ host[j] = None
        /\ client[j] = "nobody" => stage[j] = "idle"

ReportInv ==
    \A j \in Job :
        /\ stage[j] = "mark" \/ status[j] = "done" => outcome[j] # "none"
        /\ outcome[j] = "filed" <=> j \in filed
        /\ j \in updated => outcome[j] \in {"filed", "unfiled"}
        /\ stage[j] = "indicate" => filing[j] # "none"
        /\ j \in old => client[j] \notin {"nobody", "posting", "waiting"} /\ Ended(j)
        /\ misses[j] = Patience => client[j] # "waiting"
        /\ client[j] \in {"nobody", "posting"} => misses[j] = 0

ResearchInv == TypeOK /\ StageInv /\ ReportInv
==============================================================================

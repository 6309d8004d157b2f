------------------------------ MODULE RiskProfile ------------------------------
(***************************************************************************)
(* The consolidated risk profile of one vendor: a short history of         *)
(* snapshots that several engines write, and the view that takes of each   *)
(* field the newest value there is (app/features/domain/master_service.py).*)
(*                                                                         *)
(* A refresh recounts the findings and carries the published performance   *)
(* and the reputation forward.  Most requests write before they refresh,   *)
(* so that on SQLite they hold the lock while they read, and are one step. *)
(* The vendor view and the refresh of rollups read first: their snapshot   *)
(* may be out of date when it is inserted.                                 *)
(*                                                                         *)
(* Bands, the last assessment and the monitoring signal are recomputed by  *)
(* every refresh, like the severity, and left out, and so is the number of *)
(* open findings, shown as the newest snapshot has it.  The SLA summary,   *)
(* the incident count, the cadence and the date of the review are carried  *)
(* with the performance score of the same publication.  A publication      *)
(* without a score writes them alone, and the next refresh puts those of   *)
(* the last one with a score above them: they are not modelled, and what   *)
(* is stated of the score here is not so of them.                          *)
(***************************************************************************)
EXTENDS Integers, Sequences, FiniteSets, FiniteSetsExt

CONSTANTS
    Viewer,    \* requests that read before they write
    Finding,   \* findings of the vendor
    Severity,  \* how severe each is; the highest number is the most severe
    Score,     \* scores a scorecard may be published with
    Verdict,   \* what the reputation engine may find
    NoValue,   \* a field without a value
    Keep       \* snapshots that a refresh leaves; 20 in the code

ASSUME ProfileConstants ==
    /\ IsFiniteSet(Finding) /\ Severity \in [Finding -> Nat]
    /\ NoValue \notin Nat \cup Score \cup Verdict
    /\ Keep \in Nat \ {0}

VARIABLES
    open,      \* findings that are not closed
    profile,   \* snapshots, oldest first
    view,      \* what the request of each viewer has read
    last,      \* history: the performance and the reputation recorded last
    overtaken, \* history: those that a view which had read older ones wrote over
    counted,   \* history: the worst severity counted by the last refresh
    blank      \* history: refreshes since one that counted a finding, up to Keep

consolidated == <<open, profile, view, last, overtaken, counted, blank>>

Rollup == {"performance", "reputation"}
Optional(S) == S \cup {NoValue}
Carried == [performance: Optional(Score), reputation: Optional(Verdict)]
Levels == Optional({Severity[f] : f \in Finding})
Snapshot ==
    [severity: Levels, performance: Optional(Score), reputation: Optional(Verdict)]
Blank == [severity |-> NoValue, performance |-> NoValue, reputation |-> NoValue]
NothingCarried == [performance |-> NoValue, reputation |-> NoValue]

NoView == [stage |-> "none"]
View == [stage: {"findings"}, severity: Levels]
        \cup [stage: {"rollups"}, severity: Levels, carried: Carried, late: SUBSET Rollup]

\* A publication adds a snapshot that nothing prunes until the next refresh, so
\* there may be one more than a refresh leaves.
ProfileTypeOK ==
    /\ open \subseteq Finding
    /\ profile \in Seq(Snapshot) /\ Len(profile) <= Keep + 1
    /\ view \in [Viewer -> View \cup {NoView}]
    /\ last \in Carried /\ overtaken \subseteq Rollup
    /\ counted \in Levels /\ blank \in 0..Keep

ProfileInit ==
    /\ open = {} /\ profile = <<>>
    /\ view = [v \in Viewer |-> NoView]
    /\ last = NothingCarried /\ overtaken = {}
    /\ counted = NoValue /\ blank = 0

------------------------------------------------------------------------------
(* Snapshots.                                                              *)

\* latest_risk_profile: of a field, the newest value there is (NewestOnly: that of
\* the newest snapshot).
NewestOnly(rows, field) == IF rows = <<>> THEN NoValue ELSE rows[Len(rows)][field]
Latest(rows, field) ==
    LET present == {i \in DOMAIN rows : rows[i][field] # NoValue}
    IN  IF present = {} THEN NoValue ELSE rows[Max(present)][field]

Carry(rows) == [field \in Rollup |-> Latest(rows, field)]

Worst(findings) == IF findings = {} THEN NoValue ELSE Max({Severity[f] : f \in findings})

\* The snapshot of refresh_risk_profile (Forgetting: without carrying anything
\* forward), and _prune_risk_profiles (PruneLate: one snapshot later).
Forgetting(severity, carried) == [Blank EXCEPT !.severity = severity]
Refreshed(severity, carried) ==
    [severity |-> severity, performance |-> carried.performance,
     reputation |-> carried.reputation]

PruneLate(rows) == SubSeq(rows, Max({1, Len(rows) - Keep}), Len(rows))
Prune(rows) == SubSeq(rows, Max({1, Len(rows) - Keep + 1}), Len(rows))

Refresh(rows) == Prune(Append(rows, Refreshed(Worst(open), Carry(rows))))

Counts(severity) ==
    /\ counted' = severity
    /\ blank' = IF severity = NoValue THEN Min({Keep, blank + 1}) ELSE 0

\* Something is recorded: the views that have read the rollups are late for it.
Record(field, value) ==
    /\ last' = [last EXCEPT ![field] = value]
    /\ overtaken' = overtaken \ {field}
    /\ view' = [v \in Viewer |->
                  IF view[v].stage = "rollups" THEN [view[v] EXCEPT !.late = @ \cup {field}]
                  ELSE view[v]]

------------------------------------------------------------------------------
(* Requests.                                                               *)

\* The register of findings adds, closes and reopens.
FindingChanges(f) ==
    /\ open' = IF f \in open THEN open \ {f} ELSE open \cup {f}
    /\ UNCHANGED <<profile, view, last, overtaken, counted, blank>>

\* Financial due diligence, the financial monitoring sweep and a registered
\* autonomous assessment, which write first and then refresh.
RefreshProfile ==
    /\ profile' = Refresh(profile)
    /\ Counts(Worst(open))
    /\ UNCHANGED <<open, view, last, overtaken>>

\* persist_reputation adds a snapshot of its own, then the profile is refreshed.
RecordReputation(verdict) ==
    /\ profile' = Refresh(Append(profile, [Blank EXCEPT !.reputation = verdict]))
    /\ Record("reputation", verdict)
    /\ Counts(Worst(open))
    /\ UNCHANGED open

\* publish_scorecard refreshes, then adds a snapshot with the composite score: none
\* when no indicator has been scored, and then it publishes no performance here.
Publish(score) ==
    /\ profile' = Append(Refresh(profile), [Blank EXCEPT !.performance = score])
    /\ IF score = NoValue THEN UNCHANGED <<last, overtaken, view>> ELSE Record("performance", score)
    /\ Counts(Worst(open))
    /\ UNCHANGED open

\* The vendor view and the refresh of rollups: findings, then rollups, are read
\* without a lock, and the snapshot is inserted and the history pruned.
ReadFindings(v) ==
    /\ view[v] = NoView
    /\ view' = [view EXCEPT ![v] = [stage |-> "findings", severity |-> Worst(open)]]
    /\ UNCHANGED <<open, profile, last, overtaken, counted, blank>>

ReadRollups(v) ==
    /\ view[v].stage = "findings"
    /\ view' = [view EXCEPT ![v] = [stage |-> "rollups", severity |-> view[v].severity,
                                    carried |-> Carry(profile), late |-> {}]]
    /\ UNCHANGED <<open, profile, last, overtaken, counted, blank>>

FinishView(v) ==
    LET r == view[v]
    IN  /\ r.stage = "rollups"
        /\ profile' = Prune(Append(profile, Refreshed(r.severity, r.carried)))
        /\ Counts(r.severity)
        /\ overtaken' = overtaken \cup r.late
        /\ view' = [view EXCEPT ![v] = NoView]
        /\ UNCHANGED <<open, last>>

ProfileNext ==
    \/ \E f \in Finding : FindingChanges(f)
    \/ RefreshProfile
    \/ \E verdict \in Verdict : RecordReputation(verdict)
    \/ \E score \in Optional(Score) : Publish(score)
    \/ \E v \in Viewer : ReadFindings(v) \/ ReadRollups(v) \/ FinishView(v)

ProfileSpec == ProfileInit /\ [][ProfileNext]_consolidated

------------------------------------------------------------------------------
(***************************************************************************)
(* Properties.                                                             *)
(***************************************************************************)

\* However many refreshes and views have pruned the history since, the profile shows
\* the score published last and the reputation found last, unless a view that had
\* read an older one inserted its snapshot afterwards: then the older one is shown,
\* and every refresh carries it on, until the next publication.
RollupsStand ==
    \A field \in Rollup \ overtaken : Latest(profile, field) = last[field]

\* The worst severity that the last refresh counted is shown, whatever was published
\* since.  When there is none left, an older severity is still shown, but no longer
\* than it takes Keep refreshes to prune it.
SeverityShown ==
    /\ counted # NoValue => Latest(profile, "severity") = counted
    /\ blank = Keep => Latest(profile, "severity") = NoValue
==============================================================================

----------------------------- MODULE Conversations -----------------------------
(***************************************************************************)
(* One conversation with the assessment agents, by voice                   *)
(* (app/routers/brocall.py) or in writing (app/routers/assessment.py): its *)
(* stage and the dossier the agents fill, from whose bands and findings    *)
(* the server derives the verdict.  The dossier is one column of JSON: a   *)
(* call reads it, changes it and writes all of it back, whatever the       *)
(* column holds by then.                                                   *)
(*                                                                         *)
(* A severity the server does not know counts as low.  Messages and        *)
(* requested documents change neither column and are left out.             *)
(***************************************************************************)
EXTENDS RiskEngine

CONSTANTS
    Call,      \* tool calls and turns in flight at one time
    Facts,     \* what a call may merge into the dossier: some of its fields
    LastStage, \* 7 in the code
    Window,    \* findings the dossier keeps, 100 in the code
    MaxCalls   \* bound on the calls of a run

VARIABLES
    session,   \* the row: stage and dossier
    read,      \* what each call read of it
    calls,     \* how many calls there were
    worst,     \* history: the band of the worst finding recorded
    lost,      \* history: findings may have gone (window full, replaced, overwritten)
    rewritten  \* history: and so may, since the last verdict, its band

talk == <<session, read, calls, worst, lost, rewritten>>

Floor == [low |-> "LOW", moderate |-> "MODERATE", high |-> "ELEVATED", critical |-> "HIGH"]
Severity == DOMAIN Floor

\* A band that is not one of the four counts as none.
Dossier == [inherent: Band \cup {None}, residual: Band \cup {None},
            findings: Seq(Severity), verdict: Band \cup {None}]
Session == [stage: 0 .. LastStage, dossier: Dossier]
Blank == [inherent |-> None, residual |-> None, findings |-> <<>>, verdict |-> None]

ASSUME ConversationConstants ==
    LastStage \in Nat /\ Window \in Nat \ {0} /\ MaxCalls \in Nat

\* What agents learn goes over what is there.
Merged(dossier, facts) ==
    [f \in DOMAIN dossier |-> IF f \in DOMAIN facts THEN facts[f] ELSE dossier[f]]

ASSUME FactsAreFields == \A facts \in Facts : Merged(Blank, facts) \in Dossier

TalkTypeOK ==
    /\ session \in Session /\ read \in [Call -> Session \cup {None}]
    /\ calls \in 0 .. MaxCalls /\ worst \in Band
    /\ lost \in BOOLEAN /\ rewritten \in BOOLEAN

TalkInit ==
    /\ session = [stage |-> 0, dossier |-> Blank]
    /\ read = [c \in Call |-> None] /\ calls = 0
    /\ worst = "LOW" /\ lost = FALSE /\ rewritten = FALSE

------------------------------------------------------------------------------
(* Calls.                                                                  *)

Read(c) ==
    /\ read[c] = None /\ calls < MaxCalls
    /\ read' = [read EXCEPT ![c] = session]
    /\ calls' = calls + 1
    /\ UNCHANGED <<session, worst, lost, rewritten>>

\* The commit of a call: a column that was not changed is not written.  (The
\* dossier also holds what is left out here, and may be written for that.)
Save(c, stage, dossier) ==
    /\ \E written \in {TRUE, dossier # read[c].dossier} :
         session' = [stage   |-> IF stage # read[c].stage THEN stage ELSE session.stage,
                     dossier |-> IF written THEN dossier ELSE session.dossier]
    /\ read' = [read EXCEPT ![c] = None]
    /\ UNCHANGED calls

Overtaken(c) == read[c].dossier # session.dossier
Overwrites(c) == session.dossier \notin {read[c].dossier, session'.dossier}

\* set_stage: the stage the agent names, kept within bounds.
SetStage(c) ==
    /\ \E stage \in 0 .. LastStage :
         session' = [session EXCEPT !.stage = IF stage # read[c].stage THEN stage ELSE @]
    /\ read' = [read EXCEPT ![c] = None]
    /\ UNCHANGED <<calls, worst, lost, rewritten>>

Merge(c, facts, stage) ==
    /\ Save(c, stage, Merged(read[c].dossier, facts))
    /\ lost' = (lost \/ Overwrites(c) \/ "findings" \in DOMAIN facts)
    /\ rewritten' = (\/ rewritten \/ Overwrites(c)
                     \/ {"residual", "verdict"} \cap DOMAIN facts # {})
    /\ UNCHANGED worst

\* update_dossier, and consent.
UpdateDossier(c) == \E facts \in Facts : Merge(c, facts, read[c].stage)

\* A written turn (agent_send; of agent_stream, what follows the answer).
Turn(c) ==
    \E facts \in Facts, stage \in {read[c].stage, read[c].stage + 1} \ {LastStage + 1} :
      Merge(c, facts, stage)

\* record_finding.
Recorded(dossier, severity) ==
    LET findings == Append(dossier.findings, severity)
        first == Max({1, Len(findings) - Window + 1})
    IN  [dossier EXCEPT !.findings = SubSeq(findings, first, Len(findings))]

Harsher(a, b) == IF Rank(a, Bands) >= Rank(b, Bands) THEN a ELSE b

RecordFinding(c) ==
    /\ \E severity \in Severity :
         /\ Save(c, read[c].stage, Recorded(read[c].dossier, severity))
         /\ worst' = Harsher(worst, Floor[severity])
    /\ lost' = (lost \/ Overwrites(c) \/ Len(read[c].dossier.findings) = Window)
    /\ rewritten' = (rewritten \/ Overwrites(c))

\* compute_verdict.
WorstOf(findings) ==
    Bands[Max({1} \cup {Rank(Floor[severity], Bands) : severity \in Range(findings)})]
Base(dossier) ==
    IF dossier.residual # None THEN dossier.residual
    ELSE IF dossier.inherent # None THEN dossier.inherent ELSE "MODERATE"
(* (TrustingVerdict takes the residual band that was set.) *)
TrustingVerdict(dossier) ==
    IF dossier.residual # None THEN dossier.residual
    ELSE Harsher(Base(dossier), WorstOf(dossier.findings))
Verdict(dossier) == Harsher(Base(dossier), WorstOf(dossier.findings))
(* (UnrecordedConclusion leaves the residual band of the dossier as it was.) *)
UnrecordedConclusion(dossier) == [dossier EXCEPT !.verdict = Verdict(dossier)]
Concluded(dossier) == [dossier EXCEPT !.residual = Verdict(dossier), !.verdict = Verdict(dossier)]

ComputeVerdict(c) ==
    /\ Save(c, read[c].stage, Concluded(read[c].dossier))
    /\ lost' = (lost \/ Overwrites(c))
    /\ rewritten' = Overtaken(c)
    /\ UNCHANGED worst

Finish(c) ==
    /\ read[c] # None
    /\ \/ SetStage(c) \/ UpdateDossier(c) \/ Turn(c) \/ RecordFinding(c) \/ ComputeVerdict(c)

Talk == \E c \in Call : Read(c) \/ Finish(c)

------------------------------------------------------------------------------
(***************************************************************************)
(* Properties.                                                             *)
(***************************************************************************)

\* A verdict computed from what the session holds is no milder than the worst
\* finding recorded in it, whatever residual band an agent has set in between,
\* unless findings were replaced, overwritten by an overlapping call or pushed out
\* of the window (compute_verdict; record_finding; set_stage overwrites nothing).
VerdictCoversFindings ==
    [][\A c \in Call :
         read[c] # None /\ ComputeVerdict(c) /\ ~Overtaken(c) /\ ~lost =>
             Rank(session'.dossier.verdict, Bands) >= Rank(worst, Bands)]_talk

\* The next verdict is no milder than the last one, even when findings have left the
\* window or the inherent band was set anew, unless the dossier was overwritten or an
\* agent has set its residual band (compute_verdict).
VerdictStands ==
    [][\A c \in Call :
         /\ read[c] # None /\ ComputeVerdict(c) /\ ~Overtaken(c)
         /\ ~rewritten /\ session.dossier.verdict # None
         =>
             Rank(session'.dossier.verdict, Bands) >= Rank(session.dossier.verdict, Bands)]_talk
==============================================================================

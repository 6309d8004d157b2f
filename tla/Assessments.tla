------------------------------ MODULE Assessments ------------------------------
(***************************************************************************)
(* The three ways to a verdict side by side: an engagement that is         *)
(* assessed, decided and contracted (Engagements), a conversation with the *)
(* agents (Conversations), and the autonomous assessment (ProAssess),      *)
(* which writes nothing: a step takes one set of answers to its            *)
(* assessment.  They share nothing but bands and rules, so a behaviour     *)
(* goes one way and never two at a time.                                   *)
(***************************************************************************)
EXTENDS Engagements, ProAssess, Conversations

CONSTANT Questionnaires \* answers that the autonomous assessment may be given

ASSUME QuestionnairesAreAnswers == Questionnaires \subseteq Irq

VARIABLES
    answers,   \* the answers to assess, None when none are supplied
    found,     \* the inherent band of the answers
    assessment \* the report

assessing == <<answers, found, assessment>>

Reports ==
    [inherent: Band, controls: Ddq \cup {None}, extracted: SUBSET Extract,
     residual: Band, recommendation: Range(Recommendations)]

Typed ==
    /\ TypeOK /\ TalkTypeOK
    /\ answers \in Irq \cup {None} /\ found \in Band \cup {None}
    /\ assessment \in Reports \cup {None}

\* run_proassess: the answers are scored, then the evidence is looked at.
ScoreAnswers ==
    /\ requests = 0 /\ calls = 0 /\ found = None /\ assessment = None
    /\ found' = Found(answers)
    /\ answers' = None
    /\ UNCHANGED <<vars, talk, assessment>>

Assess ==
    /\ found # None
    /\ \E ddq \in Ddq \cup {None}, extracted \in SUBSET Extract :
         assessment' = Assessment(found, ddq, extracted)
    /\ found' = None
    /\ UNCHANGED <<vars, talk, answers>>

Engage ==
    /\ assessing = <<None, None, None>> /\ calls = 0
    /\ Next
    /\ UNCHANGED <<assessing, talk>>

Converse ==
    /\ assessing = <<None, None, None>> /\ requests = 0
    /\ Talk
    /\ UNCHANGED <<assessing, vars>>

Start ==
    /\ Init /\ TalkInit
    /\ answers \in Questionnaires \cup {None} /\ found = None /\ assessment = None
Step == ScoreAnswers \/ Assess \/ Engage \/ Converse

Assessing == Start /\ [][Step]_<<vars, talk, assessing>>

------------------------------------------------------------------------------
(***************************************************************************)
(* Properties.                                                             *)
(***************************************************************************)

Yes(irq, q) == [irq EXCEPT !.yes = @ \cup {q}]
Worse(irq) ==
    {Yes(irq, q) : q \in YesNo}
    \cup {[irq EXCEPT !.data = @ \cup {d}] : d \in DataType}
    \cup {[irq EXCEPT !.service = s] :
            s \in {v \in Range(Service) : Rank(v, Service) > Rank(irq.service, Service)}}
    \cup {[irq EXCEPT !.supply = s] :
            s \in {v \in Range(Supply) : Rank(v, Supply) > Rank(irq.supply, Supply)}}

\* A worse answer to one question never lowers the band or the tier, never makes
\* the route easier, and never takes a domain out of scope or out of the risks
\* (compute_inherent, compute_tier, compute_route, run_proassess).
WorseAnswersNeverEase ==
    answers # None =>
        \A worse \in Worse(answers) :
            /\ Rank(Inherent(worse), Bands) >= Rank(Inherent(answers), Bands)
            /\ Tier(worse) <= Tier(answers)
            /\ Rank(Route(worse), Routes) >= Rank(Route(answers), Routes)
            /\ Exposed(answers) \subseteq Exposed(worse)

\* A control found less than compliant never improves the residual band, the
\* decision or the recommendation, and the residual band is never below the
\* inherent one (compute_residual, run_proassess).  (Whether it was found partial or
\* marginal is another matter: marginal may count for less, because the two are
\* counted apart.)
DeficiencyNeverEases ==
    assessment # None /\ assessment.controls # None =>
        LET with(c, answer) == [assessment.controls EXCEPT ![c] = answer]
            band == assessment.inherent
            worse(ddq) == Assessment(band, ddq, assessment.extracted)
        IN  /\ Rank(assessment.residual, Bands) >= Rank(band, Bands)
            /\ \A c \in Given(assessment.controls, "COMPLIANT"), answer \in Answer :
                 LET next == worse(with(c, answer)) IN
                 /\ Rank(next.residual, Bands) >= Rank(assessment.residual, Bands)
                 /\ Rank(DecisionFor(next.residual), Decisions)
                       >= Rank(DecisionFor(assessment.residual), Decisions)
                 /\ Rank(next.recommendation, Recommendations)
                       >= Rank(assessment.recommendation, Recommendations)
==============================================================================

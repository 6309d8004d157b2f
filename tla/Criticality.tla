------------------------------ MODULE Criticality ------------------------------
(***************************************************************************)
(* The criticality engine of app/features/domain/master_service.py for one *)
(* vendor: the four inputs of each engagement, the analysis that scores    *)
(* them and designates engagements, vendor and contracts, the two manual   *)
(* overrides, the sanctions screening that also sets the vendor flag, and  *)
(* the contract register whose rows the designations mark.                 *)
(*                                                                         *)
(* Requests run in sessions of their own on SQLite.  From its first flush  *)
(* a session holds the write lock, so what it does from there to its       *)
(* commit is one step here; what it read before stays as it was read,      *)
(* because loaded objects are not refreshed and an attribute set to the    *)
(* value it was loaded with is not written.                                *)
(***************************************************************************)
EXTENDS Integers, FiniteSets

CONSTANTS
    Session,     \* database sessions, one per request being served
    Engagement,  \* the vendor's engagements; the analysis skips one without
    Raised,      \* engagements with HIGH inherent risk or marked mission critical
    Contract,    \* rows the contract register may come to have
    Inputs,      \* what a request gives for the four inputs
    Unscored,    \* an input that was never given
    None,        \* no designation, no override, a contract of no engagement
    Absent       \* a contract row that is not there yet

Param == {"customer_impact", "downtime_tolerance", "alternative_availability",
          "substitution_complexity"}

ASSUME CriticalityConstants ==
    /\ Engagement # {} /\ IsFiniteSet(Engagement)
    /\ Raised \subseteq Engagement
    /\ Inputs \subseteq [Param -> Int \cup {Unscored}]
    /\ Unscored \notin Int
    /\ [p \in Param |-> Unscored] \notin Inputs
    /\ None \notin BOOLEAN \cup Engagement
    /\ Absent \notin Engagement \cup {None}

VARIABLES
    inputs,     \* the committed inputs of each engagement
    isCritical, \* the vendor's flag
    override,   \* the newest manual designation of the vendor
    engSays,    \* the newest designation of each engagement
    link,       \* the engagement of each contract
    marked,     \* contracts whose is_critical is set
    late,       \* history: contracts that requests linked or unmarked since their
                \* engagement was last designated critical
    request     \* what each session's request has read

contractVars == <<link, marked, late>>
critVars == <<inputs, isCritical, override, engSays, contractVars>>
vars == <<critVars, request>>

Idle == [op |-> "idle"]

Answers == [Param -> Int \cup {Unscored}]
Row == [of: Engagement \cup {None}, critical: BOOLEAN]

TypeOK ==
    /\ inputs \in [Engagement -> Answers]
    /\ isCritical \in BOOLEAN
    /\ override \in BOOLEAN \cup {None}
    /\ engSays \in [Engagement -> BOOLEAN \cup {None}]
    /\ link \in [Contract -> Engagement \cup {None, Absent}]
    /\ marked \subseteq Contract /\ late \subseteq Contract
    /\ request \in [Session ->
          {Idle}
          \cup [op: {"inputs"}, of: Engagement, loaded: Answers, given: Inputs]
          \cup [op: {"analyse"}, first: Engagement, loaded: Answers]
          \cup [op: {"override"}, loaded: BOOLEAN, to: BOOLEAN]
          \cup [op: {"screen"}, loaded: BOOLEAN]
          \cup [op: {"contract"}, row: Contract, loaded: Row, to: Row]]

Init ==
    /\ inputs = [e \in Engagement |-> [p \in Param |-> Unscored]]
    /\ isCritical \in BOOLEAN
    /\ override = None
    /\ engSays = [e \in Engagement |-> None]
    /\ link = [k \in Contract |-> Absent] /\ marked = {} /\ late = {}
    /\ request = [t \in Session |-> Idle]

------------------------------------------------------------------------------
(* The score.                                                              *)

\* A missing input counts as the worst, and values are kept within 1..5.
Scored(v) == IF v = Unscored \/ v > 5 THEN 5 ELSE IF v < 1 THEN 1 ELSE v

\* A hundred times the weighted score, exactly.
Hundredths(in) ==
    35 * Scored(in["customer_impact"]) + 25 * Scored(in["downtime_tolerance"])
    + 20 * Scored(in["alternative_availability"])
    + 20 * Scored(in["substitution_complexity"])
Threshold == 350

\* The code adds four products of doubles.  The sum is on the wrong side of 3.5
\* for one combination of scores in 1..5, whose exact value is 3.5: the doubles
\* add up to 3.4999999999999996.
RoundsBelow(in) ==
    /\ Scored(in["customer_impact"]) = 3 /\ Scored(in["downtime_tolerance"]) = 5
    /\ Scored(in["alternative_availability"]) = 4
    /\ Scored(in["substitution_complexity"]) = 2
Meets(in) == Hundredths(in) >= Threshold /\ ~RoundsBelow(in)

\* HIGH inherent risk and mission-critical work lift the score to the threshold.
Critical(e, in) == e \in Raised \/ Meets(in)

------------------------------------------------------------------------------
(* The requests.                                                           *)

Over(t) == request' = [request EXCEPT ![t] = Idle]

\* PUT criticality-inputs: the row is loaded, and the inputs given that differ
\* from it are written.  A row that was not there is inserted, or refused if
\* another request has inserted it meanwhile.
NoAnswers == [p \in Param |-> Unscored]
LoadInputs(t, e) ==
    /\ request[t] = Idle
    /\ \E in \in Inputs :
         request' = [request EXCEPT
             ![t] = [op |-> "inputs", of |-> e, loaded |-> inputs[e], given |-> in]]
    /\ UNCHANGED critVars
SetInputs(t) ==
    /\ request[t].op = "inputs"
    /\ LET r == request[t]
           written == {p \in Param : r.given[p] \notin {Unscored, r.loaded[p]}}
           refused == r.loaded = NoAnswers /\ inputs[r.of] # NoAnswers
       IN  inputs' = IF refused THEN inputs
                     ELSE [inputs EXCEPT ![r.of] =
                             [p \in Param |-> IF p \in written THEN r.given[p] ELSE @[p]]]
    /\ Over(t)
    /\ UNCHANGED <<isCritical, override, engSays, contractVars>>

\* The contract rows there are, and those of engagement e.
Contracts == {k \in Contract : link[k] # Absent}
ContractsOf(e) == {k \in Contracts : link[k] = e}

\* mark_contracts_critical: the rows there are now.  A designation of the vendor
\* marks those that name it, an engagement's those of the engagement; whether a
\* row names the vendor is left open.
ContractsOfAny(critical) == UNION {ContractsOf(e) : e \in critical}
MarkContracts(critical, naming) ==
    /\ marked' = marked \cup ContractsOfAny(critical) \cup naming
    /\ late' = late \ ContractsOfAny(critical)
    /\ UNCHANGED link
NamingVendor(critical) == IF critical = {} THEN {{}} ELSE SUBSET Contracts

\* The vendor is designated from its engagements (critical: those that score so),
\* unless a manual override is on record, of which nothing is changed.
HeedlessDesignate(critical) == isCritical' = (critical # {})
DesignateVendor(critical) ==
    isCritical' = IF override = None THEN critical # {} ELSE isCritical

\* POST critical-vendors/analyse: the engagements are read, and the inputs of the
\* first of them, before the first designation takes the write lock.
ReadAnalysis(t, e) ==
    /\ request[t] = Idle
    /\ request' = [request EXCEPT ![t] = [op |-> "analyse", first |-> e, loaded |-> inputs[e]]]
    /\ UNCHANGED critVars
Analyse(t) ==
    /\ request[t].op = "analyse"
    /\ LET in(e) == IF e = request[t].first THEN request[t].loaded ELSE inputs[e]
           critical == {e \in Engagement : Critical(e, in(e))}
       IN  /\ engSays' = [e \in Engagement |-> e \in critical]
           /\ DesignateVendor(critical)
           /\ \E naming \in NamingVendor(critical) : MarkContracts(critical, naming)
    /\ Over(t)
    /\ UNCHANGED <<inputs, override>>

\* POST critical-vendors/{vid}/override: the vendor is loaded, then the flag set.
\* A flag that was loaded with the new value is not written.
ReadOverride(t) ==
    /\ request[t] = Idle
    /\ \E to \in BOOLEAN :
         request' = [request EXCEPT ![t] = [op |-> "override", loaded |-> isCritical, to |-> to]]
    /\ UNCHANGED critVars
OverrideVendor(t) ==
    /\ request[t].op = "override"
    /\ LET to == request[t].to IN
       /\ isCritical' = IF request[t].loaded = to THEN isCritical ELSE to
       /\ override' = to
    /\ Over(t)
    /\ UNCHANGED <<inputs, engSays, contractVars>>

\* POST engagements/{eid}/criticality-override: the designation is recorded, and
\* the vendor designated from the scores, which the override does not touch.
OverrideEngagement(t, e, to) ==
    /\ request[t] = Idle
    /\ engSays' = [engSays EXCEPT ![e] = to]
    /\ LET critical == {d \in Engagement : Critical(d, inputs[d])} IN
       /\ DesignateVendor(critical)
       /\ \E naming \in NamingVendor(critical) :
             MarkContracts(IF to THEN {e} ELSE {}, naming)
    /\ UNCHANGED <<inputs, override, request>>

\* apply_screening_outcome on a Hit: a flag that was not set when the request
\* loaded the vendor is set, override or not, and no designation is recorded.
LoadVendor(t) ==
    /\ request[t] = Idle
    /\ request' = [request EXCEPT ![t] = [op |-> "screen", loaded |-> isCritical]]
    /\ UNCHANGED critVars
Escalate(t) ==
    /\ request[t].op = "screen"
    /\ isCritical' = IF request[t].loaded THEN isCritical ELSE TRUE
    /\ Over(t)
    /\ UNCHANGED <<inputs, override, engSays, contractVars>>

\* create_contract: an unmarked row, of an engagement or, a master agreement, of
\* the vendor alone.
CreateContract(t, k, e) ==
    /\ request[t] = Idle
    /\ link[k] = Absent
    /\ link' = [link EXCEPT ![k] = e]
    /\ late' = late \cup {k}
    /\ UNCHANGED <<inputs, isCritical, override, engSays, marked, request>>

\* PUT contracts/{cid} sets the columns it is given, the mark and the engagement
\* among them, on a row it has loaded; it writes those that differ from it.
LoadContract(t, k) ==
    /\ request[t] = Idle
    /\ link[k] # Absent
    /\ \E to \in Row :
         request' = [request EXCEPT
             ![t] = [op |-> "contract", row |-> k,
                     loaded |-> [of |-> link[k], critical |-> k \in marked], to |-> to]]
    /\ UNCHANGED critVars
Moves(r) == r.to.of # r.loaded.of
Unmarks(r) == r.loaded.critical /\ ~r.to.critical
Written(r) == link' = IF Moves(r) THEN [link EXCEPT ![r.row] = r.to.of] ELSE link
\* (SaveContract writes the row as it was loaded and edited.)
SaveContract(t) ==
    /\ request[t].op = "contract"
    /\ LET r == request[t] IN
       /\ Written(r)
       /\ marked' = IF r.to.critical THEN marked \cup {r.row} ELSE marked \ {r.row}
       /\ late' = IF Moves(r) \/ Unmarks(r) THEN late \cup {r.row} ELSE late
    /\ Over(t)
    /\ UNCHANGED <<inputs, isCritical, override, engSays>>
UpdateContract(t) ==
    /\ request[t].op = "contract"
    /\ LET r == request[t] IN
       /\ Written(r)
       /\ marked' = IF r.to.critical = r.loaded.critical THEN marked
                    ELSE IF r.to.critical THEN marked \cup {r.row} ELSE marked \ {r.row}
       /\ late' = IF Moves(r) \/ Unmarks(r) THEN late \cup {r.row} ELSE late
    /\ Over(t)
    /\ UNCHANGED <<inputs, isCritical, override, engSays>>

Next ==
    \E t \in Session :
        \/ \E e \in Engagement :
              \/ LoadInputs(t, e) \/ ReadAnalysis(t, e)
              \/ \E to \in BOOLEAN : OverrideEngagement(t, e, to)
        \/ SetInputs(t) \/ Analyse(t)
        \/ ReadOverride(t) \/ OverrideVendor(t)
        \/ LoadVendor(t) \/ Escalate(t)
        \/ \E k \in Contract :
              \/ \E e \in Engagement \cup {None} : CreateContract(t, k, e)
              \/ LoadContract(t, k)
        \/ UpdateContract(t)

Spec == Init /\ [][Next]_vars

------------------------------------------------------------------------------
(***************************************************************************)
(* Properties.                                                             *)
(***************************************************************************)

\* A manual override is "recorded and respected by the engine": once it is there,
\* only another override or a sanctions hit changes the vendor's flag.
EngineRespectsOverride ==
    [][override # None /\ isCritical' # isCritical
          => \E t \in Session : OverrideVendor(t) \/ Escalate(t)]_vars

\* A contract of an engagement that was last designated critical is marked, by
\* whichever way it was designated: an edit that loaded the row before and saves it
\* afterwards does not take the mark away.  Not so a contract that was created,
\* moved there or unmarked by an edit since: nothing marks it before the next
\* designation.
CriticalContractsMarked ==
    \A e \in Engagement : engSays[e] = TRUE => ContractsOf(e) \ late \subseteq marked
==============================================================================

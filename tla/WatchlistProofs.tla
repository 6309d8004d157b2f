---------------------------- MODULE WatchlistProofs ----------------------------
(***************************************************************************)
(* The criticality engine keeps its invariant, the watchlist is one of its *)
(* environments, and the watchlist keeps its own, for any number of        *)
(* sessions, criteria, entries and candidates.                             *)
(***************************************************************************)
EXTENDS Watchlist, FiniteSetTheorems, SequenceTheorems, TLAPS

LEMMA CritInit == Init => TypeOK /\ CriticalContractsMarked
<1> SUFFICES ASSUME Init PROVE TypeOK /\ CriticalContractsMarked
  OBVIOUS
<1>1. TypeOK
  BY CriticalityConstants DEF Init, TypeOK, Answers
<1>2. Absent \notin Engagement
  BY CriticalityConstants
<1>3. CriticalContractsMarked
  BY <1>2 DEF Init, CriticalContractsMarked, ContractsOf, Contracts
<1> QED BY <1>1, <1>3

\* A request that has loaded something is one of these.
Requests ==
    {Idle}
    \cup [op: {"inputs"}, of: Engagement, loaded: Answers, given: Inputs]
    \cup [op: {"analyse"}, first: Engagement, loaded: Answers]
    \cup [op: {"override"}, loaded: BOOLEAN, to: BOOLEAN]
    \cup [op: {"screen"}, loaded: BOOLEAN]
    \cup [op: {"contract"}, row: Contract, loaded: Row, to: Row]

LEMMA RequestSays ==
    ASSUME TypeOK, NEW t \in Session
    PROVE  /\ request[t].op = "inputs" =>
                 request[t] \in [op: {"inputs"}, of: Engagement, loaded: Answers, given: Inputs]
           /\ request[t].op = "override" =>
                 request[t] \in [op: {"override"}, loaded: BOOLEAN, to: BOOLEAN]
           /\ request[t].op = "contract" =>
                 request[t] \in [op: {"contract"}, row: Contract, loaded: Row, to: Row]
<1>1. request[t] \in Requests
  BY DEF TypeOK, Requests
<1> QED BY <1>1 DEF Requests, Idle

\* Each session's next request keeps the requests typed.
LEMMA RequestTyped ==
    ASSUME TypeOK, NEW t \in Session, NEW r \in Requests, request' = [request EXCEPT ![t] = r]
    PROVE  request' \in [Session -> Requests]
BY DEF TypeOK, Requests

\* What is not the request is typed after each step.
Tables ==
    /\ inputs \in [Engagement -> Answers]
    /\ isCritical \in BOOLEAN
    /\ override \in BOOLEAN \cup {None}
    /\ engSays \in [Engagement -> BOOLEAN \cup {None}]
    /\ link \in [Contract -> Engagement \cup {None, Absent}]
    /\ marked \subseteq Contract /\ late \subseteq Contract

LEMMA TypedIsBoth == TypeOK <=> Tables /\ request \in [Session -> Requests]
BY DEF TypeOK, Tables, Requests

LEMMA MarksTyped ==
    ASSUME Tables, NEW critical, NEW c, NEW naming \in NamingVendor(c),
           MarkContracts(critical, naming)
    PROVE  /\ link' \in [Contract -> Engagement \cup {None, Absent}]
           /\ marked' \subseteq Contract /\ late' \subseteq Contract
<1>1. naming \subseteq Contract
  BY DEF NamingVendor, Contracts
<1>2. ContractsOfAny(critical) \subseteq Contract
  BY DEF ContractsOfAny, ContractsOf, Contracts
<1> QED BY <1>1, <1>2 DEF MarkContracts, Tables

LEMMA CritStepTyped ==
    ASSUME TypeOK, Next
    PROVE  TypeOK'
<1> USE DEF Over
<1>0. Tables /\ request \in [Session -> Requests]
  BY TypedIsBoth
<1>1. Idle \in Requests
  BY DEF Requests
<1>2. ASSUME NEW t \in Session, NEW r \in Requests, request' = [request EXCEPT ![t] = r], Tables'
      PROVE  TypeOK'
  <2>1. request' \in [Session -> Requests]
    BY <1>2, RequestTyped
  <2> QED BY <1>2, <2>1 DEF TypeOK, Tables, Requests
<1>3. UNCHANGED critVars => Tables'
  BY <1>0 DEF Tables, critVars, contractVars
<1>4. ASSUME NEW t \in Session, NEW e \in Engagement, LoadInputs(t, e) PROVE TypeOK'
  <2>1. PICK in \in Inputs : request' = [request EXCEPT
             ![t] = [op |-> "inputs", of |-> e, loaded |-> inputs[e], given |-> in]]
    BY <1>4 DEF LoadInputs
  <2>2. [op |-> "inputs", of |-> e, loaded |-> inputs[e], given |-> in] \in Requests
    BY <1>0 DEF Tables, Requests
  <2> QED BY <1>2, <1>3, <1>4, <2>1, <2>2 DEF LoadInputs
<1>5. ASSUME NEW t \in Session, SetInputs(t) PROVE TypeOK'
  <2> DEFINE r == request[t]
  <2> DEFINE new == [p \in Param |-> IF r.given[p] \notin {Unscored, r.loaded[p]}
                                       THEN r.given[p] ELSE inputs[r.of][p]]
  <2>1. r.of \in Engagement /\ r.given \in Inputs
    BY <1>5, RequestSays DEF SetInputs
  <2>2. inputs' = inputs \/ inputs' = [inputs EXCEPT ![r.of] = new]
    BY <1>5 DEF SetInputs
  <2>3. r.given \in Answers /\ inputs[r.of] \in Answers
    BY <1>0, <2>1, CriticalityConstants DEF Tables, Answers
  <2>4. new \in Answers
    BY <2>3 DEF Answers
  <2> HIDE DEF new
  <2>5. inputs' \in [Engagement -> Answers]
    BY <1>0, <2>2, <2>4 DEF Tables
  <2>6. Tables'
    BY <1>0, <1>5, <2>5 DEF SetInputs, Tables, contractVars
  <2> QED BY <1>1, <1>2, <1>5, <2>6 DEF SetInputs
<1>6. ASSUME NEW t \in Session, NEW e \in Engagement, ReadAnalysis(t, e) PROVE TypeOK'
  <2>1. [op |-> "analyse", first |-> e, loaded |-> inputs[e]] \in Requests
    BY <1>0 DEF Tables, Requests
  <2> QED BY <1>2, <1>3, <1>6, <2>1 DEF ReadAnalysis
<1>7. ASSUME NEW critical, DesignateVendor(critical) PROVE isCritical' \in BOOLEAN
  BY <1>0, <1>7 DEF DesignateVendor, Tables
<1>8. ASSUME NEW t \in Session, Analyse(t) PROVE TypeOK'
  <2>1. PICK critical, naming :
          /\ naming \in NamingVendor(critical)
          /\ engSays' = [e \in Engagement |-> e \in critical]
          /\ DesignateVendor(critical) /\ MarkContracts(critical, naming)
    BY <1>8 DEF Analyse
  <2>2. engSays' \in [Engagement -> BOOLEAN \cup {None}]
    BY <2>1
  <2>3. isCritical' \in BOOLEAN
    BY <1>7, <2>1
  <2>4. Tables'
    BY <1>0, <1>8, <2>1, <2>2, <2>3, MarksTyped DEF Analyse, Tables
  <2> QED BY <1>1, <1>2, <1>8, <2>4 DEF Analyse
<1>9. ASSUME NEW t \in Session, ReadOverride(t) PROVE TypeOK'
  <2>1. PICK to \in BOOLEAN : request' =
          [request EXCEPT ![t] = [op |-> "override", loaded |-> isCritical, to |-> to]]
    BY <1>9 DEF ReadOverride
  <2>2. [op |-> "override", loaded |-> isCritical, to |-> to] \in Requests
    BY <1>0 DEF Tables, Requests
  <2> QED BY <1>2, <1>3, <1>9, <2>1, <2>2 DEF ReadOverride
<1>10. ASSUME NEW t \in Session, OverrideVendor(t) PROVE TypeOK'
  <2>1. request[t].to \in BOOLEAN
    BY <1>10, RequestSays DEF OverrideVendor
  <2>2. isCritical' \in BOOLEAN /\ override' \in BOOLEAN \cup {None}
    BY <1>0, <1>10, <2>1 DEF OverrideVendor, Tables
  <2>3. Tables'
    BY <1>0, <1>10, <2>2 DEF OverrideVendor, Tables, contractVars
  <2> QED BY <1>1, <1>2, <1>10, <2>3 DEF OverrideVendor
<1>11. ASSUME NEW t \in Session, NEW e \in Engagement, NEW to \in BOOLEAN,
              OverrideEngagement(t, e, to)
       PROVE  TypeOK'
  <2>1. PICK critical, naming :
          /\ naming \in NamingVendor(critical)
          /\ DesignateVendor(critical) /\ MarkContracts(IF to THEN {e} ELSE {}, naming)
    BY <1>11 DEF OverrideEngagement
  <2>2. engSays' \in [Engagement -> BOOLEAN \cup {None}]
    BY <1>0, <1>11 DEF OverrideEngagement, Tables
  <2>3. isCritical' \in BOOLEAN
    BY <1>7, <2>1
  <2>4. Tables'
    BY <1>0, <1>11, <2>1, <2>2, <2>3, MarksTyped DEF OverrideEngagement, Tables
  <2>5. request' \in [Session -> Requests]
    BY <1>0, <1>11 DEF OverrideEngagement
  <2> QED BY <2>4, <2>5 DEF TypeOK, Tables, Requests
<1>12. ASSUME NEW t \in Session, LoadVendor(t) PROVE TypeOK'
  <2>1. [op |-> "screen", loaded |-> isCritical] \in Requests
    BY <1>0 DEF Tables, Requests
  <2> QED BY <1>2, <1>3, <1>12, <2>1 DEF LoadVendor
<1>13. ASSUME NEW t \in Session, Escalate(t) PROVE TypeOK'
  <2>1. isCritical' \in BOOLEAN
    BY <1>0, <1>13 DEF Escalate, Tables
  <2>2. Tables'
    BY <1>0, <1>13, <2>1 DEF Escalate, Tables, contractVars
  <2> QED BY <1>1, <1>2, <1>13, <2>2 DEF Escalate
<1>14. ASSUME NEW t \in Session, NEW k \in Contract, NEW e \in Engagement \cup {None},
              CreateContract(t, k, e)
       PROVE  TypeOK'
  <2>1. Tables'
    BY <1>0, <1>14 DEF CreateContract, Tables
  <2>2. request' \in [Session -> Requests]
    BY <1>0, <1>14 DEF CreateContract
  <2> QED BY <2>1, <2>2 DEF TypeOK, Tables, Requests
<1>15. ASSUME NEW t \in Session, NEW k \in Contract, LoadContract(t, k) PROVE TypeOK'
  <2> DEFINE row == [of |-> link[k], critical |-> k \in marked]
  <2>1. PICK to \in Row : request' =
          [request EXCEPT ![t] = [op |-> "contract", row |-> k, loaded |-> row, to |-> to]]
    BY <1>15 DEF LoadContract
  <2>2. row \in Row
    BY <1>0, <1>15 DEF LoadContract, Tables, Row
  <2>3. [op |-> "contract", row |-> k, loaded |-> row, to |-> to] \in Requests
    BY <2>2 DEF Requests
  <2> QED BY <1>2, <1>3, <1>15, <2>1, <2>3 DEF LoadContract
<1>16. ASSUME NEW t \in Session, UpdateContract(t) PROVE TypeOK'
  <2> DEFINE r == request[t]
  <2>1. r.row \in Contract /\ r.to \in Row
    BY <1>16, RequestSays DEF UpdateContract
  <2>2. link' \in [Contract -> Engagement \cup {None, Absent}]
    BY <1>0, <1>16, <2>1 DEF UpdateContract, Written, Tables, Row
  <2>3. marked' \subseteq Contract /\ late' \subseteq Contract
    BY <1>0, <1>16, <2>1 DEF UpdateContract, Tables
  <2>4. Tables'
    BY <1>0, <1>16, <2>2, <2>3 DEF UpdateContract, Tables
  <2> QED BY <1>1, <1>2, <1>16, <2>4 DEF UpdateContract
<1> QED
  BY <1>4, <1>5, <1>6, <1>8, <1>9, <1>10, <1>11, <1>12, <1>13, <1>14, <1>15, <1>16 DEF Next

LEMMA CritStepMarked ==
    ASSUME TypeOK, CriticalContractsMarked, Next
    PROVE  CriticalContractsMarked'
<1> USE DEF CriticalContractsMarked
<1>0. Tables
  BY TypedIsBoth
\* What a designation does to the rows.
<1>1. ASSUME NEW critical, NEW naming, MarkContracts(critical, naming)
      PROVE  /\ \A e \in Engagement : ContractsOf(e)' = ContractsOf(e)
             /\ \A e \in critical : ContractsOf(e) \subseteq marked'
             /\ marked \subseteq marked'
             /\ \A e \in Engagement \ critical : ContractsOf(e) \ late' = ContractsOf(e) \ late
  BY <1>1 DEF MarkContracts, ContractsOfAny, ContractsOf, Contracts
<1>2. ASSUME NEW t \in Session, Analyse(t) PROVE CriticalContractsMarked'
  <2>1. PICK critical, naming :
          /\ engSays' = [e \in Engagement |-> e \in critical]
          /\ MarkContracts(critical, naming)
    BY <1>2 DEF Analyse
  <2> QED BY <1>1, <2>1
<1>3. ASSUME NEW t \in Session, NEW e \in Engagement, NEW to \in BOOLEAN,
             OverrideEngagement(t, e, to)
      PROVE  CriticalContractsMarked'
  <2>1. PICK naming : MarkContracts(IF to THEN {e} ELSE {}, naming)
    BY <1>3 DEF OverrideEngagement
  <2>2. engSays' = [engSays EXCEPT ![e] = to]
    BY <1>3 DEF OverrideEngagement
  <2> SUFFICES ASSUME NEW d \in Engagement, engSays'[d] = TRUE
               PROVE  ContractsOf(d)' \ late' \subseteq marked'
    OBVIOUS
  <2>3. CASE d = e
    <3>1. to
      BY <1>0, <2>2, <2>3 DEF Tables
    <3> QED BY <1>1, <2>1, <2>3, <3>1
  <2>4. CASE d # e
    <3>1. engSays[d] = TRUE
      BY <1>0, <2>2, <2>4 DEF Tables
    <3> QED BY <1>1, <2>1, <2>4, <3>1
  <2> QED BY <2>3, <2>4
<1>4. ASSUME NEW t \in Session, NEW k \in Contract, NEW e \in Engagement \cup {None},
             CreateContract(t, k, e)
      PROVE  CriticalContractsMarked'
  BY <1>0, <1>4 DEF CreateContract, ContractsOf, Contracts, Tables
<1>5. ASSUME NEW t \in Session, UpdateContract(t) PROVE CriticalContractsMarked'
  <2> DEFINE r == request[t]
  <2>1. r.row \in Contract /\ r.to \in Row /\ r.loaded \in Row
    BY <1>5, RequestSays DEF UpdateContract
  <2>2. \A d \in Engagement : ContractsOf(d)' \ late' \subseteq ContractsOf(d) \ late
    BY <1>0, <1>5, <2>1 DEF UpdateContract, Written, ContractsOf, Contracts, Tables
  <2>3. \A k \in marked : k \in marked' \/ k \in late'
    BY <1>5, <2>1 DEF UpdateContract, Unmarks, Row
  <2>4. UNCHANGED engSays
    BY <1>5 DEF UpdateContract
  <2> QED BY <2>2, <2>3, <2>4
<1>6. ASSUME UNCHANGED <<engSays, contractVars>> PROVE CriticalContractsMarked'
  BY <1>6 DEF contractVars, ContractsOf, Contracts
<1> QED
  BY <1>2, <1>3, <1>4, <1>5, <1>6
  DEF Next, LoadInputs, SetInputs, ReadAnalysis, ReadOverride, OverrideVendor, LoadVendor,
      Escalate, LoadContract, critVars

LEMMA CritStep == TypeOK /\ CriticalContractsMarked /\ [Next]_vars
                      => TypeOK' /\ CriticalContractsMarked'
<1> SUFFICES ASSUME TypeOK, CriticalContractsMarked, [Next]_vars
             PROVE  TypeOK' /\ CriticalContractsMarked'
  OBVIOUS
<1>1. CASE Next
  BY <1>1, CritStepTyped, CritStepMarked
<1>2. CASE UNCHANGED vars
  BY <1>2 DEF vars, critVars, contractVars, TypeOK, CriticalContractsMarked, ContractsOf,
              Contracts
<1> QED BY <1>1, <1>2

\* The contracts of an engagement last designated critical, by a score or by a
\* person, are marked, whatever analyses, overrides and edits of the contracts
\* overlapped, except for those created, moved there or unmarked since.
THEOREM CriticalContractsAreMarked == Spec => []CriticalContractsMarked
<1>1. TypeOK /\ CriticalContractsMarked => CriticalContractsMarked
  OBVIOUS
<1> QED BY CritInit, CritStep, <1>1, PTL DEF Spec

\* A manual designation of the vendor is only overturned by another one or by a
\* sanctions hit, whatever the engine recomputes.
THEOREM OverrideIsRespected == Spec => EngineRespectsOverride
<1> DEFINE Respected ==
        override # None /\ isCritical' # isCritical
            => \E t \in Session : OverrideVendor(t) \/ Escalate(t)
<1>1. [Next]_vars => [Respected]_vars
  <2> SUFFICES ASSUME Next, override # None, isCritical' # isCritical
               PROVE  \E t \in Session : OverrideVendor(t) \/ Escalate(t)
    OBVIOUS
  <2>1. ASSUME NEW t \in Session, Analyse(t) PROVE FALSE
    BY <2>1 DEF Analyse, DesignateVendor
  <2>2. ASSUME NEW t \in Session, NEW e \in Engagement, NEW to \in BOOLEAN,
               OverrideEngagement(t, e, to)
        PROVE  FALSE
    BY <2>2 DEF OverrideEngagement, DesignateVendor
  <2> QED
    BY <2>1, <2>2
    DEF Next, LoadInputs, SetInputs, ReadAnalysis, ReadOverride, LoadVendor, CreateContract,
        LoadContract, UpdateContract, critVars
<1> QED BY <1>1, PTL DEF Spec, EngineRespectsOverride

------------------------------------------------------------------------------
(* The watchlist next to the engine.                                       *)

\* The composition runs the engine: what holds of every behaviour of Spec holds
\* next to the watchlist.
THEOREM WatchRunsEngine == WatchSpec => Spec
<1>1. WatchInit => Init
  BY DEF WatchInit
<1>2. [WatchNext]_<<vars, deskVars>> => [Next]_vars
  BY DEF WatchNext
<1> QED BY <1>1, <1>2, PTL DEF WatchSpec, Spec

\* Sittings, as the union their type is.
Decision == [op: {"decide"}, candidate: 1..MaxCandidates, approve: BOOLEAN]

LEMMA EvidentTyped == \A b : WatchTypeOK => Evident(b) \subseteq Criterion
BY DEF WatchTypeOK, Evident

LEMMA ActiveTyped ==
    ASSUME WatchTypeOK
    PROVE  ActiveNow \subseteq Criterion /\ PendingNow \subseteq Criterion
<1>1. \A k \in DOMAIN entries : entries[k].criterion \in Criterion
  <2>1. entries \in Seq(Entry) /\ DOMAIN entries = 1..Len(entries)
    BY LenProperties DEF WatchTypeOK
  <2>2. \A k \in DOMAIN entries : entries[k] \in Entry
    BY <2>1, ElementOfSeq
  <2> QED BY <2>2 DEF Entry
<1>2. \A k \in DOMAIN candidates : candidates[k].criterion \in Criterion
  <2>1. candidates \in Seq(Candidate) /\ DOMAIN candidates = 1..Len(candidates)
    BY LenProperties DEF WatchTypeOK
  <2>2. \A k \in DOMAIN candidates : candidates[k] \in Candidate
    BY <2>1, ElementOfSeq
  <2> QED BY <2>2 DEF Candidate
<1> QED BY <1>1, <1>2 DEF ActiveNow, PendingNow

LEMMA SettledTyped ==
    ASSUME WatchTypeOK, NEW c
    PROVE  Settled(c) \in [Desk -> {NoSitting} \cup Sweep \cup Decision]
<1>1. ASSUME NEW d \in Desk, d \in Sweeping
      PROVE  [sitting[d] EXCEPT !.since = @ \ {c}] \in Sweep
  <2>1. sitting[d] \in Sweep
    BY <1>1 DEF Sweeping, WatchTypeOK, NoSitting, SweepStages
  <2> QED BY <2>1 DEF Sweep
<1> QED BY <1>1 DEF Settled, WatchTypeOK, Decision

LEMMA NarrowedTyped ==
    ASSUME WatchTypeOK, NEW S
    PROVE  [d \in Desk |-> IF d \in Sweeping THEN [sitting[d] EXCEPT !.since = @ \cap S]
                                             ELSE sitting[d]]
               \in [Desk -> {NoSitting} \cup Sweep \cup Decision]
<1>1. ASSUME NEW d \in Desk, d \in Sweeping
      PROVE  [sitting[d] EXCEPT !.since = @ \cap S] \in Sweep
  <2>1. sitting[d] \in Sweep
    BY <1>1 DEF Sweeping, WatchTypeOK, NoSitting, SweepStages
  <2> QED BY <2>1 DEF Sweep
<1> QED BY <1>1 DEF WatchTypeOK, Decision

LEMMA CrossedSays ==
    ASSUME WatchTypeOK, NEW new, new \subseteq Criterion
    PROVE  /\ Crossed(new) \in [Desk -> {NoSitting} \cup Sweep \cup Decision]
           /\ \A d \in Desk :
                 /\ Crossed(new)[d].op = sitting[d].op
                 /\ sitting[d].op # "pending" => Crossed(new)[d] = sitting[d]
                 /\ sitting[d].op \in SweepStages =>
                       /\ Crossed(new)[d].critical = sitting[d].critical
                       /\ Crossed(new)[d].since = sitting[d].since
                       /\ Crossed(new)[d].active = sitting[d].active
                       /\ Crossed(new)[d].pending = sitting[d].pending
                 /\ sitting[d].op = "pending" =>
                       Crossed(new)[d].crossed = sitting[d].crossed \cup new
<1>1. ASSUME NEW d \in Desk, sitting[d].op = "pending" PROVE sitting[d] \in Sweep
  BY <1>1 DEF WatchTypeOK, NoSitting
<1>2. ASSUME NEW d \in Desk, sitting[d].op = "pending"
      PROVE  [sitting[d] EXCEPT !.crossed = @ \cup new] \in Sweep
  BY <1>1, <1>2 DEF Sweep
<1>3. Crossed(new) \in [Desk -> {NoSitting} \cup Sweep \cup Decision]
  BY <1>2 DEF Crossed, WatchTypeOK, Decision
<1>4. ASSUME NEW d \in Desk, sitting[d].op # "pending"
      PROVE  Crossed(new)[d] = sitting[d]
  BY <1>4 DEF Crossed
<1>5. ASSUME NEW d \in Desk, sitting[d].op = "pending"
      PROVE  /\ Crossed(new)[d].op = "pending"
             /\ Crossed(new)[d].critical = sitting[d].critical
             /\ Crossed(new)[d].since = sitting[d].since
             /\ Crossed(new)[d].active = sitting[d].active
             /\ Crossed(new)[d].pending = sitting[d].pending
             /\ Crossed(new)[d].crossed = sitting[d].crossed \cup new
  <2>1. Crossed(new)[d] = [sitting[d] EXCEPT !.crossed = @ \cup new]
    BY <1>5 DEF Crossed
  <2> QED BY <1>1, <1>5, <2>1 DEF Sweep
<1> QED BY <1>3, <1>4, <1>5

\* The rows a sweep adds: one for each criterion of new.
Rows(order) == [i \in DOMAIN order |-> [criterion |-> order[i], status |-> "pending"]]

LEMMA OrderFacts ==
    ASSUME NEW new, new \subseteq Criterion, NEW order \in Bijection(1..Cardinality(new), new)
    PROVE  /\ Cardinality(new) \in Nat
           /\ order \in [1..Cardinality(new) -> new]
           /\ \A i, k \in 1..Cardinality(new) : order[i] = order[k] => i = k
           /\ \A c \in new : \E i \in 1..Cardinality(new) : order[i] = c
           /\ Rows(order) \in Seq(Candidate) /\ Len(Rows(order)) = Cardinality(new)
<1>1. IsFiniteSet(new)
  BY WatchlistConstants, FS_Subset
<1>2. Cardinality(new) \in Nat
  BY <1>1, FS_CardinalityType
<1>3. order \in [1..Cardinality(new) -> new]
  BY DEF Bijection, Injection
<1>4. \A i, k \in 1..Cardinality(new) : order[i] = order[k] => i = k
  BY <1>3 DEF Bijection, Injection, IsInjective
<1>5. \A c \in new : \E i \in 1..Cardinality(new) : order[i] = c
  BY DEF Bijection, Surjection
<1>6. Rows(order) \in [1..Cardinality(new) -> Candidate]
  BY <1>3 DEF Rows, Candidate
<1>7. Rows(order) \in Seq(Candidate)
  BY <1>2, <1>6, SeqDef
<1>8. Len(Rows(order)) = Cardinality(new)
  <2>1. DOMAIN Rows(order) = 1..Cardinality(new)
    BY <1>6
  <2>2. DOMAIN Rows(order) = 1..Len(Rows(order)) /\ Len(Rows(order)) \in Nat
    BY <1>7, LenProperties
  <2>3. \A m, n \in Nat : 1..m = 1..n => m = n
    <3> SUFFICES ASSUME NEW m \in Nat, NEW n \in Nat, m < n PROVE 1..m # 1..n
      OBVIOUS
    <3>1. n \in 1..n /\ n \notin 1..m
      OBVIOUS
    <3> QED BY <3>1
  <2> QED BY <1>2, <2>1, <2>2, <2>3
<1> QED BY <1>2, <1>3, <1>4, <1>5, <1>7, <1>8

\* A decision is about a candidate there is.
DecidesKnown ==
    \A d \in Desk : sitting[d].op = "decide" => sitting[d].candidate \in DOMAIN candidates

LEMMA WatchStepTyped ==
    ASSUME WatchTypeOK, DecidesKnown, isCritical \in BOOLEAN, DeskNext
    PROVE  WatchTypeOK'
<1> USE WatchlistConstants DEF WatchTypeOK, Sits, Leaves
<1>1. ASSUME NEW d \in Desk, StartSweep(d) PROVE WatchTypeOK'
  <2>1. [op |-> "read", criteria |-> enabled, critical |-> isCritical,
         since |-> Evident(isCritical), active |-> {}, pending |-> {}, crossed |-> {}] \in Sweep
    BY EvidentTyped DEF Sweep, SweepStages
  <2> QED BY <1>1, <2>1 DEF StartSweep
<1>2. ASSUME NEW d \in Desk, ReadActive(d) \/ ReadPending(d) PROVE WatchTypeOK'
  <2>1. sitting[d] \in Sweep
    BY <1>2 DEF ReadActive, ReadPending, NoSitting
  <2>2. [sitting[d] EXCEPT !.op = "active", !.active = ActiveNow] \in Sweep
    BY <2>1, ActiveTyped DEF Sweep, SweepStages
  <2>3. [sitting[d] EXCEPT !.op = "pending", !.pending = PendingNow] \in Sweep
    BY <2>1, ActiveTyped DEF Sweep, SweepStages
  <2> QED BY <1>2, <2>2, <2>3 DEF ReadActive, ReadPending
<1>3. ASSUME NEW d \in Desk, CommitSweep(d) PROVE WatchTypeOK'
  <2> DEFINE new == Proposed(sitting[d])
  <2>1. new \subseteq Criterion
    BY EvidentTyped DEF Proposed
  <2>2. PICK order \in Bijection(1..Cardinality(new), new) :
          candidates' = candidates \o Rows(order)
    BY <1>3 DEF CommitSweep, Rows
  <2>3. Rows(order) \in Seq(Candidate) /\ Len(Rows(order)) = Cardinality(new)
    BY <2>1, OrderFacts
  <2>4. Len(candidates) + Cardinality(new) <= MaxCandidates
    BY <1>3 DEF CommitSweep
  <2>5. candidates' \in Seq(Candidate) /\ Len(candidates') <= MaxCandidates
    BY <2>2, <2>3, <2>4
  <2>6. sitting' \in [Desk -> {NoSitting} \cup Sweep \cup Decision]
    <3>1. sitting' = [Crossed(new) EXCEPT ![d] = NoSitting]
      BY <1>3 DEF CommitSweep
    <3> HIDE DEF new
    <3> QED BY <2>1, <3>1, CrossedSays
  <2>7. blind' \subseteq 1..MaxCandidates
    <3>1. DOMAIN candidates' \subseteq 1..MaxCandidates
      BY <2>5
    <3>2. blind' \subseteq blind \cup DOMAIN candidates'
      BY <1>3 DEF CommitSweep
    <3> QED BY <3>1, <3>2
  <2> QED BY <1>3, <2>5, <2>6, <2>7 DEF CommitSweep, Decision
<1>10. ASSUME NEW d \in Desk, FailSweep(d) PROVE WatchTypeOK'
  BY <1>10 DEF FailSweep
<1>4. ASSUME NEW d \in Desk, NEW i \in DOMAIN candidates, NEW approve \in BOOLEAN,
             ReadCandidate(d, i, approve)
      PROVE  WatchTypeOK'
  <2>1. i \in 1..MaxCandidates
    OBVIOUS
  <2>2. [op |-> "decide", candidate |-> i, approve |-> approve] \in Decision
    BY <2>1 DEF Decision
  <2> QED BY <1>4, <2>2 DEF ReadCandidate, Decision
<1>5. ASSUME NEW d \in Desk, Decide(d) PROVE WatchTypeOK'
  <2>1. [Settled(candidates[sitting[d].candidate].criterion) EXCEPT ![d] = NoSitting]
            \in [Desk -> {NoSitting} \cup Sweep \cup Decision]
    BY SettledTyped
  <2>2. sitting' \in [Desk -> {NoSitting} \cup Sweep \cup Decision]
    BY <1>5, <2>1 DEF Decide
  <2> DEFINE i == sitting[d].candidate
  <2>3. i \in 1..Len(candidates) /\ i \in 0..MaxCandidates
    BY <1>5, LenProperties DEF Decide, DecidesKnown
  <2>4. candidates[i] \in Candidate
    BY <2>3, ElementOfSeq
  <2>5. [candidates[i] EXCEPT !.status = Verdict(sitting[d].approve)] \in Candidate
    BY <2>4 DEF Verdict, Candidate
  <2>6. candidates' \in Seq(Candidate) /\ Len(candidates') <= MaxCandidates
    <3> DEFINE row == [candidates[i] EXCEPT !.status = Verdict(sitting[d].approve)]
    <3>1. candidates' = [candidates EXCEPT ![i] = row]
      BY <1>5 DEF Decide
    <3>2. row \in Candidate
      BY <2>5
    <3> HIDE DEF row
    <3>3. candidates \in Seq(Candidate) /\ Len(candidates) <= MaxCandidates
      OBVIOUS
    <3>4. /\ [candidates EXCEPT ![i] = row] \in Seq(Candidate)
          /\ Len([candidates EXCEPT ![i] = row]) = Len(candidates)
      BY ONLY <2>3, <3>2, <3>3, ExceptSeq
    <3> QED BY <3>1, <3>3, <3>4
  <2>7. NewEntry(candidates[i].criterion, i) \in Entry
    BY <2>3, <2>4 DEF NewEntry, Entry, Candidate
  <2>8. entries' \in Seq(Entry) /\ Len(entries') <= MaxEntries
    <3>1. /\ ~UNCHANGED entries
             => entries' = Append(entries, NewEntry(candidates[i].criterion, i))
          /\ ~UNCHANGED entries => Len(entries) < MaxEntries
      BY <1>5 DEF Decide
    <3> DEFINE e == NewEntry(candidates[i].criterion, i)
    <3>2. e \in Entry /\ entries \in Seq(Entry)
      BY <2>7
    <3> HIDE DEF e
    <3>3. Append(entries, e) \in Seq(Entry) /\ Len(Append(entries, e)) = Len(entries) + 1
      BY ONLY <3>2
    <3> QED BY <3>1, <3>2, <3>3 DEF e
  <2> QED BY <1>5, <2>2, <2>6, <2>8 DEF Decide, Decision
<1>6. ASSUME NEW d \in Desk, NEW c \in Criterion, AddEntry(d, c) PROVE WatchTypeOK'
  <2>1. NewEntry(c, 0) \in Entry
    BY DEF NewEntry, Entry
  <2> QED BY <1>6, <2>1 DEF AddEntry
<1>7. ASSUME NEW d \in Desk, NEW c \in Criterion, Switch(d, c) PROVE WatchTypeOK'
  BY <1>7 DEF Switch
<1>8. ASSUME NEW d \in Desk, NEW i \in DOMAIN entries,
             NEW status \in {"Active", "Cleared", "deleted"}, UpdateEntry(d, i, status)
      PROVE  WatchTypeOK'
  <2>3. i \in 1..Len(entries) /\ entries[i] \in Entry
    BY ElementOfSeq, LenProperties
  <2>4. [entries[i] EXCEPT !.status = status] \in Entry
    BY <2>3 DEF Entry
  <2>1. entries' \in Seq(Entry) /\ Len(entries') <= MaxEntries
    BY <1>8, <2>3, <2>4, ExceptSeq DEF UpdateEntry
  <2>2. sitting' \in [Desk -> {NoSitting} \cup Sweep \cup Decision]
    BY <1>8, SettledTyped DEF UpdateEntry, Decision
  <2> QED BY <1>8, <2>1, <2>2 DEF UpdateEntry, Decision
<1>9. ASSUME NEW c \in Criterion, RecordsChange(c) PROVE WatchTypeOK'
  <2>1. evidence' \subseteq Criterion
    BY <1>9 DEF RecordsChange
  <2>2. sitting' \in [Desk -> {NoSitting} \cup Sweep \cup Decision]
    BY <1>9, NarrowedTyped DEF RecordsChange
  <2> QED BY <1>9, <2>1, <2>2 DEF RecordsChange, Decision
<1> QED
  BY <1>1, <1>2, <1>3, <1>4, <1>5, <1>6, <1>7, <1>8, <1>9, <1>10 DEF DeskNext

------------------------------------------------------------------------------
(* What the steps do to the rows.                                          *)

\* A sweep adds one pending candidate for each criterion it proposes.
Added == DOMAIN candidates' \ DOMAIN candidates

LEMMA CommitRows ==
    ASSUME WatchTypeOK, NEW d \in Desk, CommitSweep(d)
    PROVE  /\ DOMAIN candidates \subseteq DOMAIN candidates'
           /\ \A k \in DOMAIN candidates : candidates'[k] = candidates[k]
           /\ \A k \in Added : /\ candidates'[k].status = "pending"
                               /\ candidates'[k].criterion \in Proposed(sitting[d])
           /\ \A k, l \in Added : candidates'[k].criterion = candidates'[l].criterion => k = l
           /\ \A c \in Proposed(sitting[d]) : \E k \in Added : candidates'[k].criterion = c
<1> DEFINE new == Proposed(sitting[d])
<1> DEFINE n == Cardinality(new)
<1> DEFINE len == Len(candidates)
<1>1. new \subseteq Criterion
  BY EvidentTyped DEF Proposed
<1>2. PICK order \in Bijection(1..n, new) : candidates' = candidates \o Rows(order)
  BY DEF CommitSweep, Rows
<1>3. /\ Rows(order) \in Seq(Candidate) /\ Len(Rows(order)) = n
      /\ order \in [1..n -> new] /\ n \in Nat
      /\ \A i, k \in 1..n : order[i] = order[k] => i = k
      /\ \A c \in new : \E i \in 1..n : order[i] = c
  BY <1>1, OrderFacts
<1>4. candidates \in Seq(Candidate) /\ len \in Nat
  BY LenProperties DEF WatchTypeOK
<1>5. \A k \in 1..n : Rows(order)[k] = [criterion |-> order[k], status |-> "pending"]
  BY <1>3 DEF Rows
<1> HIDE DEF new
<1> HIDE DEF n
<1>6. /\ DOMAIN candidates' = 1..(len + n)
      /\ DOMAIN candidates = 1..len
      /\ \A k \in 1..len : candidates'[k] = candidates[k]
      /\ \A k \in 1..n : candidates'[len + k] = Rows(order)[k]
  <2> DEFINE rows == Rows(order)
  <2>1. rows \in Seq(Candidate) /\ Len(rows) = n /\ candidates' = candidates \o rows
    BY <1>2, <1>3
  <2> HIDE DEF rows
  <2>2. /\ DOMAIN candidates' = 1..(len + n)
        /\ DOMAIN candidates = 1..len
        /\ \A k \in 1..len : candidates'[k] = candidates[k]
        /\ \A k \in 1..n : candidates'[len + k] = rows[k]
    BY ONLY <1>3, <1>4, <2>1
  <2> QED BY <2>2 DEF rows
<1> HIDE DEF len
<1>7. \A k \in Added : /\ k - len \in 1..n
                       /\ candidates'[k].criterion = order[k - len]
                       /\ candidates'[k].status = "pending"
  <2> SUFFICES ASSUME NEW k \in Added
               PROVE  /\ k - len \in 1..n
                      /\ candidates'[k].criterion = order[k - len]
                      /\ candidates'[k].status = "pending"
    OBVIOUS
  <2>1. k \in 1..(len + n) /\ k \notin 1..len
    BY <1>6 DEF Added
  <2>2. PICK i \in 1..n : k = len + i /\ k - len = i
    <3>1. k - len \in 1..n /\ k = len + (k - len)
      BY <1>3, <1>4, <2>1
    <3> QED BY <3>1
  <2>3. candidates'[k] = Rows(order)[i]
    BY <1>6, <2>2
  <2>4. candidates'[k] = [criterion |-> order[i], status |-> "pending"]
    BY <1>5, <2>3
  <2> QED BY <2>2, <2>4
<1>8. \A i \in 1..n : len + i \in Added /\ candidates'[len + i].criterion = order[i]
  <2> SUFFICES ASSUME NEW i \in 1..n
               PROVE  len + i \in Added /\ candidates'[len + i].criterion = order[i]
    OBVIOUS
  <2>1. len + i \in 1..(len + n) /\ len + i \notin 1..len
    BY <1>3, <1>4
  <2>2. len + i \in Added
    BY <1>6, <2>1 DEF Added
  <2>3. candidates'[len + i] = Rows(order)[i]
    BY <1>6
  <2>4. candidates'[len + i] = [criterion |-> order[i], status |-> "pending"]
    BY <1>5, <2>3
  <2> QED BY <2>2, <2>4
<1>9. \A k, l \in Added : candidates'[k].criterion = candidates'[l].criterion => k = l
  <2> SUFFICES ASSUME NEW k \in Added, NEW l \in Added,
                      candidates'[k].criterion = candidates'[l].criterion
               PROVE  k = l
    OBVIOUS
  <2>1. order[k - len] = order[l - len] /\ k - len \in 1..n /\ l - len \in 1..n
    BY <1>7
  <2>2. k - len = l - len
    BY <1>3, <2>1
  <2>3. k \in Int /\ l \in Int
    BY <1>6 DEF Added
  <2> QED BY <1>4, <2>2, <2>3
<1>10. \A c \in new : \E k \in Added : candidates'[k].criterion = c
  BY <1>3, <1>8
<1>11. \A k \in Added : /\ candidates'[k].status = "pending" /\ candidates'[k].criterion \in new
  BY <1>3, <1>7
<1>12. DOMAIN candidates \subseteq DOMAIN candidates'
  BY <1>3, <1>4, <1>6
<1> QED BY <1>6, <1>9, <1>10, <1>11, <1>12 DEF new

LEMMA DecideRows ==
    ASSUME WatchTypeOK, DecidesKnown, NEW d \in Desk, Decide(d)
    PROVE  /\ sitting[d].candidate \in DOMAIN candidates
           /\ DOMAIN candidates' = DOMAIN candidates
           /\ \A k \in DOMAIN candidates :
                 /\ candidates'[k].criterion = candidates[k].criterion
                 /\ k # sitting[d].candidate => candidates'[k] = candidates[k]
           /\ candidates'[sitting[d].candidate].status = Verdict(sitting[d].approve)
<1>1. \A k \in DOMAIN candidates : candidates[k] \in Candidate
  BY ElementOfSeq, LenProperties DEF WatchTypeOK
<1> QED BY <1>1 DEF Decide, DecidesKnown, Candidate

\* Entries are added, and change status; they keep their criterion and candidate.
LEMMA EntriesStay ==
    ASSUME WatchTypeOK, DeskNext
    PROVE  /\ DOMAIN entries \subseteq DOMAIN entries'
           /\ \A k \in DOMAIN entries : /\ entries'[k].candidate = entries[k].candidate
                                        /\ entries'[k].criterion = entries[k].criterion
<1> DEFINE Stay == /\ DOMAIN entries \subseteq DOMAIN entries'
                   /\ \A k \in DOMAIN entries : /\ entries'[k].candidate = entries[k].candidate
                                                /\ entries'[k].criterion = entries[k].criterion
<1>1. entries \in Seq(Entry) /\ \A k \in DOMAIN entries : entries[k] \in Entry
  BY ElementOfSeq, LenProperties DEF WatchTypeOK
<1>2. \A e : entries' = Append(entries, e) => Stay
  BY ONLY <1>1
<1>3. ASSUME NEW d \in Desk, NEW i \in DOMAIN entries,
             NEW status \in {"Active", "Cleared", "deleted"}, UpdateEntry(d, i, status)
      PROVE  Stay
  BY <1>1, <1>3 DEF UpdateEntry, Entry
<1>4. UNCHANGED entries => Stay
  OBVIOUS
<1> HIDE DEF Stay
<1>5. Stay
  BY <1>2, <1>3, <1>4
     DEF DeskNext, StartSweep, ReadActive, ReadPending, CommitSweep, FailSweep, ReadCandidate,
         Decide, AddEntry, Switch, RecordsChange
<1> QED BY <1>5 DEF Stay

LEMMA StepDecidesKnown ==
    ASSUME WatchTypeOK, DecidesKnown, DeskNext
    PROVE  DecidesKnown'
<1> USE DEF DecidesKnown, WatchTypeOK, Sits, Leaves
<1>1. ASSUME NEW d \in Desk, StartSweep(d) \/ ReadActive(d) \/ ReadPending(d)
      PROVE  DecidesKnown'
  <2>1. CASE StartSweep(d)
    BY <2>1 DEF StartSweep
  <2>2. CASE ReadActive(d) \/ ReadPending(d)
    <3>1. sitting[d] \in Sweep
      BY <2>2 DEF ReadActive, ReadPending, NoSitting
    <3>2. /\ [sitting[d] EXCEPT !.op = "active", !.active = ActiveNow].op = "active"
          /\ [sitting[d] EXCEPT !.op = "pending", !.pending = PendingNow].op = "pending"
      BY <3>1 DEF Sweep
    <3> QED BY <2>2, <3>2 DEF ReadActive, ReadPending
  <2> QED BY <1>1, <2>1, <2>2
<1>2. ASSUME NEW d \in Desk, CommitSweep(d) PROVE DecidesKnown'
  <2>1. DOMAIN candidates \subseteq DOMAIN candidates'
    BY <1>2, CommitRows
  <2> DEFINE new == Proposed(sitting[d])
  <2>2. new \subseteq Criterion /\ sitting' = [Crossed(new) EXCEPT ![d] = NoSitting]
    BY <1>2, EvidentTyped DEF CommitSweep, Proposed
  <2> HIDE DEF new
  <2>3. \A e \in Desk : sitting'[e].op = "decide" => sitting'[e] = sitting[e]
    BY <2>2, CrossedSays DEF NoSitting
  <2> QED BY <2>1, <2>3
<1>3. ASSUME NEW d \in Desk, NEW i \in DOMAIN candidates, NEW approve \in BOOLEAN,
             ReadCandidate(d, i, approve)
      PROVE  DecidesKnown'
  BY <1>3 DEF ReadCandidate
<1>4. ASSUME NEW c, NEW d \in Desk
      PROVE  Settled(c)[d].op = sitting[d].op
             /\ (sitting[d].op = "decide" => Settled(c)[d] = sitting[d])
  <2>1. CASE d \in Sweeping
    <3>1. sitting[d] \in Sweep /\ sitting[d].op # "decide"
      BY <2>1 DEF Sweeping, SweepStages, NoSitting
    <3> QED BY <2>1, <3>1 DEF Settled, Sweep
  <2>2. CASE d \notin Sweeping
    BY <2>2 DEF Settled
  <2> QED BY <2>1, <2>2
<1>5. ASSUME NEW d \in Desk, Decide(d) PROVE DecidesKnown'
  BY <1>4, <1>5, DecideRows DEF Decide, NoSitting
<1>6. ASSUME NEW d \in Desk, NEW i \in DOMAIN entries,
             NEW status \in {"Active", "Cleared", "deleted"}, UpdateEntry(d, i, status)
      PROVE  DecidesKnown'
  BY <1>4, <1>6 DEF UpdateEntry
<1>7. ASSUME NEW d \in Desk, NEW c \in Criterion,
             AddEntry(d, c) \/ Switch(d, c) \/ RecordsChange(c)
      PROVE  DecidesKnown'
  BY <1>7 DEF AddEntry, Switch, RecordsChange, Sweeping, SweepStages, Sweep, NoSitting
<1>8. ASSUME NEW c \in Criterion, RecordsChange(c) PROVE DecidesKnown'
  BY <1>8 DEF RecordsChange, Sweeping, SweepStages, Sweep, NoSitting
<1>9. ASSUME NEW d \in Desk, FailSweep(d) PROVE DecidesKnown'
  BY <1>9 DEF FailSweep, NoSitting
<1> QED BY <1>1, <1>2, <1>3, <1>5, <1>6, <1>7, <1>8, <1>9 DEF DeskNext

LEMMA StepApproved ==
    ASSUME WatchTypeOK, DecidesKnown, ApprovedHasEntry, DeskNext
    PROVE  ApprovedHasEntry'
<1> USE DEF ApprovedHasEntry
<1>1. ASSUME UNCHANGED candidates PROVE ApprovedHasEntry'
  BY <1>1, EntriesStay
<1>2. ASSUME NEW d \in Desk, CommitSweep(d) PROVE ApprovedHasEntry'
  <2>1. \A k \in DOMAIN candidates' : candidates'[k].status = "approved"
            => k \in DOMAIN candidates /\ candidates'[k] = candidates[k]
    BY <1>2, CommitRows DEF Added
  <2> QED BY <1>2, <2>1 DEF CommitSweep
<1>3. ASSUME NEW d \in Desk, Decide(d) PROVE ApprovedHasEntry'
  <2> DEFINE i == sitting[d].candidate
  <2>1. /\ i \in DOMAIN candidates /\ DOMAIN candidates' = DOMAIN candidates
        /\ \A k \in DOMAIN candidates : k # i => candidates'[k] = candidates[k]
        /\ candidates'[i].status = Verdict(sitting[d].approve)
    BY <1>3, DecideRows
  <2>2. candidates'[i].status = "approved" => sitting[d].approve
    BY <2>1 DEF Verdict
  <2>3. sitting[d].approve =>
            \E k \in DOMAIN entries' : entries'[k].candidate = i
    <3>1. sitting[d].approve
            => entries' = Append(entries, NewEntry(candidates[i].criterion, i))
      BY <1>3 DEF Decide
    <3>2. entries \in Seq(Entry)
      BY DEF WatchTypeOK
    <3>3. \A e : e.candidate = i /\ entries' = Append(entries, e)
                    => \E k \in DOMAIN entries' : entries'[k].candidate = i
      <4> SUFFICES ASSUME NEW e, e.candidate = i, entries' = Append(entries, e)
                   PROVE  \E k \in DOMAIN entries' : entries'[k].candidate = i
        OBVIOUS
      <4>1. /\ Len(entries) + 1 \in DOMAIN entries'
            /\ entries'[Len(entries) + 1] = e
        BY <3>2
      <4> QED BY <4>1
    <3> QED BY <3>1, <3>3 DEF NewEntry
  <2> QED BY <2>1, <2>2, <2>3, EntriesStay
<1> QED
  BY <1>1, <1>2, <1>3
  DEF DeskNext, StartSweep, ReadActive, ReadPending, FailSweep, ReadCandidate, AddEntry,
      UpdateEntry, Switch, RecordsChange

------------------------------------------------------------------------------
(* What a sweep has read and still counts on.                              *)

Tracks(d) ==
    sitting[d].op \in SweepStages =>
        /\ sitting[d].since \subseteq Evident(sitting[d].critical)
        /\ sitting[d].active \cap sitting[d].since \subseteq ActiveNow
        /\ sitting[d].pending \cap sitting[d].since \subseteq PendingNow

SweepInv == \A d \in Desk : Tracks(d)

\* What keeps a sweep on track while others work.
LEMMA TracksKept ==
    ASSUME WatchTypeOK, NEW d \in Desk, Tracks(d), NEW s,
           sitting'[d] = s, s.op = sitting[d].op,
           s.critical = sitting[d].critical,
           s.active = sitting[d].active, s.pending = sitting[d].pending,
           s.op \in SweepStages =>
              /\ s.since \subseteq sitting[d].since \cap evidence'
              /\ ActiveNow \cap s.since \subseteq ActiveNow'
              /\ PendingNow \cap s.since \subseteq PendingNow'
    PROVE  Tracks(d)'
BY DEF Tracks, Evident

LEMMA SettledSays ==
    ASSUME WatchTypeOK, NEW c, NEW d \in Desk
    PROVE  /\ Settled(c)[d].op = sitting[d].op
           /\ Settled(c)[d].critical = sitting[d].critical
           /\ Settled(c)[d].active = sitting[d].active
           /\ Settled(c)[d].pending = sitting[d].pending
           /\ sitting[d].op \in SweepStages => Settled(c)[d].since = sitting[d].since \ {c}
<1>1. CASE d \in Sweeping
  <2>1. sitting[d] \in Sweep
    BY <1>1 DEF Sweeping, SweepStages, NoSitting, WatchTypeOK
  <2> QED BY <1>1, <2>1 DEF Settled, Sweep
<1>2. CASE d \notin Sweeping
  BY <1>2 DEF Settled, Sweeping
<1> QED BY <1>1, <1>2

LEMMA NarrowedSays ==
    ASSUME WatchTypeOK, NEW S, NEW d \in Desk,
           sitting' = [e \in Desk |-> IF e \in Sweeping
                          THEN [sitting[e] EXCEPT !.since = @ \cap S] ELSE sitting[e]]
    PROVE  /\ sitting'[d].op = sitting[d].op
           /\ sitting'[d].critical = sitting[d].critical
           /\ sitting'[d].active = sitting[d].active
           /\ sitting'[d].pending = sitting[d].pending
           /\ sitting[d].op \in SweepStages => sitting'[d].since = sitting[d].since \cap S
<1>1. CASE d \in Sweeping
  <2>1. sitting[d] \in Sweep
    BY <1>1 DEF Sweeping, SweepStages, NoSitting, WatchTypeOK
  <2> QED BY <1>1, <2>1 DEF Sweep
<1>2. CASE d \notin Sweeping
  BY <1>2 DEF Sweeping
<1> QED BY <1>1, <1>2

LEMMA SinceIsEvident ==
    ASSUME WatchTypeOK, NEW d \in Desk, Tracks(d), sitting[d].op \in SweepStages
    PROVE  sitting[d].since \subseteq evidence
BY DEF Tracks, Evident

LEMMA StepTracks ==
    ASSUME WatchTypeOK, DecidesKnown, SweepInv, DeskNext
    PROVE  SweepInv'
<1> USE DEF Sits, Leaves
<1> USE DEF WatchTypeOK
<1>0. SUFFICES ASSUME NEW e \in Desk PROVE Tracks(e)'
  BY DEF SweepInv
<1>1. Tracks(e) /\ (sitting[e].op \in SweepStages => sitting[e].since \subseteq evidence)
  BY SinceIsEvident DEF SweepInv
<1>2. ASSUME UNCHANGED evidence, sitting'[e] = sitting[e],
             ActiveNow \subseteq ActiveNow', PendingNow \subseteq PendingNow'
      PROVE  Tracks(e)'
  BY <1>1, <1>2 DEF Tracks, Evident
<1>3. UNCHANGED entries => ActiveNow' = ActiveNow
  BY DEF ActiveNow
<1>4. UNCHANGED candidates => PendingNow' = PendingNow
  BY DEF PendingNow
<1>5. sitting'[e].op \notin SweepStages => Tracks(e)'
  BY DEF Tracks
<1>6. ASSUME NEW d \in Desk, StartSweep(d) PROVE Tracks(e)'
  <2>1. CASE e = d
    BY <1>6, <2>1 DEF StartSweep, Tracks, Evident
  <2>2. CASE e # d
    BY <1>2, <1>3, <1>4, <1>6, <2>2 DEF StartSweep
  <2> QED BY <2>1, <2>2
<1>7. ASSUME NEW d \in Desk, ReadActive(d) \/ ReadPending(d) PROVE Tracks(e)'
  <2>1. CASE e = d
    <3>1. sitting[d] \in Sweep
      BY <1>7 DEF ReadActive, ReadPending, NoSitting
    <3>2. CASE ReadActive(d)
      <4>1. /\ sitting'[d].since = sitting[d].since /\ sitting'[d].active = ActiveNow
            /\ sitting'[d].pending = sitting[d].pending
            /\ sitting'[d].critical = sitting[d].critical
        BY <3>1, <3>2 DEF ReadActive, Sweep
      <4>2. sitting[d].op \in SweepStages
        BY <3>1 DEF Sweep
      <4> QED BY <1>1, <1>3, <1>4, <2>1, <3>2, <4>1, <4>2 DEF ReadActive, Tracks, Evident
    <3>3. CASE ReadPending(d)
      <4>1. /\ sitting'[d].since = sitting[d].since /\ sitting'[d].active = sitting[d].active
            /\ sitting'[d].pending = PendingNow
            /\ sitting'[d].critical = sitting[d].critical
        BY <3>1, <3>3 DEF ReadPending, Sweep
      <4>2. sitting[d].op \in SweepStages
        BY <3>1 DEF Sweep
      <4> QED BY <1>1, <1>3, <1>4, <2>1, <3>3, <4>1, <4>2 DEF ReadPending, Tracks, Evident
    <3> QED BY <1>7, <3>2, <3>3
  <2>2. CASE e # d
    BY <1>2, <1>3, <1>4, <1>7, <2>2 DEF ReadActive, ReadPending
  <2> QED BY <2>1, <2>2
<1>8. ASSUME NEW d \in Desk, CommitSweep(d) PROVE Tracks(e)'
  <2>1. PendingNow \subseteq PendingNow'
    BY <1>8, CommitRows DEF PendingNow
  <2>2. CASE e = d
    BY <1>5, <1>8, <2>2 DEF CommitSweep, Crossed, NoSitting, SweepStages
  <2>3. CASE e # d
    <3> DEFINE new == Proposed(sitting[d])
    <3>1. new \subseteq Criterion /\ sitting' = [Crossed(new) EXCEPT ![d] = NoSitting]
      BY <1>8, EvidentTyped DEF CommitSweep, Proposed
    <3>2. sitting'[e] = Crossed(new)[e]
      BY <2>3, <3>1 DEF Crossed
    <3> HIDE DEF new
    <3>3. UNCHANGED evidence /\ ActiveNow' = ActiveNow
      BY <1>3, <1>8 DEF CommitSweep
    <3>4. Tracks(e)
      BY DEF SweepInv
    <3> QED BY <2>1, <3>1, <3>2, <3>3, <3>4, CrossedSays DEF Tracks, Evident
  <2> QED BY <2>2, <2>3
<1>9. ASSUME NEW d \in Desk, NEW i \in DOMAIN candidates, NEW approve \in BOOLEAN,
             ReadCandidate(d, i, approve)
      PROVE  Tracks(e)'
  <2>1. CASE e = d
    BY <1>5, <1>9, <2>1 DEF ReadCandidate, SweepStages
  <2>2. CASE e # d
    BY <1>2, <1>3, <1>4, <1>9, <2>2 DEF ReadCandidate
  <2> QED BY <2>1, <2>2
<1>10. \A x : entries' = Append(entries, x) => ActiveNow \subseteq ActiveNow'
  <2>1. entries \in Seq(Entry)
    OBVIOUS
  <2>2. \A x : entries' = Append(entries, x) =>
            DOMAIN entries \subseteq DOMAIN entries'
            /\ \A k \in DOMAIN entries : entries'[k] = entries[k]
    BY ONLY <2>1
  <2> QED BY <2>2 DEF ActiveNow
<1>11. ASSUME NEW d \in Desk, Decide(d) PROVE Tracks(e)'
  <2> DEFINE c == candidates[sitting[d].candidate].criterion
  <2>1. PendingNow \ {c} \subseteq PendingNow'
    BY <1>11, DecideRows DEF PendingNow
  <2>2. ActiveNow \subseteq ActiveNow'
    BY <1>3, <1>10, <1>11 DEF Decide
  <2>3. CASE e = d
    BY <1>5, <1>11, <2>3 DEF Decide, NoSitting, SweepStages, Settled
  <2>4. CASE e # d
    <3>1. sitting'[e] = Settled(c)[e] /\ UNCHANGED evidence
      BY <1>11, <2>4 DEF Decide, Settled
    <3> HIDE DEF c
    <3> QED BY <1>1, <2>1, <2>2, <3>1, SettledSays, TracksKept
  <2> QED BY <2>3, <2>4
<1>12. ASSUME NEW d \in Desk, NEW c \in Criterion, AddEntry(d, c) \/ Switch(d, c)
       PROVE  Tracks(e)'
  BY <1>2, <1>3, <1>4, <1>10, <1>12 DEF AddEntry, Switch
<1>13. ASSUME NEW d \in Desk, NEW i \in DOMAIN entries,
              NEW status \in {"Active", "Cleared", "deleted"}, UpdateEntry(d, i, status)
       PROVE  Tracks(e)'
  <2> DEFINE c == entries[i].criterion
  <2>1. \A k \in DOMAIN entries : entries[k] \in Entry
    BY ElementOfSeq, LenProperties
  <2>2. /\ DOMAIN entries' = DOMAIN entries
        /\ \A k \in DOMAIN entries :
              /\ entries'[k].criterion = entries[k].criterion
              /\ entries'[k].status = IF k = i THEN status ELSE entries[k].status
    BY <1>13, <2>1 DEF UpdateEntry, Entry
  <2>3. CASE status = "Active"
    <3>1. ActiveNow \subseteq ActiveNow'
      BY <2>2, <2>3 DEF ActiveNow
    <3> QED BY <1>2, <1>4, <1>13, <2>3, <3>1 DEF UpdateEntry
  <2>4. CASE status # "Active"
    <3>1. ActiveNow \ {c} \subseteq ActiveNow'
      BY <2>2 DEF ActiveNow
    <3>2. sitting'[e] = Settled(c)[e] /\ UNCHANGED <<evidence, candidates>>
      BY <1>13, <2>4 DEF UpdateEntry, Settled
    <3> HIDE DEF c
    <3> QED BY <1>1, <1>4, <3>1, <3>2, SettledSays, TracksKept
  <2> QED BY <2>3, <2>4
<1>14. ASSUME NEW c \in Criterion, RecordsChange(c) PROVE Tracks(e)'
  <2>1. UNCHANGED <<entries, candidates>>
    BY <1>14 DEF RecordsChange
  <2>2. /\ sitting'[e].op = sitting[e].op
        /\ sitting'[e].critical = sitting[e].critical
        /\ sitting'[e].active = sitting[e].active
        /\ sitting'[e].pending = sitting[e].pending
        /\ sitting[e].op \in SweepStages => sitting'[e].since = sitting[e].since \cap evidence'
    <3>1. sitting' = [d \in Desk |-> IF d \in Sweeping
                          THEN [sitting[d] EXCEPT !.since = @ \cap evidence'] ELSE sitting[d]]
      BY <1>14 DEF RecordsChange
    <3> QED BY <3>1, NarrowedSays
  <2> QED BY <1>1, <1>3, <1>4, <2>1, <2>2, TracksKept
<1>15. ASSUME NEW d \in Desk, FailSweep(d) PROVE Tracks(e)'
  <2>1. CASE e = d
    BY <1>5, <1>15, <2>1 DEF FailSweep, NoSitting, SweepStages
  <2>2. CASE e # d
    BY <1>2, <1>3, <1>4, <1>15, <2>2 DEF FailSweep
  <2> QED BY <2>1, <2>2
<1> QED
  BY <1>6, <1>7, <1>8, <1>9, <1>11, <1>12, <1>13, <1>14, <1>15 DEF DeskNext

\* A step of the engine only narrows what sweeps under way may count on.
LEMMA EngineNarrows ==
    ASSUME WatchTypeOK, Redesignated
    PROVE  /\ WatchTypeOK'
           /\ DecidesKnown => DecidesKnown'
           /\ ApprovedHasEntry => ApprovedHasEntry'
           /\ SweepInv => SweepInv'
<1> DEFINE S == Evident(isCritical')
<1>1. sitting' = [d \in Desk |-> IF d \in Sweeping
                     THEN [sitting[d] EXCEPT !.since = @ \cap S] ELSE sitting[d]]
  BY DEF Redesignated
<1> HIDE DEF S
<1>2. WatchTypeOK'
  <2>1. sitting' \in [Desk -> {NoSitting} \cup Sweep \cup Decision]
    BY <1>1, NarrowedTyped
  <2> QED BY <2>1 DEF Redesignated, WatchTypeOK, Decision
<1>3. \A d \in Desk :
         /\ sitting'[d].op = sitting[d].op
         /\ sitting'[d].critical = sitting[d].critical
         /\ sitting'[d].active = sitting[d].active
         /\ sitting'[d].pending = sitting[d].pending
         /\ sitting[d].op \in SweepStages => sitting'[d].since = sitting[d].since \cap S
  BY <1>1, NarrowedSays
<1>4. DecidesKnown => DecidesKnown'
  <2>1. \A d \in Desk : sitting[d].op = "decide" => sitting'[d] = sitting[d]
    BY <1>1 DEF Sweeping, SweepStages
  <2>2. UNCHANGED candidates
    BY DEF Redesignated
  <2> QED BY <1>3, <2>1, <2>2 DEF DecidesKnown
<1>5. ApprovedHasEntry => ApprovedHasEntry'
  BY DEF ApprovedHasEntry, Redesignated
<1>6. SweepInv => SweepInv'
  BY <1>3 DEF SweepInv, Tracks, Redesignated, Evident, ActiveNow, PendingNow
<1> QED BY <1>2, <1>4, <1>5, <1>6

WatchInv ==
    /\ TypeOK /\ CriticalContractsMarked
    /\ WatchTypeOK /\ DecidesKnown /\ ApprovedHasEntry /\ SweepInv

LEMMA InitWatchInv == WatchInit => WatchInv
<1> SUFFICES ASSUME WatchInit PROVE WatchInv
  OBVIOUS
<1>1. TypeOK /\ CriticalContractsMarked
  BY CritInit DEF WatchInit
<1>2. WatchTypeOK
  BY WatchlistConstants DEF WatchInit, WatchTypeOK
<1>3. DecidesKnown /\ ApprovedHasEntry /\ SweepInv
  BY DEF WatchInit, DecidesKnown, ApprovedHasEntry, SweepInv, Tracks, NoSitting, SweepStages
<1> QED BY <1>1, <1>2, <1>3 DEF WatchInv

LEMMA StepWatchInv == WatchInv /\ [WatchNext]_<<vars, deskVars>> => WatchInv'
<1> SUFFICES ASSUME WatchInv, [WatchNext]_<<vars, deskVars>> PROVE WatchInv'
  OBVIOUS
<1> USE DEF WatchInv
<1>1. [Next]_vars
  BY DEF WatchNext
<1>2. TypeOK' /\ CriticalContractsMarked'
  BY <1>1, CritStep
<1>3. CASE Redesignated
  BY <1>2, <1>3, EngineNarrows
<1>4. CASE DeskNext
  <2>1. isCritical \in BOOLEAN
    BY DEF TypeOK
  <2> QED BY <1>2, <1>4, <2>1, WatchStepTyped, StepDecidesKnown, StepApproved, StepTracks
<1>5. CASE UNCHANGED deskVars
  <2>1. WatchTypeOK' /\ DecidesKnown' /\ ApprovedHasEntry'
    BY <1>5 DEF deskVars, WatchTypeOK, DecidesKnown, ApprovedHasEntry
  <2>2. SweepInv'
    BY <1>5 DEF deskVars, SweepInv, Tracks, Evident, ActiveNow, PendingNow
  <2> QED BY <1>2, <2>1, <2>2
<1> QED BY <1>3, <1>4, <1>5 DEF WatchNext

LEMMA AlwaysWatchInv == WatchSpec => []WatchInv
BY InitWatchInv, StepWatchInv, PTL DEF WatchSpec

\* The tables and sittings of the watchlist keep their types.
THEOREM WatchlistTyped == WatchSpec => []WatchTypeOK
<1>1. WatchInv => WatchTypeOK
  BY DEF WatchInv
<1> QED BY <1>1, AlwaysWatchInv, PTL

\* Every approved candidate has the entry its approval made.
THEOREM ApprovedIsListed == WatchSpec => []ApprovedHasEntry
<1>1. WatchInv => ApprovedHasEntry
  BY DEF WatchInv
<1> QED BY <1>1, AlwaysWatchInv, PTL

\* However sweeps, decisions and the engine overlap, a sweep leaves no criterion
\* out for which there was evidence throughout.
THEOREM SweepsAreComplete == WatchSpec => SweepMissesNothing
<1> DEFINE Complete ==
        \A d \in Desk : CommitSweep(d) =>
            \A c \in sitting[d].criteria \cap sitting[d].since : Covered(c)'
<1>1. WatchInv /\ [WatchNext]_<<vars, deskVars>> => [Complete]_<<vars, deskVars>>
  <2> SUFFICES ASSUME WatchInv, NEW d \in Desk, CommitSweep(d),
                      NEW c \in sitting[d].criteria, c \in sitting[d].since
               PROVE  Covered(c)'
    OBVIOUS
  <2>1. Tracks(d) /\ sitting[d].op = "pending" /\ WatchTypeOK
    BY DEF WatchInv, SweepInv, CommitSweep
  <2>2. UNCHANGED entries
    BY DEF CommitSweep
  <2>3. CASE c \in sitting[d].active
    <3>1. c \in ActiveNow
      BY <2>1, <2>3 DEF Tracks, SweepStages
    <3> QED BY <2>2, <3>1 DEF ActiveNow, Covered
  <2>4. CASE c \in sitting[d].pending
    <3>1. c \in PendingNow
      BY <2>1, <2>4 DEF Tracks, SweepStages
    <3> QED BY <2>1, <3>1, CommitRows DEF PendingNow, Covered
  <2>5. CASE c \notin sitting[d].active /\ c \notin sitting[d].pending
    <3>1. c \in Proposed(sitting[d])
      BY <2>1, <2>5 DEF Proposed, Tracks, SweepStages
    <3>2. PICK k \in Added : candidates'[k].criterion = c /\ candidates'[k].status = "pending"
      BY <2>1, <3>1, CommitRows
    <3> QED BY <3>2 DEF Added, Covered
  <2> QED BY <2>3, <2>4, <2>5
<1> QED BY <1>1, AlwaysWatchInv, PTL DEF WatchSpec, SweepMissesNothing

------------------------------------------------------------------------------
(* A second pending candidate, and the sweeps that crossed.                *)

\* A sweep knows of the pending candidates, unless they crossed it.
KnownOrCrossed ==
    \A d \in Desk : sitting[d].op = "pending" =>
        PendingNow \subseteq sitting[d].pending \cup sitting[d].crossed

CrossInv == KnownOrCrossed /\ RepeatsAreCrossings

\* What no step but that of a sweep disturbs.
LEMMA CrossKept ==
    ASSUME WatchTypeOK, CrossInv,
           \A d \in Desk : sitting'[d].op = "pending" =>
              /\ sitting[d].op = "pending"
              /\ sitting'[d].pending = sitting[d].pending
              /\ sitting'[d].crossed = sitting[d].crossed,
           blind' = blind,
           DOMAIN candidates' = DOMAIN candidates,
           \A k \in DOMAIN candidates :
              /\ candidates'[k].criterion = candidates[k].criterion
              /\ candidates'[k].status = "pending" => candidates[k].status = "pending"
    PROVE  CrossInv'
<1>1. PendingNow' \subseteq PendingNow
  BY DEF PendingNow
<1>2. RepeatsAreCrossings'
  BY DEF CrossInv, RepeatsAreCrossings
<1>3. KnownOrCrossed'
  BY <1>1 DEF CrossInv, KnownOrCrossed
<1> QED BY <1>2, <1>3 DEF CrossInv

\* Narrowing what a sweep counts on leaves what it has read.
LEMMA NarrowedKeeps ==
    ASSUME WatchTypeOK, NEW d \in Desk, NEW S, sitting[d].op \in SweepStages
    PROVE  /\ [sitting[d] EXCEPT !.since = S].op = sitting[d].op
           /\ [sitting[d] EXCEPT !.since = S].pending = sitting[d].pending
           /\ [sitting[d] EXCEPT !.since = S].crossed = sitting[d].crossed
<1>1. sitting[d] \in Sweep
  BY DEF WatchTypeOK, NoSitting, SweepStages
<1> QED BY <1>1 DEF Sweep

LEMMA StepCross ==
    ASSUME WatchInv, CrossInv, [WatchNext]_<<vars, deskVars>>
    PROVE  CrossInv'
<1> USE DEF Sits, Leaves
<1>1. WatchTypeOK /\ DecidesKnown
  BY DEF WatchInv
<1>2. ASSUME NEW d \in Desk, UNCHANGED <<candidates, blind>>,
             \A e \in Desk \ {d} : sitting'[e] = sitting[e],
             sitting'[d].op # "pending"
      PROVE  CrossInv'
  BY <1>1, <1>2, CrossKept
<1>3. sitting \in [Desk -> {NoSitting} \cup Sweep \cup Decision]
  BY <1>1 DEF WatchTypeOK, Decision
<1>4. ASSUME NEW d \in Desk, StartSweep(d) PROVE CrossInv'
  <2>1. sitting'[d].op = "read" /\ \A e \in Desk \ {d} : sitting'[e] = sitting[e]
    BY <1>3, <1>4 DEF StartSweep
  <2> QED BY <1>2, <1>4, <2>1 DEF StartSweep
<1>5. ASSUME NEW d \in Desk, ReadActive(d) PROVE CrossInv'
  <2>1. sitting[d] \in Sweep
    BY <1>1, <1>5 DEF ReadActive, NoSitting, WatchTypeOK
  <2>2. sitting'[d].op = "active" /\ \A e \in Desk \ {d} : sitting'[e] = sitting[e]
    BY <1>3, <1>5, <2>1 DEF ReadActive, Sweep
  <2> QED BY <1>2, <1>5, <2>2 DEF ReadActive
<1>6. ASSUME NEW d \in Desk, ReadPending(d) PROVE CrossInv'
  <2>1. sitting[d] \in Sweep
    BY <1>1, <1>6 DEF ReadPending, NoSitting, WatchTypeOK
  <2>2. sitting'[d].pending = PendingNow /\ \A e \in Desk \ {d} : sitting'[e] = sitting[e]
    BY <1>3, <1>6, <2>1 DEF ReadPending, Sweep
  <2>3. UNCHANGED <<candidates, blind>> /\ PendingNow' = PendingNow
    BY <1>6 DEF ReadPending, PendingNow
  <2>4. RepeatsAreCrossings'
    BY <2>3 DEF CrossInv, RepeatsAreCrossings
  <2>5. KnownOrCrossed'
    BY <2>2, <2>3 DEF CrossInv, KnownOrCrossed
  <2> QED BY <2>4, <2>5 DEF CrossInv
<1>7. ASSUME NEW d \in Desk, CommitSweep(d) PROVE CrossInv'
  <2> DEFINE new == Proposed(sitting[d])
  <2>1. new \subseteq Criterion /\ sitting' = [Crossed(new) EXCEPT ![d] = NoSitting]
    BY <1>1, <1>7, EvidentTyped DEF CommitSweep, Proposed
  <2>2. /\ DOMAIN candidates \subseteq DOMAIN candidates'
        /\ \A k \in DOMAIN candidates : candidates'[k] = candidates[k]
        /\ \A k \in Added : candidates'[k].status = "pending" /\ candidates'[k].criterion \in new
        /\ \A k, l \in Added : candidates'[k].criterion = candidates'[l].criterion => k = l
    BY <1>1, <1>7, CommitRows
  <2>3. PendingNow' \subseteq PendingNow \cup new
    BY <2>2 DEF PendingNow, Added
  <2>4. PendingNow \subseteq sitting[d].pending \cup sitting[d].crossed
    BY <1>7 DEF CommitSweep, CrossInv, KnownOrCrossed
  <2>5. new \cap sitting[d].pending = {}
    BY DEF Proposed
  <2>6. blind' = blind \cup {k \in Added : candidates'[k].criterion \in sitting[d].crossed}
    BY <1>7 DEF CommitSweep, Added
  <2> HIDE DEF new
  <2>7. KnownOrCrossed'
    <3> SUFFICES ASSUME NEW e \in Desk, sitting'[e].op = "pending"
                 PROVE  PendingNow' \subseteq sitting'[e].pending \cup sitting'[e].crossed
      BY DEF KnownOrCrossed
    <3>1. e # d
      BY <1>1, <2>1, CrossedSays DEF NoSitting
    <3>2. sitting'[e] = Crossed(new)[e]
      BY <1>1, <2>1, <3>1, CrossedSays
    <3>3. sitting[e].op = "pending"
      BY <1>1, <2>1, <3>2, CrossedSays
    <3>4. /\ sitting'[e].pending = sitting[e].pending
          /\ sitting'[e].crossed = sitting[e].crossed \cup new
      BY <1>1, <2>1, <3>2, <3>3, CrossedSays DEF SweepStages
    <3>5. PendingNow \subseteq sitting[e].pending \cup sitting[e].crossed
      BY <3>3 DEF CrossInv, KnownOrCrossed
    <3> QED BY <2>3, <3>4, <3>5
  <2>8. RepeatsAreCrossings'
    <3> SUFFICES ASSUME NEW i \in DOMAIN candidates', NEW k \in DOMAIN candidates',
                        candidates'[i].status = "pending", candidates'[k].status = "pending",
                        candidates'[i].criterion = candidates'[k].criterion, i < k
                 PROVE  k \in blind'
      BY DEF RepeatsAreCrossings
    <3>1. DOMAIN candidates = 1..Len(candidates) /\ DOMAIN candidates' = 1..Len(candidates')
          /\ Len(candidates) \in Nat /\ Len(candidates') \in Nat
      <4>1. WatchTypeOK'
        BY <1>1, <1>7, WatchStepTyped DEF WatchInv, TypeOK, DeskNext
      <4> QED BY <1>1, <4>1, LenProperties DEF WatchTypeOK
    <3>2. CASE k \in DOMAIN candidates
      <4>1. i \in DOMAIN candidates
        BY <3>1, <3>2
      <4>2. k \in blind
        BY <2>2, <3>2, <4>1 DEF CrossInv, RepeatsAreCrossings
      <4> QED BY <2>6, <4>2
    <3>3. CASE k \in Added /\ i \in DOMAIN candidates
      <4>1. candidates'[k].criterion \in PendingNow
        <5>1. candidates'[i] = candidates[i]
          BY <2>2, <3>3
        <5> QED BY <3>3, <5>1 DEF PendingNow
      <4>2. candidates'[k].criterion \in new
        BY <2>2, <3>3
      <4>3. candidates'[k].criterion \in sitting[d].crossed
        BY <2>4, <2>5, <4>1, <4>2
      <4> QED BY <2>6, <3>3, <4>3
    <3>4. CASE k \in Added /\ i \in Added
      <4>1. i = k
        BY <2>2, <3>4
      <4> QED BY <3>1, <4>1
    <3> QED BY <3>2, <3>3, <3>4 DEF Added
  <2> QED BY <2>7, <2>8 DEF CrossInv
<1>8. ASSUME NEW d \in Desk, FailSweep(d) PROVE CrossInv'
  <2>1. sitting'[d].op # "pending" /\ \A e \in Desk \ {d} : sitting'[e] = sitting[e]
    BY <1>3, <1>8 DEF FailSweep, NoSitting
  <2> QED BY <1>2, <1>8, <2>1 DEF FailSweep
<1>9. ASSUME NEW d \in Desk, NEW i \in DOMAIN candidates, NEW approve \in BOOLEAN,
             ReadCandidate(d, i, approve)
      PROVE  CrossInv'
  <2>1. sitting'[d].op # "pending" /\ \A e \in Desk \ {d} : sitting'[e] = sitting[e]
    BY <1>3, <1>9 DEF ReadCandidate
  <2> QED BY <1>2, <1>9, <2>1 DEF ReadCandidate
<1>10. ASSUME NEW c, NEW e \in Desk, Settled(c)[e].op = "pending"
       PROVE  /\ sitting[e].op = "pending"
              /\ Settled(c)[e].pending = sitting[e].pending
              /\ Settled(c)[e].crossed = sitting[e].crossed
  <2>1. CASE e \in Sweeping
    BY <1>1, <1>10, <2>1, NarrowedKeeps DEF Settled, Sweeping
  <2>2. CASE e \notin Sweeping
    BY <1>10, <2>2 DEF Settled
  <2> QED BY <2>1, <2>2
<1>11. ASSUME NEW d \in Desk, Decide(d) PROVE CrossInv'
  <2> DEFINE c == candidates[sitting[d].candidate].criterion
  <2>1. \A e \in Desk : e # d => sitting'[e] = Settled(c)[e]
    BY <1>11 DEF Decide, Settled
  <2>2. sitting'[d].op # "pending"
    BY <1>11 DEF Decide, Settled, NoSitting
  <2>3. /\ DOMAIN candidates' = DOMAIN candidates /\ blind' = blind
        /\ \A k \in DOMAIN candidates :
              /\ candidates'[k].criterion = candidates[k].criterion
              /\ candidates'[k].status = "pending" => candidates[k].status = "pending"
    BY <1>1, <1>11, DecideRows DEF Verdict, Decide
  <2> HIDE DEF c
  <2>4. \A e \in Desk : sitting'[e].op = "pending" =>
            /\ sitting[e].op = "pending"
            /\ sitting'[e].pending = sitting[e].pending
            /\ sitting'[e].crossed = sitting[e].crossed
    BY <1>10, <2>1, <2>2
  <2> QED BY <1>1, <2>3, <2>4, CrossKept
<1>12. ASSUME NEW d \in Desk, NEW i \in DOMAIN entries,
              NEW status \in {"Active", "Cleared", "deleted"}, UpdateEntry(d, i, status)
       PROVE  CrossInv'
  <2> DEFINE c == entries[i].criterion
  <2>1. UNCHANGED <<candidates, blind>> /\ (sitting' = sitting \/ sitting' = Settled(c))
    BY <1>12 DEF UpdateEntry
  <2> HIDE DEF c
  <2>2. \A e \in Desk : sitting'[e].op = "pending" =>
            /\ sitting[e].op = "pending"
            /\ sitting'[e].pending = sitting[e].pending
            /\ sitting'[e].crossed = sitting[e].crossed
    BY <1>10, <2>1
  <2> QED BY <1>1, <2>1, <2>2, CrossKept
<1>13. ASSUME NEW d \in Desk, NEW c \in Criterion, AddEntry(d, c) \/ Switch(d, c)
       PROVE  CrossInv'
  BY <1>1, <1>13, CrossKept DEF AddEntry, Switch
<1>14. ASSUME NEW S, UNCHANGED <<candidates, blind>>,
              sitting' = [d \in Desk |-> IF d \in Sweeping
                             THEN [sitting[d] EXCEPT !.since = @ \cap S] ELSE sitting[d]]
       PROVE  CrossInv'
  <2>1. \A e \in Desk : sitting'[e].op = "pending" =>
            /\ sitting[e].op = "pending"
            /\ sitting'[e].pending = sitting[e].pending
            /\ sitting'[e].crossed = sitting[e].crossed
    BY <1>1, <1>14, NarrowedKeeps DEF Sweeping
  <2> QED BY <1>1, <1>14, <2>1, CrossKept
<1>15. ASSUME NEW c \in Criterion, RecordsChange(c) PROVE CrossInv'
  BY <1>14, <1>15 DEF RecordsChange
<1>16. CASE Redesignated
  BY <1>14, <1>16 DEF Redesignated
<1>17. CASE UNCHANGED deskVars
  BY <1>17 DEF deskVars, CrossInv, KnownOrCrossed, PendingNow, RepeatsAreCrossings
<1>18. CASE DeskNext
  BY <1>4, <1>5, <1>6, <1>7, <1>8, <1>9, <1>11, <1>12, <1>13, <1>15, <1>18 DEF DeskNext
<1> QED BY <1>16, <1>17, <1>18 DEF WatchNext

\* However many sweeps overlap, a second pending candidate of a criterion comes from
\* a sweep whose reading another sweep's commit has overtaken.
THEOREM RepeatsComeFromCrossings == WatchSpec => []RepeatsAreCrossings
<1>1. WatchInit => CrossInv
  BY DEF WatchInit, CrossInv, KnownOrCrossed, RepeatsAreCrossings, NoSitting
<1>2. WatchInv /\ CrossInv /\ [WatchNext]_<<vars, deskVars>> => CrossInv'
  BY StepCross
<1>3. CrossInv => RepeatsAreCrossings
  BY DEF CrossInv
<1> QED BY <1>1, <1>2, <1>3, AlwaysWatchInv, PTL DEF WatchSpec
==============================================================================

------------------------------ MODULE RollupProofs ------------------------------
(***************************************************************************)
(* For any number of requests, engagements and numbers.                    *)
(*                                                                         *)
(* Numbers: until the number of a deleted finding is minted again, the     *)
(* counter is never behind a number in use.  The argument is that until    *)
(* then the committed numbers are exactly those up to the counter, so a    *)
(* request with a stale counter can only mint a number that is taken, and  *)
(* fails, or one of a deleted finding.                                     *)
(*                                                                         *)
(* Roll-ups: what is not recounted can only have grown, what is recounted  *)
(* is exact, and what was recounted from stale data says so.               *)
(*                                                                         *)
(* Profile: for any number of viewers, findings and snapshots kept.  Every *)
(* refresh adds a snapshot that repeats what is shown, so pruning old ones *)
(* loses no roll-up; a view in progress has read what was recorded last,   *)
(* but for what it is late for; and the newest blank snapshots have no     *)
(* severity, so that after Keep of them no older one is left.              *)
(***************************************************************************)
EXTENDS FindingRegister, RiskProfile, FiniteSetTheorems, SequenceTheorems,
        WellFoundedInduction, TLAPS

Mints(t) == req[t].op \in {"create", "add"}
Fresh(t) == Mints(t) => req[t].id <= counter + 1

CounterInv ==
    /\ counter \in Nat
    /\ minted \subseteq Id
    /\ \A i \in Id : find[i] # Absent => i \in minted
    /\ DOMAIN find = Id /\ DOMAIN req = Session
    /\ \A t \in Session : Mints(t) => req[t].id \in Id
    /\ reused = "no" => /\ \A i \in Id : i \in minted <=> i <= counter
                  /\ \A t \in Session : Fresh(t)

LEMMA InitCounter == Init => CounterInv
BY RegisterConstants DEF Init, CounterInv, Id, Fresh, Mints, Idle

LEMMA NextCounter == CounterInv /\ [Next]_vars => CounterInv'
<1> SUFFICES ASSUME CounterInv, [Next]_vars
             PROVE  CounterInv'
  OBVIOUS
<1> USE RegisterConstants DEF CounterInv, Mints
<1>1. CASE UNCHANGED vars
  BY <1>1 DEF vars, Fresh
<1>2. ASSUME NEW t \in Session, NEW r,
             r.op \in {"create", "add"} => r.id = counter + 1 /\ r.id \in Id, Read(t, r)
      PROVE  CounterInv'
  BY <1>2 DEF Read, Fresh
<1>3. ASSUME NEW t \in Session, NEW op, NEW e, NEW status, LoadCounter(t, op, e, status)
      PROVE  CounterInv'
  <2>1. counter + 1 \in Id
    BY <1>3 DEF LoadCounter, Id
  <2> QED
    BY <1>2, <1>3, <2>1 DEF LoadCounter
<1>4. ASSUME NEW t \in Session, NEW i \in Id, LoadPlan(t, i)
      PROVE  CounterInv'
  BY <1>2, <1>4 DEF LoadPlan
<1>5. ASSUME NEW t \in Session, NEW i \in Id, NEW to, LoadUpdate(t, i, to)
      PROVE  CounterInv'
  BY <1>2, <1>5 DEF LoadUpdate
\* A request leaves; numbers, counter and the other requests stay.
<1>6. ASSUME NEW t \in Session, NEW r \in {Idle, Collided}, req' = [req EXCEPT ![t] = r],
             UNCHANGED <<counter, minted, reused>>, DOMAIN find' = Id,
             \A i \in Id : find'[i] # Absent => find[i] # Absent
      PROVE  CounterInv'
  BY <1>6 DEF Fresh, Idle, Collided
<1>7. ASSUME NEW t \in Session, Collide(t) \/ Fail(t)
      PROVE  CounterInv'
  BY <1>6, <1>7 DEF Collide, Fail, Done
<1>8. ASSUME NEW t \in Session, Update(t)
      PROVE  CounterInv'
  <2>1. req' = [req EXCEPT ![t] = Idle] /\ UNCHANGED <<counter, minted, reused>>
    BY <1>8 DEF Update, Done
  <2>2. find[req[t].id] # Absent
    BY <1>8 DEF Update
  <2>3. DOMAIN find' = Id /\ \A i \in Id : find'[i] # Absent => find[i] # Absent
    BY <1>8, <2>2 DEF Update
  <2> QED
    BY <1>6, <2>1, <2>3
<1>9. ASSUME NEW t \in Session, Plan(t)
      PROVE  CounterInv'
  <2>1. req' = [req EXCEPT ![t] = Idle] /\ UNCHANGED <<counter, minted, reused>>
    BY <1>9 DEF Plan, Done
  <2>2. DOMAIN find' = Id /\ \A i \in Id : find'[i] # Absent => find[i] # Absent
    BY <1>9 DEF Plan
  <2> QED
    BY <1>6, <2>1, <2>2
<1>10. ASSUME NEW i \in Id, Delete(i) \/ CreateRemediation(i)
       PROVE  CounterInv'
  <2>1. UNCHANGED <<counter, minted, reused, req>>
    BY <1>10 DEF Delete, CreateRemediation
  <2>2. DOMAIN find' = Id /\ \A j \in Id : find'[j] # Absent => find[j] # Absent
    BY <1>10 DEF Delete, CreateRemediation
  <2> QED
    BY <2>1, <2>2 DEF Fresh
\* A number is committed: the next one, or one that was used before.
<1>11. ASSUME NEW t \in Session, Create(t)
       PROVE  CounterInv'
  <2> DEFINE n == req[t].id
  <2>1. /\ req[t].op \in {"create", "add"} /\ find[n] = Absent
        /\ counter' = n /\ minted' = minted \cup {n}
        /\ req' = [req EXCEPT ![t] = Idle]
        /\ DOMAIN find' = Id
        /\ \A i \in Id : i # n => find'[i] = find[i]
    <3>1. /\ req[t].op \in {"create", "add"} /\ find[n] = Absent
          /\ counter' = n /\ minted' = minted \cup {n}
          /\ req' = [req EXCEPT ![t] = Idle]
      BY <1>11 DEF Create, Free, Done
    <3>2. PICK row : find' = [find EXCEPT ![n] = row]
      BY <1>11 DEF Create
    <3>3. DOMAIN find' = Id /\ \A i \in Id : i # n => find'[i] = find[i]
      BY <3>2
    <3> QED
      BY <3>1, <3>3
  <2>7. reused' = "no" => reused = "no" /\ n \notin minted \ Present
    BY <1>11 DEF Create
  <2>8. n \in Id
    BY <2>1
  <2>2. n \in Id /\ n \in Nat /\ minted' \subseteq Id
    <3>1. minted' \subseteq Id
      BY <2>1, <2>8
    <3>2. \A i \in Id : i \in Nat
      BY DEF Id
    <3> QED
      BY <2>8, <3>1, <3>2
  <2>3. \A i \in Id : find'[i] # Absent => i \in minted'
    BY <2>1
  <2>4. \A v \in Session : req'[v].op \in {"create", "add"} => req'[v] = req[v]
    BY <2>1 DEF Idle
  <2>5. ASSUME reused' = "no"
        PROVE  /\ \A i \in Id : i \in minted' <=> i <= counter'
               /\ \A v \in Session : Fresh(v)'
    <3>1. reused = "no" /\ n \notin minted
      BY <2>1, <2>2, <2>5, <2>7 DEF Present
    <3>2. n = counter + 1
      <4>1. n <= counter + 1 /\ ~(n <= counter)
        BY <2>1, <2>2, <3>1 DEF Fresh
      <4> QED
        BY <2>2, <4>1
    <3>3. \A i \in Id : i \in minted' <=> i <= counter'
      BY <2>1, <3>1, <3>2 DEF Id
    <3>4. \A v \in Session : Fresh(v)'
      <4>1. \A v \in Session : req[v].op \in {"create", "add"} =>
               req[v].id \in Nat /\ req[v].id <= counter + 1
        BY <3>1 DEF Fresh, Id
      <4> QED
        BY <2>1, <2>4, <3>2, <4>1 DEF Fresh
    <3> QED
      BY <3>3, <3>4
  <2>6. /\ counter' \in Nat /\ DOMAIN req' = Session
        /\ \A v \in Session : req'[v].op \in {"create", "add"} => req'[v].id \in Id
    BY <2>1, <2>2, <2>4
  <2> QED
    BY <2>1, <2>2, <2>3, <2>5, <2>6
<1> QED
  BY <1>1, <1>3, <1>4, <1>5, <1>7, <1>8, <1>9, <1>10, <1>11 DEF Next

\* The counter covers the numbers in use (next_id), until one is minted again.
THEOREM CounterCovers == Spec => []CounterCoversIds
<1>1. CounterInv => CounterCoversIds
  BY DEF CounterInv, CounterCoversIds, Present
<1>2. CounterInv /\ [Next]_vars => CounterInv'
  BY NextCounter
<1> QED
  BY <1>1, <1>2, InitCounter, PTL DEF Spec

------------------------------------------------------------------------------
(* The roll-up of open actions.                                            *)

OpenIds(register, e) ==
    {i \in Id : register[i].eng = e /\ register[i].status \notin {"Closed", "none"}}

LEMMA OpenGrows ==
    ASSUME NEW old, NEW new, NEW e, OpenIds(old, e) \subseteq OpenIds(new, e)
    PROVE  Open(old, e) <= Open(new, e)
<1>1. IsFiniteSet(Id) /\ OpenIds(new, e) \subseteq Id
  BY RegisterConstants, FS_Interval DEF Id, OpenIds
<1>2. IsFiniteSet(OpenIds(new, e))
  BY <1>1, FS_Subset
<1>3. Cardinality(OpenIds(old, e)) <= Cardinality(OpenIds(new, e))
  BY <1>2, FS_Subset
<1> QED
  BY <1>3 DEF Open, OpenIds

LEMMA OpenStays ==
    ASSUME NEW old, NEW new, NEW e, OpenIds(old, e) = OpenIds(new, e)
    PROVE  Open(old, e) = Open(new, e)
BY DEF Open, OpenIds

LEMMA OpenBounds ==
    ASSUME NEW register, NEW e
    PROVE  Open(register, e) \in 0..MaxId
<1>1. IsFiniteSet(Id) /\ Cardinality(Id) = MaxId /\ OpenIds(register, e) \subseteq Id
  BY RegisterConstants, FS_Interval DEF Id, OpenIds
<1>2. /\ IsFiniteSet(OpenIds(register, e))
      /\ Cardinality(OpenIds(register, e)) <= MaxId
  BY <1>1, FS_Subset
<1>3. Cardinality(OpenIds(register, e)) \in Nat
  BY <1>2, FS_CardinalityType
<1> QED
  BY <1>2, <1>3, RegisterConstants DEF Open, OpenIds

Request == Creation \cup Change \cup Planning \cup {Idle, Collided}
Rows == FindingRecord \cup {Absent}

\* TypeOK, with the part about numbers in use spelled out.
Typed ==
    /\ find \in [Id -> Rows]
    /\ counter \in 0..MaxId
    /\ rollup \in [Engagement -> 0..MaxId]
    /\ req \in [Session -> Request]
    /\ \A i \in Id : find[i] # Absent => i \in minted
    /\ minted \subseteq Id
    /\ reused \in {"no", "yes"}
    /\ misread \subseteq Engagement

LEMMA TypedIsTypeOK == Typed <=> TypeOK
BY DEF Typed, TypeOK, Request, Rows, Present

\* What a request of each kind has read.
LEMMA RequestFields ==
    ASSUME NEW r \in Request
    PROVE  /\ r.op \in {"create", "add"} =>
                /\ r.id \in Id /\ r.eng \in Engagement \cup {None} /\ r.status \in Status
           /\ r.op = "update" =>
                /\ r.id \in Id /\ r.from \in Status /\ r.to \in Status
                /\ r.counted \in Count /\ r.seen \in Count
           /\ r.op = "plan" => r.id \in Id /\ r.from \in Status
BY DEF Request, Creation, Change, Planning, Idle, Collided

LEMMA RecomputeTyped ==
    ASSUME Typed, NEW register, NEW e \in Engagement \cup {None}, Recompute(register, e)
    PROVE  /\ rollup' \in [Engagement -> 0..MaxId]
           /\ misread' \subseteq Engagement
BY OpenBounds DEF Typed, Recompute

LEMMA InitTyped == Init => Typed
BY RegisterConstants DEF Init, Typed, Request, Rows

LEMMA NextTyped == Typed /\ [Next]_vars => Typed'
<1> SUFFICES ASSUME Typed, [Next]_vars
             PROVE  Typed'
  OBVIOUS
<1> USE RegisterConstants
<1>1. CASE UNCHANGED vars
  BY <1>1 DEF vars, Typed
\* A request that only reads.
<1>2. ASSUME NEW t \in Session, NEW r \in Request, Read(t, r)
      PROVE  Typed'
  BY <1>2 DEF Read, Typed
<1>3. ASSUME NEW t \in Session, NEW op \in {"create", "add"}, NEW e \in Engagement \cup {None},
             NEW status \in Status, LoadCounter(t, op, e, status)
      PROVE  Typed'
  <2> DEFINE r == [op |-> op, id |-> counter + 1, eng |-> e, status |-> status]
  <2>1. counter + 1 \in Id
    BY <1>3 DEF LoadCounter, Typed, Id
  <2>2. r \in Request
    BY <2>1 DEF Request, Creation
  <2> QED
    BY <1>2, <1>3, <2>2 DEF LoadCounter
<1>4. ASSUME NEW t \in Session, NEW i \in Id, LoadPlan(t, i)
      PROVE  Typed'
  <2>1. find[i].status \in Status
    BY <1>4 DEF LoadPlan, Typed, Rows, FindingRecord
  <2>2. [op |-> "plan", id |-> i, from |-> find[i].status] \in Request
    BY <2>1 DEF Request, Planning
  <2> QED
    BY <1>2, <1>4, <2>2 DEF LoadPlan
<1>5. ASSUME NEW t \in Session, NEW i \in Id, NEW to \in Status, LoadUpdate(t, i, to)
      PROVE  Typed'
  <2>1. find[i].status \in Status /\ find[i].eng \in Engagement \cup {None}
    BY <1>5 DEF LoadUpdate, Typed, Rows, FindingRecord
  <2>2. \A n \in 0..MaxId : n \in Count
    BY DEF Count, Unread
  <2>3. Unread \in Count
    BY DEF Count, Unread
  <2>4. PICK seen \in IF find[i].eng = None THEN {Unread} ELSE {Unread, rollup[find[i].eng]},
             recount \in {Unread, Open(find, find[i].eng)} :
          Read(t, [op |-> "update", id |-> i, from |-> find[i].status, to |-> to,
                   seen |-> seen, counted |-> recount])
    BY <1>5 DEF LoadUpdate
  <2>5. seen \in Count
    BY <2>1, <2>2, <2>3 DEF Typed
  <2>6. recount \in Count
    BY <2>2, <2>3, OpenBounds
  <2>7. [op |-> "update", id |-> i, from |-> find[i].status, to |-> to,
         seen |-> seen, counted |-> recount] \in Request
    BY <2>1, <2>5, <2>6 DEF Request, Change
  <2> QED
    BY <1>2, <2>4, <2>7
\* A request leaves.
<1>6. ASSUME NEW t \in Session, Done(t)
      PROVE  req' \in [Session -> Request]
  BY <1>6 DEF Done, Typed, Request
<1>7. ASSUME NEW t \in Session, Fail(t)
      PROVE  Typed'
  BY <1>6, <1>7 DEF Fail, Typed
<1>8. ASSUME NEW t \in Session, Collide(t)
      PROVE  Typed'
  BY <1>8 DEF Collide, Typed, Request
<1>9. ASSUME NEW t \in Session, Create(t)
      PROVE  Typed'
  <2> DEFINE r == req[t]
             row == [eng |-> r.eng, status |-> r.status, planned |-> "no"]
  <2>1. r \in Request /\ r.op \in {"create", "add"}
    BY <1>9 DEF Create, Typed
  <2>2. r.id \in Id /\ r.eng \in Engagement \cup {None} /\ r.status \in Status
    BY <2>1, RequestFields
  <2>3. row \in Rows
    BY <2>2 DEF Rows, FindingRecord
  <2>4. find' = [find EXCEPT ![r.id] = row] /\ counter' = r.id /\ minted' = minted \cup {r.id}
    BY <1>9 DEF Create
  <2>5. find' \in [Id -> Rows]
    <3>1. find \in [Id -> Rows]
      BY DEF Typed
    <3> HIDE DEF row
    <3> QED
      BY <2>2, <2>3, <2>4, <3>1
  <2>6. counter' \in 0..MaxId /\ minted' \subseteq Id
    <3>1. minted \subseteq Id /\ counter' = r.id /\ minted' = minted \cup {r.id}
      BY <2>4 DEF Typed
    <3>2. \A i \in Id : i \in 0..MaxId
      BY DEF Id
    <3> QED
      BY <2>2, <3>1, <3>2
  <2>7. \A i \in Id : find'[i] # Absent => i \in minted'
    BY <2>2, <2>4 DEF Typed
  <2>8. reused' \in {"no", "yes"}
    BY <1>9 DEF Create, Typed
  <2>9. Recompute([find EXCEPT ![r.id] = row], r.eng) \/ UNCHANGED <<rollup, misread>>
    BY <1>9 DEF Create
  <2>10. rollup' \in [Engagement -> 0..MaxId] /\ misread' \subseteq Engagement
    BY <2>2, <2>9, RecomputeTyped DEF Typed
  <2>11. req' \in [Session -> Request]
    BY <1>6, <1>9 DEF Create
  <2> QED
    BY <2>5, <2>6, <2>7, <2>8, <2>10, <2>11 DEF Typed
<1>10. ASSUME NEW t \in Session, Update(t)
       PROVE  Typed'
  <2> DEFINE r == req[t]
             e == find[r.id].eng
             register == IF r.from = r.to THEN find ELSE [find EXCEPT ![r.id].status = r.to]
             n == IF r.counted = Unread THEN Open(register, e) ELSE r.counted
  <2>1. r \in Request /\ r.op = "update" /\ find[r.id] # Absent
    BY <1>10 DEF Update, Typed
  <2>2. r.id \in Id /\ r.to \in Status /\ r.counted \in Count
    BY <2>1, RequestFields
  <2>3. find[r.id] \in FindingRecord
    BY <2>1, <2>2 DEF Typed, Rows
  <2>4. find' = register
    BY <1>10 DEF Update
  <2>5. [find[r.id] EXCEPT !.status = r.to] \in Rows
    BY <2>2, <2>3 DEF FindingRecord, Rows
  <2>6. find' \in [Id -> Rows] /\ \A i \in Id : find'[i] # Absent => find[i] # Absent
    BY <2>1, <2>2, <2>4, <2>5 DEF Typed
  <2>7. n \in 0..MaxId
    <3>1. Open(register, e) \in 0..MaxId
      BY OpenBounds
    <3> QED
      BY <2>2, <3>1 DEF Count, Unread
  <2>8. e \in Engagement \cup {None}
    BY <2>3 DEF FindingRecord
  <2>9. \/ UNCHANGED <<rollup, misread>>
        \/ /\ e # None
           /\ rollup' = [rollup EXCEPT ![e] = IF r.seen = n THEN @ ELSE n]
           /\ misread' \in {misread \cup {e}, misread \ {e}}
    BY <1>10 DEF Update
  <2>10. rollup' \in [Engagement -> 0..MaxId] /\ misread' \subseteq Engagement
    <3> HIDE DEF n
    <3> QED
      BY <2>7, <2>8, <2>9 DEF Typed
  <2>11. req' \in [Session -> Request] /\ UNCHANGED <<counter, minted, reused>>
    BY <1>6, <1>10 DEF Update
  <2> QED
    BY <2>6, <2>10, <2>11 DEF Typed
<1>11. ASSUME NEW t \in Session, Plan(t)
       PROVE  Typed'
  <2> DEFINE r == req[t]
             row == [find[r.id] EXCEPT !.planned = "yes",
                                       !.status = IF r.from = "Draft" THEN "Active" ELSE @]
  <2>1. r \in Request /\ r.op = "plan" /\ find[r.id] # Absent
    BY <1>11 DEF Plan, Typed
  <2>2. r.id \in Id /\ find[r.id] \in FindingRecord
    BY <2>1, RequestFields DEF Typed, Rows
  <2>3. row \in Rows
    BY <2>2 DEF FindingRecord, Status, Rows
  <2>4. find' = [find EXCEPT ![r.id] = row]
    BY <1>11, <2>2 DEF Plan, Typed
  <2>5. find' \in [Id -> Rows] /\ \A i \in Id : find'[i] # Absent => find[i] # Absent
    BY <2>1, <2>2, <2>3, <2>4 DEF Typed
  <2>6. req' \in [Session -> Request] /\ UNCHANGED <<counter, rollup, minted, reused, misread>>
    BY <1>6, <1>11 DEF Plan
  <2> QED
    BY <2>5, <2>6 DEF Typed
<1>12. ASSUME NEW i \in Id, Delete(i)
       PROVE  Typed'
  <2>1. find' = [find EXCEPT ![i] = Absent] /\ find[i] \in FindingRecord
    BY <1>12 DEF Delete, Typed, Rows
  <2>2. find' \in [Id -> Rows] /\ \A j \in Id : find'[j] # Absent => find[j] # Absent
    BY <2>1 DEF Typed, Rows
  <2>3. rollup' \in [Engagement -> 0..MaxId] /\ misread' \subseteq Engagement
    BY <1>12, <2>1, RecomputeTyped DEF Delete, FindingRecord
  <2> QED
    BY <1>12, <2>2, <2>3 DEF Delete, Typed
<1>13. ASSUME NEW i \in Id, CreateRemediation(i)
       PROVE  Typed'
  <2> DEFINE row == [find[i] EXCEPT !.status = "Active", !.planned = "yes"]
  <2>1. find[i] # Absent /\ find[i] \in FindingRecord
    BY <1>13 DEF CreateRemediation, Typed, Rows
  <2>2. row \in Rows
    BY <2>1 DEF FindingRecord, Status, Rows
  <2>3. find' = [find EXCEPT ![i] = row]
    BY <1>13 DEF CreateRemediation, Typed
  <2>4. find' \in [Id -> Rows] /\ \A j \in Id : find'[j] # Absent => find[j] # Absent
    BY <2>1, <2>2, <2>3 DEF Typed
  <2> QED
    BY <1>13, <2>4 DEF CreateRemediation, Typed
<1> QED
  BY <1>1, <1>3, <1>4, <1>5, <1>7, <1>8, <1>9, <1>10, <1>11, <1>12, <1>13 DEF Next

\* A step that recounts no engagement and closes or removes nothing.
LEMMA Uncounted ==
    ASSUME Typed, NeverOvercounts, UNCHANGED <<rollup, misread>>, Typed',
           \A e \in Engagement : OpenIds(find, e) \subseteq OpenIds(find', e)
    PROVE  NeverOvercounts'
<1> SUFFICES ASSUME NEW e \in Engagement \ misread
             PROVE  rollup[e] <= Open(find', e)
  BY DEF NeverOvercounts
<1>1. rollup[e] <= Open(find, e) /\ Open(find, e) <= Open(find', e)
  BY OpenGrows DEF NeverOvercounts
<1>2. rollup[e] \in Nat /\ Open(find, e) \in Nat /\ Open(find', e) \in Nat
  BY OpenBounds DEF Typed
<1> QED
  BY <1>1, <1>2

\* A step that counts one engagement and leaves the findings of the others alone.
LEMMA Counted ==
    ASSUME Typed, NeverOvercounts, Typed', NEW e \in Engagement,
           \A other \in Engagement \ {e} :
              OpenIds(find, other) = OpenIds(find', other) /\ rollup'[other] = rollup[other],
           misread \ {e} \subseteq misread',
           e \in misread' \/ rollup'[e] = Open(find', e)
    PROVE  NeverOvercounts'
<1> SUFFICES ASSUME NEW other \in Engagement \ misread'
             PROVE  rollup'[other] <= Open(find', other)
  BY DEF NeverOvercounts
<1>1. CASE other = e
  <2>1. rollup'[e] = Open(find', e) /\ Open(find', e) \in Nat
    BY <1>1, OpenBounds
  <2> QED
    BY <1>1, <2>1
<1>2. CASE other # e
  <2>1. other \notin misread /\ rollup'[other] = rollup[other]
    BY <1>2
  <2>2. Open(find', other) = Open(find, other)
    BY <1>2, OpenStays
  <2> QED
    BY <2>1, <2>2 DEF NeverOvercounts
<1> QED
  BY <1>1, <1>2

\* _recompute_open_actions after a change to findings of the one engagement.
LEMMA Recounted ==
    ASSUME Typed, NeverOvercounts, Typed', NEW e \in Engagement \cup {None},
           Recompute(find', e),
           \A other \in Engagement \ {e} : OpenIds(find, other) = OpenIds(find', other)
    PROVE  NeverOvercounts'
<1>1. CASE e = None
  <2>1. UNCHANGED <<rollup, misread>>
    BY <1>1 DEF Recompute
  <2>2. \A other \in Engagement : OpenIds(find, other) \subseteq OpenIds(find', other)
    BY <1>1, RegisterConstants
  <2> QED
    BY <2>1, <2>2, Uncounted
<1>2. CASE e # None
  <2>1. e \in Engagement /\ rollup' = [rollup EXCEPT ![e] = Open(find', e)]
    BY <1>2 DEF Recompute
  <2>2. misread' = misread \ {e}
    BY <1>2 DEF Recompute
  <2>3. rollup'[e] = Open(find', e)
    BY <2>1 DEF Typed
  <2>4. \A other \in Engagement \ {e} : rollup'[other] = rollup[other]
    BY <2>1 DEF Typed
  <2> QED
    BY <2>1, <2>2, <2>3, <2>4, Counted
<1> QED
  BY <1>1, <1>2

\* An update is exact, or says that what it used was stale.
LEMMA UpdateCounts ==
    ASSUME Typed, NeverOvercounts, Typed', NEW t \in Session, Update(t)
    PROVE  NeverOvercounts'
<1> DEFINE r == req[t]
           e == find[r.id].eng
           register == IF r.from = r.to THEN find ELSE [find EXCEPT ![r.id].status = r.to]
           n == IF r.counted = Unread THEN Open(register, e) ELSE r.counted
           stale == (r.seen # Unread /\ r.seen # rollup[e]) \/ n # Open(register, e)
<1>1. r \in Request /\ r.op = "update" /\ find[r.id] # Absent
  BY DEF Update, Typed
<1>2. r.id \in Id /\ r.seen \in Count
  BY <1>1, RequestFields
<1>3. e \in Engagement \cup {None} /\ find[r.id] \in FindingRecord
  BY <1>1, <1>2 DEF Typed, Rows, FindingRecord
<1>4. find' = register
  BY DEF Update
<1>5. \A other \in (Engagement \cup {None}) \ {e} : OpenIds(find, other) = OpenIds(find', other)
  BY <1>2, <1>3, <1>4 DEF OpenIds, Typed, Rows, FindingRecord
<1>6. CASE e = None
  <2>1. UNCHANGED <<rollup, misread>>
    BY <1>6 DEF Update
  <2> QED
    BY <1>5, <1>6, <2>1, RegisterConstants, Uncounted
<1>7. CASE e # None
  <2>1. rollup' = [rollup EXCEPT ![e] = IF r.seen = n THEN @ ELSE n]
    BY <1>7 DEF Update
  <2>2. misread' = IF stale THEN misread \cup {e} ELSE misread \ {e}
    BY <1>7 DEF Update
  <2>3. e \in Engagement
    BY <1>3, <1>7
  <2>4. ASSUME ~stale
        PROVE  rollup'[e] = Open(find', e)
    <3>1. n = Open(find', e) /\ n \in 0..MaxId
      BY <1>4, <2>4, OpenBounds
    <3>2. r.seen = n => rollup[e] = n
      BY <1>2, <2>4, <3>1, RegisterConstants DEF Unread, Count
    <3> HIDE DEF n
    <3>3. rollup'[e] = IF r.seen = n THEN rollup[e] ELSE n
      BY <2>1, <2>3 DEF Typed
    <3> QED
      BY <3>1, <3>2, <3>3
  <2>5. e \in misread' \/ rollup'[e] = Open(find', e)
    BY <2>2, <2>4
  <2>6. \A other \in Engagement \ {e} : rollup'[other] = rollup[other]
    <3> HIDE DEF n
    <3> QED
      BY <2>1 DEF Typed
  <2>7. misread \ {e} \subseteq misread'
    BY <2>2
  <2> HIDE DEF e
  <2> QED
    BY <1>5, <2>3, <2>5, <2>6, <2>7, Counted
<1> QED
  BY <1>6, <1>7

LEMMA NextNeverOvercounts == Typed /\ NeverOvercounts /\ [Next]_vars => NeverOvercounts'
<1> SUFFICES ASSUME Typed, NeverOvercounts, [Next]_vars
             PROVE  NeverOvercounts'
  OBVIOUS
<1>0. Typed'
  BY NextTyped
<1>1. ASSUME UNCHANGED <<find, rollup, misread>>
      PROVE  NeverOvercounts'
  BY <1>1 DEF NeverOvercounts, Open
<1>2. ASSUME NEW t \in Session, NEW r, Read(t, r)
      PROVE  NeverOvercounts'
  BY <1>1, <1>2 DEF Read
<1>3. ASSUME NEW t \in Session, Create(t)
      PROVE  NeverOvercounts'
  <2> DEFINE r == req[t]
             row == [eng |-> r.eng, status |-> r.status, planned |-> "no"]
  <2>1. r \in Request /\ r.op \in {"create", "add"} /\ find[r.id] = Absent
    BY <1>3 DEF Create, Free, Typed
  <2>2. r.id \in Id /\ r.eng \in Engagement \cup {None}
    BY <2>1, RequestFields
  <2>3. find' = [find EXCEPT ![r.id] = row]
    BY <1>3 DEF Create
  <2>4. \A e \in Engagement : OpenIds(find, e) \subseteq OpenIds(find', e)
    BY <2>1, <2>2, <2>3 DEF OpenIds, Typed, Absent
  <2>5. \A e \in Engagement \ {r.eng} : OpenIds(find, e) = OpenIds(find', e)
    BY <2>1, <2>2, <2>3 DEF OpenIds, Typed, Absent
  <2>6. Recompute(find', r.eng) \/ UNCHANGED <<rollup, misread>>
    BY <1>3, <2>3 DEF Create
  <2> QED
    BY <1>0, <2>2, <2>4, <2>5, <2>6, Uncounted, Recounted
<1>4. ASSUME NEW i \in Id, Delete(i)
      PROVE  NeverOvercounts'
  <2>1. find' = [find EXCEPT ![i] = Absent] /\ Recompute(find', find[i].eng)
    BY <1>4 DEF Delete
  <2>2. find[i].eng \in Engagement \cup {None}
    BY <1>4 DEF Delete, Typed, Rows, FindingRecord
  <2>3. \A e \in Engagement \ {find[i].eng} : OpenIds(find, e) = OpenIds(find', e)
    BY <2>1 DEF OpenIds, Typed, Absent
  <2> QED
    BY <1>0, <2>1, <2>2, <2>3, Recounted
<1>5. ASSUME NEW i \in Id, CreateRemediation(i)
      PROVE  NeverOvercounts'
  <2>1. \A e \in Engagement : OpenIds(find, e) \subseteq OpenIds(find', e)
    BY <1>5 DEF CreateRemediation, OpenIds, Typed, Rows, FindingRecord, Absent
  <2> QED
    BY <1>0, <1>5, <2>1, Uncounted DEF CreateRemediation
<1>6. ASSUME NEW t \in Session, Plan(t)
      PROVE  NeverOvercounts'
  <2>1. req[t].id \in Id /\ find[req[t].id] \in FindingRecord
    BY <1>6, RequestFields DEF Plan, Typed, Rows
  <2>2. \A e \in Engagement : OpenIds(find, e) \subseteq OpenIds(find', e)
    BY <1>6, <2>1 DEF Plan, OpenIds, Typed, Rows, FindingRecord, Absent
  <2> QED
    BY <1>0, <1>6, <2>2, Uncounted DEF Plan
<1>7. ASSUME NEW t \in Session, Collide(t) \/ Fail(t)
      PROVE  NeverOvercounts'
  BY <1>1, <1>7 DEF Collide, Fail
<1>8. CASE UNCHANGED vars
  BY <1>1, <1>8 DEF vars
<1>9. ASSUME NEW t \in Session, Update(t)
      PROVE  NeverOvercounts'
  BY <1>0, <1>9, UpdateCounts
<1>10. ASSUME NEW t \in Session, NEW op, NEW e, NEW status, LoadCounter(t, op, e, status)
       PROVE  NeverOvercounts'
  BY <1>2, <1>10 DEF LoadCounter
<1>11. ASSUME NEW t \in Session, NEW i, NEW to, LoadPlan(t, i) \/ LoadUpdate(t, i, to)
       PROVE  NeverOvercounts'
  BY <1>2, <1>11 DEF LoadPlan, LoadUpdate
<1> QED
  BY <1>3, <1>4, <1>5, <1>6, <1>7, <1>8, <1>9, <1>10, <1>11 DEF Next

\* Findings, counter, roll-ups and requests in flight keep their types.
THEOREM RegisterTypes == Spec => []TypeOK
<1> QED
  BY InitTyped, NextTyped, TypedIsTypeOK, PTL DEF Spec

\* open_actions never shows more open findings than there are (create_finding,
\* v2_update_finding, v2_delete_finding), unless it was computed from stale data.
THEOREM RollupsNeverOvercount == Spec => []NeverOvercounts
<1>1. Init => NeverOvercounts
  <2> SUFFICES ASSUME Init, NEW e \in Engagement
               PROVE  0 <= Open(find, e)
    BY DEF Init, NeverOvercounts
  <2> QED
    BY OpenBounds, RegisterConstants
<1> QED
  BY <1>1, InitTyped, NextTyped, NextNeverOvercounts, PTL DEF Spec

------------------------------------------------------------------------------
(* Snapshots of the consolidated profile.                                  *)

\* A set of numbers has a least one.
LEMMA LeastOf ==
    ASSUME NEW T, T \subseteq Nat, T # {}
    PROVE  \E n \in T : \A m \in T : n <= m
<1>1. \E R : IsWellFoundedOn(R, Nat) /\ \A m, n \in Nat : m < n => <<m, n>> \in R
  <2>1. OpToRel(<, Nat) = {p \in Nat \X Nat : p[1] < p[2]}
    BY Zenon DEF OpToRel
  <2>2. IsWellFoundedOn({p \in Nat \X Nat : p[1] < p[2]}, Nat)
    BY <2>1, NatLessThanWellFounded, Zenon
  <2>3. \A m, n \in Nat : m < n => <<m, n>> \in {p \in Nat \X Nat : p[1] < p[2]}
    OBVIOUS
  <2> QED
    BY <2>2, <2>3, Zenon
<1>2. PICK R : IsWellFoundedOn(R, Nat) /\ \A m, n \in Nat : m < n => <<m, n>> \in R
  BY <1>1
<1>3. IsWellFoundedOn(R, Nat)
  BY <1>2
<1>4. \E n \in T : \A m \in T : ~(<<m, n>> \in R)
  BY <1>3, WFMin
<1>5. PICK n \in T : \A m \in T : ~(<<m, n>> \in R)
  BY <1>4
<1>6. \A m \in T : ~(m < n)
  BY <1>2, <1>5, Zenon
<1> QED
  BY <1>6

\* A finite set of numbers has a greatest one.
LEMMA MaxExists ==
    ASSUME NEW S, S \subseteq Nat, IsFiniteSet(S), S # {}
    PROVE  Max(S) \in S /\ \A n \in S : n <= Max(S)
<1> DEFINE Top(T) == \E m \in T : \A n \in T : n <= m
           Bad == {T \in SUBSET S : T # {} /\ ~Top(T)}
           Sizes == {Cardinality(T) : T \in Bad}
<1>1. \A T \in SUBSET S : IsFiniteSet(T) /\ Cardinality(T) \in Nat
  BY FS_Subset, FS_CardinalityType
<1>2. ASSUME Bad # {}
      PROVE  FALSE
  <2>1. Sizes \subseteq Nat /\ Sizes # {}
    BY <1>1, <1>2
  <2>2. PICK k \in Sizes : \A m \in Sizes : k <= m
    BY <2>1, LeastOf
  <2>3. PICK T \in Bad : Cardinality(T) = k
    BY <2>2
  <2>4. PICK x \in T : TRUE
    BY <2>3
  <2>5. Cardinality(T \ {x}) = Cardinality(T) - 1
    BY <1>1, <2>3, <2>4, FS_RemoveElement
  <2>6. T \ {x} \in SUBSET S
    BY <2>3
  <2>7. Cardinality(T \ {x}) < k
    BY <1>1, <2>3, <2>5
  <2>8. T \ {x} \notin Bad
    <3> SUFFICES ASSUME T \ {x} \in Bad
                 PROVE  FALSE
      OBVIOUS
    <3>1. Cardinality(T \ {x}) \in Sizes
      OBVIOUS
    <3>2. k <= Cardinality(T \ {x})
      BY <2>2, <3>1
    <3>3. k \in Nat /\ Cardinality(T \ {x}) \in Nat
      BY <1>1, <2>1, <2>6
    <3> QED
      BY <2>7, <3>2, <3>3
  <2>9. CASE T \ {x} = {}
    <3>1. T = {x}
      BY <2>4, <2>9
    <3> QED
      BY <2>3, <3>1
  <2>10. CASE T \ {x} # {}
    <3>1. Top(T \ {x})
      BY <2>6, <2>8, <2>10
    <3>2. PICK m \in T \ {x} : \A n \in T \ {x} : n <= m
      BY <3>1
    <3>3. Top(T)
      BY <2>3, <2>4, <3>2
    <3> QED
      BY <2>3, <3>3
  <2> QED
    BY <2>9, <2>10
<1>3. Top(S)
  BY <1>2
<1>4. PICK m \in S : \A n \in S : n <= m
  BY <1>3
<1> QED
  BY <1>4 DEF Max

LEMMA LeastOfTwo == \A m, n \in Int : Min({m, n}) = IF m <= n THEN m ELSE n
BY DEF Min

LEMMA GreatestOfTwo == \A m, n \in Int : Max({m, n}) = IF m >= n THEN m ELSE n
BY DEF Max

\* latest_risk_profile: there is no value, or it is that of a snapshot after which
\* none has one.
LEMMA LatestRow ==
    ASSUME NEW rows, NEW n \in Nat, DOMAIN rows = 1 .. n, NEW field
    PROVE  \/ /\ Latest(rows, field) = NoValue
              /\ \A i \in 1 .. n : rows[i][field] = NoValue
           \/ \E i \in 1 .. n :
                /\ Latest(rows, field) = rows[i][field] /\ rows[i][field] # NoValue
                /\ \A j \in 1 .. n : j > i => rows[j][field] = NoValue
<1> DEFINE present == {i \in 1 .. n : rows[i][field] # NoValue}
<1>1. Latest(rows, field) = IF present = {} THEN NoValue ELSE rows[Max(present)][field]
  BY DEF Latest
<1>2. CASE present = {}
  BY <1>1, <1>2
<1>3. CASE present # {}
  <2>1. present \subseteq Nat /\ IsFiniteSet(present)
    BY FS_Interval, FS_Subset
  <2>2. Max(present) \in present /\ \A i \in present : i <= Max(present)
    BY <1>3, <2>1, MaxExists
  <2>3. \A j \in 1 .. n : j > Max(present) => rows[j][field] = NoValue
    BY <2>1, <2>2
  <2> QED
    BY <1>1, <1>3, <2>2, <2>3
<1> QED
  BY <1>2, <1>3

LEMMA LatestNone ==
    ASSUME NEW rows, NEW n \in Nat, DOMAIN rows = 1 .. n, NEW field,
           \A i \in 1 .. n : rows[i][field] = NoValue
    PROVE  Latest(rows, field) = NoValue
BY LatestRow

\* A value after which there is none is the latest.
LEMMA LatestAt ==
    ASSUME NEW rows, NEW n \in Nat, DOMAIN rows = 1 .. n, NEW field,
           NEW i \in 1 .. n, rows[i][field] # NoValue,
           \A j \in 1 .. n : j > i => rows[j][field] = NoValue
    PROVE  Latest(rows, field) = rows[i][field]
<1>1. PICK k \in 1 .. n :
        /\ Latest(rows, field) = rows[k][field] /\ rows[k][field] # NoValue
        /\ \A j \in 1 .. n : j > k => rows[j][field] = NoValue
  BY LatestRow
<1>2. ~(k > i) /\ ~(i > k)
  BY <1>1
<1> QED
  BY <1>1, <1>2

\* The newest snapshot decides, if it has a value.
LEMMA LatestAppended ==
    ASSUME NEW rows \in Seq(Snapshot), NEW s \in Snapshot, NEW field
    PROVE  Latest(Append(rows, s), field)
             = IF s[field] # NoValue THEN s[field] ELSE Latest(rows, field)
<1> DEFINE n == Len(rows)
           more == Append(rows, s)
<1>1. /\ n \in Nat /\ DOMAIN rows = 1 .. n /\ DOMAIN more = 1 .. n + 1
      /\ \A i \in 1 .. n : more[i] = rows[i]
      /\ more[n + 1] = s
  BY AppendProperties
<1> HIDE DEF n, more
<1>2. CASE s[field] # NoValue
  <2>1. n + 1 \in 1 .. n + 1 /\ \A j \in 1 .. n + 1 : ~(j > n + 1)
    BY <1>1
  <2>2. Latest(more, field) = more[n + 1][field]
    BY <1>1, <1>2, <2>1, LatestAt
  <2> QED
    BY <1>1, <1>2, <2>2 DEF more
<1>3. CASE s[field] = NoValue /\ \A i \in 1 .. n : rows[i][field] = NoValue
  <2>1. \A i \in 1 .. n + 1 : more[i][field] = NoValue
    BY <1>1, <1>3
  <2>2. Latest(more, field) = NoValue
    BY <1>1, <2>1, LatestNone
  <2>3. Latest(rows, field) = NoValue
    BY <1>1, <1>3, LatestNone
  <2> QED
    BY <1>3, <2>2, <2>3 DEF more
<1>4. CASE s[field] = NoValue /\ ~\A i \in 1 .. n : rows[i][field] = NoValue
  <2>1. PICK i \in 1 .. n :
          /\ Latest(rows, field) = rows[i][field] /\ rows[i][field] # NoValue
          /\ \A j \in 1 .. n : j > i => rows[j][field] = NoValue
    BY <1>1, <1>4, LatestRow
  <2>2. i \in 1 .. n + 1 /\ more[i][field] = rows[i][field]
    BY <1>1
  <2>3. \A j \in 1 .. n + 1 : j > i => more[j][field] = NoValue
    BY <1>1, <1>4, <2>1
  <2>4. Latest(more, field) = more[i][field]
    BY <1>1, <2>1, <2>2, <2>3, LatestAt
  <2> QED
    BY <1>4, <2>1, <2>2, <2>4 DEF more
<1> QED
  BY <1>2, <1>3, <1>4

\* _prune_risk_profiles keeps the newest snapshots, at most Keep of them.
LEMMA PrunedRows ==
    ASSUME NEW rows \in Seq(Snapshot), Len(rows) >= 1
    PROVE  \E d \in Nat :
             /\ Prune(rows) \in Seq(Snapshot)
             /\ Len(Prune(rows)) \in 1 .. Keep /\ Len(Prune(rows)) + d = Len(rows)
             /\ \A i \in 1 .. Len(Prune(rows)) : Prune(rows)[i] = rows[i + d]
<1> DEFINE n == Len(rows)
           first == Max({1, n - Keep + 1})
<1>1. n \in Nat /\ n >= 1 /\ Keep \in Nat \ {0} /\ \A i \in 1 .. n : rows[i] \in Snapshot
  BY ProfileConstants
<1>2. first \in 1 .. n /\ n - first + 1 \in 1 .. Keep
  BY <1>1, GreatestOfTwo
<1>3. Prune(rows) = SubSeq(rows, first, n)
  BY DEF Prune
<1> HIDE DEF first, n
<1>4. /\ Prune(rows) \in Seq(Snapshot) /\ Len(Prune(rows)) = n - first + 1
      /\ \A i \in 1 .. n - first + 1 : Prune(rows)[i] = rows[first + i - 1]
  <2>1. first \in Int /\ n \in Int /\ first <= n /\ \A i \in first .. n : rows[i] \in Snapshot
    BY <1>1, <1>2
  <2> QED
    BY <1>3, <2>1, SubSeqProperties
<1>5. first - 1 \in Nat /\ n - first + 1 + (first - 1) = n
      /\ \A i \in Nat : first + i - 1 = i + (first - 1)
  BY <1>1, <1>2
<1>6. /\ Len(Prune(rows)) \in 1 .. Keep /\ Len(Prune(rows)) + (first - 1) = n
      /\ \A i \in 1 .. Len(Prune(rows)) : Prune(rows)[i] = rows[i + (first - 1)]
  <2>1. \A i \in 1 .. Len(Prune(rows)) : i \in Nat /\ i \in 1 .. n - first + 1
    BY <1>1, <1>2, <1>4
  <2> QED
    BY <1>2, <1>4, <1>5, <2>1
<1> QED
  BY <1>4, <1>5, <1>6 DEF n

\* The newest n snapshots have no severity.
Placed(rows, n) == \A i \in DOMAIN rows : rows[i].severity # NoValue => i + n <= Len(rows)

\* What a snapshot that is added, with the pruning after it, leaves of each field.
LEMMA AddedSnapshot ==
    ASSUME NEW rows \in Seq(Snapshot), NEW s \in Snapshot
    PROVE  LET new == Prune(Append(rows, s)) IN
           /\ new \in Seq(Snapshot) /\ Len(new) \in 1 .. Keep
           /\ \A field :
                /\ s[field] # NoValue => Latest(new, field) = s[field]
                /\ s[field] = NoValue /\ Latest(rows, field) = NoValue =>
                     Latest(new, field) = NoValue
           /\ \A n, m \in Nat :
                /\ Placed(rows, n)
                /\ m = 0 \/ (s.severity = NoValue /\ m <= n + 1)
                => Placed(new, m)
<1> DEFINE more == Append(rows, s)
           new == Prune(more)
           k == Len(new)
           n == Len(rows)
<1>1. /\ n \in Nat /\ DOMAIN rows = 1 .. n /\ more \in Seq(Snapshot) /\ Len(more) = n + 1
      /\ \A i \in 1 .. n : more[i] = rows[i]
      /\ more[n + 1] = s
  BY AppendProperties
<1> HIDE DEF more
<1>2. PICK d \in Nat :
        /\ new \in Seq(Snapshot) /\ k \in 1 .. Keep /\ k + d = n + 1
        /\ \A i \in 1 .. k : new[i] = more[i + d]
  <2>1. n + 1 >= 1
    BY <1>1
  <2>2. more \in Seq(Snapshot) /\ Len(more) >= 1
    BY <1>1, <2>1
  <2>3. \E d \in Nat :
          /\ Prune(more) \in Seq(Snapshot)
          /\ Len(Prune(more)) \in 1 .. Keep /\ Len(Prune(more)) + d = Len(more)
          /\ \A i \in 1 .. Len(Prune(more)) : Prune(more)[i] = more[i + d]
    BY <2>2, PrunedRows, Zenon
  <2> QED
    BY <1>1, <2>3
<1> HIDE DEF new, n
<1>3. k \in Nat /\ DOMAIN new = 1 .. k /\ k \in 1 .. k
  BY <1>2, ProfileConstants
<1> HIDE DEF k
<1>4. new[k] = s /\ \A i \in 1 .. k : i # k => i + d \in 1 .. n /\ new[i] = rows[i + d]
  <2>1. new[k] = more[n + 1]
    BY <1>1, <1>2, <1>3
  <2>2. ASSUME NEW i \in 1 .. k, i # k
        PROVE  i + d \in 1 .. n
    BY <1>1, <1>2, <1>3, <2>2
  <2>3. ASSUME NEW i \in 1 .. k, i # k
        PROVE  new[i] = rows[i + d]
    BY <1>1, <1>2, <2>2, <2>3
  <2> QED
    BY <1>1, <2>1, <2>2, <2>3
<1>5. ASSUME NEW field, s[field] # NoValue
      PROVE  Latest(new, field) = s[field]
  <2>1. \A j \in 1 .. k : ~(j > k)
    BY <1>3
  <2> QED
    BY <1>3, <1>4, <1>5, <2>1, LatestAt
<1>6. ASSUME NEW field, s[field] = NoValue, Latest(rows, field) = NoValue
      PROVE  Latest(new, field) = NoValue
  <2>1. \A i \in 1 .. n : rows[i][field] = NoValue
    BY <1>1, <1>6, LatestRow
  <2>2. \A i \in 1 .. k : new[i][field] = NoValue
    BY <1>4, <1>6, <2>1
  <2> QED
    BY <1>3, <2>2, LatestNone
<1>7. ASSUME NEW a \in Nat, NEW b \in Nat, Placed(rows, a),
             b = 0 \/ (s.severity = NoValue /\ b <= a + 1)
      PROVE  Placed(new, b)
  <2> SUFFICES ASSUME NEW i \in 1 .. k, new[i].severity # NoValue
               PROVE  i + b <= k
    BY <1>3 DEF Placed, k
  <2>1. CASE b = 0
    BY <1>3, <2>1
  <2>2. CASE b # 0
    <3>1. s.severity = NoValue /\ b <= a + 1
      BY <1>7, <2>2
    <3>2. i # k
      BY <1>4, <3>1
    <3>3. i + d \in 1 .. n /\ rows[i + d].severity # NoValue
      BY <1>4, <3>2
    <3>4. i + d + a <= n
      BY <1>1, <1>7, <3>3 DEF Placed, n
    <3> QED
      BY <1>1, <1>2, <1>3, <1>7, <3>1, <3>4
  <2> QED
    BY <2>1, <2>2
<1> QED
  BY <1>2, <1>5, <1>6, <1>7 DEF new, more, k

\* A snapshot that is added without pruning and has no severity: a recorded
\* reputation or a publication.
LEMMA AppendedSnapshot ==
    ASSUME NEW rows \in Seq(Snapshot), NEW s \in Snapshot, s.severity = NoValue,
           NEW n \in Nat, Placed(rows, n)
    PROVE  Append(rows, s) \in Seq(Snapshot) /\ Len(Append(rows, s)) = Len(rows) + 1
           /\ Placed(Append(rows, s), n + 1) /\ Placed(Append(rows, s), n)
<1> DEFINE k == Len(rows)
           more == Append(rows, s)
<1>1. /\ k \in Nat /\ DOMAIN rows = 1 .. k /\ DOMAIN more = 1 .. k + 1
      /\ more \in Seq(Snapshot) /\ Len(more) = k + 1
      /\ \A i \in 1 .. k : more[i] = rows[i]
      /\ more[k + 1] = s
  BY AppendProperties
<1> HIDE DEF more
<1>2. ASSUME NEW i \in DOMAIN more, more[i].severity # NoValue
      PROVE  i + n + 1 <= k + 1
  <2>1. i \in 1 .. k
    BY <1>1, <1>2
  <2>2. i + n <= k
    BY <1>1, <1>2, <2>1 DEF Placed
  <2> QED
    BY <1>1, <2>1, <2>2
<1>3. Placed(more, n + 1) /\ Placed(more, n)
  BY <1>1, <1>2 DEF Placed
<1> QED
  BY <1>1, <1>3 DEF more

\* The worst of a set of findings is one of their severities.
LEMMA WorstLevel == ASSUME NEW F \in SUBSET Finding PROVE Worst(F) \in Levels
<1> DEFINE S == {Severity[f] : f \in F}
           image == [f \in F |-> Severity[f]]
<1>1. IsFiniteSet(F) /\ S \subseteq Nat
  BY ProfileConstants, FS_Subset
<1>2. image \in Surjection(F, S)
  BY DEF Surjection
<1>3. IsFiniteSet(S)
  BY <1>1, <1>2, FS_Surjection
<1>4. CASE F = {}
  BY <1>4 DEF Worst, Levels, Optional
<1>5. CASE F # {}
  <2>1. S # {}
    BY <1>5
  <2>2. Max(S) \in S
    BY <1>1, <1>3, <2>1, MaxExists
  <2>3. Worst(F) = Max(S)
    BY <1>5 DEF Worst
  <2> QED
    BY <2>2, <2>3 DEF Levels, Optional
<1> QED
  BY <1>4, <1>5

LEMMA CarriedValues ==
    ASSUME NEW rows \in Seq(Snapshot)
    PROVE  Carry(rows) \in Carried /\ \A field \in Rollup : Carry(rows)[field] = Latest(rows, field)
<1>1. Len(rows) \in Nat /\ DOMAIN rows = 1 .. Len(rows)
      /\ \A i \in 1 .. Len(rows) : rows[i] \in Snapshot
  OBVIOUS
<1>2. Latest(rows, "performance") \in Optional(Score)
  BY <1>1, LatestRow DEF Snapshot, Optional
<1>3. Latest(rows, "reputation") \in Optional(Verdict)
  BY <1>1, LatestRow DEF Snapshot, Optional
<1>4. Carry(rows) = [performance |-> Latest(rows, "performance"),
                     reputation |-> Latest(rows, "reputation")]
  BY DEF Carry, Rollup
<1> QED
  BY <1>2, <1>3, <1>4 DEF Carried, Carry

LEMMA RefreshedSnapshot ==
    ASSUME NEW severity \in Levels, NEW carried \in Carried
    PROVE  /\ Refreshed(severity, carried) \in Snapshot
           /\ Refreshed(severity, carried).severity = severity
           /\ \A field \in Rollup : Refreshed(severity, carried)[field] = carried[field]
BY DEF Refreshed, Snapshot, Carried, Rollup

\* refresh_risk_profile keeps what the profile shows of the roll-ups, and shows what
\* was counted.
LEMMA RefreshKeeps ==
    ASSUME NEW rows \in Seq(Snapshot), open \subseteq Finding
    PROVE  /\ Refresh(rows) \in Seq(Snapshot) /\ Len(Refresh(rows)) \in 1 .. Keep
           /\ \A field \in Rollup : Latest(Refresh(rows), field) = Latest(rows, field)
           /\ Worst(open) # NoValue => Latest(Refresh(rows), "severity") = Worst(open)
           /\ \A n, m \in Nat :
                Placed(rows, n) /\ (m = 0 \/ (Worst(open) = NoValue /\ m <= n + 1))
                => Placed(Refresh(rows), m)
<1> DEFINE s == Refreshed(Worst(open), Carry(rows))
<1>1. Worst(open) \in Levels /\ Carry(rows) \in Carried
  BY WorstLevel, CarriedValues
<1>2. /\ s \in Snapshot /\ s.severity = Worst(open)
      /\ \A field \in Rollup : s[field] = Latest(rows, field)
  BY <1>1, CarriedValues, RefreshedSnapshot
<1>3. Refresh(rows) = Prune(Append(rows, s))
  BY DEF Refresh
<1> HIDE DEF s
<1>4. \A field :
        /\ s[field] # NoValue => Latest(Refresh(rows), field) = s[field]
        /\ s[field] = NoValue /\ Latest(rows, field) = NoValue =>
             Latest(Refresh(rows), field) = NoValue
  <2>1. \A field :
          /\ s[field] # NoValue => Latest(Prune(Append(rows, s)), field) = s[field]
          /\ s[field] = NoValue /\ Latest(rows, field) = NoValue =>
               Latest(Prune(Append(rows, s)), field) = NoValue
    BY <1>2, AddedSnapshot, Zenon
  <2> QED
    BY <1>3, <2>1, Zenon
<1>5. Refresh(rows) \in Seq(Snapshot) /\ Len(Refresh(rows)) \in 1 .. Keep
  BY <1>2, <1>3, AddedSnapshot
<1>6. \A n, m \in Nat :
        Placed(rows, n) /\ (m = 0 \/ (s.severity = NoValue /\ m <= n + 1))
        => Placed(Refresh(rows), m)
  <2>1. \A n, m \in Nat :
          /\ Placed(rows, n)
          /\ m = 0 \/ (s.severity = NoValue /\ m <= n + 1)
          => Placed(Prune(Append(rows, s)), m)
    BY <1>2, AddedSnapshot, Zenon
  <2> QED
    BY <1>3, <2>1
<1>7. \A field \in Rollup : Latest(Refresh(rows), field) = Latest(rows, field)
  BY <1>2, <1>4
<1>8. Worst(open) # NoValue => Latest(Refresh(rows), "severity") = Worst(open)
  BY <1>2, <1>4
<1> QED
  BY <1>2, <1>5, <1>6, <1>7, <1>8

\* What a refresh counts: no finding, and one more blank refresh at most, or some.
LEMMA CountsBounds ==
    ASSUME NEW severity \in Levels, blank \in 0 .. Keep, Counts(severity)
    PROVE  /\ counted' = severity /\ counted' \in Levels /\ blank' \in 0 .. Keep
           /\ blank' = 0 \/ (severity = NoValue /\ blank' <= blank + 1)
<1>1. blank' = IF severity = NoValue THEN Min({Keep, blank + 1}) ELSE 0
  BY DEF Counts
<1>2. Keep \in Int /\ Keep >= 1 /\ blank + 1 \in Int
  BY ProfileConstants
<1>3. Min({Keep, blank + 1}) = IF Keep <= blank + 1 THEN Keep ELSE blank + 1
  BY <1>2, LeastOfTwo
<1> QED
  BY <1>1, <1>2, <1>3 DEF Counts

------------------------------------------------------------------------------
(* The history of the profile and the views of it.                         *)

\* What a view has read of the roll-ups is what was recorded last, but for those
\* recorded since and those that were overtaken before.
ViewInv ==
    \A v \in Viewer :
        view[v].stage = "rollups" =>
            \A field \in Rollup \ (overtaken \cup view[v].late) :
                view[v].carried[field] = last[field]

\* A severity is at least blank snapshots old, and one older still when the newest
\* snapshot is that of a publication.
SeverityPlaced ==
    /\ Placed(profile, blank)
    /\ Len(profile) = Keep + 1 => Placed(profile, blank + 1)

SeverityCounted == counted # NoValue => Latest(profile, "severity") = counted

ProfileInv ==
    /\ ProfileTypeOK
    /\ RollupsStand
    /\ ViewInv
    /\ SeverityPlaced
    /\ SeverityCounted

LEMMA InitProfile == ProfileInit => ProfileInv
<1> SUFFICES ASSUME ProfileInit
             PROVE  ProfileInv
  OBVIOUS
<1> USE DEF ProfileInit
<1>1. Keep \in Nat /\ Keep >= 1
  BY ProfileConstants
<1>2. DOMAIN profile = 1 .. 0 /\ Len(profile) = 0 /\ profile \in Seq(Snapshot)
  OBVIOUS
<1>3. \A field : Latest(profile, field) = NoValue
  BY <1>2, LatestNone
<1>4. ProfileTypeOK
  BY <1>1, <1>2 DEF ProfileTypeOK, Carried, NothingCarried, Levels, Optional
<1>5. RollupsStand
  BY <1>3 DEF RollupsStand, Rollup, NothingCarried
<1>6. ViewInv
  BY DEF ViewInv, NoView
<1>7. SeverityPlaced
  BY <1>1, <1>2 DEF SeverityPlaced, Placed
<1>8. SeverityCounted
  BY DEF SeverityCounted
<1> QED
  BY <1>4, <1>5, <1>6, <1>7, <1>8 DEF ProfileInv

\* Recording a value: the views that have read an older one are late for it, and
\* for the other field nothing changes.
LEMMA Recorded ==
    ASSUME ProfileTypeOK, ViewInv, NEW field \in Rollup,
           NEW value, [last EXCEPT ![field] = value] \in Carried, Record(field, value)
    PROVE  /\ view' \in [Viewer -> View \cup {NoView}]
           /\ last' \in Carried /\ last'[field] = value
           /\ \A other \in Rollup \ {field} : last'[other] = last[other]
           /\ overtaken' = overtaken \ {field}
           /\ ViewInv'
<1> USE DEF ProfileTypeOK, Record
<1>1. last' \in Carried /\ last'[field] = value
      /\ \A other \in Rollup \ {field} : last'[other] = last[other]
  BY DEF Carried, Rollup
<1>2. ASSUME NEW v \in Viewer
      PROVE  /\ view'[v] \in View \cup {NoView}
             /\ view'[v].stage = "rollups" =>
                  /\ view[v].stage = "rollups" /\ view'[v].carried = view[v].carried
                  /\ view'[v].late = view[v].late \cup {field}
  <2>1. CASE view[v].stage = "rollups"
    <3>1. view[v] \in [stage: {"rollups"}, severity: Levels, carried: Carried, late: SUBSET Rollup]
      BY <2>1 DEF View, NoView
    <3>2. view'[v] = [view[v] EXCEPT !.late = view[v].late \cup {field}]
      BY <2>1
    <3>3. view'[v] \in [stage: {"rollups"}, severity: Levels, carried: Carried, late: SUBSET Rollup]
          /\ view'[v].carried = view[v].carried /\ view'[v].late = view[v].late \cup {field}
      BY <3>1, <3>2
    <3> QED
      BY <2>1, <3>3 DEF View
  <2>2. CASE view[v].stage # "rollups"
    BY <2>2
  <2> QED
    BY <2>1, <2>2
<1>3. view' \in [Viewer -> View \cup {NoView}]
  BY <1>2
<1>4. ViewInv'
  <2> SUFFICES ASSUME NEW v \in Viewer, view'[v].stage = "rollups",
                      NEW other \in Rollup \ (overtaken' \cup view'[v].late)
               PROVE  view'[v].carried[other] = last'[other]
    BY DEF ViewInv
  <2>1. other \in Rollup \ (overtaken \cup view[v].late) /\ other # field
    BY <1>2
  <2> QED
    BY <1>1, <1>2, <2>1 DEF ViewInv
<1> QED
  BY <1>1, <1>3, <1>4

\* A refresh with nothing else, as the other requests begin or end with.
LEMMA NextRefreshProfile ==
    ASSUME ProfileInv, RefreshProfile
    PROVE  ProfileInv'
<1> USE DEF ProfileInv, ProfileTypeOK, RefreshProfile
<1>1. Worst(open) \in Levels
  BY WorstLevel
<1>2. /\ counted' = Worst(open) /\ counted' \in Levels /\ blank' \in 0 .. Keep
      /\ blank' = 0 \/ (Worst(open) = NoValue /\ blank' <= blank + 1)
  BY <1>1, CountsBounds
<1>3. /\ profile' \in Seq(Snapshot) /\ Len(profile') \in 1 .. Keep
      /\ \A field \in Rollup : Latest(profile', field) = Latest(profile, field)
      /\ Worst(open) # NoValue => Latest(profile', "severity") = Worst(open)
  BY RefreshKeeps
<1>4. Placed(profile', blank')
  <2>1. Placed(profile, blank) /\ blank \in Nat /\ blank' \in Nat
    BY <1>2, ProfileConstants DEF SeverityPlaced
  <2> QED
    BY <1>2, <2>1, RefreshKeeps
<1>5. Keep \in Nat /\ Len(profile') <= Keep /\ Len(profile') # Keep + 1
  BY <1>3, ProfileConstants
<1>6. ProfileTypeOK'
  BY <1>2, <1>3, <1>5
<1>7. RollupsStand'
  BY <1>3 DEF RollupsStand
<1>8. ViewInv'
  BY DEF ViewInv
<1>9. SeverityPlaced' /\ SeverityCounted'
  BY <1>2, <1>3, <1>4, <1>5 DEF SeverityPlaced, SeverityCounted
<1> QED
  BY <1>6, <1>7, <1>8, <1>9

\* The refresh after the reputation's snapshot carries it on.
LEMMA NextReputation ==
    ASSUME ProfileInv, NEW verdict \in Verdict, RecordReputation(verdict)
    PROVE  ProfileInv'
<1> DEFINE s == [Blank EXCEPT !.reputation = verdict]
           rows == Append(profile, s)
<1> USE DEF ProfileInv, ProfileTypeOK, RecordReputation
<1>1. /\ s \in Snapshot /\ s.severity = NoValue /\ s.reputation = verdict
      /\ s.performance = NoValue /\ verdict # NoValue
  BY ProfileConstants DEF Snapshot, Blank, Levels, Optional
<1>2. Worst(open) \in Levels
  BY WorstLevel
<1>3. /\ counted' = Worst(open) /\ counted' \in Levels /\ blank' \in 0 .. Keep
      /\ blank' = 0 \/ (Worst(open) = NoValue /\ blank' <= blank + 1)
  BY <1>2, CountsBounds
<1>4. profile' = Refresh(rows)
  OBVIOUS
<1> HIDE DEF s
<1>5. Placed(profile, blank) /\ blank \in Nat /\ blank' \in Nat
  BY <1>3, ProfileConstants DEF SeverityPlaced
<1>6. rows \in Seq(Snapshot) /\ Placed(rows, blank)
  BY <1>1, <1>5, AppendedSnapshot
<1>7. /\ Latest(rows, "reputation") = verdict
      /\ Latest(rows, "performance") = Latest(profile, "performance")
  BY <1>1, LatestAppended
<1> HIDE DEF rows
<1>8. /\ profile' \in Seq(Snapshot) /\ Len(profile') \in 1 .. Keep
      /\ \A field \in Rollup : Latest(profile', field) = Latest(rows, field)
      /\ Worst(open) # NoValue => Latest(profile', "severity") = Worst(open)
  BY <1>4, <1>6, RefreshKeeps
<1>9. Placed(profile', blank')
  BY <1>3, <1>4, <1>5, <1>6, RefreshKeeps
<1>10. Keep \in Nat /\ Len(profile') <= Keep /\ Len(profile') # Keep + 1
  BY <1>8, ProfileConstants
<1>11. /\ view' \in [Viewer -> View \cup {NoView}] /\ last' \in Carried
       /\ last'["reputation"] = verdict /\ last'["performance"] = last["performance"]
       /\ overtaken' = overtaken \ {"reputation"}
       /\ ViewInv'
  <2>1. "reputation" \in Rollup /\ "performance" \in Rollup \ {"reputation"}
    BY DEF Rollup
  <2>2. [last EXCEPT !["reputation"] = verdict] \in Carried
    BY DEF Carried, Optional
  <2> QED
    BY <2>1, <2>2, Recorded
<1>12. ProfileTypeOK'
  BY <1>3, <1>8, <1>10, <1>11
<1>13. RollupsStand'
  BY <1>7, <1>8, <1>11 DEF RollupsStand, Rollup
<1>14. SeverityPlaced' /\ SeverityCounted'
  BY <1>3, <1>8, <1>9, <1>10 DEF SeverityPlaced, SeverityCounted
<1> QED
  BY <1>11, <1>12, <1>13, <1>14

\* The publication's snapshot is added to a history that was just pruned.
LEMMA NextPublish ==
    ASSUME ProfileInv, NEW score \in Optional(Score), Publish(score)
    PROVE  ProfileInv'
<1> DEFINE s == [Blank EXCEPT !.performance = score]
           rows == Refresh(profile)
<1> USE DEF ProfileInv, ProfileTypeOK, Publish
<1>1. /\ s \in Snapshot /\ s.severity = NoValue /\ s.reputation = NoValue
      /\ s.performance = score
  BY DEF Snapshot, Blank, Levels, Optional
<1>2. Worst(open) \in Levels
  BY WorstLevel
<1>3. /\ counted' = Worst(open) /\ counted' \in Levels /\ blank' \in 0 .. Keep
      /\ blank' = 0 \/ (Worst(open) = NoValue /\ blank' <= blank + 1)
  BY <1>2, CountsBounds
<1>4. profile' = Append(rows, s)
  OBVIOUS
<1> HIDE DEF s
<1>5. Placed(profile, blank) /\ blank \in Nat /\ blank' \in Nat
  BY <1>3, ProfileConstants DEF SeverityPlaced
<1>6. /\ rows \in Seq(Snapshot) /\ Len(rows) \in 1 .. Keep
      /\ \A field \in Rollup : Latest(rows, field) = Latest(profile, field)
      /\ Worst(open) # NoValue => Latest(rows, "severity") = Worst(open)
  BY RefreshKeeps
<1>7. Placed(rows, blank')
  BY <1>3, <1>5, RefreshKeeps
<1> HIDE DEF rows
<1>8. /\ profile' \in Seq(Snapshot) /\ Len(profile') = Len(rows) + 1
      /\ Placed(profile', blank' + 1) /\ Placed(profile', blank')
  BY <1>1, <1>4, <1>5, <1>6, <1>7, AppendedSnapshot
<1>9. /\ Latest(profile', "reputation") = Latest(profile, "reputation")
      /\ score # NoValue => Latest(profile', "performance") = score
      /\ score = NoValue => Latest(profile', "performance") = Latest(profile, "performance")
      /\ Latest(profile', "severity") = Latest(rows, "severity")
  <2>1. "reputation" \in Rollup /\ "performance" \in Rollup
    BY DEF Rollup
  <2>2. \A field : Latest(Append(rows, s), field)
                     = IF s[field] # NoValue THEN s[field] ELSE Latest(rows, field)
    BY <1>1, <1>6, LatestAppended, Zenon
  <2> QED
    BY <1>1, <1>4, <1>6, <2>1, <2>2
<1>10. Keep \in Nat /\ Len(profile') <= Keep + 1
  BY <1>6, <1>8, ProfileConstants
<1>11. /\ view' \in [Viewer -> View \cup {NoView}] /\ last' \in Carried
       /\ last'["reputation"] = last["reputation"]
       /\ score # NoValue => /\ last'["performance"] = score
                             /\ overtaken' = overtaken \ {"performance"}
       /\ score = NoValue => last' = last /\ overtaken' = overtaken
       /\ ViewInv'
  <2>1. CASE score = NoValue
    BY <2>1 DEF ViewInv
  <2>2. CASE score # NoValue
    <3>1. "performance" \in Rollup /\ "reputation" \in Rollup \ {"performance"}
      BY DEF Rollup
    <3>2. [last EXCEPT !["performance"] = score] \in Carried
      BY DEF Carried, Optional
    <3> QED
      BY <2>2, <3>1, <3>2, Recorded
  <2> QED
    BY <2>1, <2>2
<1>12. ProfileTypeOK'
  BY <1>3, <1>8, <1>10, <1>11
<1>13. RollupsStand'
  <2>1. CASE score = NoValue
    BY <1>9, <1>11, <2>1 DEF RollupsStand, Rollup
  <2>2. CASE score # NoValue
    BY <1>9, <1>11, <2>2 DEF RollupsStand, Rollup
  <2> QED
    BY <2>1, <2>2
<1>14. SeverityPlaced' /\ SeverityCounted'
  <2>1. SeverityPlaced'
    BY <1>8 DEF SeverityPlaced
  <2>2. SeverityCounted'
    BY <1>3, <1>6, <1>9 DEF SeverityCounted
  <2> QED
    BY <2>1, <2>2
<1> QED
  BY <1>11, <1>12, <1>13, <1>14

\* A view reads what stands.
LEMMA NextRead ==
    ASSUME ProfileInv, NEW v \in Viewer, ReadFindings(v) \/ ReadRollups(v)
    PROVE  ProfileInv'
<1> USE DEF ProfileInv, ProfileTypeOK
<1>1. CASE ReadFindings(v)
  <2>1. Worst(open) \in Levels
    BY WorstLevel
  <2>2. view' \in [Viewer -> View \cup {NoView}]
    BY <1>1, <2>1 DEF ReadFindings, View
  <2>3. ProfileTypeOK'
    BY <1>1, <2>2 DEF ReadFindings
  <2>4. ViewInv'
    BY <1>1 DEF ReadFindings, ViewInv
  <2> QED
    BY <1>1, <2>3, <2>4
       DEF ReadFindings, RollupsStand, SeverityPlaced, SeverityCounted
<1>2. CASE ReadRollups(v)
  <2> DEFINE r == [stage |-> "rollups", severity |-> view[v].severity,
                   carried |-> Carry(profile), late |-> {}]
  <2>1. view[v].severity \in Levels
    BY <1>2 DEF ReadRollups, View, NoView
  <2>2. Carry(profile) \in Carried
        /\ \A field \in Rollup : Carry(profile)[field] = Latest(profile, field)
    BY CarriedValues
  <2>3. r \in View
    BY <2>1, <2>2 DEF View
  <2>4. view' = [view EXCEPT ![v] = r] /\ UNCHANGED <<open, profile, last, overtaken, counted, blank>>
    BY <1>2 DEF ReadRollups
  <2>5. r.stage = "rollups" /\ r.late = {}
        /\ \A field \in Rollup \ overtaken : r.carried[field] = last[field]
    BY <2>2 DEF RollupsStand
  <2> HIDE DEF r
  <2>6. ProfileTypeOK'
    BY <2>3, <2>4
  <2>7. ViewInv'
    BY <2>4, <2>5 DEF ViewInv
  <2> QED
    BY <2>4, <2>6, <2>7
       DEF RollupsStand, SeverityPlaced, SeverityCounted
<1> QED
  BY <1>1, <1>2

\* A view inserts what it read; what it was late for is overtaken.
LEMMA NextFinishView ==
    ASSUME ProfileInv, NEW v \in Viewer, FinishView(v)
    PROVE  ProfileInv'
<1> DEFINE r == view[v]
           s == Refreshed(r.severity, r.carried)
<1> USE DEF ProfileInv, ProfileTypeOK
<1>1. /\ r.stage = "rollups" /\ profile' = Prune(Append(profile, s)) /\ Counts(r.severity)
      /\ overtaken' = overtaken \cup r.late
      /\ view' = [view EXCEPT ![v] = NoView] /\ UNCHANGED <<open, last>>
  BY DEF FinishView
<1>2. r.severity \in Levels /\ r.carried \in Carried /\ r.late \subseteq Rollup
  BY <1>1 DEF View, NoView
<1>3. /\ s \in Snapshot /\ s.severity = r.severity
      /\ \A field \in Rollup : s[field] = r.carried[field]
  BY <1>2, RefreshedSnapshot
<1>4. /\ counted' = r.severity /\ counted' \in Levels /\ blank' \in 0 .. Keep
      /\ blank' = 0 \/ (r.severity = NoValue /\ blank' <= blank + 1)
  BY <1>1, <1>2, CountsBounds
<1>5. \A field \in Rollup \ overtaken' : r.carried[field] = last[field]
  BY <1>1 DEF ViewInv
<1> HIDE DEF s, r
<1>6. /\ \A field :
           /\ s[field] # NoValue => Latest(Prune(Append(profile, s)), field) = s[field]
           /\ s[field] = NoValue /\ Latest(profile, field) = NoValue =>
                Latest(Prune(Append(profile, s)), field) = NoValue
      /\ Prune(Append(profile, s)) \in Seq(Snapshot)
      /\ Len(Prune(Append(profile, s))) \in 1 .. Keep
      /\ \A n, m \in Nat :
           /\ Placed(profile, n)
           /\ m = 0 \/ (s.severity = NoValue /\ m <= n + 1)
           => Placed(Prune(Append(profile, s)), m)
  <2>1. profile \in Seq(Snapshot)
    OBVIOUS
  <2> QED
    BY <1>3, <2>1, AddedSnapshot, Zenon
<1>7. profile' \in Seq(Snapshot) /\ Len(profile') \in 1 .. Keep
  BY <1>1, <1>6
<1>8. \A field \in Rollup \ overtaken' : Latest(profile', field) = last[field]
  <2> SUFFICES ASSUME NEW field \in Rollup \ overtaken'
               PROVE  Latest(profile', field) = last[field]
    OBVIOUS
  <2>1. s[field] = last[field] /\ field \in Rollup \ overtaken
    BY <1>1, <1>3, <1>5
  <2>2. Latest(profile, field) = last[field]
    BY <2>1 DEF RollupsStand
  <2>3. CASE s[field] = NoValue
    BY <1>1, <1>6, <2>1, <2>2, <2>3
  <2>4. CASE s[field] # NoValue
    BY <1>1, <1>6, <2>1, <2>4
  <2> QED
    BY <2>3, <2>4
<1>9. Placed(profile', blank')
  <2>1. Placed(profile, blank) /\ blank \in Nat /\ blank' \in Nat
    BY <1>4, ProfileConstants DEF SeverityPlaced
  <2> QED
    BY <1>1, <1>3, <1>4, <1>6, <2>1
<1>10. counted' # NoValue => Latest(profile', "severity") = counted'
  BY <1>1, <1>3, <1>4, <1>6
<1>11. Keep \in Nat /\ Len(profile') <= Keep /\ Len(profile') # Keep + 1
  BY <1>7, ProfileConstants
<1>12. ProfileTypeOK'
  BY <1>1, <1>2, <1>4, <1>7, <1>11
<1>13. RollupsStand'
  BY <1>1, <1>8 DEF RollupsStand
<1>14. ViewInv'
  BY <1>1 DEF ViewInv, NoView
<1>15. SeverityPlaced' /\ SeverityCounted'
  BY <1>9, <1>10, <1>11 DEF SeverityPlaced, SeverityCounted
<1> QED
  BY <1>12, <1>13, <1>14, <1>15

LEMMA NextProfile == ProfileInv /\ [ProfileNext]_consolidated => ProfileInv'
<1> SUFFICES ASSUME ProfileInv, [ProfileNext]_consolidated
             PROVE  ProfileInv'
  OBVIOUS
<1>1. ASSUME NEW f \in Finding, FindingChanges(f)
      PROVE  ProfileInv'
  BY <1>1 DEF ProfileInv, FindingChanges, ProfileTypeOK, RollupsStand, ViewInv,
              SeverityPlaced, SeverityCounted
<1>2. CASE UNCHANGED consolidated
  BY <1>2 DEF consolidated, ProfileInv, ProfileTypeOK, RollupsStand, ViewInv,
              SeverityPlaced, SeverityCounted
<1> QED
  BY <1>1, <1>2, NextRefreshProfile, NextReputation, NextPublish, NextRead, NextFinishView
     DEF ProfileNext

LEMMA ProfileShows == ProfileInv => SeverityShown
<1> SUFFICES ASSUME ProfileInv, blank = Keep
             PROVE  Latest(profile, "severity") = NoValue
  BY DEF ProfileInv, SeverityCounted, SeverityShown
<1> DEFINE n == Len(profile)
<1>1. n \in Nat /\ DOMAIN profile = 1 .. n /\ n <= Keep + 1 /\ Keep \in Nat
  BY ProfileConstants DEF ProfileInv, ProfileTypeOK
<1>2. \A i \in 1 .. n : profile[i].severity # NoValue => i + Keep <= n
  <2>1. Placed(profile, Keep)
    BY DEF ProfileInv, SeverityPlaced
  <2> QED
    BY <1>1, <2>1 DEF Placed
<1>3. n = Keep + 1 => \A i \in 1 .. n : profile[i].severity # NoValue => i + Keep + 1 <= n
  <2> SUFFICES ASSUME n = Keep + 1, NEW i \in 1 .. n, profile[i].severity # NoValue
               PROVE  i + Keep + 1 <= n
    OBVIOUS
  <2>1. Placed(profile, blank + 1)
    BY DEF ProfileInv, SeverityPlaced
  <2>2. i + (Keep + 1) <= n
    BY <1>1, <2>1 DEF Placed
  <2> QED
    BY <1>1, <2>2
<1> HIDE DEF n
<1>4. \A i \in 1 .. n : profile[i].severity = NoValue
  BY <1>1, <1>2, <1>3
<1> QED
  BY <1>1, <1>4, LatestNone

\* Snapshots, views in progress and what was recorded keep their types, and there is
\* at most one snapshot more than a refresh leaves (_prune_risk_profiles).
THEOREM ProfileTyped == ProfileSpec => []ProfileTypeOK
<1> QED
  BY InitProfile, NextProfile, PTL DEF ProfileSpec, ProfileInv

\* For any number of viewers and of snapshots kept, pruning never loses the score
\* published last or the reputation found last, unless a late view wrote over it
\* (refresh_risk_profile, latest_risk_profile).
THEOREM ProfileRollupsStand == ProfileSpec => []RollupsStand
<1> QED
  BY InitProfile, NextProfile, PTL DEF ProfileSpec, ProfileInv

\* The severity counted last is shown; when there is none left, an older one is
\* pruned within Keep refreshes.
THEOREM ProfileSeverityShown == ProfileSpec => []SeverityShown
<1> QED
  BY InitProfile, NextProfile, ProfileShows, PTL DEF ProfileSpec
==============================================================================

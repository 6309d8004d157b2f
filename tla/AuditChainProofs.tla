--------------------------- MODULE AuditChainProofs ---------------------------
(***************************************************************************)
(* What holds of the audit chain in every set-up: one writer or many,      *)
(* endpoints that only audit, erasure running or not, and any number of    *)
(* sessions, users and actions.  The argument is OverlapInv: the rows of a *)
(* session nobody has committed past continue the committed chain, so only *)
(* an overtaken session that commits can fork it.  WritersAreNotOvertaken  *)
(* then says which sessions those can be on a database with one writer.    *)
(***************************************************************************)
EXTENDS AuditChain, SequenceTheorems, TLAPS

\* Digests are closed under chain_hash.
LEMMA HashType ==
    ASSUME NEW d \in Digest, NEW b \in Body
    PROVE  ChainHash(d, b) \in Digest
BY DEF ChainHash, Digest

\* The newest row of a chain is its last one.
LEMMA NewestIsLast ==
    ASSUME NEW rows \in Seq(Row), Linked(rows), NEW i \in Newest(rows)
    PROVE  i = Len(rows) /\ i \in DOMAIN rows
<1>1. i \in 1..Len(rows)
  BY DEF Newest
<1>2. rows[Len(rows)].seq <= rows[i].seq
  BY <1>1 DEF Newest
<1>3. rows[i].seq = i - 1 /\ rows[Len(rows)].seq = Len(rows) - 1
  BY <1>1 DEF Linked
<1> QED
  BY <1>1, <1>2, <1>3

\* What audit() adds keeps a chain a chain.
LEMMA AddedRowLinks ==
    ASSUME NEW rows \in Seq(Row), Linked(rows), NEW body \in Body,
           NEW row \in NewRows(rows, body)
    PROVE  Linked(Append(rows, row))
<1>1. CASE rows = <<>>
  <2>1. row = FirstRow(body)
    BY <1>1 DEF NewRows
  <2>2. Append(rows, row) = <<row>>
    BY <1>1
  <2> QED
    BY <2>1, <2>2 DEF FirstRow, Linked
<1>2. CASE rows # <<>>
  <2>1. PICK i \in Newest(rows) : row = NextRow(rows, i, body)
    BY <1>2 DEF NewRows
  <2>2. i = Len(rows) /\ i \in 1..Len(rows)
    BY <2>1, NewestIsLast
  <2>3. ASSUME NEW k \in DOMAIN Append(rows, row)
        PROVE  LET s == Append(rows, row)
               IN  /\ s[k].seq = k - 1
                   /\ s[k].prev = IF k = 1 THEN Genesis ELSE s[k - 1].entry
    <3>1. CASE k = Len(rows) + 1
      <4>1. rows[i].seq = Len(rows) - 1
        BY <2>2 DEF Linked
      <4>2. Append(rows, row)[k] = row /\ Append(rows, row)[k - 1] = rows[i] /\ k # 1
        BY <2>2, <3>1
      <4> QED
        BY <4>1, <4>2, <3>1, <2>1 DEF NextRow
    <3>2. CASE k \in 1..Len(rows)
      <4>1. Append(rows, row)[k] = rows[k]
        BY <3>2
      <4>2. k # 1 => Append(rows, row)[k - 1] = rows[k - 1]
        BY <3>2
      <4> QED
        BY <4>1, <4>2, <3>2 DEF Linked
    <3> QED
      BY <3>1, <3>2
  <2> QED
    BY <2>3 DEF Linked
<1> QED
  BY <1>1, <1>2

\* A walk over the rows of a chain after row m passes every genuine row.
LEMMA LinkedLinks ==
    ASSUME log \in Seq(Row), Linked(log), NEW m \in Nat, NEW isWindow \in BOOLEAN,
           isWindow \/ m = 0, NEW i \in DOMAIN log, i > m, Genuine(log[i])
    PROVE  Links(i, {j \in DOMAIN log : j > m}, isWindow)
<1> DEFINE checked == {j \in DOMAIN log : j > m}
<1>1. \A j \in DOMAIN log : log[j].seq = j - 1 /\ j \in Int
  BY DEF Linked
<1>2. ~Tied(i, checked)
  BY <1>1 DEF Tied
<1>3. Before(i, checked) = (m + 1)..(i - 1)
  <2>1. \A j \in DOMAIN log : log[j].seq < log[i].seq /\ j > m <=> j \in (m + 1)..(i - 1)
    BY <1>1
  <2>2. \A j \in (m + 1)..(i - 1) : j \in DOMAIN log
    OBVIOUS
  <2>3. Before(i, checked) = {j \in DOMAIN log : log[j].seq < log[i].seq /\ j > m}
    BY DEF Before
  <2> QED
    BY <2>1, <2>2, <2>3
<1>4. log[i].entry = ChainHash(log[i].prev, log[i].body)
  BY DEF Genuine
<1>5. CASE i = m + 1
  <2>1. Before(i, checked) = {}
    <3>1. (m + 1)..(i - 1) = {}
      BY <1>5
    <3> QED
      BY <1>3, <3>1
  <2>2. isWindow \/ log[i].prev = Genesis
    BY <1>5 DEF Linked
  <2> QED
    BY <1>2, <1>4, <2>1, <2>2 DEF Links
<1>6. CASE i # m + 1
  <2>1. i - 1 \in Before(i, checked) /\ i # 1
    BY <1>1, <1>3, <1>6
  <2>2. \A k \in Before(i, checked) : log[k].seq <= log[i - 1].seq
    BY <1>1, <1>3, <2>1
  <2>3. Predecessor(i, checked) = i - 1
    <3> DEFINE p == Predecessor(i, checked)
    <3>1. p \in Before(i, checked) /\ log[i - 1].seq <= log[p].seq
      BY <2>1, <2>2 DEF Predecessor
    <3>2. p \in DOMAIN log /\ i - 1 \in DOMAIN log
      BY <2>1, <3>1 DEF Before
    <3> QED
      BY <3>1, <3>2, <1>1, <1>3
  <2>4. log[i].prev = log[i - 1].entry
    BY <2>1 DEF Linked
  <2> QED
    BY <1>2, <1>4, <2>1, <2>3, <2>4 DEF Links
<1> QED
  BY <1>5, <1>6

\* The full walk of audit_verify passes every genuine row of a chain.
LEMMA FullWalkLinks ==
    ASSUME log \in Seq(Row), Linked(log), NEW i \in DOMAIN log, Genuine(log[i])
    PROVE  Links(i, DOMAIN log, FALSE)
<1>1. {j \in DOMAIN log : j > 0} = DOMAIN log /\ i > 0
  <2>1. DOMAIN log = 1..Len(log)
    OBVIOUS
  <2> QED
    BY <2>1
<1>2. Links(i, {j \in DOMAIN log : j > 0}, FALSE)
  BY <1>1, LinkedLinks
<1> QED
  BY <1>1, <1>2

------------------------------------------------------------------------------
\* What audit() adds is a row, also when the rows it reads are no chain.
LEMMA AddedRowType ==
    ASSUME NEW rows \in Seq(Row), NEW body \in Body, NEW row \in NewRows(rows, body)
    PROVE  row \in Row
<1>1. CASE rows = <<>>
  <2>1. row = FirstRow(body)
    BY <1>1 DEF NewRows
  <2>2. Genesis \in Digest
    BY DEF Genesis, Digest
  <2>3. ChainHash(Genesis, body) \in Digest
    BY <2>2, HashType
  <2> QED
    BY <2>1, <2>2, <2>3 DEF FirstRow, Row
<1>2. CASE rows # <<>>
  <2>1. PICK i \in Newest(rows) : row = NextRow(rows, i, body)
    BY <1>2 DEF NewRows
  <2>2. rows[i] \in Row
    BY <2>1 DEF Newest
  <2> QED
    BY <2>1, <2>2, HashType DEF NextRow, Row
<1> QED
  BY <1>1, <1>2

\* Pseudonymising a row leaves a row.
LEMMA PseudonymiseType ==
    ASSUME NEW row \in Row, NEW subject \in Actor
    PROVE  Pseudonymise(row, subject) \in Row
BY DEF Pseudonymise, Row, Body

\* Adding a row keeps the types.
LEMMA AddRowType ==
    ASSUME TypeOK, NEW t \in Session, NEW body \in [actor: Actor, action: Action],
           AddRow(t, body), UNCHANGED <<log, signedOff, overtaken, overlapped>>,
           phase' \in [Session -> {"idle", "clean", "dirty", "audited", "erased"}]
    PROVE  TypeOK'
<1> USE DEF TypeOK
<1>1. body \in Body
  BY DEF Body
<1>2. Visible(t) \in Seq(Row)
  BY DEF Visible
<1>3. PICK row \in NewRows(Visible(t), body) :
         pending' = [pending EXCEPT ![t] = Append(@, row)]
  BY DEF AddRow
<1>4. row \in Row
  BY <1>1, <1>2, <1>3, AddedRowType
<1>5. holder' \in Session \cup {Nobody}
  BY DEF AddRow, TakeLock
<1>6. pending' \in [Session -> Seq(Row)]
  BY <1>3, <1>4
<1>7. log' \in Seq(Row) /\ overtaken' \subseteq Session
  OBVIOUS
<1>8. overlapped' \in BOOLEAN /\ signedOff' \in BOOLEAN
  BY Zenon
<1> QED
  BY <1>5, <1>6, <1>7, <1>8, Zenon

LEMMA InitType == Init => TypeOK
<1> SUFFICES ASSUME Init
             PROVE  TypeOK
  OBVIOUS
<1>1. log \in Seq(Row) /\ pending \in [Session -> Seq(Row)]
  BY EmptySeq DEF Init
<1>2. phase \in [Session -> {"idle", "clean", "dirty", "audited", "erased"}]
  BY DEF Init
<1>3. /\ holder \in Session \cup {Nobody} /\ overtaken \subseteq Session
      /\ signedOff \in BOOLEAN /\ overlapped \in BOOLEAN
  BY Zenon DEF Init
<1> QED
  BY <1>1, <1>2, <1>3, Zenon DEF TypeOK

LEMMA NextType == TypeOK /\ [Next]_vars => TypeOK'
<1> SUFFICES ASSUME TypeOK, [Next]_vars
             PROVE  TypeOK'
  OBVIOUS
<1> USE DEF TypeOK
<1>0. signedOff' = signedOff
  BY DEF Next, vars
<1>1. CASE UNCHANGED vars
  BY <1>1 DEF vars
<1>2. ASSUME NEW t \in Session, Begin(t) \/ Mutate(t)
      PROVE  TypeOK'
  BY <1>0, <1>2 DEF Begin, Mutate
<1>3. ASSUME NEW t \in Session, Audit(t) \/ AuditErasure(t)
      PROVE  TypeOK'
  <2>1. phase' \in [Session -> {"idle", "clean", "dirty", "audited", "erased"}]
    BY <1>3 DEF Audit, AuditErasure
  <2> QED
    BY <1>0, <1>3, <2>1, AddRowType DEF Audit, AuditErasure
<1>4. ASSUME NEW t \in Session, Commit(t)
      PROVE  TypeOK'
  BY <1>0, <1>4 DEF Commit, ReleaseLock
<1>5. ASSUME NEW t \in Session, Close(t)
      PROVE  TypeOK'
  BY <1>0, <1>5 DEF Close, ReleaseLock
<1>6. ASSUME NEW t \in Session, NEW subject \in Actor, Erase(t, subject)
      PROVE  TypeOK'
  <2>1. \A i \in DOMAIN log : log[i] \in Row
    OBVIOUS
  <2>2. \A i \in DOMAIN log : Pseudonymise(log[i], subject) \in Row
    BY <2>1, PseudonymiseType
  <2>3. DOMAIN log = 1..Len(log) /\ Len(log) \in Nat
    OBVIOUS
  <2>4. log' \in Seq(Row)
    BY <1>6, <2>2, <2>3 DEF Erase
  <2> QED
    BY <1>0, <1>6, <2>4 DEF Erase
<1> QED
  BY <1>1, <1>2, <1>3, <1>4, <1>5, <1>6 DEF Next

\* The variables keep their types in every set-up: one writer or many, endpoints
\* that only audit, and erasure running.
THEOREM AuditType == Spec => []TypeOK
BY InitType, NextType, PTL DEF Spec
------------------------------------------------------------------------------
\* What audit() adds carries the hash of its body.
LEMMA AddedRowIsGenuine ==
    ASSUME NEW rows \in Seq(Row), NEW body \in Body, NEW row \in NewRows(rows, body)
    PROVE  Genuine(row)
<1>1. CASE rows = <<>>
  BY <1>1 DEF NewRows, FirstRow, Genuine
<1>2. CASE rows # <<>>
  BY <1>2 DEF NewRows, NextRow, Genuine
<1> QED
  BY <1>1, <1>2

\* Rows behind rows: how long they are together.
LEMMA TogetherLength ==
    ASSUME NEW p \in Seq(Row), NEW q \in Seq(Row)
    PROVE  p \o q \in Seq(Row) /\ Len(p \o q) = Len(p) + Len(q)
OBVIOUS

\* A row added behind the last of them comes behind them all.
LEMMA AddedBehind ==
    ASSUME NEW p \in Seq(Row), NEW q \in Seq(Row), NEW row \in Row
    PROVE  p \o Append(q, row) = Append(p \o q, row)
OBVIOUS

\* A chain is a matter of sequence numbers and hashes: rows that differ only in
\* their bodies are linked alike.
LEMMA LinkedAlike ==
    ASSUME NEW rows \in Seq(Row), NEW others \in Seq(Row), Linked(rows),
           Len(others) = Len(rows),
           \A i \in DOMAIN rows : /\ others[i].seq = rows[i].seq
                                  /\ others[i].prev = rows[i].prev
                                  /\ others[i].entry = rows[i].entry
    PROVE  Linked(others)
<1>1. DOMAIN others = DOMAIN rows /\ DOMAIN rows = 1..Len(rows)
  OBVIOUS
<1>2. ASSUME NEW i \in DOMAIN others
      PROVE  /\ others[i].seq = i - 1
             /\ others[i].prev = IF i = 1 THEN Genesis ELSE others[i - 1].entry
  <2>1. CASE i = 1
    BY <1>1, <2>1 DEF Linked
  <2>2. CASE i # 1
    <3>1. i - 1 \in DOMAIN rows
      BY <1>1, <2>2
    <3> QED
      BY <1>1, <2>2, <3>1 DEF Linked
  <2> QED
    BY <2>1, <2>2
<1> QED
  BY <1>2 DEF Linked

\* Adding a row to session t's own rows keeps the invariant.
LEMMA AddRowOverlap ==
    ASSUME OverlapInv, TypeOK', NEW t \in Session,
           NEW body \in [actor: Actor, action: Action], AddRow(t, body),
           UNCHANGED <<log, signedOff, overtaken, overlapped>>
    PROVE  OverlapInv'
<1> USE DEF OverlapInv, TypeOK
<1>1. body \in Body
  BY DEF Body
<1>2. Visible(t) \in Seq(Row)
  BY DEF Visible
<1>3. PICK row \in NewRows(Visible(t), body) :
         pending' = [pending EXCEPT ![t] = Append(@, row)]
  BY DEF AddRow
<1>4. row \in Row /\ Genuine(row)
  BY <1>1, <1>2, <1>3, AddedRowType, AddedRowIsGenuine
<1>5. pending'[t] = Append(pending[t], row) /\ \A u \in Session \ {t} : pending'[u] = pending[u]
  BY <1>3
<1>6. RowsContinueTheChain'
  <2> SUFFICES ASSUME ~overlapped, NEW u \in Session \ overtaken
               PROVE  Linked(log) /\ Linked(log \o pending'[u])
    BY DEF RowsContinueTheChain
  <2>1. Linked(log) /\ Linked(log \o pending[u])
    BY DEF RowsContinueTheChain
  <2>2. CASE u # t
    BY <1>5, <2>1, <2>2
  <2>3. CASE u = t
    <3>1. log \o Append(pending[t], row) = Append(log \o pending[t], row)
      <4>1. log \in Seq(Row) /\ pending[t] \in Seq(Row)
        OBVIOUS
      <4> QED
        BY <1>4, <4>1, AddedBehind
    <3>2. Linked(Append(log \o pending[t], row))
      BY <1>1, <1>2, <1>3, <2>1, <2>3, AddedRowLinks DEF Visible
    <3> QED
      BY <1>5, <2>1, <2>3, <3>1, <3>2
  <2> QED
    BY <2>2, <2>3
<1>7. RowsAreGenuine'
  <2> SUFFICES ASSUME NEW u \in Session, NEW i \in DOMAIN pending'[u]
               PROVE  Genuine(pending'[u][i])
    BY DEF RowsAreGenuine
  <2>1. CASE u # t
    BY <1>5, <2>1 DEF RowsAreGenuine
  <2>2. CASE u = t
    <3>1. CASE i = Len(pending[t]) + 1
      BY <1>4, <1>5, <2>2, <3>1
    <3>2. CASE i \in 1..Len(pending[t])
      <4>1. pending'[u][i] = pending[t][i] /\ i \in DOMAIN pending[t]
        BY <1>4, <1>5, <2>2, <3>2
      <4> QED
        BY <4>1 DEF RowsAreGenuine
    <3>3. i \in 1..(Len(pending[t]) + 1)
      BY <1>4, <1>5, <2>2
    <3> QED
      BY <3>1, <3>2, <3>3
  <2> QED
    BY <2>1, <2>2
<1> QED
  BY <1>6, <1>7

\* In the initial state the trail is empty.
LEMMA InitOverlap == Init => OverlapInv
<1> SUFFICES ASSUME Init
             PROVE  OverlapInv
  OBVIOUS
<1>1. log = <<>> /\ \A t \in Session : pending[t] = <<>> /\ log \o pending[t] = <<>>
  BY EmptySeq, ConcatEmptySeq DEF Init
<1>2. RowsContinueTheChain
  BY <1>1 DEF RowsContinueTheChain, Linked
<1>3. RowsAreGenuine
  BY <1>1 DEF RowsAreGenuine
<1> QED
  BY <1>2, <1>3, InitType DEF OverlapInv

LEMMA NextOverlap == OverlapInv /\ [Next]_vars => OverlapInv'
<1> SUFFICES ASSUME OverlapInv, [Next]_vars
             PROVE  OverlapInv'
  OBVIOUS
<1>0. TypeOK' /\ signedOff' = signedOff
  BY NextType DEF OverlapInv, Next, vars
<1> USE DEF OverlapInv
<1>1. CASE UNCHANGED vars
  BY <1>0, <1>1 DEF vars, RowsContinueTheChain, RowsAreGenuine
<1>2. ASSUME NEW t \in Session, Begin(t) \/ Mutate(t)
      PROVE  OverlapInv'
  BY <1>0, <1>2 DEF Begin, Mutate, RowsContinueTheChain, RowsAreGenuine
<1>3. ASSUME NEW t \in Session, Audit(t) \/ AuditErasure(t)
      PROVE  OverlapInv'
  BY <1>0, <1>3, AddRowOverlap DEF Audit, AuditErasure
<1>4. ASSUME NEW t \in Session, Commit(t)
      PROVE  OverlapInv'
  <2>1. log' = log \o pending[t] /\ log \in Seq(Row) /\ pending[t] \in Seq(Row)
    BY <1>4 DEF Commit, TypeOK
  <2>2. pending'[t] = <<>> /\ \A u \in Session \ {t} : pending'[u] = pending[u]
    BY <1>4 DEF Commit, TypeOK
  <2>3. RowsContinueTheChain'
    <3> SUFFICES ASSUME ~overlapped'
                 PROVE  Linked(log') /\ \A u \in Session \ overtaken' : Linked(log' \o pending'[u])
      BY DEF RowsContinueTheChain
    <3>1. ~overlapped /\ t \notin overtaken
      BY <1>4 DEF Commit
    <3>2. Linked(log')
      BY <2>1, <3>1 DEF RowsContinueTheChain
    <3>3. \A u \in Session \ overtaken' : pending'[u] = <<>>
      BY <1>4, <2>2 DEF Commit
    <3>4. log' \o <<>> = log'
      BY <2>1, ConcatEmptySeq
    <3> QED
      BY <3>2, <3>3, <3>4
  <2>4. ASSUME NEW i \in DOMAIN log'
        PROVE  Genuine(log'[i]) \/ (signedOff /\ log'[i].body.actor = Erased)
    <3>1. i \in 1..(Len(log) + Len(pending[t]))
      BY <2>1
    <3>2. CASE i <= Len(log)
      <4>1. i \in DOMAIN log /\ log'[i] = log[i]
        BY <2>1, <3>1, <3>2
      <4> QED
        BY <4>1 DEF RowsAreGenuine
    <3>3. CASE i > Len(log)
      <4>1. i - Len(log) \in DOMAIN pending[t] /\ log'[i] = pending[t][i - Len(log)]
        BY <2>1, <3>1, <3>3
      <4> QED
        BY <4>1 DEF RowsAreGenuine
    <3> QED
      BY <2>1, <3>1, <3>2, <3>3
  <2>5. RowsAreGenuine'
    BY <1>0, <2>2, <2>4 DEF RowsAreGenuine
  <2> QED
    BY <1>0, <2>3, <2>5
<1>5. ASSUME NEW t \in Session, Close(t)
      PROVE  OverlapInv'
  <2>1. /\ pending'[t] = <<>> /\ log' = log /\ overlapped' = overlapped
        /\ \A u \in Session \ {t} : pending'[u] = pending[u]
        /\ overtaken' = overtaken \ {t}
    BY <1>5 DEF Close, TypeOK
  <2>2. log' \o <<>> = log
    BY <2>1, ConcatEmptySeq DEF TypeOK
  <2>3. RowsContinueTheChain'
    <3> SUFFICES ASSUME ~overlapped, NEW u \in Session \ overtaken'
                 PROVE  Linked(log) /\ Linked(log' \o pending'[u])
      BY <2>1 DEF RowsContinueTheChain
    <3>1. CASE u = t
      BY <2>1, <2>2, <3>1 DEF RowsContinueTheChain
    <3>2. CASE u # t
      BY <2>1, <3>2 DEF RowsContinueTheChain
    <3> QED
      BY <3>1, <3>2
  <2>4. RowsAreGenuine'
    BY <1>0, <2>1 DEF RowsAreGenuine
  <2> QED
    BY <1>0, <2>3, <2>4
<1>6. ASSUME NEW t \in Session, NEW subject \in Actor, Erase(t, subject)
      PROVE  OverlapInv'
  <2>1. /\ signedOff /\ pending' = pending /\ overtaken' = overtaken
        /\ overlapped' = overlapped
        /\ log' = [i \in DOMAIN log |-> Pseudonymise(log[i], subject)]
    BY <1>6 DEF Erase
  <2>2. log \in Seq(Row) /\ log' \in Seq(Row) /\ \A u \in Session : pending[u] \in Seq(Row)
    BY <1>0 DEF TypeOK
  <2>3. Len(log') = Len(log) /\ DOMAIN log' = DOMAIN log /\ DOMAIN log = 1..Len(log)
    BY <2>1, <2>2
  <2>4. \A i \in DOMAIN log : log[i] \in Row
    BY <2>2
  <2>5. \A i \in DOMAIN log :
          /\ log'[i].seq = log[i].seq
          /\ log'[i].prev = log[i].prev
          /\ log'[i].entry = log[i].entry
          /\ log'[i] = log[i] \/ log'[i].body.actor = Erased
    BY <2>1, <2>4 DEF Pseudonymise, Row, Body
  <2>6. RowsContinueTheChain'
    <3>2. ~overlapped => Linked(log')
      BY <2>2, <2>3, <2>5, LinkedAlike DEF RowsContinueTheChain
    <3> SUFFICES ASSUME ~overlapped, NEW u \in Session \ overtaken
                 PROVE  Linked(log' \o pending[u])
      BY <2>1, <3>2 DEF RowsContinueTheChain
    <3>1. Linked(log \o pending[u])
      BY DEF RowsContinueTheChain
    <3>3. /\ log \o pending[u] \in Seq(Row)
          /\ Len(log \o pending[u]) = Len(log) + Len(pending[u])
      BY <2>2, TogetherLength
    <3>4. /\ log' \o pending[u] \in Seq(Row)
          /\ Len(log' \o pending[u]) = Len(log') + Len(pending[u])
      BY <2>2, TogetherLength
    <3>6. Len(log' \o pending[u]) = Len(log \o pending[u])
      BY <2>3, <3>3, <3>4
    <3>5. ASSUME NEW i \in DOMAIN (log \o pending[u])
          PROVE  LET a == (log \o pending[u])[i]
                     b == (log' \o pending[u])[i]
                 IN  b.seq = a.seq /\ b.prev = a.prev /\ b.entry = a.entry
      <4>1. i \in 1..(Len(log) + Len(pending[u]))
        BY <2>2
      <4>2. CASE i <= Len(log)
        <5>1. i \in DOMAIN log
          BY <2>3, <4>1, <4>2
        <5>2. (log \o pending[u])[i] = log[i] /\ (log' \o pending[u])[i] = log'[i]
          BY <2>2, <2>3, <4>1, <4>2
        <5> QED
          BY <2>5, <5>1, <5>2
      <4>3. CASE i > Len(log)
        <5>1. (log' \o pending[u])[i] = (log \o pending[u])[i]
          BY <2>2, <2>3, <4>1, <4>3
        <5> QED
          BY <5>1
      <4>4. i <= Len(log) \/ i > Len(log)
        BY <2>2, <4>1
      <4> QED
        BY <4>2, <4>3, <4>4
    <3> QED
      BY <3>1, <3>3, <3>4, <3>5, <3>6, LinkedAlike
  <2>7. RowsAreGenuine'
    BY <1>0, <2>1, <2>3, <2>5 DEF RowsAreGenuine
  <2> QED
    BY <1>0, <2>6, <2>7
<1> QED
  BY <1>1, <1>2, <1>3, <1>4, <1>5, <1>6 DEF Next

\* In every set-up the rows of a session nobody has committed past continue the
\* committed chain, and only erasure puts a row out of step with its hash.
THEOREM RowsContinueOneChain == Spec => []OverlapInv
BY InitOverlap, NextOverlap, PTL DEF Spec

------------------------------------------------------------------------------
\* audit_verify reports the committed chain intact, as DB_HARDENING.md tells operators
\* to expect, on any database and whatever endpoints there are, as long as no session
\* has committed rows that others had committed past, and erasure does not run.
THEOREM IntactUnlessOverlapped == Spec => [](~overlapped => ChainIntact)
<1>1. OverlapInv => (~overlapped => ChainIntact)
  <2> SUFFICES ASSUME OverlapInv, ~overlapped, ~signedOff, NEW i \in DOMAIN log
               PROVE  Links(i, DOMAIN log, FALSE)
    BY DEF ChainIntact, FullIntact
  <2> QED
    BY FullWalkLinks DEF OverlapInv, TypeOK, RowsContinueTheChain, RowsAreGenuine
<1>2. QED
  BY <1>1, RowsContinueOneChain, PTL

\* What erasure edits is all that the full walk objects to: the hashes, and with them
\* the links between rows, stay, on any database and whatever endpoints there are.
THEOREM OnlyRewritesBreak == Spec => []BreaksAreRewrites
<1>1. OverlapInv => BreaksAreRewrites
  <2> SUFFICES ASSUME OverlapInv, ~overlapped, NEW i \in DOMAIN log,
                      log[i].body.actor # Erased
               PROVE  Links(i, DOMAIN log, FALSE)
    BY DEF BreaksAreRewrites
  <2> QED
    BY FullWalkLinks DEF OverlapInv, TypeOK, RowsContinueTheChain, RowsAreGenuine
<1>2. QED
  BY <1>1, RowsContinueOneChain, PTL

\* In a chain the row number is the sequence number plus one, so the row count
\* less Window cuts off exactly the older rows.
LEMMA LinkedWindow ==
    ASSUME log \in Seq(Row), Linked(log)
    PROVE  InWindow = {i \in DOMAIN log : i > Len(log) - Window}
<1>1. \A i \in DOMAIN log : log[i].seq = i - 1 /\ i \in 1..Len(log)
  BY DEF Linked
<1>2. Window \in Nat
  BY AuditConstants
<1> QED
  BY <1>1, <1>2 DEF InWindow

\* A chain of genuine rows passes the windowed walk.
LEMMA LinkedIsWindowIntact ==
    ASSUME log \in Seq(Row), Linked(log), \A i \in DOMAIN log : Genuine(log[i])
    PROVE  WindowIntact
<1> DEFINE m == IF Len(log) > Window THEN Len(log) - Window ELSE 0
<1>1. m \in Nat /\ (Len(log) > Window \/ m = 0)
  BY AuditConstants
<1>2. InWindow = {i \in DOMAIN log : i > m}
  BY AuditConstants, LinkedWindow
<1> HIDE DEF m
<1>3. \A i \in {j \in DOMAIN log : j > m} :
        Links(i, {j \in DOMAIN log : j > m}, Len(log) > Window)
  <2> SUFFICES ASSUME NEW i \in DOMAIN log, i > m
               PROVE  Links(i, {j \in DOMAIN log : j > m}, Len(log) > Window)
    OBVIOUS
  <2>1. (Len(log) > Window) \in BOOLEAN
    OBVIOUS
  <2> QED
    BY <1>1, <2>1, LinkedLinks
<1> QED
  BY <1>2, <1>3 DEF WindowIntact

\* The windowed walk of audit_verify looks at exactly the newest Window rows, on any
\* database and whatever endpoints there are, until an overtaken session commits.
THEOREM WindowExact == Spec => []WindowIsNewestRows
<1>1. OverlapInv => WindowIsNewestRows
  <2> SUFFICES ASSUME OverlapInv, ~overlapped
               PROVE  /\ InWindow = {i \in DOMAIN log : i > Len(log) - Window}
                      /\ ~signedOff => WindowIntact
    BY DEF WindowIsNewestRows
  <2>1. log \in Seq(Row) /\ Linked(log)
    BY DEF OverlapInv, TypeOK, RowsContinueTheChain
  <2>2. ~signedOff => \A i \in DOMAIN log : Genuine(log[i])
    BY DEF OverlapInv, RowsAreGenuine
  <2> QED
    BY <2>1, <2>2, LinkedWindow, LinkedIsWindowIntact
<1>2. QED
  BY <1>1, RowsContinueOneChain, PTL

------------------------------------------------------------------------------
(***************************************************************************)
(* Who can be overtaken on a database with one writer.  A session that     *)
(* wrote before its first audit row took the lock with that row and keeps  *)
(* it until it commits or rolls back.                                      *)
(***************************************************************************)
LockInv ==
    /\ TypeOK
    /\ \A t \in Session : phase[t] \in {"idle", "clean"} => pending[t] = <<>>
    /\ \A t \in overtaken : pending[t] # <<>>
    /\ WritersAreNotOvertaken

LEMMA InitLock == Init => LockInv
BY InitType DEF Init, LockInv, WritersAreNotOvertaken

LEMMA AddRowLock ==
    ASSUME LockInv, TypeOK', NEW t \in Session, NEW body \in [actor: Actor, action: Action],
           AddRow(t, body), phase[t] # "idle",
           \A u \in Session : phase'[u] = IF u = t /\ phase[t] = "clean" THEN "audited" ELSE phase[u],
           UNCHANGED overtaken
    PROVE  LockInv'
<1> USE DEF LockInv, TypeOK
<1>1. PICK row \in NewRows(Visible(t), body) :
         pending' = [pending EXCEPT ![t] = Append(@, row)]
  BY DEF AddRow
<1>2. pending'[t] = Append(pending[t], row) /\ \A u \in Session \ {t} : pending'[u] = pending[u]
  BY <1>1
<1>3. pending'[t] # <<>>
  <2>1. Visible(t) \in Seq(Row) /\ body \in Body
    BY DEF Visible, Body
  <2>2. row \in Row
    BY <2>1, <1>1, AddedRowType
  <2>3. Len(pending'[t]) = Len(pending[t]) + 1 /\ Len(pending[t]) \in Nat
    BY <1>2, <2>2
  <2> QED
    BY <2>3, EmptySeq
<1>4. \A u \in Session : phase'[u] \in {"idle", "clean"} => pending'[u] = <<>>
  BY <1>2
<1>5. \A u \in overtaken' : pending'[u] # <<>>
  BY <1>2, <1>3
<1>6. WritersAreNotOvertaken'
  <2> SUFFICES ASSUME SerialWriters, NEW u \in Session, phase'[u] = "dirty", pending'[u] # <<>>
               PROVE  holder' = u /\ u \notin overtaken
    BY DEF WritersAreNotOvertaken
  <2>1. phase[u] = "dirty"
    OBVIOUS
  <2>2. CASE u = t
    <3>1. holder' = t
      BY <2>1, <2>2 DEF AddRow, TakeLock
    <3>2. t \notin overtaken
      BY <2>1, <2>2 DEF WritersAreNotOvertaken
    <3> QED
      BY <2>2, <3>1, <3>2
  <2>3. CASE u # t
    <3>1. holder = u /\ u \notin overtaken
      BY <1>2, <2>1, <2>3 DEF WritersAreNotOvertaken
    <3>2. holder' = holder
      BY <2>3, <3>1, AuditConstants DEF AddRow, TakeLock
    <3> QED
      BY <3>1, <3>2
  <2> QED
    BY <2>2, <2>3
<1> QED
  BY <1>4, <1>5, <1>6

LEMMA NextLock == LockInv /\ [Next]_vars => LockInv'
<1> SUFFICES ASSUME LockInv, [Next]_vars
             PROVE  LockInv'
  OBVIOUS
<1>0. TypeOK'
  BY NextType DEF LockInv
<1> USE DEF LockInv
<1>1. CASE UNCHANGED vars
  BY <1>0, <1>1 DEF vars, WritersAreNotOvertaken
<1>2. ASSUME NEW t \in Session, Begin(t) \/ Mutate(t)
      PROVE  LockInv'
  <2>1. UNCHANGED <<pending, holder, overtaken>> /\ pending[t] = <<>>
    BY <1>2 DEF Begin, Mutate
  <2>2. \A u \in Session \ {t} : phase'[u] = phase[u]
    BY <1>2 DEF Begin, Mutate, TypeOK
  <2> QED
    BY <1>0, <2>1, <2>2 DEF WritersAreNotOvertaken
<1>3. ASSUME NEW t \in Session, Audit(t) \/ AuditErasure(t)
      PROVE  LockInv'
  <2>1. PICK body \in [actor: Actor, action: Action] : AddRow(t, body)
    BY <1>3 DEF Audit, AuditErasure
  <2>2. phase[t] # "idle" /\ UNCHANGED overtaken
    BY <1>3 DEF Audit, AuditErasure
  <2>3. \A u \in Session : phase'[u] = IF u = t /\ phase[t] = "clean" THEN "audited" ELSE phase[u]
    BY <1>3 DEF Audit, AuditErasure, TypeOK
  <2> QED
    BY <1>0, <2>1, <2>2, <2>3, AddRowLock
<1>4. ASSUME NEW t \in Session, Commit(t)
      PROVE  LockInv'
  <2>1. /\ pending'[t] = <<>> /\ phase'[t] = "idle"
        /\ \A u \in Session \ {t} : pending'[u] = pending[u] /\ phase'[u] = phase[u]
        /\ overtaken' = {u \in Session \ {t} : pending[u] # <<>>}
    BY <1>4 DEF Commit, TypeOK
  <2>2. WritersAreNotOvertaken'
    <3> SUFFICES ASSUME SerialWriters, NEW u \in Session, phase'[u] = "dirty", pending'[u] # <<>>
                 PROVE  FALSE
      BY DEF WritersAreNotOvertaken
    <3>1. u # t /\ holder = u
      BY <2>1 DEF WritersAreNotOvertaken
    <3> QED
      BY <1>4, <3>1, AuditConstants DEF Commit
  <2> QED
    BY <1>0, <2>1, <2>2
<1>5. ASSUME NEW t \in Session, Close(t)
      PROVE  LockInv'
  <2>1. /\ pending'[t] = <<>> /\ phase'[t] = "idle" /\ overtaken' = overtaken \ {t}
        /\ \A u \in Session \ {t} : pending'[u] = pending[u] /\ phase'[u] = phase[u]
        /\ \A u \in Session \ {t} : holder = u => holder' = u
    BY <1>5 DEF Close, ReleaseLock, TypeOK
  <2>2. WritersAreNotOvertaken'
    <3> SUFFICES ASSUME SerialWriters, NEW u \in Session, phase'[u] = "dirty", pending'[u] # <<>>
                 PROVE  holder' = u /\ u \notin overtaken'
      BY DEF WritersAreNotOvertaken
    <3>1. u # t
      BY <2>1
    <3>2. holder = u /\ u \notin overtaken
      BY <2>1, <3>1 DEF WritersAreNotOvertaken
    <3> QED
      BY <2>1, <3>1, <3>2
  <2>3. \A u \in Session : phase'[u] \in {"idle", "clean"} => pending'[u] = <<>>
    BY <2>1
  <2>4. \A u \in overtaken' : pending'[u] # <<>>
    BY <2>1 DEF TypeOK
  <2> QED
    BY <1>0, <2>2, <2>3, <2>4
<1>6. ASSUME NEW t \in Session, NEW subject \in Actor, Erase(t, subject)
      PROVE  LockInv'
  <2>1. UNCHANGED <<pending, holder, overtaken>>
    BY <1>6 DEF Erase
  <2>2. phase'[t] = "erased" /\ \A u \in Session \ {t} : phase'[u] = phase[u]
    BY <1>6 DEF Erase, TypeOK
  <2> QED
    BY <1>0, <2>1, <2>2 DEF WritersAreNotOvertaken
<1> QED
  BY <1>1, <1>2, <1>3, <1>4, <1>5, <1>6 DEF Next

\* On a database with one writer nobody commits past an endpoint that wrote before
\* it audited, also when audit-only endpoints and erasures run beside it.
THEOREM WritersHoldTheLock == Spec => []WritersAreNotOvertaken
<1>1. LockInv => WritersAreNotOvertaken
  BY DEF LockInv
<1>2. QED
  BY <1>1, InitLock, NextLock, PTL DEF Spec

==============================================================================

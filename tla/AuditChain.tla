------------------------------ MODULE AuditChain ------------------------------
(***************************************************************************)
(* The persisted, hash-chained audit trail: the table audit_log, the       *)
(* audit() helper every mutating endpoint calls inside its own database    *)
(* session, the verification endpoint, and the erasure procedure that also *)
(* writes to the table.                                                    *)
(*                                                                         *)
(* Endpoints run on a pool of threads, each with a SQLAlchemy session of   *)
(* its own.  audit() reads the newest row, computes the next one and adds  *)
(* it to the session; nothing is visible to other sessions before the      *)
(* endpoint commits.  Whether two endpoints can read the same newest row   *)
(* depends on the database (SQLite has one writer, Postgres many) and on   *)
(* whether the endpoint wrote something before it audited, because         *)
(* autoflush then takes the SQLite write lock before the read.             *)
(***************************************************************************)
EXTENDS Integers, Sequences

CONSTANTS
    Session,            \* database sessions, one per request being served
    Actor,              \* users named in audit rows
    Action,             \* action names with their detail payload
    Erased,             \* the pseudonym erasure puts in place of a user
    Nobody,             \* no session holds the SQLite write lock
    SerialWriters,      \* TRUE: SQLite's single writer; FALSE: Postgres
    AuditOnlyHandlers,  \* TRUE: some endpoints audit with nothing else to write
    Window,             \* rows the windowed verification looks at
    MaxRows             \* bound: audit rows written in a behaviour

ASSUME AuditConstants ==
    /\ SerialWriters \in BOOLEAN
    /\ AuditOnlyHandlers \in BOOLEAN
    /\ Window \in Nat
    /\ MaxRows \in Nat
    /\ Nobody \notin Session
    /\ Erased \notin Actor

VARIABLES
    log,      \* committed rows of audit_log, in commit order
    pending,  \* rows each session has added and not committed
    phase,    \* how far each session's endpoint is
    holder,   \* the session that holds the SQLite write lock
    signedOff, \* LEGAL_REVIEW: the personal-data map is signed, so erasure runs
    overtaken, \* history: sessions with audit rows that others have committed past
    overlapped \* history: an overtaken session has committed

vars == <<log, pending, phase, holder, signedOff, overtaken, overlapped>>

\* What chain_hash covers besides the previous hash.  The sequence number is
\* not part of it.
Body == [actor: Actor \cup {Erased}, action: Action]

\* SHA-256 over the previous hash and the body, taken to be collision-free: a
\* digest is the sequence of the bodies hashed into it, and "genesis" is <<>>.
Genesis == <<>>
ChainHash(prev, body) == Append(prev, body)
Digest == Seq(Body)

Row == [seq: Nat, body: Body, prev: Digest, entry: Digest]

TypeOK ==
    /\ log \in Seq(Row)
    /\ pending \in [Session -> Seq(Row)]
    /\ phase \in [Session -> {"idle", "clean", "dirty", "audited", "erased"}]
    /\ holder \in Session \cup {Nobody}
    /\ signedOff \in BOOLEAN
    /\ overtaken \subseteq Session
    /\ overlapped \in BOOLEAN

Init ==
    /\ log = <<>>
    /\ pending = [t \in Session |-> <<>>]
    /\ phase = [t \in Session |-> "idle"]
    /\ holder = Nobody
    /\ signedOff \in BOOLEAN
    /\ overtaken = {}
    /\ overlapped = FALSE

------------------------------------------------------------------------------
\* What a query of session t sees: committed rows, and its own flushed ones
\* (CommittedOnly: without autoflush).
CommittedOnly(t) == log
Visible(t) == log \o pending[t]

\* The rows ORDER BY seq DESC may return first.
Newest(rows) ==
    {i \in DOMAIN rows : \A j \in DOMAIN rows : rows[j].seq <= rows[i].seq}

\* The row audit() builds on top of row i of rows, or the first row
\* (SkippingNextRow and NumberedFromBelow number it one off).
SkippingNextRow(rows, i, body) ==
    [seq |-> rows[i].seq + 2, body |-> body, prev |-> rows[i].entry,
     entry |-> ChainHash(rows[i].entry, body)]
NextRow(rows, i, body) ==
    [seq |-> rows[i].seq + 1, body |-> body, prev |-> rows[i].entry,
     entry |-> ChainHash(rows[i].entry, body)]
NumberedFromBelow(body) ==
    [seq |-> -1, body |-> body, prev |-> Genesis, entry |-> ChainHash(Genesis, body)]
FirstRow(body) ==
    [seq |-> 0, body |-> body, prev |-> Genesis, entry |-> ChainHash(Genesis, body)]

NewRows(rows, body) ==
    IF rows = <<>> THEN {FirstRow(body)}
                   ELSE {NextRow(rows, i, body) : i \in Newest(rows)}

\* A flush of session t that has something to write takes the SQLite write lock,
\* and waits while another session holds it.
TakeLock(t) ==
    IF SerialWriters THEN holder \in {t, Nobody} /\ holder' = t
                     ELSE UNCHANGED holder

ReleaseLock(t) == holder' = IF holder = t THEN Nobody ELSE holder

------------------------------------------------------------------------------
\* A request arrives and gets a session from db().
Begin(t) ==
    /\ phase[t] = "idle"
    /\ phase' = [phase EXCEPT ![t] = "clean"]
    /\ UNCHANGED <<log, pending, holder, overtaken, overlapped>>

\* The endpoint adds or changes mapped objects; nothing reaches the database yet.
Mutate(t) ==
    /\ phase[t] = "clean"
    /\ phase' = [phase EXCEPT ![t] = "dirty"]
    /\ UNCHANGED <<log, pending, holder, overtaken, overlapped>>

\* audit(): autoflush what the session has, read the newest row, add the next.
AddRow(t, body) ==
    /\ Len(log) + Len(pending[t]) < MaxRows
    /\ IF phase[t] = "dirty" \/ pending[t] # <<>>
         THEN TakeLock(t) ELSE UNCHANGED holder
    /\ \E row \in NewRows(Visible(t), body) :
         pending' = [pending EXCEPT ![t] = Append(@, row)]

\* An endpoint that had nothing to write before its first audit row is "audited".
Audit(t) ==
    /\ \/ phase[t] = "dirty"
       \/ phase[t] \in {"clean", "audited"} /\ AuditOnlyHandlers
    /\ phase' = [phase EXCEPT ![t] = IF @ = "clean" THEN "audited" ELSE @]
    /\ \E body \in [actor: Actor, action: Action] : AddRow(t, body)
    /\ UNCHANGED <<log, overtaken, overlapped>>

\* The endpoint commits: the flush takes the write lock, the rows become visible.
Commit(t) ==
    /\ phase[t] # "idle"
    /\ pending[t] # <<>>
    /\ SerialWriters => holder \in {t, Nobody}
    /\ log' = log \o pending[t]
    /\ pending' = [pending EXCEPT ![t] = <<>>]
    /\ phase' = [phase EXCEPT ![t] = "idle"]
    /\ ReleaseLock(t)
    /\ overtaken' = {u \in Session \ {t} : pending[u] # <<>>}
    /\ overlapped' = (overlapped \/ t \in overtaken)

\* The endpoint ends without a commit: it raised, timed out on the lock, or the
\* process died.  The session rolls back.
Close(t) ==
    /\ phase[t] # "idle"
    /\ pending' = [pending EXCEPT ![t] = <<>>]
    /\ phase' = [phase EXCEPT ![t] = "idle"]
    /\ ReleaseLock(t)
    /\ overtaken' = overtaken \ {t}
    /\ UNCHANGED <<log, overlapped>>

\* execute_erasure: UPDATE audit_log SET actor = token WHERE actor = subject, and
\* commit.  The stored hashes are left as they were (RehashingPseudonymise brings
\* the row's own hash up to date).
RehashingPseudonymise(row, subject) ==
    IF row.body.actor = subject
      THEN [row EXCEPT !.body.actor = Erased,
                       !.entry = ChainHash(row.prev, [row.body EXCEPT !.actor = Erased])]
      ELSE row
Pseudonymise(row, subject) ==
    IF row.body.actor = subject THEN [row EXCEPT !.body.actor = Erased] ELSE row

Erase(t, subject) ==
    /\ signedOff
    /\ phase[t] = "clean"
    /\ pending[t] = <<>>
    /\ SerialWriters => holder = Nobody
    /\ log' = [i \in DOMAIN log |-> Pseudonymise(log[i], subject)]
    /\ phase' = [phase EXCEPT ![t] = "erased"]
    /\ UNCHANGED <<pending, holder, overtaken, overlapped>>

\* The correction entry, in a second transaction whose failure is swallowed.
AuditErasure(t) ==
    /\ phase[t] = "erased"
    /\ pending[t] = <<>>
    /\ \E body \in [actor: Actor, action: Action] : AddRow(t, body)
    /\ UNCHANGED <<log, phase, overtaken, overlapped>>

\* LEGAL_REVIEW is a constant of the code: a deployment has it or not.
Next ==
    /\ \E t \in Session :
          \/ Begin(t) \/ Mutate(t) \/ Audit(t) \/ Commit(t) \/ Close(t)
          \/ \E subject \in Actor : Erase(t, subject)
          \/ AuditErasure(t)
    /\ UNCHANGED signedOff

Spec == Init /\ [][Next]_vars

------------------------------------------------------------------------------
(***************************************************************************)
(* audit_verify walks the rows it selected in seq order and compares each  *)
(* with the one before.  Two rows with one seq never pass, in either order *)
(* the database returns them: the second does not name the first.          *)
(***************************************************************************)
Before(i, checked) == {j \in checked : log[j].seq < log[i].seq}
Tied(i, checked) == \E j \in checked \ {i} : log[j].seq = log[i].seq
Predecessor(i, checked) ==
    CHOOSE j \in Before(i, checked) :
        \A k \in Before(i, checked) : log[k].seq <= log[j].seq

\* A full walk expects "genesis" before the first row; a window starts from the
\* prev_hash its first row claims.
Links(i, checked, isWindow) ==
    /\ ~Tied(i, checked)
    /\ log[i].entry = ChainHash(log[i].prev, log[i].body)
    /\ IF Before(i, checked) = {}
         THEN isWindow \/ log[i].prev = Genesis
         ELSE log[i].prev = log[Predecessor(i, checked)].entry

FullIntact == \A i \in DOMAIN log : Links(i, DOMAIN log, FALSE)

\* The window: rows whose seq is at least the row count minus Window.
InWindow ==
    IF Len(log) > Window
      THEN {i \in DOMAIN log : log[i].seq >= Len(log) - Window}
      ELSE DOMAIN log

WindowIntact ==
    \A i \in InWindow : Links(i, InWindow, Len(log) > Window)

------------------------------------------------------------------------------
(***************************************************************************)
(* Properties.                                                             *)
(***************************************************************************)

\* As long as erasure is not signed off, the full walk of /audit/verify reports the
\* committed chain intact, whatever endpoints commit, roll back or wait in between.
\* DB_HARDENING.md line 118 tells operators to expect this after every upgrade.
ChainIntact == ~signedOff => FullIntact

\* Whoever commits, and with erasure running or not, the windowed walk looks at the
\* newest Window rows: the row count and the stored sequence numbers, which it
\* subtracts from one another, agree.  Without erasure it finds nothing wrong.
\* Excepted: a session whose rows others had committed past has itself committed.
WindowIsNewestRows ==
    ~overlapped =>
        /\ InWindow = {i \in DOMAIN log : i > Len(log) - Window}
        /\ ~signedOff => WindowIntact

\* The half of the promise of privacy.py:19-22 that the code keeps.  Erasure edits
\* the actor of committed rows, so the full walk stops at them; but no hash is
\* touched, so it stops at no other row, neither at the row that follows an edited
\* one nor at the correction entry or rows written meanwhile.  Same exception.
BreaksAreRewrites ==
    ~overlapped =>
        \A i \in DOMAIN log :
            Links(i, DOMAIN log, FALSE) \/ log[i].body.actor = Erased

(***************************************************************************)
(* The invariant behind them, in every set-up.  The rows of a session that *)
(* was not overtaken continue the committed chain.  On SQLite a session    *)
(* whose endpoint wrote before it audited holds the write lock from its    *)
(* first audit row on, so nobody commits past it; an endpoint that only    *)
(* audits, the correction entry of erasure and every endpoint on Postgres  *)
(* can be overtaken.                                                       *)
(***************************************************************************)
Genuine(row) == row.entry = ChainHash(row.prev, row.body)

Linked(rows) ==
    \A i \in DOMAIN rows :
        /\ rows[i].seq = i - 1
        /\ rows[i].prev = IF i = 1 THEN Genesis ELSE rows[i - 1].entry

RowsContinueTheChain ==
    ~overlapped =>
        /\ Linked(log)
        /\ \A t \in Session \ overtaken : Linked(log \o pending[t])

RowsAreGenuine ==
    /\ \A i \in DOMAIN log :
          Genuine(log[i]) \/ (signedOff /\ log[i].body.actor = Erased)
    /\ \A t \in Session : \A i \in DOMAIN pending[t] : Genuine(pending[t][i])

OverlapInv == TypeOK /\ RowsContinueTheChain /\ RowsAreGenuine

\* On a database with one writer nobody commits past a session that wrote before it
\* audited, whatever audit-only endpoints and erasures run beside it: of the mutating
\* endpoints, only those can fork the chain that audit before they write.
WritersAreNotOvertaken ==
    SerialWriters =>
        \A t \in Session :
            phase[t] = "dirty" /\ pending[t] # <<>> => holder = t /\ t \notin overtaken

==============================================================================

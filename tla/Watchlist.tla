------------------------------- MODULE Watchlist -------------------------------
(***************************************************************************)
(* The supplier watchlist of app/features/domain/watchlist_service.py for  *)
(* one vendor: the sweep that proposes candidates, the decisions on them,  *)
(* and the entries they and people make.  It runs next to the engine of    *)
(* module Criticality, which sets the vendor flag a criterion looks at.    *)
(*                                                                         *)
(* A sweep reads the criteria and the vendor, then the active entries,     *)
(* then the pending candidates, in queries that take no lock, and commits  *)
(* once.  A decision loads its candidate and commits later.                *)
(***************************************************************************)
EXTENDS Criticality, Sequences, Functions

CONSTANTS
    Desk,          \* sessions that serve the watchlist
    Criterion,     \* criteria a machine evaluates
    StressFlag,    \* those that ask for a critical supplier under stress
    MaxEntries,    \* bound: entries made in a behaviour
    MaxCandidates  \* bound: candidates proposed in a behaviour

ASSUME WatchlistConstants ==
    /\ IsFiniteSet(Desk)
    /\ IsFiniteSet(Criterion) /\ StressFlag \subseteq Criterion
    /\ MaxEntries \in Nat /\ MaxCandidates \in Nat

VARIABLES
    enabled,     \* criteria that are enabled
    evidence,    \* criteria the records now give evidence for
    entries,     \* supplier_watchlist_entries, in order of creation
    candidates,  \* watchlist_candidates, in order of creation
    blind,       \* history: candidates whose sweep could not see an equal one
    sitting      \* what the request of each desk has read

deskVars == <<enabled, evidence, entries, candidates, blind, sitting>>

Entry == [criterion: Criterion, status: {"Active", "Cleared", "deleted"},
          candidate: 0..MaxCandidates]
Candidate == [criterion: Criterion, status: {"pending", "approved", "rejected"}]

NoSitting == [op |-> "none"]
SweepStages == {"read", "active", "pending"}
Sweep ==
    [op: SweepStages, criteria: SUBSET Criterion, critical: BOOLEAN, since: SUBSET Criterion,
     active: SUBSET Criterion, pending: SUBSET Criterion, crossed: SUBSET Criterion]

WatchTypeOK ==
    /\ enabled \subseteq Criterion /\ evidence \subseteq Criterion
    /\ entries \in Seq(Entry) /\ Len(entries) <= MaxEntries
    /\ candidates \in Seq(Candidate) /\ Len(candidates) <= MaxCandidates
    /\ blind \subseteq 1..MaxCandidates
    /\ sitting \in [Desk -> {NoSitting} \cup Sweep
                            \cup [op: {"decide"}, candidate: 1..MaxCandidates,
                                  approve: BOOLEAN]]

WatchInit ==
    /\ Init
    /\ enabled = Criterion
    /\ evidence \in SUBSET Criterion
    /\ entries = <<>> /\ candidates = <<>> /\ blind = {}
    /\ sitting = [d \in Desk |-> NoSitting]

------------------------------------------------------------------------------
ActiveNow == {entries[i].criterion : i \in {k \in DOMAIN entries : entries[k].status = "Active"}}
\* (EverProposed counts candidates that were decided, too.)
EverProposed == {candidates[i].criterion : i \in DOMAIN candidates}
PendingNow ==
    {candidates[i].criterion : i \in {k \in DOMAIN candidates : candidates[k].status = "pending"}}

\* Evidence for a criterion, with the vendor flag a sweep has read.
Evident(critical) == {c \in evidence : c \in StressFlag => critical}

Sits(d, what) == sitting' = [sitting EXCEPT ![d] = what]
Leaves(d) == Sits(d, NoSitting)

Sweeping == {d \in Desk : sitting[d].op \in SweepStages}

\* History: a person has dealt with criterion c while sweeps are under way.
Settled(c) ==
    [d \in Desk |-> IF d \in Sweeping THEN [sitting[d] EXCEPT !.since = @ \ {c}]
                                      ELSE sitting[d]]

\* run_sweep reads the enabled criteria and the vendor, flag included.
StartSweep(d) ==
    /\ sitting[d] = NoSitting
    /\ Sits(d, [op |-> "read", criteria |-> enabled, critical |-> isCritical,
                since |-> Evident(isCritical), active |-> {}, pending |-> {}, crossed |-> {}])
    /\ UNCHANGED <<enabled, evidence, entries, candidates, blind>>

ReadActive(d) ==
    /\ sitting[d].op = "read"
    /\ Sits(d, [sitting[d] EXCEPT !.op = "active", !.active = ActiveNow])
    /\ UNCHANGED <<enabled, evidence, entries, candidates, blind>>

ReadPending(d) ==
    /\ sitting[d].op = "active"
    /\ Sits(d, [sitting[d] EXCEPT !.op = "pending", !.pending = PendingNow])
    /\ UNCHANGED <<enabled, evidence, entries, candidates, blind>>

\* What the sweep has reason to propose (Undeduped: without a look at the
\* candidates that are pending).
Undeduped(s) == (s.criteria \cap Evident(s.critical)) \ s.active
Proposed(s) == (s.criteria \cap Evident(s.critical)) \ (s.active \cup s.pending)

\* History: candidates for new have come up behind the back of the sweeps that have
\* read the pending ones.
Crossed(new) ==
    [d \in Desk |-> IF sitting[d].op = "pending" THEN [sitting[d] EXCEPT !.crossed = @ \cup new]
                                                 ELSE sitting[d]]

\* Its candidates are numbered and committed in one transaction.
CommitSweep(d) ==
    /\ sitting[d].op = "pending"
    /\ LET new == Proposed(sitting[d]) IN
       /\ Len(candidates) + Cardinality(new) <= MaxCandidates
       /\ \E order \in Bijection(1..Cardinality(new), new) :
            candidates' = candidates \o
                [i \in DOMAIN order |-> [criterion |-> order[i], status |-> "pending"]]
       /\ blind' = blind \cup {k \in DOMAIN candidates' \ DOMAIN candidates :
                                  candidates'[k].criterion \in sitting[d].crossed}
       /\ sitting' = [Crossed(new) EXCEPT ![d] = NoSitting]
    /\ UNCHANGED <<enabled, evidence, entries>>

\* Two sweeps may give their first candidates the same number; the later one then
\* fails on the unique column, and nothing of it is stored.
FailSweep(d) ==
    /\ sitting[d].op = "pending"
    /\ sitting[d].crossed # {} /\ Proposed(sitting[d]) # {}
    /\ Leaves(d)
    /\ UNCHANGED <<enabled, evidence, entries, candidates, blind>>

\* decide_candidate: a candidate that is not pending is refused.
ReadCandidate(d, i, approve) ==
    /\ sitting[d] = NoSitting
    /\ candidates[i].status = "pending"
    /\ Sits(d, [op |-> "decide", candidate |-> i, approve |-> approve])
    /\ UNCHANGED <<enabled, evidence, entries, candidates, blind>>

\* What a decision is stored as (RawVerdict: the word the request carries).
RawVerdict(approve) == IF approve THEN "approve" ELSE "reject"
Verdict(approve) == IF approve THEN "approved" ELSE "rejected"

NewEntry(c, from) == [criterion |-> c, status |-> "Active", candidate |-> from]

\* A decision that commits the status before it adds the entry, and may stop there.
SplitDecide(d) ==
    /\ sitting[d].op = "decide"
    /\ LET i == sitting[d].candidate IN
       /\ candidates' = [candidates EXCEPT ![i].status = Verdict(sitting[d].approve)]
       /\ sitting' = [Settled(candidates[i].criterion) EXCEPT ![d] = NoSitting]
    /\ UNCHANGED <<enabled, evidence, entries, blind>>
\* The status and, on approval, the entry: add_entry commits both.  The status is
\* not looked at again.
Decide(d) ==
    /\ sitting[d].op = "decide"
    /\ LET i == sitting[d].candidate
           c == candidates[i].criterion
       IN  /\ candidates' = [candidates EXCEPT ![i].status = Verdict(sitting[d].approve)]
           /\ IF sitting[d].approve
                THEN Len(entries) < MaxEntries /\ entries' = Append(entries, NewEntry(c, i))
                ELSE UNCHANGED entries
           /\ sitting' = [Settled(c) EXCEPT ![d] = NoSitting]
    /\ UNCHANGED <<enabled, evidence, blind>>

\* The entry endpoints: add by hand, clear, make active again, delete.
AddEntry(d, c) ==
    /\ sitting[d] = NoSitting
    /\ Len(entries) < MaxEntries
    /\ entries' = Append(entries, NewEntry(c, 0))
    /\ UNCHANGED <<enabled, evidence, candidates, blind, sitting>>

UpdateEntry(d, i, status) ==
    /\ sitting[d] = NoSitting
    /\ entries[i].status \notin {status, "deleted"}
    /\ entries' = [entries EXCEPT ![i].status = status]
    /\ sitting' = IF status = "Active" THEN sitting ELSE Settled(entries[i].criterion)
    /\ UNCHANGED <<enabled, evidence, candidates, blind>>

\* Criteria are switched on and off, and the vendor's records change.
Switch(d, c) ==
    /\ sitting[d] = NoSitting
    /\ enabled' = IF c \in enabled THEN enabled \ {c} ELSE enabled \cup {c}
    /\ UNCHANGED <<evidence, entries, candidates, blind, sitting>>

\* Evidence that comes or goes during a sweep may or may not be seen by it.
RecordsChange(c) ==
    /\ evidence' = IF c \in evidence THEN evidence \ {c} ELSE evidence \cup {c}
    /\ sitting' = [d \in Desk |-> IF d \in Sweeping
                       THEN [sitting[d] EXCEPT !.since = @ \cap evidence'] ELSE sitting[d]]
    /\ UNCHANGED <<enabled, entries, candidates, blind>>

DeskNext ==
    \/ \E d \in Desk :
          \/ StartSweep(d) \/ ReadActive(d) \/ ReadPending(d)
          \/ CommitSweep(d) \/ FailSweep(d)
          \/ \E i \in DOMAIN candidates, approve \in BOOLEAN : ReadCandidate(d, i, approve)
          \/ Decide(d)
          \/ \E c \in Criterion : AddEntry(d, c) \/ Switch(d, c)
          \/ \E i \in DOMAIN entries, status \in {"Active", "Cleared", "deleted"} :
                UpdateEntry(d, i, status)
    \/ \E c \in Criterion : RecordsChange(c)

\* The sweeps under way lose the evidence a changed flag takes away.
Redesignated ==
    /\ sitting' = [d \in Desk |-> IF d \in Sweeping
                       THEN [sitting[d] EXCEPT !.since = @ \cap Evident(isCritical')]
                       ELSE sitting[d]]
    /\ UNCHANGED <<enabled, evidence, entries, candidates, blind>>

WatchNext ==
    \/ Next /\ Redesignated
    \/ DeskNext /\ UNCHANGED vars

WatchSpec == WatchInit /\ [][WatchNext]_<<vars, deskVars>>

------------------------------------------------------------------------------
(***************************************************************************)
(* Properties.                                                             *)
(***************************************************************************)

\* An approved candidate is on the watchlist or was taken off it by somebody,
\* whichever decisions overlapped.
ApprovedHasEntry ==
    \A i \in DOMAIN candidates :
        candidates[i].status = "approved" => \E k \in DOMAIN entries : entries[k].candidate = i

\* A sweep leaves nothing out: an enabled criterion there was evidence for all the
\* time, the vendor flag included, is active or pending when the sweep commits,
\* unless somebody has dealt with it meanwhile.
Covered(c) ==
    \/ \E i \in DOMAIN entries : entries[i].criterion = c /\ entries[i].status = "Active"
    \/ \E i \in DOMAIN candidates :
          candidates[i].criterion = c /\ candidates[i].status = "pending"
SweepMissesNothing ==
    [][\A d \in Desk : CommitSweep(d) =>
          \A c \in sitting[d].criteria \cap sitting[d].since : Covered(c)']_<<vars, deskVars>>

\* A criterion has a second pending candidate only where sweeps crossed: the later
\* one was committed by a sweep that had read the pending candidates before the
\* sweep of the other committed its own.
RepeatsAreCrossings ==
    \A i, k \in DOMAIN candidates :
        candidates[i].status = "pending" /\ candidates[k].status = "pending"
        /\ candidates[i].criterion = candidates[k].criterion /\ i < k => k \in blind
==============================================================================

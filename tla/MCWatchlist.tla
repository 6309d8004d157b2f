------------------------------ MODULE MCWatchlist ------------------------------
(* Small instances of Watchlist, and of the criticality engine it runs with, *)
(* for TLC.                                                                 *)
EXTENDS Watchlist, TLC

Lowest == {[customer_impact |-> 1, downtime_tolerance |-> 1,
            alternative_availability |-> 1, substitution_complexity |-> 1]}

Symmetry == Permutations(Desk) \cup Permutations(Session)

Busy == {t \in Session : request[t] # Idle}

\* The contract register and the overlaps of two requests are explored while the
\* watchlist is as it was at first.  What the watchlist does is explored without
\* contracts or scored engagements, next to one override or screening at a time,
\* or to none while two sweeps overlap.
Untouched ==
    /\ enabled = Criterion /\ evidence = {} /\ entries = <<>> /\ candidates = <<>>
    /\ sitting = [d \in Desk |-> NoSitting]
Apart ==
    \/ Untouched
    \/ /\ Contracts = {}
       /\ \A e \in Engagement : inputs[e] = NoAnswers /\ engSays[e] = None
       /\ \A t \in Busy : request[t].op \in {"override", "screen"}
       /\ Cardinality(Busy) <= 1 /\ Cardinality(Busy) + Cardinality(Sweeping) <= 2
==============================================================================

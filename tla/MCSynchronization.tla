-------------------------- MODULE MCSynchronization --------------------------
(* Instances of Synchronization for TLC. Two values of a 5m candle, kept apart *)
(* by the aggregate; one of a 15m candle, which nothing is derived from.       *)
EXTENDS Synchronization, TLC

CONSTANTS v1, v2, w1, v11, v12, v21, v22

MCValues == 5 :> {v1, v2} @@ 15 :> {w1}
MCAggregate == <<v1, v1>> :> v11 @@ <<v1, v2>> :> v12 @@ <<v2, v1>> :> v21 @@ <<v2, v2>> :> v22
\* Pages in which at most one candle differs from the others.
MCReadings(tf, times) ==
    {v \in [times -> MCValues[tf]] :
        \E x \in MCValues[tf] : Cardinality({t \in times : v[t] # x}) <= 1}
\* The two 5m values are interchangeable together with their aggregates.
Swap == v1 :> v2 @@ v2 :> v1 @@ v11 :> v22 @@ v22 :> v11 @@ v12 :> v21 @@ v21 :> v12
Symmetry == Permutations(Ingesters) \cup Permutations(Syncers) \cup {Swap}
=============================================================================

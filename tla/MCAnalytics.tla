---------------------------- MODULE MCAnalytics ----------------------------
EXTENDS Analytics, TLC

CONSTANTS u1, u2, u3

(* Four days, two months, and weeks that straddle them. *)
MCCalendar ==
    [g \in Granularities |->
        [t \in Times |-> CASE g = "day" -> t
                           [] g = "week" -> t \div 2
                           [] g = "month" -> (t - 1) \div 2]]

Symmetry == Permutations({u1, u2, u3})
=============================================================================

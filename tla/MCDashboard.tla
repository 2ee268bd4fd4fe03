---------------------------- MODULE MCDashboard ----------------------------
(* A small browser for TLC. *)
EXTENDS Dashboard, TLC

\* Every mutation that a screen offers is of a hook, and of one only.
ASSUME OffersAssumption ==
    \A screens \in {DashboardScreens, NextScreens} : \A s \in DOMAIN screens :
        \A m \in screens[s].offers :
            Cardinality({hook \in Hooks : m \in DOMAIN hook}) = 1

CONSTANTS Ann, Bob, t1
Symmetry == Permutations(Users)
=============================================================================

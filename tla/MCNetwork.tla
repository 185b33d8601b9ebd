----------------------------- MODULE MCNetwork -----------------------------
(* An instance of Network for TLC. *)
EXTENDS Network, TLC

CONSTANTS m1, m2, b1, b2, b3, p1, p2

\* Two launches of one machine and one of another
Launched == b1 :> m1 @@ b2 :> m1 @@ b3 :> m2

UnitNames == [m \in Machines |-> m]
Prefixes  == [m \in Machines |-> m]

\* All modes; the POST_CMD of m1 is one command, that of m2 is four on one line.
AllModes == m1 :> <<"macvtap", "tap">> @@ m2 :> <<"sriov", "ovs">>

Symmetry == Permutations(Pids) \cup Permutations({b1, b2})

VARIABLE present  \* the launches that take place: those of m1, or that of m2 again and again

MCInit == NetInit /\ present \in {{b1, b2}, {b3}}

MCNext ==
    /\ NetNext
    /\ \A b \in Boots \ present : boot'[b] = boot[b]
    /\ UNCHANGED present

MCSpec == MCInit /\ [][MCNext]_<<netVars, present>>
=============================================================================

------------------------------ MODULE MCAdmin ------------------------------
(* Instances of Lifecycle and of Admin for TLC. *)
EXTENDS Admin, TLC

CONSTANTS m1, b1, b2, p1, p2

\* Two launches of one machine
OneMachine == b1 :> m1 @@ b2 :> m1

UnitNames == [m \in Machines |-> m]

SeqOfOne == <<m1>>

\* The launches of one machine differ as little as the pids do.
Symmetry == Permutations(Pids) \cup Permutations(Boots)

VARIABLE used  \* the scripts that are used beside the launches

\* What the scripts that are not used would have changed
Unused ==
    /\ "shutdown-running" \notin used => sd'[1] = 0
    /\ "autostart" \notin used => auto' = 0
    /\ "pause" \notin used => frozen' = {}
    /\ "boot.config" \notin used => cfg' = <<>>

MCInit ==
    /\ AdminInit
    /\ used \in {{"shutdown-running"}, {"autostart", "boot.config"}, {"pause"}}

MCNext == AdminNext /\ Unused /\ UNCHANGED used

MCSpec == MCInit /\ [][MCNext]_<<adminVars, used>>

\* FairSpec with the other scripts at rest.
LaunchesInit == AdminInit /\ used = {}
LaunchesNext == Next /\ UNCHANGED <<scripts, history, used>>
LaunchesSpec == LaunchesInit /\ [][LaunchesNext]_<<adminVars, used>> /\ Fairness
=============================================================================

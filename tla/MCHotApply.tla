----------------------------- MODULE MCHotApply -----------------------------
(* HotApply with settings that differ in each of their parts. *)
EXTENDS HotApply

Sets == {[rack |-> "r1", cap |-> 1, ports |-> "p1"],
         [rack |-> "r1", cap |-> 1, ports |-> "p2"],
         [rack |-> "r1", cap |-> 5, ports |-> "p1"],
         [rack |-> "r1", cap |-> 2, ports |-> "p1"],
         [rack |-> "r2", cap |-> 1, ports |-> "p1"]}
=============================================================================

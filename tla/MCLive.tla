------------------------------- MODULE MCLive -------------------------------
(***************************************************************************)
(* The values that MCLive.cfg gives to the constants of Loops: two servers *)
(* and boards with a cpu serial and without one; both have a machine-id.   *)
(***************************************************************************)
EXTENDS Loops

TwoServers == {"dev", "prod"}
TheirHosts == [u \in TwoServers |-> u]
CpuAndMachine == {"a", "m"}
TwoBoards ==
    {[s \in {"env", "cpu", "tree", "machine"} |->
        CASE s = "cpu" -> a [] s = "machine" -> "m" [] OTHER -> "none"] : a \in {"a", "none"}}
OneEnvelope == {"e1"}
=============================================================================

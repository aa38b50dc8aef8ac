---------------------------- MODULE DispenseOnce ----------------------------
(***************************************************************************)
(* What dispensing promises, without ledger, server or crashes: one        *)
(* command at a time is dispensed, no command is begun twice, its stages   *)
(* are poured one by one and no more than there are, and once a command    *)
(* has been left it is never taken up again.                               *)
(***************************************************************************)
EXTENDS Naturals

CONSTANTS Cmd, NStages, NoCmd

VARIABLES active,  \* the command being dispensed
          begun,   \* the commands that ever were
          poured   \* completed stages of each

onceVars == <<active, begun, poured>>

Init ==
    /\ active = NoCmd
    /\ begun = {}
    /\ poured = [c \in Cmd |-> 0]

Begin(c) ==
    /\ active = NoCmd
    /\ c \notin begun
    /\ active' = c
    /\ begun' = begun \cup {c}
    /\ UNCHANGED poured

Pour(c) ==
    /\ active = c
    /\ poured[c] < NStages
    /\ poured' = [poured EXCEPT ![c] = @ + 1]
    /\ UNCHANGED <<active, begun>>

\* Completed, failed or interrupted.
Leave ==
    /\ active # NoCmd
    /\ active' = NoCmd
    /\ UNCHANGED <<begun, poured>>

Next == (\E c \in Cmd : Begin(c) \/ Pour(c)) \/ Leave

Spec == Init /\ [][Next]_onceVars
=============================================================================

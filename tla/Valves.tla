------------------------------- MODULE Valves -------------------------------
(***************************************************************************)
(* The base valves: steps of a stage that pour for a time or switch a      *)
(* valve on until a timer closes it, the emergency stop and the shutdown   *)
(* that close them, and a process that dies with a valve open.  One lock   *)
(* serialises them; a timer that has expired waits for it like the rest,   *)
(* and cancelling it then comes too late.                                  *)
(***************************************************************************)
EXTENDS Naturals, FiniteSets

CONSTANTS
    Bases,    \* wired valves
    Unwired,  \* a base without a pin
    Workers,  \* threads that run valve steps
    MaxSteps, \* bound: valve steps
    MaxKills, \* bound: kills of the process
    Nobody

VARIABLES
    relay,   \* valves that are open
    lock,    \* who holds the lock
    doing,   \* per thread: its call, and the valve it is for
    armed,   \* the timer that runs for an open latch
    expired, \* timers that have fired and wait for the lock
    stop,    \* the emergency stop: "off", "closing", "on"
    up,      \* is the process running?
    steps, kills

vars == <<relay, lock, doing, armed, expired, stop, up, steps, kills>>
Timers == 1 .. MaxSteps
Rest == [op |-> "rest", base |-> Nobody]

Init ==
    /\ relay = {} /\ lock = Nobody
    /\ doing = [w \in Workers |-> Rest]
    /\ armed = Nobody /\ expired = {}
    /\ stop = "off" /\ up = TRUE
    /\ steps = 0 /\ kills = 0

\* A valve step of a stage.  A base without a pin is refused, and so is a time
\* that is not positive or too long.
Step(w) ==
    /\ up /\ doing[w] = Rest /\ stop = "off"
    /\ steps < MaxSteps /\ steps' = steps + 1
    /\ \E op \in {"pour", "latch", "close"}, b \in Bases \cup {Unwired} :
          doing' = [doing EXCEPT ![w] = IF op # "close" /\ b = Unwired THEN Rest
                                        ELSE [op |-> op, base |-> b]]
    /\ UNCHANGED <<relay, lock, armed, expired, stop, up, kills>>

\* _close_all_unlocked, then the valve is switched on.
OnlyThis(b) == {b}

\* dispense_volume: under the lock, the timer is cancelled, all valves are
\* closed, this one opens.
Pour(w) ==
    /\ doing[w].op = "pour" /\ lock = Nobody
    /\ lock' = w /\ armed' = Nobody
    /\ relay' = OnlyThis(doing[w].base)
    /\ doing' = [doing EXCEPT ![w].op = "pouring"]
    /\ UNCHANGED <<expired, stop, up, steps, kills>>

\* The time is over: closed, whatever happened.
Poured(w) ==
    /\ doing[w].op = "pouring"
    /\ lock' = Nobody
    /\ relay' = relay \ {doing[w].base}
    /\ doing' = [doing EXCEPT ![w] = Rest]
    /\ UNCHANGED <<armed, expired, stop, up, steps, kills>>

\* threading.Timer(sec, close_all).
NewTimer == steps

\* open_latch returns with the valve open and a timer running.
Latch(w) ==
    /\ doing[w].op = "latch" /\ lock = Nobody
    /\ relay' = OnlyThis(doing[w].base)
    /\ armed' = NewTimer
    /\ doing' = [doing EXCEPT ![w] = Rest]
    /\ UNCHANGED <<lock, expired, stop, up, steps, kills>>

\* Mutant: closing does not wait for the lock.
AtOnce == TRUE

\* with self._lock.
LockFree == lock = Nobody

\* close_all.
CloseAll ==
    /\ LockFree
    /\ relay' = {} /\ armed' = Nobody

\* The switch is turned off.
Close(w) ==
    /\ doing[w].op = "close" /\ CloseAll
    /\ doing' = [doing EXCEPT ![w] = Rest]
    /\ UNCHANGED <<lock, expired, stop, up, steps, kills>>

\* A timer fires: from here on nothing can cancel it.
Expire ==
    /\ up /\ armed \notin expired \cup {Nobody}
    /\ expired' = expired \cup {armed}
    /\ UNCHANGED <<relay, lock, doing, armed, stop, up, steps, kills>>

\* Its close_all gets the lock; it closes whatever is open by then.
TimerCloses ==
    \E t \in expired :
        /\ CloseAll
        /\ expired' = expired \ {t}
        /\ UNCHANGED <<lock, doing, stop, up, steps, kills>>

\* _trigger_estop: no stage begins any more, and all valves are closed.
EmergencyStop ==
    /\ up /\ stop = "off" /\ stop' = "closing"
    /\ UNCHANGED <<relay, lock, doing, armed, expired, up, steps, kills>>

StopCloses ==
    /\ stop = "closing" /\ CloseAll /\ stop' = "on"
    /\ UNCHANGED <<lock, doing, expired, up, steps, kills>>

Release ==
    /\ up /\ stop = "on" /\ stop' = "off"
    /\ UNCHANGED <<relay, lock, doing, armed, expired, up, steps, kills>>

\* The process dies; the pins keep their level.
Kill ==
    /\ up /\ kills < MaxKills
    /\ up' = FALSE /\ kills' = kills + 1
    /\ lock' = Nobody /\ armed' = Nobody /\ expired' = {}
    /\ doing' = [w \in Workers |-> Rest] /\ stop' = "off"
    /\ UNCHANGED <<relay, steps>>

\* Mutant: the valves are left as they are.
AsTheyWere == relay

\* boot(): the pins are claimed closed, and close_all.
AtBoot == {}

\* The process is started again, and closes the valves before its first job.
Boot ==
    /\ ~up /\ up' = TRUE
    /\ relay' = AtBoot
    /\ UNCHANGED <<lock, doing, armed, expired, stop, steps, kills>>

Next ==
    \/ \E w \in Workers : Step(w) \/ Pour(w) \/ Poured(w) \/ Latch(w) \/ Close(w)
    \/ Expire \/ TimerCloses \/ EmergencyStop \/ StopCloses \/ Release
    \/ Kill \/ Boot

Spec == Init /\ [][Next]_vars

-----------------------------------------------------------------------------
(* Properties.                                                             *)

\* One cup, one valve: never two valves open, and never one that nobody will
\* close - no pour is under way, no timer runs or is about to close it - unless
\* the process is dead.
NoValveForgotten ==
    /\ Cardinality(relay) <= 1
    /\ up /\ relay # {} => lock # Nobody \/ armed # Nobody \/ expired # {}

\* While a step pours, its valve is open, and no other step, timer or stop
\* closes it before its time.
PourIsWhole ==
    \A w \in Workers : doing[w].op = "pouring" => lock = w /\ relay = {doing[w].base}
=============================================================================

------------------------------- MODULE Parts -------------------------------
(***************************************************************************)
(* Parts of the daemon that share no state, side by side: a behaviour is   *)
(* about one of them, chosen in its first state, and the others do not     *)
(* move.  The dispensing core over a failing disk is the module itself;    *)
(* the others are instances.  Only safety is stated here.                  *)
(***************************************************************************)
EXTENDS Dispense, Integers

CONSTANTS
    Parts, \* of "core", "pair", "ledger", "spill", "valves", "recipe"
    Nobody,
    \* Motion
    NPumps, Aspirations, OutPort, AirPort, Kinds, Retries, Noise, MaxNoise, MaxStops,
    \* LedgerFile
    Key, Junk, MaxLines,
    \* TraceSpill
    MaxRecords, BufferCap, MaxSpans, Slack, ShipMax, MaxBad,
    \* Valves
    Bases, Unwired, Workers, MaxSteps, MaxKills,
    \* Recipe
    Inputs, Tunings, PumpMap, ValvePorts, Liquids, LiquidsKnown, Strict

ASSUME PartsAssumption ==
    /\ Nobody \notin Workers \cup Nat \cup {"sender", "main"}
    /\ NPumps \in Nat \ {0}
    /\ {MaxRecords, BufferCap, MaxSpans, Slack, ShipMax, MaxBad} \subseteq Nat
    /\ \A tuning \in Tunings : \A key \in DOMAIN tuning : tuning[key] \in Int

VARIABLES
    part,
    \* Motion
    pump, inited, latch, th, main, homing, motion, asked, seen, halt, stops, noise, pushed, hit,
    \* LedgerFile
    lines, open, tmp, keys, logHandle,
    \* TraceSpill
    logged, buffer, carry, spill, end, count, lost, trimmed, flusher, drain, sent, cut, glued, died, bad,
    \* Valves
    relay, lock, doing, armed, expired, stop, up, steps, kills,
    \* Recipe
    job, result

motionVars == <<pump, inited, latch, th, main, homing, motion, asked, seen, halt, stops, noise, pushed, hit>>
logVars == <<lines, open, tmp, keys, logHandle>>
spillVars == <<logged, buffer, carry, spill, end, count, lost, trimmed, flusher, drain, sent, cut, glued,
               died, bad>>
valveVars == <<relay, lock, doing, armed, expired, stop, up, steps, kills>>
recipeVars == <<job, result>>
partsVars == <<part, vars, motionVars, logVars, spillVars, valveVars, recipeVars>>

-----------------------------------------------------------------------------
(* The instances; constants and variables go by their own names, but for    *)
(* those that two parts have.                                              *)

M == INSTANCE Motion WITH job <- motion, poured <- pushed
F == INSTANCE LedgerFile WITH Cmd <- Key, index <- keys, handle <- logHandle
S == INSTANCE TraceSpill WITH file <- spill
V == INSTANCE Valves
R == INSTANCE Recipe

\* What json.loads cannot parse is no record.
ASSUME JunkAssumption == Junk \notin F!Line

\* The steps of a job have indices of their own (recipe_resolver.py:286).
ASSUME RecipeAssumption ==
    /\ ValvePorts \in Nat
    /\ \A p \in DOMAIN PumpMap : PumpMap[p] \in [stroke : Nat \ {0}, capacity : Nat \ {0}]
    /\ Inputs \subseteq Seq(R!Step)
    /\ \A input \in Inputs : \A i, j \in DOMAIN input : i # j => input[i].idx # input[j].idx

-----------------------------------------------------------------------------
(* Side by side.                                                           *)

PartsInit ==
    /\ part \in Parts
    /\ Init /\ M!Init /\ F!Init /\ S!Init /\ V!Init
    /\ IF part = "recipe" THEN R!Init ELSE job = [kind |-> "none"] /\ result = R!None

PartsNext ==
    \/ /\ part = "core" /\ Next
       /\ UNCHANGED <<part, motionVars, logVars, spillVars, valveVars, recipeVars>>
    \/ /\ part = "pair" /\ M!Next
       /\ UNCHANGED <<part, vars, logVars, spillVars, valveVars, recipeVars>>
    \/ /\ part = "ledger" /\ F!Next
       /\ UNCHANGED <<part, vars, motionVars, spillVars, valveVars, recipeVars>>
    \/ /\ part = "spill" /\ S!Next
       /\ UNCHANGED <<part, vars, motionVars, logVars, valveVars, recipeVars>>
    \/ /\ part = "valves" /\ V!Next
       /\ UNCHANGED <<part, vars, motionVars, logVars, spillVars, recipeVars>>
    \/ /\ part = "recipe" /\ R!Next
       /\ UNCHANGED <<part, vars, motionVars, logVars, spillVars, valveVars>>

PartsSpec == PartsInit /\ [][PartsNext]_partsVars

-----------------------------------------------------------------------------
(* Their properties, under the names of this module; those of the core are *)
(* its own.                                                                *)

\* When a stage is over, no thread of it is still at its pump.
NobodyLeftDriving == M!NobodyLeftDriving

\* Replaying the file gives what the abstract ledger says a restart finds.
ImplementsLedger == F!ImplementsLedger

\* No record leaves the buffer and the spill unsent and uncounted.
NothingLostInSilence == S!NothingLostInSilence

\* At most one valve is open, and somebody is about to close it.
NoValveForgotten == V!NoValveForgotten

\* A valve is open as long as its step pours, whoever closes others.
PourIsWhole == V!PourIsWhole

\* An accepted job is run as it was sent.
RunsAsSent == R!RunsAsSent

\* A batch draws its whole volume, and no more than the stroke.
BatchesKeepTheirVolume == R!BatchesKeepTheirVolume

\* Tuned speeds are ones the model accepts together.
TunedWithinBounds == R!TunedWithinBounds
=============================================================================

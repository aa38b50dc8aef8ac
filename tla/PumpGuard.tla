------------------------------ MODULE PumpGuard ------------------------------
(***************************************************************************)
(* What the program knows of pumps and syringes: the table of models, the  *)
(* conversion of a volume to steps, and the speeds an operator may tune.   *)
(***************************************************************************)
EXTENDS Naturals, Integers

Models == {"sy01b", "tecan_xcalibur"}

\* PUMP_PRESETS: the stroke is fixed, the speeds are upper limits.
Preset == [sy01b |-> [stroke |-> 12000, start |-> 1000, top |-> 6000, cutoff |-> 5400, slope |-> 20],
           tecan_xcalibur |-> [stroke |-> 3000, start |-> 1000, top |-> 6000, cutoff |-> 2700, slope |-> 20]]

\* SyringeSpec.steps_for_volume_ul: rounded half up.
StepsFor(spec, volume) == (2 * spec.stroke * volume + spec.capacity) \div (2 * spec.capacity)

-----------------------------------------------------------------------------
(* Tuning.  A tuning gives some of the four keys a value.                  *)

Keys == {"start", "top", "cutoff", "slope"}

\* PUMP_MANUAL_RANGES
ManualLow == [sy01b |-> [start |-> 1, top |-> 1, cutoff |-> 1, slope |-> 1],
              tecan_xcalibur |-> [start |-> 50, top |-> 5, cutoff |-> 50, slope |-> 1]]
ManualHigh == [sy01b |-> [start |-> 1000, top |-> 6000, cutoff |-> 5400, slope |-> 20],
               tecan_xcalibur |-> [start |-> 1000, top |-> 6000, cutoff |-> 2700, slope |-> 20]]

\* PUMP_TUNING_DEFAULTS
Default == [sy01b |-> [start |-> 900, top |-> 4000, cutoff |-> 900, slope |-> 14],
            tecan_xcalibur |-> [start |-> 900, top |-> 1400, cutoff |-> 900, slope |-> 7]]

Least(a, b) == IF a < b THEN a ELSE b
Most(a, b) == IF a < b THEN b ELSE a

\* Mutant: the range of the manual as it stands.
LowOfManual(model, key) == ManualLow[model][key]

\* _bounds_of: the top speed may not be below what start and cutoff need.
Low(model, key) ==
    LET m == ManualLow[model]
    IN  IF key = "top" THEN Most(m.top, Most(m.start, m.cutoff)) ELSE m[key]
High(model, key) == Least(ManualHigh[model][key], Preset[model][key])

\* clamp_pump_tuning, over the default of the model.
Clamped(model, tuning, key) ==
    IF key \in DOMAIN tuning
    THEN Least(High(model, key), Most(Low(model, key), tuning[key]))
    ELSE Default[model][key]

\* apply_pump_tuning: start <= top first, then cutoff between the two.
Tuned(model, tuning) ==
    LET top == Clamped(model, tuning, "top")
        start == Least(Clamped(model, tuning, "start"), top)
    IN  [start |-> start, top |-> top,
         cutoff |-> Most(Least(Clamped(model, tuning, "cutoff"), top), start),
         slope |-> Clamped(model, tuning, "slope")]
=============================================================================

------------------------------- MODULE Recipe -------------------------------
(***************************************************************************)
(* What a job becomes before the first pump moves: the steps the server    *)
(* sent are put in order, each passes the gate of its kind, volumes become *)
(* steps of the plunger, and stages are cut.  One bad step refuses the     *)
(* whole job.                                                              *)
(*                                                                         *)
(* Volumes are microlitres, speeds and labels are left out.  Port 0 stands *)
(* for a port that was not sent; one above ValvePorts stands for every     *)
(* number that is no port.                                                 *)
(***************************************************************************)
EXTENDS PumpGuard, Sequences, FiniteSets, SequencesExt

CONSTANTS
    Inputs,     \* jobs to resolve: sequences of steps in the order they came
    Tunings,    \* tunings to apply: functions of some of Keys
    PumpMap,    \* pump_map: for each mapped address, [stroke, capacity]
    ValvePorts, \* valve_port_count
    Liquids,    \* port_liquids: for each pump and port "alcohol", "other" or "empty"
    LiquidsKnown, \* port_liquids is not None
    Strict      \* alcohol_strict

VARIABLES
    job,    \* the job, or the tuning, this behaviour is about
    result  \* what was made of it

vars == <<job, result>>

-----------------------------------------------------------------------------
(* Steps and their gates.                                                  *)

ValveBases == {"normal", "sour"}

\* RecipeStep and BatchAspiration, as from_json leaves them.
Step == [kind : {"op", "valve", "batch", "syringe"}, idx : Int, stage : Seq(Int), pump : Int,
         op : STRING, base : STRING, open : Seq(Int), volume : Int, in : Int, out : Int,
         asps : Seq([volume : Int, in : Int, liquid : STRING])]

\* effective_stage: a step of the old contract is a stage of its own.
Stage(s) == IF s.stage = <<>> THEN s.idx ELSE s.stage[1]

IsPort(p) == p \in 1 .. ValvePorts

\* An acc is what the loop keeps: the first reason to refuse, the steps it
\* resolved, and for the gates the pumps of each stage and the valve steps.
Begin == [reason |-> "none", steps |-> <<>>, pumps |-> {}, valves |-> 0]
Refused(acc, reason) == [acc EXCEPT !.reason = reason]
Resolved(acc, s, draws, ports) ==
    [acc EXCEPT !.steps = Append(@, [idx |-> s.idx, stage |-> Stage(s), kind |-> s.kind,
                                     pump |-> s.pump, draws |-> draws, ports |-> ports])]

\* One move per pump and stage.
Claimed(acc, s) == <<Stage(s), s.pump>> \in acc.pumps
Claim(acc, s) == [acc EXCEPT !.pumps = @ \cup {<<Stage(s), s.pump>>}]

\* An op of a pump that is not there is left out; a port that is none is
\* taken as not sent.
Op(acc, s, map) ==
    LET sent(p) == IF IsPort(p) THEN {p} ELSE {}
        ports == IF s.op = "initialize" THEN sent(s.in) \cup sent(s.out)
                 ELSE IF s.op = "estop" THEN {} ELSE sent(s.in)
    IN  IF s.op \notin {"estop", "initialize", "plungerFull", "plungerHome"}
        THEN Refused(acc, "unknown_engine_op")
        ELSE IF s.pump \notin DOMAIN map THEN acc
        ELSE IF Claimed(acc, s) THEN Refused(acc, "duplicate_pump_in_stage")
        ELSE Claim(Resolved(acc, s, <<>>, ports), s)

\* A valve step opens for a time or for a volume; closing needs neither.
ValveStep(acc, s) ==
    LET reason ==
          IF acc.valves > 0 THEN "multiple_valve_steps"
          ELSE IF s.base \notin ValveBases THEN "unknown_valve_base"
          ELSE IF s.op \notin {"", "open", "close"} THEN "unknown_valve_op"
          ELSE IF s.op = "close" THEN "none"
          ELSE IF s.op = "open" /\ s.open = <<>> THEN "valve_open_requires_open_sec"
          ELSE IF s.open # <<>> /\ s.open[1] <= 0 THEN "non_positive_valve_open_sec"
          ELSE IF s.open = <<>> /\ s.volume <= 0 THEN "non_positive_valve_volume"
          ELSE "none"
        counted == [acc EXCEPT !.valves = @ + 1]
    IN  IF reason = "none" THEN Resolved(counted, s, <<>>, {}) ELSE Refused(counted, reason)

\* The gate of a dispense: one of its own kind, the checks of its ports last.
SyringeStep(acc, s, map) ==
    LET reason ==
          IF Claimed(acc, s) THEN "duplicate_pump_in_stage"
          ELSE IF s.pump \notin DOMAIN map THEN "unmapped_pump_addr"
          ELSE IF s.volume <= 0 THEN "non_positive_volume"
          ELSE IF s.volume > map[s.pump].capacity THEN "volume_over_max"
          ELSE IF StepsFor(map[s.pump], s.volume) < 1 THEN "derived_zero_steps"
          ELSE IF s.in = 0 /\ s.out = 0 THEN "none"
          ELSE IF ~IsPort(s.in) THEN "in_port_out_of_range"
          ELSE IF ~IsPort(s.out) THEN "out_port_out_of_range"
          ELSE IF s.in = s.out THEN "in_port_equals_out_port"
          ELSE "none"
    IN  IF reason = "none"
        THEN Claim(Resolved(acc, s, <<StepsFor(map[s.pump], s.volume)>>, {s.in, s.out} \ {0}), s)
        ELSE Refused(acc, reason)

-----------------------------------------------------------------------------
(* A batch: several liquids drawn one after the other, let out at once.    *)

AlcoholAt(pump, port) == Liquids[pump][port]

\* The checks of one aspiration, in the order of the code.
Aspiration(s, a, spec) ==
    IF ~IsPort(a.in) THEN "in_port_out_of_range"
    ELSE IF a.in = s.out THEN "in_port_equals_out_port"
    ELSE IF a.volume <= 0 THEN "non_positive_volume"
    ELSE IF StepsFor(spec, a.volume) < 1 THEN "derived_zero_steps"
    ELSE IF LiquidsKnown /\ a.liquid = "alcohol" /\ AlcoholAt(s.pump, a.in) = "other" THEN "alcohol_port_conflict"
    ELSE IF LiquidsKnown /\ Strict /\ a.liquid = "alcohol" /\ AlcoholAt(s.pump, a.in) # "alcohol" THEN "alcohol_port_missing"
    ELSE "none"

\* Mutant: each aspiration is rounded by itself.
EachRounded(spec, before, drawn, volume) == StepsFor(spec, volume)

\* The steps of an aspiration bring the plunger where all that is drawn so far
\* puts it; one that would be none at all is one step.
Draw(spec, before, drawn, volume) == Most(1, StepsFor(spec, before + volume) - drawn)

\* The aspirations in turn: the volume and the steps drawn, and each draw.
Empty == [reason |-> "none", volume |-> 0, drawn |-> 0, draws |-> <<>>]
Aspirate(d, a, s, spec) ==
    IF d.reason # "none" THEN d
    ELSE IF Aspiration(s, a, spec) # "none" THEN [d EXCEPT !.reason = Aspiration(s, a, spec)]
    ELSE LET n == Draw(spec, d.volume, d.drawn, a.volume)
         IN  [d EXCEPT !.volume = @ + a.volume, !.drawn = @ + n, !.draws = Append(@, n)]
Drawn(s, spec) == FoldLeft(LAMBDA d, a : Aspirate(d, a, s, spec), Empty, s.asps)

Batch(acc, s, map) ==
    LET spec == map[s.pump]
        d == Drawn(s, spec)
        reason ==
          IF Claimed(acc, s) THEN "duplicate_pump_in_stage"
          ELSE IF s.pump \notin DOMAIN map THEN "unmapped_pump_addr"
          ELSE IF s.asps = <<>> THEN "empty_batch"
          ELSE IF ~IsPort(s.out) THEN "out_port_out_of_range"
          ELSE IF d.reason # "none" THEN d.reason
          ELSE IF d.volume > spec.capacity \/ d.drawn > spec.stroke THEN "batch_over_capacity"
          ELSE "none"
        ports == {s.out} \cup {s.asps[i].in : i \in DOMAIN s.asps}
    IN  IF reason = "none" THEN Claim(Resolved(acc, s, d.draws, ports), s) ELSE Refused(acc, reason)

-----------------------------------------------------------------------------
(* The whole job.                                                          *)

\* Mutant: a step of a pump that is not there is left out, whatever its kind.
OthersToo(acc, s, map) ==
    IF s.kind # "valve" /\ s.pump \notin DOMAIN map THEN acc
    ELSE CASE s.kind = "op" -> Op(acc, s, map)
           [] s.kind = "valve" -> ValveStep(acc, s)
           [] s.kind = "batch" -> Batch(acc, s, map)
           [] OTHER -> SyringeStep(acc, s, map)

Admit(acc, s, map) ==
    CASE s.kind = "op" -> Op(acc, s, map)
      [] s.kind = "valve" -> ValveStep(acc, s)
      [] s.kind = "batch" -> Batch(acc, s, map)
      [] OTHER -> SyringeStep(acc, s, map)

\* The order of steps, by stage and index; sorted() keeps that of steps with
\* the same two.
Before(steps, i, j) ==
    LET s == steps[i]
        t == steps[j]
    IN  \/ Stage(s) < Stage(t)
        \/ Stage(s) = Stage(t) /\ s.idx < t.idx
        \/ Stage(s) = Stage(t) /\ s.idx = t.idx /\ i < j
Place(steps, j) == 1 + Cardinality({i \in DOMAIN steps : Before(steps, i, j)})
Sorted(steps) ==
    [n \in DOMAIN steps |-> steps[CHOOSE j \in DOMAIN steps : Place(steps, j) = n]]

Group(records, n) ==
    FoldLeft(LAMBDA g, r : IF r.stage = n THEN Append(g, r) ELSE g, <<>>, records)

\* Stages are 0, 1, .. without a gap, of the steps that are left.
Cut(acc) ==
    LET present == {acc.steps[i].stage : i \in DOMAIN acc.steps}
        last == CHOOSE m \in present : \A n \in present : n <= m
    IN  IF acc.reason # "none" THEN [reason |-> acc.reason, stages |-> <<>>]
        ELSE IF acc.steps = <<>> THEN [reason |-> "empty_recipe", stages |-> <<>>]
        ELSE IF present # 0 .. last THEN [reason |-> "stage_gap_missing", stages |-> <<>>]
        ELSE [reason |-> "none", stages |-> [n \in 1 .. last + 1 |-> Group(acc.steps, n - 1)]]

\* RecipeResolver.resolve
Take(acc, s, map) ==
    IF acc.reason # "none" THEN acc
    ELSE IF Stage(s) < 0 THEN Refused(acc, "negative_stage")
    ELSE Admit(acc, s, map)
Taken(steps, map) == FoldLeft(LAMBDA acc, s : Take(acc, s, map), Begin, steps)
Resolve(steps, map) == Cut(Taken(Sorted(steps), map))

None == [reason |-> "", stages |-> <<>>]

Init ==
    /\ job \in {[kind |-> "steps", steps |-> input] : input \in Inputs}
               \cup {[kind |-> "tuning", model |-> m, tuning |-> t] : m \in Models, t \in Tunings}
    /\ result = None

\* Dispatcher -> Sequencer -> resolve, before anything moves.
ResolveJob ==
    /\ job.kind = "steps" /\ result = None
    /\ result' = Resolve(job.steps, PumpMap)
    /\ UNCHANGED job

\* build_engine, with the tuning of the settings.
ApplyTuning ==
    /\ job.kind = "tuning" /\ result = None
    /\ result' = Tuned(job.model, job.tuning)
    /\ UNCHANGED job

Next == ResolveJob \/ ApplyTuning
Spec == Init /\ [][Next]_vars

-----------------------------------------------------------------------------
Accepted == job.kind = "steps" /\ result # None /\ result.reason = "none"
Sent == {job.steps[i] : i \in DOMAIN job.steps}
Skipped(s) == s.kind = "op" /\ s.pump \notin DOMAIN PumpMap

\* An accepted job is run as it was sent.  Stage by stage, exactly the steps
\* sent for it are run, each once and in the order of their indices; only an op
\* of a pump that is not there is missing, never a dispense; no stage has two
\* moves of one pump, no job two valve steps, and every port exists.
RunsAsSent ==
    Accepted =>
        /\ {Stage(s) : s \in {t \in Sent : ~Skipped(t)}} = 0 .. Len(result.stages) - 1
        /\ \A n \in DOMAIN result.stages :
             LET group == result.stages[n]
             IN  /\ {<<r.idx, r.kind, r.pump>> : r \in {group[i] : i \in DOMAIN group}}
                     = {<<s.idx, s.kind, s.pump>> : s \in {t \in Sent : ~Skipped(t) /\ Stage(t) = n - 1}}
                 /\ \A i, j \in DOMAIN group : i < j =>
                      /\ group[i].idx < group[j].idx
                      /\ "valve" \in {group[i].kind, group[j].kind} \/ group[i].pump # group[j].pump
                 /\ \A i \in DOMAIN group :
                      /\ group[i].ports \subseteq 1 .. ValvePorts
                      /\ group[i].kind # "valve" => group[i].pump \in DOMAIN PumpMap
        /\ Cardinality({s \in Sent : s.kind = "valve"}) <= 1

Added(numbers) == FoldLeft(LAMBDA sum, n : sum + n, 0, numbers)
Total(asps) == Added([i \in DOMAIN asps |-> asps[i].volume])
DrawnOf(r) == Added(r.draws)

\* However a batch is divided, its plunger goes where the whole volume puts it,
\* each liquid moves it, and it never passes the end of the stroke; and a batch
\* that fits in the syringe is not refused as too large.  (Liquids below one
\* step of the plunger are drawn as one: what is then too much is bounded by
\* the stroke only.)
BatchesKeepTheirVolume ==
    job.kind = "steps" /\ result # None =>
        \A s \in {t \in Sent : t.kind = "batch" /\ t.pump \in DOMAIN PumpMap} :
            LET spec == PumpMap[s.pump]
                fine == \A i \in DOMAIN s.asps : s.asps[i].volume * spec.stroke >= spec.capacity
            IN  /\ \A n \in DOMAIN result.stages : \A i \in DOMAIN result.stages[n] :
                     LET r == result.stages[n][i]
                     IN  r.idx = s.idx =>
                           /\ DrawnOf(r) <= spec.stroke
                           /\ \A k \in DOMAIN r.draws : r.draws[k] >= 1
                           /\ fine => DrawnOf(r) = StepsFor(spec, Total(s.asps))
                /\ Sent = {s} /\ fine /\ Total(s.asps) <= spec.capacity
                     => result.reason # "batch_over_capacity"

\* Whatever is tuned, the four speeds are ones the model accepts together: the
\* start speed is not above the cutoff speed, nor that above the top speed, and
\* raising or lowering one to fit does not push another out of its range.
TunedWithinBounds ==
    job.kind = "tuning" /\ result # None =>
        /\ result.start <= result.cutoff /\ result.cutoff <= result.top
        /\ \A key \in Keys :
             /\ ManualLow[job.model][key] <= result[key]
             /\ result[key] <= Preset[job.model][key]

\* "미매핑 addr 은 그 스텝만 건너뛴다(배치 전체를 죽이지 않는다)"
\* (recipe_resolver.py, of engine ops): a job of ops that would run were every
\* pump there runs for the pumps that are.  (This does not hold: see the README.)
ReachableOpsRun ==
    job.kind = "steps" /\ result # None /\ (\A s \in Sent : s.kind = "op") =>
        LET all == [p \in DOMAIN PumpMap \cup {s.pump : s \in Sent} |->
                      PumpMap[CHOOSE q \in DOMAIN PumpMap : TRUE]]
        IN  /\ Resolve(job.steps, all).reason = "none"
            /\ \E s \in Sent : s.pump \in DOMAIN PumpMap
            => result.reason = "none"
=============================================================================

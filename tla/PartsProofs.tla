----------------------------- MODULE PartsProofs -----------------------------
(***************************************************************************)
(* What Parts promises of each of its parts, for every value of the        *)
(* constants.                                                              *)
(***************************************************************************)
EXTENDS Parts, SequenceEntries, FiniteSetTheorems, TLAPS

\* Each part moves by its own steps and is left alone by the others.
LEMMA EachAlone ==
    [PartsNext]_partsVars =>
        /\ [Next]_vars /\ [M!Next]_motionVars /\ [F!Next]_logVars
        /\ [S!Next]_spillVars /\ [V!Next]_valveVars /\ [R!Next]_recipeVars
  BY DEF PartsNext, partsVars

\* The instances count as this module does.
LEMMA OneCardinality == \A s : V!Cardinality(s) = Cardinality(s) /\ S!Cardinality(s) = Cardinality(s)
  BY DEF V!Cardinality, S!Cardinality, Cardinality

-----------------------------------------------------------------------------
(* Valves: a pour is whole, and an open valve is somebody's to close.      *)

\* The sentinel is no thread and no timer.
LEMMA Apart == Nobody \notin Workers /\ Nobody \notin Nat
  BY PartsAssumption

Call == [op : {"rest", "pour", "latch", "close", "pouring"}, base : Bases \cup {Unwired, Nobody}]

ValveTypes ==
    /\ doing \in [Workers -> Call]
    /\ lock \in Workers \cup {Nobody}
    /\ armed \in Nat \cup {Nobody} /\ steps \in Nat

OneOpen == relay = {} \/ \E b \in Bases \cup {Unwired, Nobody} : relay = {b}

\* An open valve is that of the pour under way, or a latch with its timer, or
\* a timer that has fired is about to close it.
Attended == up /\ relay # {} => lock # Nobody \/ armed # Nobody \/ expired # {}

\* A dead process makes no calls.
DeadIsSilent == ~up => lock = Nobody /\ stop = "off" /\ expired = {} /\ \A w \in Workers : doing[w] = V!Rest

ValvesInv == ValveTypes /\ OneOpen /\ Attended /\ DeadIsSilent /\ V!PourIsWhole

-----------------------------------------------------------------------------
LEMMA ValvesInit == ASSUME V!Init PROVE ValvesInv
  BY Apart DEF V!Init, ValvesInv, ValveTypes, OneOpen, Attended, DeadIsSilent, V!PourIsWhole, Call, V!Rest

\* Taking up a call moves no valve.
LEMMA StepKeeps == ASSUME ValvesInv, NEW w \in Workers, V!Step(w) PROVE ValvesInv'
<1>1. PICK call \in Call : call.op # "pouring" /\ doing' = [doing EXCEPT ![w] = call]
  BY DEF V!Step, Call, V!Rest
<1>2. /\ doing[w].op # "pouring" /\ steps' \in Nat
      /\ UNCHANGED <<relay, lock, armed, expired, stop, up>> /\ up
  BY DEF V!Step, V!Rest, ValvesInv, ValveTypes
<1>3. ValveTypes'
  BY <1>1, <1>2 DEF ValvesInv, ValveTypes
<1> QED
  BY <1>1, <1>2, <1>3 DEF ValvesInv, ValveTypes, OneOpen, Attended, DeadIsSilent, V!PourIsWhole

\* dispense_volume: the thread that pours has the lock, and every other valve
\* is closed when its own opens.
LEMMA PourKeeps == ASSUME ValvesInv, NEW w \in Workers, V!Pour(w) PROVE ValvesInv'
<1>1. /\ lock' = w /\ armed' = Nobody /\ relay' = {doing[w].base}
      /\ doing' = [doing EXCEPT ![w].op = "pouring"]
      /\ \A v \in Workers : doing[v].op # "pouring"
      /\ UNCHANGED <<expired, stop, up, steps>> /\ up
  BY Apart DEF V!Pour, V!OnlyThis, ValvesInv, ValveTypes, DeadIsSilent, V!PourIsWhole, V!Rest
<1>2. doing' \in [Workers -> Call] /\ doing'[w].base = doing[w].base
  BY <1>1 DEF ValvesInv, ValveTypes, Call
<1>3. \A v \in Workers : doing'[v].op = "pouring" => v = w
  BY <1>1 DEF ValvesInv, ValveTypes
<1>4. ValveTypes' /\ OneOpen' /\ Attended' /\ DeadIsSilent'
  BY <1>1, <1>2, Apart DEF ValvesInv, ValveTypes, OneOpen, Attended, DeadIsSilent, Call
<1> QED
  BY <1>1, <1>2, <1>3, <1>4 DEF ValvesInv, V!PourIsWhole

LEMMA PouredKeeps == ASSUME ValvesInv, NEW w \in Workers, V!Poured(w) PROVE ValvesInv'
<1>1. lock = w /\ relay = {doing[w].base} /\ up
  BY DEF V!Poured, ValvesInv, DeadIsSilent, V!PourIsWhole, V!Rest
<1>2. /\ lock' = Nobody /\ relay' = {} /\ doing' = [doing EXCEPT ![w] = V!Rest]
      /\ UNCHANGED <<armed, expired, stop, up, steps>>
  BY <1>1 DEF V!Poured
<1>3. \A v \in Workers : doing'[v].op # "pouring"
  BY <1>1, <1>2 DEF ValvesInv, ValveTypes, V!PourIsWhole, V!Rest
<1> QED
  BY <1>2, <1>3 DEF ValvesInv, ValveTypes, OneOpen, Attended, DeadIsSilent, V!PourIsWhole, Call, V!Rest

\* A latch opens with its timer armed.
LEMMA LatchKeeps == ASSUME ValvesInv, NEW w \in Workers, V!Latch(w) PROVE ValvesInv'
<1>1. /\ lock = Nobody /\ lock' = Nobody /\ armed' = steps /\ relay' = {doing[w].base}
      /\ doing' = [doing EXCEPT ![w] = V!Rest]
      /\ UNCHANGED <<expired, stop, up, steps>> /\ up
  BY DEF V!Latch, V!OnlyThis, V!NewTimer, ValvesInv, DeadIsSilent, V!Rest
<1>2. \A v \in Workers : doing'[v].op # "pouring"
  BY <1>1, Apart DEF ValvesInv, ValveTypes, V!PourIsWhole, V!Rest
<1>3. doing[w].base \in Bases \cup {Unwired, Nobody}
  BY DEF ValvesInv, ValveTypes, Call
<1>4. ValveTypes' /\ OneOpen' /\ Attended' /\ DeadIsSilent'
  BY <1>1, <1>3, Apart DEF ValvesInv, ValveTypes, OneOpen, Attended, DeadIsSilent, Call, V!Rest
<1> QED
  BY <1>2, <1>4 DEF ValvesInv, V!PourIsWhole

\* close_all, whoever calls it, waits for the pour under way: it closes what
\* is open, and nobody pours.
LEMMA CloseAllKeeps ==
    ASSUME ValvesInv, V!CloseAll, UNCHANGED <<lock, steps, up>>,
           stop' = stop \/ up, expired' \subseteq expired,
           \/ UNCHANGED doing
           \/ \E w \in Workers : doing' = [doing EXCEPT ![w] = V!Rest]
    PROVE  ValvesInv'
<1>1. lock = Nobody /\ relay' = {} /\ armed' = Nobody
  BY DEF V!CloseAll, V!LockFree
<1>2. \A v \in Workers : doing[v].op # "pouring"
  BY <1>1, Apart DEF ValvesInv, V!PourIsWhole
<1>3. doing' \in [Workers -> Call] /\ \A v \in Workers : doing'[v].op # "pouring"
  BY <1>2 DEF ValvesInv, ValveTypes, Call, V!Rest
<1> QED
  BY <1>1, <1>3 DEF ValvesInv, ValveTypes, OneOpen, Attended, DeadIsSilent, V!PourIsWhole

LEMMA ValvesStep == ASSUME ValvesInv, [V!Next]_valveVars PROVE ValvesInv'
<1>1. ASSUME NEW w \in Workers, V!Step(w) PROVE ValvesInv'
  BY <1>1, StepKeeps
<1>2. ASSUME NEW w \in Workers, V!Pour(w) PROVE ValvesInv'
  BY <1>2, PourKeeps
<1>3. ASSUME NEW w \in Workers, V!Poured(w) PROVE ValvesInv'
  BY <1>3, PouredKeeps
<1>4. ASSUME NEW w \in Workers, V!Latch(w) PROVE ValvesInv'
  BY <1>4, LatchKeeps
<1>5. ASSUME NEW w \in Workers, V!Close(w) PROVE ValvesInv'
  BY <1>5, CloseAllKeeps DEF V!Close
<1>6. CASE V!Expire
  BY <1>6 DEF V!Expire, ValvesInv, ValveTypes, OneOpen, Attended, DeadIsSilent, V!PourIsWhole
<1>7. CASE V!TimerCloses
  BY <1>7, CloseAllKeeps DEF V!TimerCloses
<1>8. CASE V!EmergencyStop \/ V!Release
  BY <1>8 DEF V!EmergencyStop, V!Release, ValvesInv, ValveTypes, OneOpen, Attended, DeadIsSilent, V!PourIsWhole
<1>9. CASE V!StopCloses
  BY <1>9, CloseAllKeeps DEF V!StopCloses, ValvesInv, DeadIsSilent
<1>10. CASE V!Kill
  BY <1>10 DEF V!Kill, ValvesInv, ValveTypes, OneOpen, Attended, DeadIsSilent, V!PourIsWhole, Call, V!Rest
<1>11. CASE V!Boot
  <2>1. \A w \in Workers : doing[w].op # "pouring"
    BY <1>11 DEF V!Boot, ValvesInv, DeadIsSilent, V!Rest
  <2> QED
    BY <1>11, <2>1 DEF V!Boot, V!AtBoot, ValvesInv, ValveTypes, OneOpen, Attended, DeadIsSilent, V!PourIsWhole
<1>12. CASE UNCHANGED valveVars
  BY <1>12 DEF valveVars, ValvesInv, ValveTypes, OneOpen, Attended, DeadIsSilent, V!PourIsWhole
<1> QED
  BY <1>1, <1>2, <1>3, <1>4, <1>5, <1>6, <1>7, <1>8, <1>9, <1>10, <1>11, <1>12 DEF V!Next

LEMMA ValvesInvariant == PartsSpec => []ValvesInv
<1>1. PartsInit => ValvesInv
  BY ValvesInit DEF PartsInit
<1>2. ValvesInv /\ [PartsNext]_partsVars => ValvesInv'
  BY ValvesStep, EachAlone
<1> QED
  BY <1>1, <1>2, PTL DEF PartsSpec

\* dispense_volume: while a step pours, it has the lock and only its valve is
\* open; no latch, timer, stop or other step comes between.
THEOREM PoursAreWhole == PartsSpec => []PourIsWhole
<1>1. ValvesInv => PourIsWhole
  BY DEF ValvesInv, PourIsWhole
<1> QED
  BY <1>1, ValvesInvariant, PTL

\* At most one valve is open, and an open one has somebody who will close it:
\* the thread that pours, the timer of its latch, or the next boot.
THEOREM NoValveIsForgotten == PartsSpec => []NoValveForgotten
<1>1. ASSUME ValvesInv PROVE NoValveForgotten
  <2>1. CASE relay = {}
    BY <2>1, FS_EmptySet, OneCardinality DEF NoValveForgotten, V!NoValveForgotten
  <2>2. ASSUME NEW b, relay = {b} PROVE NoValveForgotten
    <3>1. Cardinality(relay) = 1
      BY <2>2, FS_Singleton
    <3> QED
      BY <1>1, <3>1, OneCardinality DEF ValvesInv, Attended, NoValveForgotten, V!NoValveForgotten
  <2> QED
    BY <1>1, <2>1, <2>2 DEF ValvesInv, OneOpen
<1> QED
  BY <1>1, ValvesInvariant, PTL

-----------------------------------------------------------------------------
(* Motion: whoever drives a pump is of the stage, or parks a valve.        *)

Driving == {"run", "park"}

DrivingInv == DOMAIN th = M!Pump /\ M!NobodyLeftDriving

\* The steps that move no thread, or only within a stage or the parking.
LEMMA DrivingQuiet ==
    ASSUME DrivingInv, DOMAIN th' = M!Pump,
           \/ main' = main \/ main' \in Driving \/ \A p \in M!Pump : th'[p].pc = "rest",
           \/ UNCHANGED th \/ main \in Driving \/ \A p \in M!Pump : th'[p].pc = "rest"
    PROVE  DrivingInv'
  BY DEF DrivingInv, Driving, M!NobodyLeftDriving

\* A thread that makes a step is not at rest.
LEMMA ThreadDrives ==
    ASSUME DrivingInv, NEW p \in M!Pump, M!Thread(p) \/ M!Expire(p)
    PROVE  main \in Driving /\ main' = main /\ DOMAIN th' = M!Pump
<1>1. th[p].pc # "rest"
  BY DEF M!Thread, M!EnsureReady, M!ClearError, M!Send, M!Check, M!Ask, M!Terminate, M!Enlist, M!Expire
<1>2. main' = main
  BY DEF M!Thread, M!EnsureReady, M!ClearError, M!Send, M!Check, M!Ask, M!Terminate, M!Enlist, M!Expire
<1>3. DOMAIN th' = DOMAIN th
  BY DEF M!Thread, M!EnsureReady, M!ClearError, M!Send, M!Check, M!Ask, M!Terminate, M!Enlist, M!Expire
<1> QED
  BY <1>1, <1>2, <1>3 DEF DrivingInv, Driving, M!NobodyLeftDriving

\* The consuming thread leaves a stage or the parking when all are at rest, and
\* starts threads nowhere else.
LEMMA ConsumeKeeps == ASSUME DrivingInv, M!Consume \/ M!AssumeHome PROVE DrivingInv'
<1>1. CASE M!HeadOfStage \/ M!ClearLatch \/ M!Look \/ M!Fire \/ M!Seek \/ M!AskHome \/ M!Probe \/ M!AssumeHome
  <2>1. UNCHANGED th /\ main \notin Driving
    BY <1>1 DEF M!HeadOfStage, M!ClearLatch, M!Look, M!Looked, M!Fire, M!Seek, M!AskHome, M!Probe,
                M!AssumeHome, Driving
  <2> QED
    BY <2>1 DEF DrivingInv, Driving, M!NobodyLeftDriving
<1>2. CASE M!ParkNext
  <2>1. main = "park" /\ DOMAIN th' = DOMAIN th /\ (main' = main \/ UNCHANGED th)
        /\ \A p \in M!Pump : th[p].pc = "rest"
    BY <1>2 DEF M!ParkNext
  <2> QED
    BY <2>1 DEF DrivingInv, M!NobodyLeftDriving
<1>3. CASE M!EnlistAll \/ M!JudgeInit
  BY <1>3 DEF M!EnlistAll, M!JudgeInit, M!End, DrivingInv, M!NobodyLeftDriving
<1>4. CASE M!Start
  <2>1. main' = "run" /\ DOMAIN th' = M!Pump
    BY <1>4 DEF M!Start
  <2> QED
    BY <2>1 DEF DrivingInv, M!NobodyLeftDriving
<1>5. CASE M!Judge
  BY <1>5 DEF M!Judge, M!Joined, M!End, DrivingInv, M!NobodyLeftDriving
<1> QED
  BY <1>1, <1>2, <1>3, <1>4, <1>5 DEF M!Consume

LEMMA DrivingStep == ASSUME DrivingInv, [M!Next]_motionVars PROVE DrivingInv'
<1>1. ASSUME NEW kind \in Kinds, NEW first \in {"init", "stage"}, M!Begin(kind, first) PROVE DrivingInv'
  <2>1. DOMAIN th' = M!Pump /\ \A p \in M!Pump : th'[p].pc = "rest"
    BY <1>1 DEF M!Begin, M!Resting
  <2> QED
    BY <2>1 DEF DrivingInv, M!NobodyLeftDriving
<1>2. ASSUME NEW p \in M!Pump, M!Thread(p) \/ M!Expire(p) PROVE DrivingInv'
  BY <1>2, ThreadDrives, DrivingQuiet
<1>3. ASSUME UNCHANGED <<th, main>> PROVE DrivingInv'
  BY <1>3 DEF DrivingInv, M!NobodyLeftDriving
<1>4. ASSUME NEW p \in M!Pump, M!Mechanics(p) \/ \E e \in {7, 9, 15} : M!Break(p, e) PROVE UNCHANGED <<th, main>>
  BY <1>4 DEF M!Mechanics, M!Break
<1>5. CASE M!AskStop \/ M!LiftStop \/ M!Watch
  BY <1>3, <1>5 DEF M!AskStop, M!LiftStop, M!Watch, M!SeeStop, M!SeeLifted, M!HaltPump, M!DropPump
<1>6. CASE UNCHANGED motionVars
  BY <1>3, <1>6 DEF motionVars
<1> QED
  BY <1>1, <1>2, <1>3, <1>4, <1>5, <1>6, ConsumeKeeps DEF M!Next

\* _run_stage joins every thread it started, also when one could not be started:
\* whatever follows a stage or the parking of the valves - the verdict, the next
\* job - no thread is at a pump any more.
THEOREM NobodyIsLeftDriving == PartsSpec => []NobodyLeftDriving
<1>1. PartsInit => DrivingInv
  BY DEF PartsInit, M!Init, M!Resting, DrivingInv, M!NobodyLeftDriving
<1>2. DrivingInv /\ [PartsNext]_partsVars => DrivingInv'
  BY DrivingStep, EachAlone
<1>3. DrivingInv => NobodyLeftDriving
  BY DEF DrivingInv, NobodyLeftDriving
<1> QED
  BY <1>1, <1>2, <1>3, PTL DEF PartsSpec

-----------------------------------------------------------------------------
(* Recipe: what is tuned fits together.                                    *)

\* A tuning is applied once, to what was asked for.
RecipeInv ==
    job.kind = "tuning" =>
        /\ job.model \in R!Models /\ job.tuning \in Tunings
        /\ result = R!None \/ result = R!Tuned(job.model, job.tuning)

LEMMA RecipeInit == ASSUME PartsInit PROVE RecipeInv
<1>1. CASE part = "recipe"
  <2>1. R!Init
    BY <1>1 DEF PartsInit
  <2>2. result = R!None
    BY <2>1 DEF R!Init
  <2>3. ASSUME job.kind = "tuning" PROVE \E m \in R!Models, t \in Tunings : job = [kind |-> "tuning", model |-> m, tuning |-> t]
    BY <2>1, <2>3 DEF R!Init
  <2> QED
    BY <2>2, <2>3 DEF RecipeInv
<1>2. CASE part # "recipe"
  BY <1>2 DEF PartsInit, RecipeInv
<1> QED
  BY <1>1, <1>2

\* clamp_pump_tuning, and the defaults: within the bounds of the model.
LEMMA Speeds ==
    ASSUME NEW m \in R!Models, NEW t \in Tunings, NEW k \in R!Keys
    PROVE  /\ R!Clamped(m, t, k) \in Int
           /\ R!Low(m, k) <= R!Clamped(m, t, k)
           /\ R!Clamped(m, t, k) <= R!High(m, k)
<1>1. k \in DOMAIN t => t[k] \in Int
  BY PartsAssumption
<1>2. R!Low(m, k) \in Int /\ R!High(m, k) \in Int /\ R!Default[m][k] \in Int
      /\ R!Low(m, k) <= R!Default[m][k] /\ R!Default[m][k] <= R!High(m, k)
  BY DEF R!Models, R!Keys, R!Low, R!High, R!Default, R!ManualLow, R!ManualHigh, R!Preset, R!Most, R!Least
<1> DEFINE lo == R!Low(m, k)
           hi == R!High(m, k)
           c == R!Clamped(m, t, k)
<1>3. c = IF k \in DOMAIN t THEN R!Least(hi, R!Most(lo, t[k])) ELSE R!Default[m][k]
  BY DEF R!Clamped
<1>4. \A n \in Int : R!Least(hi, R!Most(lo, n)) \in Int /\ lo <= R!Least(hi, R!Most(lo, n)) /\ R!Least(hi, R!Most(lo, n)) <= hi
  <2>1. lo \in Int /\ hi \in Int /\ lo <= hi
    BY <1>2
  <2> HIDE DEF lo, hi
  <2> QED
    BY <2>1 DEF R!Least, R!Most
<1> HIDE DEF lo, hi, c
<1>5. c \in Int /\ lo <= c /\ c <= hi
  BY <1>1, <1>2, <1>3, <1>4 DEF lo, hi
<1> QED
  BY <1>5 DEF lo, hi, c

\* The bounds of _bounds_of lie within the table of the models.
LEMMA Bounds == \A m \in R!Models : \A k \in R!Keys :
    /\ R!Low(m, k) \in Int /\ R!High(m, k) \in Int
    /\ R!ManualLow[m][k] \in Int /\ R!ManualLow[m][k] <= R!Low(m, k)
    /\ R!Preset[m][k] \in Int /\ R!High(m, k) <= R!Preset[m][k]
    /\ R!Low(m, "start") <= R!Low(m, "top") /\ R!Low(m, "cutoff") <= R!Low(m, "top")
    /\ R!High(m, "start") <= R!High(m, "top") /\ R!High(m, "cutoff") <= R!High(m, "top")
  BY DEF R!Models, R!Keys, R!Low, R!High, R!ManualLow, R!ManualHigh, R!Preset, R!Most, R!Least

\* A start speed that has to be lowered to fit is one the cutoff may have.
LEMMA ReachesCutoff == \A m \in R!Models :
    R!Preset[m].start <= R!Preset[m].top /\ R!ManualLow[m].start = R!ManualLow[m].cutoff
    /\ R!High(m, "start") <= R!High(m, "cutoff")
  BY DEF R!Models, R!Low, R!High, R!ManualLow, R!ManualHigh, R!Preset, R!Most, R!Least

\* apply_pump_tuning.
LEMMA TunedFits ==
    ASSUME NEW m \in R!Models, NEW t \in Tunings
    PROVE  LET r == R!Tuned(m, t) IN
           /\ r.start <= r.cutoff /\ r.cutoff <= r.top
           /\ \A k \in R!Keys : R!ManualLow[m][k] <= r[k] /\ r[k] <= R!Preset[m][k]
<1> DEFINE c(k) == R!Clamped(m, t, k)
           start == R!Least(c("start"), c("top"))
           r == R!Tuned(m, t)
<1>1. r = [start |-> start, top |-> c("top"), cutoff |-> R!Most(R!Least(c("cutoff"), c("top")), start), slope |-> c("slope")]
  BY DEF R!Tuned
<1>2. \A k \in R!Keys : c(k) \in Int /\ R!Low(m, k) <= c(k) /\ c(k) <= R!High(m, k)
  BY Speeds
<1>3. {"start", "top", "cutoff", "slope"} = R!Keys
  BY DEF R!Keys
<1> HIDE DEF c, r
<1>4. /\ r.start = start /\ r.top = c("top") /\ r.slope = c("slope")
      /\ r.cutoff = R!Most(R!Least(c("cutoff"), c("top")), start)
  BY <1>1
<1>5. start \in Int /\ start <= c("top") /\ start <= c("start") /\ (start = c("start") \/ start = c("top"))
  BY <1>2, <1>3 DEF R!Least
<1> HIDE DEF start
<1>6. /\ r.cutoff \in Int /\ start <= r.cutoff /\ r.cutoff <= c("top")
      /\ r.cutoff = start \/ r.cutoff <= c("cutoff")
      /\ r.cutoff = start \/ r.cutoff = c("top") \/ r.cutoff = c("cutoff")
  BY <1>2, <1>3, <1>4, <1>5 DEF R!Least, R!Most
<1>7. \A k \in R!Keys : R!ManualLow[m][k] <= c(k) /\ c(k) <= R!Preset[m][k]
  BY <1>2, Bounds
<1>8. R!ManualLow[m]["start"] <= start /\ start <= R!Preset[m]["start"]
  <2>1. R!ManualLow[m]["start"] <= c("top")
    BY <1>2, <1>3, Bounds
  <2> QED
    BY <1>2, <1>3, <1>5, <1>7, <2>1, Bounds
<1>9. R!ManualLow[m]["cutoff"] <= r.cutoff /\ r.cutoff <= R!Preset[m]["cutoff"]
  <2>1. R!ManualLow[m]["cutoff"] <= start
    BY <1>3, <1>8, ReachesCutoff, Bounds
  <2>2. start <= R!Preset[m]["cutoff"]
    BY <1>2, <1>3, <1>5, Bounds, ReachesCutoff
  <2> QED
    BY <1>2, <1>3, <1>5, <1>6, <1>7, <2>1, <2>2, Bounds
<1>10. \A k \in R!Keys : R!ManualLow[m][k] <= r[k] /\ r[k] <= R!Preset[m][k]
  <2>1. r["start"] = start /\ r["top"] = c("top") /\ r["slope"] = c("slope") /\ r["cutoff"] = r.cutoff
    BY <1>4
  <2> QED
    BY <1>3, <1>7, <1>8, <1>9, <2>1
<1> QED
  BY <1>4, <1>6, <1>10 DEF r

LEMMA RecipeStep == ASSUME RecipeInv, [R!Next]_recipeVars PROVE RecipeInv'
<1>1. CASE R!ResolveJob
  BY <1>1 DEF R!ResolveJob, RecipeInv
<1>2. CASE R!ApplyTuning
  BY <1>2 DEF R!ApplyTuning, RecipeInv
<1>3. CASE UNCHANGED recipeVars
  BY <1>3 DEF recipeVars, RecipeInv
<1> QED
  BY <1>1, <1>2, <1>3 DEF R!Next

\* clamp_pump_tuning and apply_pump_tuning: whatever the operator asks for, the
\* pump gets speeds within the ranges of its model, with start <= cutoff <= top;
\* making one fit never pushes another out.
THEOREM TunedSpeedsFit == PartsSpec => []TunedWithinBounds
<1>1. PartsInit => RecipeInv
  BY RecipeInit
<1>2. RecipeInv /\ [PartsNext]_partsVars => RecipeInv'
  BY RecipeStep, EachAlone
<1>3. RecipeInv => TunedWithinBounds
  <2> SUFFICES ASSUME RecipeInv, job.kind = "tuning", result # R!None
      PROVE  /\ result.start <= result.cutoff /\ result.cutoff <= result.top
             /\ \A key \in R!Keys :
                   R!ManualLow[job.model][key] <= result[key] /\ result[key] <= R!Preset[job.model][key]
    BY DEF TunedWithinBounds, R!TunedWithinBounds
  <2>1. job.model \in R!Models /\ job.tuning \in Tunings /\ result = R!Tuned(job.model, job.tuning)
    BY DEF RecipeInv
  <2> QED
    BY <2>1, TunedFits
<1> QED
  BY <1>1, <1>2, <1>3, PTL DEF PartsSpec

-----------------------------------------------------------------------------
(* TraceSpill: where every record is, and what a drain may remove.         *)

Places == {"rest", "drain", "flush", "ship", "tell", "append"}
Holding == [at : Places, held : Seq(Nat)]
DrainRecord == [by : S!Threads \cup {Nobody}, lines : Seq(Nat), consumed : Nat, left : Nat]
Counts == [dropped : Nat, told : Nat]

USE DEF Places, Holding, DrainRecord, Counts

SpillTypes ==
    /\ logged \in Nat /\ trimmed \in Nat
    /\ buffer \in Seq(Nat) /\ carry \in Seq(Nat) /\ spill \in Seq(Nat)
    /\ lost \in Counts
    /\ flusher \in [S!Threads -> Holding]
    /\ drain \in DrainRecord
    /\ end \in S!Ends /\ count \in Nat \cup {Nobody} /\ bad \in Nat

\* Only a file that does not decode cannot be counted.  A half line is a line;
\* it came of a fault, and makes two records unreadable at most.
FileInv ==
    /\ end = "half" => spill # <<>>
    /\ count = Nobody => end = "garbled"
    /\ IsFiniteSet(glued) /\ Cardinality(glued) + (IF end = "half" THEN 2 ELSE 0) <= 2 * bad

\* A thread at rest holds nothing, one that ships holds something.
Hands ==
    \A t \in S!Threads : /\ flusher[t].at = "rest" => flusher[t].held = <<>>
                         /\ flusher[t].at = "ship" => flusher[t].held # <<>>

\* While a drain sends, its lines are still the front of the file, but for those
\* a trim has removed since (no more than it has counted) and one that others
\* were glued to; what it has gone through, the server has, or it was broken.
Follows(r) ==
    /\ Len(drain.lines) <= Len(spill) + r
    /\ \A i \in 1 .. Len(spill) :
         i + r <= Len(drain.lines) => spill[i] = drain.lines[i + r] \/ spill[i] = 0
Draining ==
    drain.by # Nobody =>
        /\ drain.consumed <= Len(drain.lines)
        /\ \E r \in 0 .. trimmed : Follows(r)
        /\ \A i \in 1 .. drain.consumed : drain.lines[i] \in sent \cup {0}

InHands == UNION {Elems(flusher[t].held) : t \in S!Threads}
Kept == Elems(buffer) \cup Elems(carry) \cup Elems(spill) \cup InHands
Traced == Kept \cup sent \cup died \cup glued
Gone == (1 .. logged) \ Traced
Accounted == end # "garbled" => Gone \subseteq cut /\ Cardinality(Gone) <= lost.dropped + lost.told

SpillInv == SpillTypes /\ Hands /\ FileInv /\ Draining /\ Accounted

LEMMA LostType == SpillTypes => lost.dropped \in Nat /\ lost.told \in Nat /\ lost.dropped + lost.told \in Nat
<1>1. SpillTypes => lost.dropped \in Nat /\ lost.told \in Nat
  BY DEF SpillTypes
<1> QED
  BY <1>1

LEMMA AccountedIs == SpillTypes /\ FileInv => (Accounted <=> NothingLostInSilence)
<1> SUFFICES ASSUME SpillTypes, FileInv PROVE Accounted <=> NothingLostInSilence
  OBVIOUS
<1>1. \A s : s \in Seq(Nat) => S!ToSet(s) = Elems(s)
  BY DEF S!ToSet, Elems
<1>2. S!Somewhere = Kept
  BY <1>1 DEF SpillTypes, S!Somewhere, Kept, InHands
<1>3. S!Gone \ glued = Gone
  BY <1>2 DEF S!Gone, Gone, Traced
<1>4. Cardinality(glued) <= 2 * bad
  <2>1. Cardinality(glued) \in Nat /\ bad \in Nat
    BY FS_CardinalityType DEF FileInv, SpillTypes
  <2> QED
    BY <2>1 DEF FileInv
<1> QED
  BY <1>3, <1>4, OneCardinality DEF Accounted, NothingLostInSilence, S!NothingLostInSilence

\* Records may leave for X, if X is counted.
LEMMA AccountedKept ==
    ASSUME SpillTypes, Accounted, SpillTypes', end = "garbled" => end' = "garbled",
           NEW X, NEW k \in Nat,
           IsFiniteSet(X), Cardinality(X) <= k, cut \cup X \subseteq cut',
           1 .. logged' \subseteq (1 .. logged) \cup Kept',
           end' # "garbled" => Traced \subseteq Traced' \cup X \cup {0},
           lost'.dropped + lost'.told = lost.dropped + lost.told + k
    PROVE  Accounted'
<1> SUFFICES ASSUME end' # "garbled" PROVE (Gone \subseteq cut /\ Cardinality(Gone) <= lost.dropped + lost.told)'
  BY DEF Accounted
<1>1. Gone' \subseteq Gone \cup X
  <2>1. 0 \notin 1 .. logged'
    BY DEF SpillTypes
  <2>2. Kept' \subseteq Traced'
    BY DEF Traced
  <2> QED
    BY <2>1, <2>2 DEF Gone
<1>2. IsFiniteSet(Gone)
  <2>1. IsFiniteSet(1 .. logged)
    BY FS_Interval DEF SpillTypes
  <2>2. Gone \in SUBSET (1 .. logged)
    BY DEF Gone
  <2> QED
    BY <2>1, <2>2, FS_Subset
<1>3. IsFiniteSet(Gone \cup X) /\ Cardinality(Gone \cup X) <= Cardinality(Gone) + Cardinality(X)
  <2>1. Gone \cap X \in SUBSET X
    OBVIOUS
  <2>2. Cardinality(Gone \cap X) \in Nat /\ Cardinality(Gone) \in Nat /\ Cardinality(X) \in Nat
    BY <1>2, <2>1, FS_Subset, FS_CardinalityType
  <2>3. /\ IsFiniteSet(Gone \cup X)
        /\ Cardinality(Gone \cup X) = Cardinality(Gone) + Cardinality(X) - Cardinality(Gone \cap X)
    BY <1>2, FS_Union
  <2> QED
    BY <2>2, <2>3
<1>4. /\ Cardinality(Gone') <= Cardinality(Gone \cup X)
      /\ Cardinality(Gone') \in Nat /\ Cardinality(Gone \cup X) \in Nat
  BY <1>1, <1>3, FS_Subset, FS_CardinalityType
<1>5. Cardinality(Gone') <= lost'.dropped + lost'.told
  <2>1. Cardinality(Gone) \in Nat /\ Cardinality(X) \in Nat
    BY <1>2, FS_CardinalityType
  <2>2. Cardinality(Gone) <= lost.dropped + lost.told
    BY DEF Accounted
  <2>3. lost.dropped + lost.told \in Nat
    BY LostType
  <2> QED
    BY <1>3, <1>4, <2>1, <2>2, <2>3
<1> QED
  BY <1>1, <1>5 DEF Accounted

\* Most steps drop nothing.
LEMMA NothingDropped ==
    ASSUME SpillTypes, Accounted, SpillTypes', end = "garbled" => end' = "garbled", cut \subseteq cut',
           1 .. logged' \subseteq (1 .. logged) \cup Kept',
           end' # "garbled" => Traced \subseteq Traced',
           lost'.dropped + lost'.told = lost.dropped + lost.told
    PROVE  Accounted'
<1>1. IsFiniteSet({}) /\ Cardinality({}) = 0
  BY FS_EmptySet
<1>2. lost.dropped + lost.told \in Nat
  BY LostType
<1>3. lost'.dropped + lost'.told = lost.dropped + lost.told + 0
  BY <1>2
<1>4. end' # "garbled" => Traced \subseteq Traced' \cup {} \cup {0}
  OBVIOUS
<1>5. cut \cup {} \subseteq cut' /\ Cardinality({}) <= 0 /\ 0 \in Nat
  BY <1>1
<1> QED
  BY <1>1, <1>3, <1>4, <1>5, AccountedKept

\* A thread changes what it holds.
LEMMA HandsChange ==
    ASSUME SpillTypes, NEW t \in S!Threads, NEW held \in Seq(Nat),
           NEW at \in Places, S!At(t, at, held)
    PROVE  /\ flusher' \in [S!Threads -> Holding]
           /\ InHands \subseteq InHands' \cup Elems(flusher[t].held) /\ Elems(held) \subseteq InHands'
           /\ InHands' \subseteq InHands \cup Elems(held)
           /\ Hands /\ (at = "rest" => held = <<>>) /\ (at = "ship" => held # <<>>) => Hands'
<1>1. flusher' = [flusher EXCEPT ![t] = [at |-> at, held |-> held]]
  BY DEF S!At
<1>2. flusher' \in [S!Threads -> Holding]
  BY <1>1 DEF SpillTypes
<1>3. \A u \in S!Threads : flusher'[u] = IF u = t THEN [at |-> at, held |-> held] ELSE flusher[u]
  BY <1>1 DEF SpillTypes
<1>4. flusher'[t].held = held
  BY <1>3
<1>5. Elems(held) \subseteq InHands'
  BY <1>4 DEF InHands
<1>6. ASSUME NEW u \in S!Threads PROVE Elems(flusher[u].held) \subseteq InHands' \cup Elems(flusher[t].held)
  BY <1>3 DEF InHands
<1>7. ASSUME NEW u \in S!Threads PROVE Elems(flusher'[u].held) \subseteq InHands \cup Elems(held)
  BY <1>3 DEF InHands
<1>8. InHands \subseteq InHands' \cup Elems(flusher[t].held) /\ InHands' \subseteq InHands \cup Elems(held)
  <2>1. InHands \subseteq InHands' \cup Elems(flusher[t].held)
    BY <1>6 DEF InHands
  <2>2. InHands' \subseteq InHands \cup Elems(held)
    BY <1>7 DEF InHands
  <2> QED
    BY <2>1, <2>2
<1>9. ASSUME Hands, at = "rest" => held = <<>>, at = "ship" => held # <<>> PROVE Hands'
  <2>1. ASSUME NEW u \in S!Threads
        PROVE  /\ flusher'[u].at = "rest" => flusher'[u].held = <<>>
               /\ flusher'[u].at = "ship" => flusher'[u].held # <<>>
    BY <1>3, <1>9 DEF Hands
  <2> QED
    BY <2>1 DEF Hands
<1> HIDE DEF Hands, Holding
<1> QED
  BY <1>2, <1>5, <1>8, <1>9

-----------------------------------------------------------------------------
(* Lines that enter and leave the file.                                    *)

\* What is appended and trimmed: the lines that stay move to the front.
Moved(n) ==
    /\ Len(spill) <= Len(spill') + n
    /\ \A i \in 1 .. Len(spill') : i + n <= Len(spill) => spill'[i] = spill[i + n] \/ spill'[i] = 0
Shifted ==
    /\ spill' \in Seq(Nat) /\ trimmed' \in Nat /\ trimmed <= trimmed'
    /\ \E n \in 0 .. trimmed' - trimmed : Moved(n)

LEMMA NotShifted == ASSUME SpillTypes, UNCHANGED <<spill, trimmed>> PROVE Shifted
<1>1. Moved(0) /\ 0 \in 0 .. trimmed' - trimmed
  BY DEF Moved, SpillTypes
<1> QED
  BY <1>1 DEF Shifted, SpillTypes

LEMMA DrainingKept ==
    ASSUME SpillTypes, Draining, Shifted, UNCHANGED drain, sent \subseteq sent'
    PROVE  Draining'
<1> SUFFICES ASSUME drain.by # Nobody PROVE Draining'
  BY DEF Draining
<1>1. PICK r \in 0 .. trimmed : Follows(r)
  BY DEF Draining
<1>2. PICK n \in 0 .. trimmed' - trimmed : Moved(n)
  BY DEF Shifted
<1>3. /\ Len(spill) \in Nat /\ Len(spill') \in Nat /\ trimmed \in Nat /\ trimmed' \in Nat
      /\ Len(drain.lines) \in Nat /\ r \in Nat /\ n \in Nat
  BY DEF SpillTypes, Shifted
<1>4. r + n \in 0 .. trimmed'
  <2>1. \A a, b \in Nat : \A x \in 0 .. a, y \in 0 .. b - a : x + y \in 0 .. b
    OBVIOUS
  <2>2. r \in 0 .. trimmed /\ n \in 0 .. trimmed' - trimmed
    OBVIOUS
  <2> QED
    BY <1>3, <2>1, <2>2
<1>5. Len(drain.lines) <= Len(spill') + (r + n)
  BY <1>1, <1>2, <1>3 DEF Follows, Moved
<1>6. ASSUME NEW i \in 1 .. Len(spill'), i + (r + n) <= Len(drain.lines)
      PROVE  spill'[i] = drain.lines[i + (r + n)] \/ spill'[i] = 0
  <2> DEFINE j == i + n
  <2>1. Len(drain.lines) <= Len(spill) + r
    BY <1>1 DEF Follows
  <2>2. j \in 1 .. Len(spill) /\ j + r = i + (r + n) /\ j <= Len(spill)
    BY <1>3, <1>6, <2>1
  <2>3. spill'[i] = spill[j] \/ spill'[i] = 0
    BY <1>2, <2>2 DEF Moved
  <2> HIDE DEF j
  <2>4. spill[j] = drain.lines[j + r] \/ spill[j] = 0
    BY <1>1, <1>6, <2>2 DEF Follows
  <2> QED
    BY <2>2, <2>3, <2>4
<1>7. Follows(r + n)'
  BY <1>5, <1>6 DEF Follows
<1> QED
  BY <1>4, <1>7 DEF Draining

\* Lines were added: where a line stood there is that line, or a broken one.
Added(ls) ==
    /\ ls \in Seq(Nat) /\ Len(spill) <= Len(ls)
    /\ \A i \in 1 .. Len(spill) : ls[i] = spill[i] \/ ls[i] = 0

\* The first line that is added after half a line swallows it and is swallowed.
LEMMA JoinedLines ==
    ASSUME SpillTypes, FileInv, NEW more \in Seq(Nat), NEW ls, ls = S!Joined(more)
    PROVE  /\ Added(ls) /\ (more # <<>> => ls # <<>>)
           /\ Elems(spill) \cup Elems(more) \subseteq Elems(ls) \cup S!Swallowed(more) \cup {0}
           /\ Elems(ls) \subseteq Elems(spill) \cup Elems(more) \cup {0}
           /\ S!Swallowed(more) \subseteq (Elems(spill) \cup Elems(more)) \ {0}
           /\ end # "half" => Len(ls) = Len(spill) + Len(more)
           /\ IsFiniteSet(S!Swallowed(more))
           /\ Cardinality(S!Swallowed(more)) <= (IF end = "half" THEN 2 ELSE 0)
<1>1. spill \in Seq(Nat) /\ Len(spill) \in Nat
  BY DEF SpillTypes
<1>2. CASE S!Glues(more)
  <2> DEFINE l == Len(spill)
             b == [spill EXCEPT ![l] = 0]
             t == Tail(more)
             two == {spill[l], Head(more)}
  <2>1. spill # <<>> /\ end = "half" /\ more # <<>> /\ l \in 1 .. l /\ l \in Nat
    BY <1>1, <1>2 DEF S!Glues, FileInv
  <2>2. ls = b \o t /\ S!Swallowed(more) = two \ {0}
    BY <1>2 DEF S!Joined, S!Swallowed, S!Last, S!Broken
  <2>3. b \in Seq(Nat) /\ Len(b) = l /\ \A j \in 1 .. l : b[j] = IF j = l THEN 0 ELSE spill[j]
    BY <1>1, <2>1, ExceptSeq
  <2>4. t \in Seq(Nat) /\ Elems(more) = Elems(t) \cup {Head(more)}
    BY <2>1, TailElems
  <2> HIDE DEF b, t, l
  <2>5. /\ b \o t \in Seq(Nat) /\ Len(b \o t) = Len(b) + Len(t) /\ Len(t) \in Nat
        /\ \A i \in 1 .. Len(b) : (b \o t)[i] = b[i]
        /\ Elems(b \o t) = Elems(b) \cup Elems(t)
    BY <2>3, <2>4, ConcatElems
  <2>6. Added(ls) /\ ls # <<>>
    BY <2>1, <2>2, <2>3, <2>5 DEF Added, l
  <2>7. Elems(spill) \subseteq Elems(b) \cup {spill[l]}
    BY <2>3 DEF Elems, l
  <2>8. Elems(spill) \cup Elems(more) \subseteq Elems(ls) \cup S!Swallowed(more) \cup {0}
    BY <2>2, <2>4, <2>5, <2>7
  <2>9. IsFiniteSet(two) /\ Cardinality(two) <= 2
    <3>1. IsFiniteSet({spill[l]}) /\ Cardinality({spill[l]}) = 1
      BY FS_Singleton
    <3>2. two = {spill[l]} \cup {Head(more)}
      OBVIOUS
    <3>3. /\ IsFiniteSet({spill[l]} \cup {Head(more)})
          /\ Cardinality({spill[l]} \cup {Head(more)}) =
               IF Head(more) \in {spill[l]} THEN Cardinality({spill[l]}) ELSE Cardinality({spill[l]}) + 1
      BY <3>1, FS_AddElement
    <3> HIDE DEF two
    <3> QED
      BY <3>1, <3>2, <3>3
  <2>10. S!Swallowed(more) \in SUBSET two
    BY <2>2
  <2> HIDE DEF two
  <2>11. /\ IsFiniteSet(S!Swallowed(more)) /\ Cardinality(S!Swallowed(more)) <= Cardinality(two)
         /\ Cardinality(S!Swallowed(more)) \in Nat /\ Cardinality(two) \in Nat
    BY <2>9, <2>10, FS_Subset, FS_CardinalityType
  <2>12. Cardinality(S!Swallowed(more)) <= 2
    BY <2>9, <2>11
  <2>13. Elems(b) \subseteq Elems(spill) \cup {0} /\ two \subseteq Elems(spill) \cup Elems(more)
    <3>1. spill[l] \in Elems(spill) /\ \A j \in 1 .. l : spill[j] \in Elems(spill)
      BY <2>1 DEF Elems, l
    <3>2. Elems(b) \subseteq Elems(spill) \cup {0}
      BY <2>3, <3>1 DEF Elems
    <3> QED
      BY <2>4, <3>1, <3>2 DEF two
  <2>14. Elems(ls) \subseteq Elems(spill) \cup Elems(more) \cup {0}
    BY <2>2, <2>4, <2>5, <2>13
  <2>15. S!Swallowed(more) \subseteq (Elems(spill) \cup Elems(more)) \ {0}
    BY <2>2, <2>13
  <2> QED
    BY <2>1, <2>6, <2>8, <2>11, <2>12, <2>14, <2>15
<1>3. CASE ~S!Glues(more)
  <2>1. ls = spill \o more /\ S!Swallowed(more) = {}
    BY <1>3 DEF S!Joined, S!Swallowed
  <2>2. /\ ls \in Seq(Nat) /\ Len(ls) = Len(spill) + Len(more)
        /\ \A i \in 1 .. Len(spill) : ls[i] = spill[i]
        /\ Elems(ls) = Elems(spill) \cup Elems(more)
    BY <1>1, <2>1, ConcatElems
  <2>3. more # <<>> => Len(more) > 0 /\ Len(more) \in Nat
    OBVIOUS
  <2>4. Added(ls) /\ (more # <<>> => ls # <<>>)
    BY <1>1, <2>2, <2>3 DEF Added
  <2>5. IsFiniteSet({}) /\ Cardinality({}) = 0
    BY FS_EmptySet
  <2> QED
    BY <2>1, <2>2, <2>4, <2>5
<1> QED
  BY <1>2, <1>3

\* Records that are swallowed leave room for what a half line may swallow.
LEMMA GluedFew ==
    ASSUME SpillTypes, FileInv, NEW gone, glued' = glued \cup gone, IsFiniteSet(gone),
           Cardinality(gone) <= (IF end = "half" THEN 2 ELSE 0)
    PROVE  IsFiniteSet(glued') /\ Cardinality(glued') \in Nat /\ Cardinality(glued') <= 2 * bad
<1>1. IsFiniteSet(glued) /\ Cardinality(glued) \in Nat /\ Cardinality(gone) \in Nat
  BY FS_CardinalityType DEF FileInv
<1>2. IsFiniteSet(glued') /\ Cardinality(glued') = Cardinality(glued) + Cardinality(gone) - Cardinality(glued \cap gone)
  BY <1>1, FS_Union
<1>3. Cardinality(glued \cap gone) \in Nat
  BY <1>1, FS_Intersection, FS_CardinalityType
<1>4. Cardinality(glued) + Cardinality(gone) <= 2 * bad
  <2>1. bad \in Nat
    BY DEF SpillTypes
  <2> QED
    BY <1>1, <2>1 DEF FileInv
<1>5. bad \in Nat /\ 2 * bad \in Nat
  BY DEF SpillTypes
<1> QED
  BY <1>1, <1>2, <1>3, <1>4, <1>5, FS_CardinalityType

\* A fault pays for a half line and for what the one before it has swallowed.
LEMMA FaultPays ==
    ASSUME SpillTypes, FileInv, IsFiniteSet(glued'), Cardinality(glued') \in Nat,
           Cardinality(glued') <= 2 * bad, bad' = bad + 1, end' = "half" => spill' # <<>>,
           count' = Nobody => end' = "garbled"
    PROVE  FileInv'
<1>1. bad \in Nat
  BY DEF SpillTypes
<1>2. Cardinality(glued') + (IF end' = "half" THEN 2 ELSE 0) <= 2 * bad'
  BY <1>1
<1> QED
  BY <1>2 DEF FileInv

\* A write that is cut short takes no line away; what it swallows is in glued.
LEMMA CutShortAdds ==
    ASSUME SpillTypes, FileInv, NEW records \in Seq(Nat), S!CutShort(records)
    PROVE  /\ Added(spill') /\ end' \in S!Ends /\ (end = "garbled" => end' = "garbled")
           /\ (end' = "half" => spill' # <<>>)
           /\ Elems(spill) \subseteq Elems(spill') \cup glued' \cup {0} /\ glued \subseteq glued'
           /\ Elems(spill') \subseteq Elems(spill) \cup Elems(records) \cup {0}
           /\ glued' \subseteq glued \cup ((Elems(spill) \cup Elems(records)) \ {0})
           /\ IsFiniteSet(glued') /\ Cardinality(glued') \in Nat /\ Cardinality(glued') <= 2 * bad
<1>1. PICK more \in Seq(Nat), last \in S!Ends : S!Put(more, last) /\ Elems(more) \subseteq Elems(records) \cup {0}
  <2>1. ASSUME NEW k \in 0 .. Len(records)
        PROVE  SubSeq(records, 1, k) \in Seq(Nat) /\ Elems(SubSeq(records, 1, k)) \subseteq Elems(records)
    <3> DEFINE front == SubSeq(records, 1, k)
               rest == SubSeq(records, k + 1, Len(records))
    <3>1. front = SubSeq(records, 1, k) /\ rest = SubSeq(records, k + 1, Len(records))
      OBVIOUS
    <3> HIDE DEF front, rest
    <3>2. front \in Seq(Nat)
      BY <3>1, CutEntries
    <3>3. Elems(records) = Elems(SubSeq(records, 1, k)) \cup Elems(SubSeq(records, k + 1, Len(records)))
      BY CutCover
    <3> QED
      BY <3>1, <3>2, <3>3
  <2>2. ASSUME NEW k \in 0 .. Len(records) - 1
        PROVE  /\ Append(SubSeq(records, 1, k), 0) \in Seq(Nat)
               /\ Elems(Append(SubSeq(records, 1, k), 0)) \subseteq Elems(records) \cup {0}
    <3> DEFINE front == SubSeq(records, 1, k)
    <3>1. k \in 0 .. Len(records)
      OBVIOUS
    <3>2. front \in Seq(Nat) /\ Elems(front) \subseteq Elems(records)
      BY <2>1, <3>1
    <3> HIDE DEF front
    <3>3. Append(front, 0) \in Seq(Nat) /\ Elems(Append(front, 0)) = Elems(front) \cup {0}
      BY <3>2, AppendElems
    <3> QED
      BY <3>2, <3>3 DEF front
  <2>3. CASE \E k \in 0 .. Len(records), last \in {"whole", "half"} : S!Put(SubSeq(records, 1, k), last)
    BY <2>1, <2>3 DEF S!Ends
  <2>4. CASE \E k \in 0 .. Len(records) - 1, last \in {"half", "garbled"} :
               S!Put(Append(SubSeq(records, 1, k), 0), last)
    BY <2>2, <2>4 DEF S!Ends
  <2> QED
    BY <2>3, <2>4 DEF S!CutShort, S!Broken
<1>2. /\ spill' = S!Joined(more) /\ glued' = glued \cup S!Swallowed(more)
      /\ end' = IF end = "garbled" \/ more = <<>> THEN end ELSE last
  BY <1>1 DEF S!Put
<1>3. /\ Added(spill') /\ (more # <<>> => spill' # <<>>)
      /\ Elems(spill) \cup Elems(more) \subseteq Elems(spill') \cup S!Swallowed(more) \cup {0}
      /\ Elems(spill') \subseteq Elems(spill) \cup Elems(more) \cup {0}
      /\ S!Swallowed(more) \subseteq (Elems(spill) \cup Elems(more)) \ {0}
      /\ IsFiniteSet(S!Swallowed(more))
      /\ Cardinality(S!Swallowed(more)) <= (IF end = "half" THEN 2 ELSE 0)
  BY <1>2, JoinedLines
<1>4. end' = "half" => spill' # <<>>
  <2>1. spill # <<>> => spill' # <<>>
    <3>1. spill \in Seq(Nat) /\ spill' \in Seq(Nat) /\ Len(spill) <= Len(spill')
      BY <1>3 DEF Added, SpillTypes
    <3> QED
      BY <3>1
  <2> QED
    BY <1>2, <1>3, <2>1 DEF FileInv
<1>5. IsFiniteSet(glued') /\ Cardinality(glued') \in Nat /\ Cardinality(glued') <= 2 * bad
  BY <1>2, <1>3, GluedFew
<1>6. end' \in S!Ends
  BY <1>2 DEF SpillTypes
<1>7. /\ Elems(spill') \subseteq Elems(spill) \cup Elems(records) \cup {0}
      /\ glued' \subseteq glued \cup ((Elems(spill) \cup Elems(records)) \ {0})
  BY <1>1, <1>2, <1>3
<1> QED
  BY <1>2, <1>3, <1>4, <1>5, <1>6, <1>7

\* Lines that are only added shift nothing.
LEMMA AddedShifts == ASSUME SpillTypes, Added(spill'), trimmed' \in Nat, trimmed <= trimmed' PROVE Shifted
<1>1. Len(spill) \in Nat /\ Len(spill') \in Nat /\ trimmed \in Nat
  BY DEF SpillTypes, Added
<1>2. Moved(0)
  BY <1>1 DEF Moved, Added
<1>3. \A x, y \in Nat : x <= y => 0 \in 0 .. y - x
  OBVIOUS
<1> QED
  BY <1>1, <1>2, <1>3 DEF Shifted, Added

\* While nothing has failed the count is right and the file within its bound.
NoFault == bad = 0 => end = "whole" /\ count = Len(spill) /\ Len(spill) <= MaxSpans + Slack

\* What no longer fits and what the disk refused is counted.
Appended(records) ==
    /\ NoFault => NoFault'
    /\ Elems(spill') \subseteq Elems(spill) \cup Elems(records) \cup {0}
    /\ cut' \subseteq cut \cup Elems(spill) \cup Elems(records) \cup {0}
    /\ glued' \subseteq glued \cup ((Elems(spill) \cup Elems(records)) \ {0})
    /\ Shifted /\ FileInv' /\ lost' \in Counts
    /\ end' \in S!Ends /\ count' \in Nat \cup {Nobody} /\ bad' \in Nat
    /\ end = "garbled" => end' = "garbled"
    /\ glued \subseteq glued'
    /\ \E X \in SUBSET cut', k \in Nat :
         /\ IsFiniteSet(X) /\ Cardinality(X) <= k /\ cut' = cut \cup X
         /\ lost'.dropped + lost'.told = lost.dropped + lost.told + k
         /\ end' # "garbled" =>
              Elems(spill) \cup Elems(records) \subseteq Elems(spill') \cup glued' \cup X \cup {0}

LEMMA WrittenCounts ==
    ASSUME SpillTypes, FileInv, NEW records \in Seq(Nat), count # Nobody, S!Written(records)
    PROVE  Appended(records)
<1> DEFINE ls == S!Joined(records)
           gone == S!Swallowed(records)
           n == IF S!Trims(records) THEN S!TooMany(ls) ELSE 0
           front == SubSeq(ls, 1, n)
           rest == SubSeq(ls, n + 1, Len(ls))
<1>1. /\ (spill' = rest /\ UNCHANGED bad) \/ (spill' = ls /\ bad' = bad + 1)
      /\ end' = IF end = "garbled" THEN end ELSE "whole"
      /\ glued' = glued \cup gone
      /\ count' = IF S!Trims(records) THEN Len(spill') ELSE count + Len(records)
      /\ trimmed' = trimmed + n
      /\ lost' = [lost EXCEPT !.dropped = @ + n]
      /\ cut' = cut \cup S!ToSet(front)
  BY DEF S!Written, S!Fault
<1>2. ls = S!Joined(records) /\ gone = S!Swallowed(records)
  OBVIOUS
<1>3. front = SubSeq(ls, 1, n) /\ rest = SubSeq(ls, n + 1, Len(ls))
  OBVIOUS
<1>4. n = IF S!Trims(records) THEN S!TooMany(ls) ELSE 0
  OBVIOUS
<1> HIDE DEF ls, gone, n, front, rest
<1>5. /\ Added(ls)
      /\ Elems(spill) \cup Elems(records) \subseteq Elems(ls) \cup gone \cup {0}
      /\ Elems(ls) \subseteq Elems(spill) \cup Elems(records) \cup {0}
      /\ gone \subseteq (Elems(spill) \cup Elems(records)) \ {0}
      /\ end # "half" => Len(ls) = Len(spill) + Len(records)
      /\ IsFiniteSet(gone) /\ Cardinality(gone) <= (IF end = "half" THEN 2 ELSE 0)
  BY <1>2, JoinedLines
<1>6. /\ ls \in Seq(Nat) /\ Len(ls) \in Nat /\ Len(spill) \in Nat /\ Len(records) \in Nat
      /\ trimmed \in Nat /\ count \in Nat /\ bad \in Nat /\ lost \in Counts
  BY <1>5 DEF Added, SpillTypes
<1>7. n \in 0 .. Len(ls) /\ n \in Nat
  <2>1. S!TooMany(ls) = IF Len(ls) > MaxSpans THEN Len(ls) - MaxSpans ELSE 0
    BY DEF S!TooMany
  <2>2. MaxSpans \in Nat
    BY PartsAssumption
  <2>3. S!TooMany(ls) \in 0 .. Len(ls)
    BY <1>6, <2>1, <2>2
  <2> QED
    BY <1>4, <1>6, <2>3
<1>8. front \in Seq(Nat) /\ Len(front) = n
  BY <1>3, <1>6, <1>7, CutEntries
<1>9. rest \in Seq(Nat) /\ Len(rest) = Len(ls) - n /\ \A i \in 1 .. Len(ls) - n : rest[i] = ls[i + n]
  BY <1>3, <1>6, <1>7, CutEntries
<1>10. Elems(ls) = Elems(front) \cup Elems(rest)
  BY <1>3, <1>6, <1>7, CutCover
<1>11. spill' \in Seq(Nat) /\ bad' \in Nat /\ bad <= bad' /\ Elems(ls) \subseteq Elems(spill') \cup Elems(front)
  BY <1>1, <1>6, <1>9, <1>10
<1>12. trimmed' \in Nat /\ trimmed <= trimmed' /\ trimmed' - trimmed = n
  BY <1>1, <1>6, <1>7
<1>13. Shifted
  <2>1. CASE spill' = ls
    BY <1>5, <1>12, <2>1, AddedShifts
  <2>2. CASE spill' = rest
    <3>1. Len(spill) <= Len(spill') + n
      <4>1. Len(spill) <= Len(ls)
        BY <1>5 DEF Added
      <4> QED
        BY <1>6, <1>7, <1>9, <2>2, <4>1
    <3>2. ASSUME NEW i \in 1 .. Len(spill'), i + n <= Len(spill)
          PROVE  spill'[i] = spill[i + n] \/ spill'[i] = 0
      <4>1. i \in 1 .. Len(ls) - n /\ i + n \in 1 .. Len(spill)
        <5>1. i \in 1 .. Len(ls) - n
          BY <1>9, <2>2
        <5>2. i \in Nat /\ i > 0 /\ Len(spill) \in Nat /\ n \in Nat
          BY <1>6, <1>7, <5>1
        <5> QED
          BY <3>2, <5>1, <5>2
      <4> QED
        BY <1>5, <1>9, <2>2, <4>1 DEF Added
    <3>3. Moved(n)
      BY <3>1, <3>2 DEF Moved
    <3>4. n \in 0 .. trimmed' - trimmed
      BY <1>7, <1>12
    <3> QED
      BY <1>11, <1>12, <3>3, <3>4 DEF Shifted
  <2> QED
    BY <1>1, <2>1, <2>2
<1>14. end' \in S!Ends /\ end' # "half" /\ (end = "garbled" => end' = "garbled") /\ count' \in Nat
  BY <1>1, <1>6, <1>11 DEF S!Ends
<1>15. IsFiniteSet(glued') /\ Cardinality(glued') \in Nat /\ Cardinality(glued') <= 2 * bad
  BY <1>1, <1>5, GluedFew
<1>16. FileInv'
  <2>1. Cardinality(glued') + 0 <= 2 * bad'
    BY <1>6, <1>11, <1>15
  <2>2. count' # Nobody
    BY <1>14, PartsAssumption
  <2> QED
    BY <1>14, <1>15, <2>1, <2>2 DEF FileInv
<1>17. IsFiniteSet(Elems(front)) /\ Cardinality(Elems(front)) <= n
  BY <1>8, FewElems
<1>18. cut' = cut \cup Elems(front)
  BY <1>1 DEF S!ToSet, Elems
<1>19. lost' \in Counts /\ lost'.dropped + lost'.told = lost.dropped + lost.told + n
  <2>1. lost' = [dropped |-> lost.dropped + n, told |-> lost.told]
    BY <1>1, <1>6
  <2> QED
    BY <1>6, <1>7, <2>1, LostType
<1>20. glued \subseteq glued'
       /\ Elems(spill) \cup Elems(records) \subseteq Elems(spill') \cup glued' \cup Elems(front) \cup {0}
  BY <1>1, <1>5, <1>11
<1>21. /\ Elems(spill') \subseteq Elems(spill) \cup Elems(records) \cup {0}
       /\ cut' \subseteq cut \cup Elems(spill) \cup Elems(records) \cup {0}
       /\ glued' \subseteq glued \cup ((Elems(spill) \cup Elems(records)) \ {0})
  <2>1. spill' = ls \/ spill' = rest
    BY <1>1
  <2>2. Elems(spill') \subseteq Elems(ls) /\ Elems(front) \subseteq Elems(ls)
    BY <1>10, <2>1
  <2> QED
    BY <1>1, <1>5, <1>18, <2>2
<1>22. ASSUME NoFault, bad' = 0
       PROVE  end' = "whole" /\ count' = Len(spill') /\ Len(spill') <= MaxSpans + Slack
  <2>1. bad = 0 /\ spill' = rest
    BY <1>1, <1>6, <1>22
  <2>2. end = "whole" /\ count = Len(spill) /\ Len(spill) <= MaxSpans + Slack
    BY <1>22, <2>1 DEF NoFault
  <2>3. Len(ls) = count + Len(records) /\ Len(spill') = Len(ls) - n /\ MaxSpans \in Nat /\ Slack \in Nat
    BY <1>5, <1>9, <2>1, <2>2, PartsAssumption
  <2>4. CASE S!Trims(records)
    <3>1. count' = Len(spill') /\ n = IF Len(ls) > MaxSpans THEN Len(ls) - MaxSpans ELSE 0
      BY <1>1, <1>4, <2>4 DEF S!TooMany
    <3>2. Len(ls) - n <= MaxSpans + Slack
      <4>1. \A a, m, b \in Nat : a - (IF a > m THEN a - m ELSE 0) <= m + b
        OBVIOUS
      <4>2. Len(ls) \in Nat /\ MaxSpans \in Nat /\ Slack \in Nat
        BY <1>6, <2>3
      <4> QED
        BY <3>1, <4>1, <4>2
    <3>3. end' = "whole" /\ Len(spill') = Len(ls) - n
      BY <1>1, <2>2, <2>3
    <3> QED
      BY <3>1, <3>2, <3>3
  <2>5. CASE ~S!Trims(records)
    <3>1. count' = count + Len(records) /\ n = 0
      BY <1>1, <1>4, <2>5
    <3>2. count + Len(records) <= MaxSpans + Slack
      BY <1>6, <2>2, <2>3, <2>5 DEF S!Trims
    <3> QED
      BY <1>1, <1>6, <2>2, <2>3, <3>1, <3>2
  <2> QED
    BY <2>4, <2>5
<1>23. NoFault => NoFault'
  BY <1>22 DEF NoFault
<1> QED
  BY <1>7, <1>11, <1>13, <1>14, <1>16, <1>17, <1>18, <1>19, <1>20, <1>21, <1>23 DEF Appended

LEMMA NotWrittenCounts ==
    ASSUME SpillTypes, FileInv, NEW records \in Seq(Nat), count # Nobody, S!NotWritten(records)
    PROVE  Appended(records)
<1>1. /\ bad' = bad + 1 /\ S!CutShort(records) /\ UNCHANGED <<count, trimmed>>
      /\ lost' = [lost EXCEPT !.dropped = @ + Len(records)]
      /\ cut' = cut \cup Elems(records)
  BY DEF S!NotWritten, S!Fault, S!ToSet, Elems
<1>2. /\ Added(spill') /\ end' \in S!Ends /\ (end = "garbled" => end' = "garbled")
      /\ (end' = "half" => spill' # <<>>)
      /\ Elems(spill) \subseteq Elems(spill') \cup glued' \cup {0} /\ glued \subseteq glued'
      /\ Elems(spill') \subseteq Elems(spill) \cup Elems(records) \cup {0}
      /\ glued' \subseteq glued \cup ((Elems(spill) \cup Elems(records)) \ {0})
      /\ IsFiniteSet(glued') /\ Cardinality(glued') \in Nat /\ Cardinality(glued') <= 2 * bad
  BY <1>1, CutShortAdds
<1>3. /\ trimmed \in Nat /\ count \in Nat /\ bad \in Nat /\ lost \in Counts
      /\ Len(records) \in Nat
  BY DEF SpillTypes
<1>4. Shifted
  BY <1>1, <1>2, <1>3, AddedShifts
<1>5. count' # Nobody
  BY <1>1
<1>6. FileInv'
  BY <1>1, <1>2, <1>5, FaultPays
<1>7. IsFiniteSet(Elems(records)) /\ Cardinality(Elems(records)) <= Len(records)
  BY FewElems
<1>8. lost' \in Counts /\ lost'.dropped + lost'.told = lost.dropped + lost.told + Len(records)
  <2>1. lost' = [dropped |-> lost.dropped + Len(records), told |-> lost.told]
    BY <1>1, <1>3
  <2> QED
    BY <1>3, <2>1, LostType
<1>9. count' \in Nat \cup {Nobody} /\ bad' \in Nat
  BY <1>1, <1>3
<1>10. NoFault'
  BY <1>1, <1>3 DEF NoFault
<1> QED
  BY <1>1, <1>2, <1>3, <1>4, <1>6, <1>7, <1>8, <1>9, <1>10 DEF Appended

LEMMA SpilledCounts ==
    ASSUME SpillTypes, FileInv, NEW records \in Seq(Nat), S!Spilled(records)
    PROVE  Appended(records)
<1>1. CASE records = <<>> \/ count = Nobody
  <2>1. UNCHANGED <<spill, end, count, lost, trimmed, cut, glued, bad>>
    BY <1>1 DEF S!Spilled, S!spillVars
  <2>2. Shifted
    BY <2>1, NotShifted
  <2>3. IsFiniteSet({}) /\ Cardinality({}) <= 0 /\ 0 \in Nat
    BY FS_EmptySet
  <2>4. end' # "garbled" => Elems(records) = {}
    BY <1>1, <2>1 DEF Elems, FileInv
  <2>5. /\ lost \in Counts /\ lost.dropped + lost.told = lost.dropped + lost.told + 0
        /\ end \in S!Ends /\ count \in Nat \cup {Nobody} /\ bad \in Nat
    BY LostType DEF SpillTypes
  <2>6. FileInv'
    BY <2>1 DEF FileInv
  <2>7. /\ {} \in SUBSET cut' /\ cut' = cut \cup {}
        /\ end' # "garbled" => Elems(spill) \cup Elems(records) \subseteq Elems(spill') \cup glued' \cup {} \cup {0}
    BY <2>1, <2>4
  <2>8. /\ NoFault => NoFault'
        /\ Elems(spill') \subseteq Elems(spill) /\ cut' \subseteq cut /\ glued' \subseteq glued
    BY <2>1 DEF NoFault
  <2> QED
    BY <2>1, <2>2, <2>3, <2>5, <2>6, <2>7, <2>8 DEF Appended
<1>2. CASE ~(records = <<>> \/ count = Nobody)
  BY <1>2, WrittenCounts, NotWrittenCounts DEF S!Spilled
<1> QED
  BY <1>1, <1>2

-----------------------------------------------------------------------------
(* The steps of the spill.                                                 *)

\* A step that leaves the file, the drain and what was dropped alone.
LEMMA SpillQuiet ==
    ASSUME SpillInv, SpillTypes', Hands',
           UNCHANGED <<spill, end, count, trimmed, lost, cut, glued, bad, drain, died>>, sent \subseteq sent',
           1 .. logged' \subseteq (1 .. logged) \cup Kept',
           end' # "garbled" => Kept \subseteq Kept' \cup sent'
    PROVE  SpillInv'
<1>1. Shifted
  BY NotShifted DEF SpillInv
<1>2. Draining'
  BY <1>1, DrainingKept DEF SpillInv
<1>3. end' # "garbled" => Traced \subseteq Traced'
  BY DEF Traced
<1>4. Accounted'
  BY <1>3, NothingDropped DEF SpillInv
<1>5. FileInv'
  BY DEF SpillInv, FileInv
<1> QED
  BY <1>2, <1>4, <1>5 DEF SpillInv

\* A step that appends records which were in memory.
LEMMA AppendKeeps ==
    ASSUME SpillInv, NEW records \in Seq(Nat), S!Spilled(records), UNCHANGED <<logged, buffer, drain, sent, died>>,
           carry' \in Seq(Nat), flusher' \in [S!Threads -> Holding], Hands',
           Elems(carry) \cup InHands \subseteq Elems(carry') \cup InHands' \cup Elems(records)
    PROVE  SpillInv'
<1>1. Appended(records) /\ Shifted /\ FileInv' /\ (end = "garbled" => end' = "garbled")
  BY SpilledCounts DEF SpillInv, Appended
<1>2. PICK X \in SUBSET cut', k \in Nat :
         /\ IsFiniteSet(X) /\ Cardinality(X) <= k /\ cut' = cut \cup X
         /\ lost'.dropped + lost'.told = lost.dropped + lost.told + k
         /\ end' # "garbled" =>
              Elems(spill) \cup Elems(records) \subseteq Elems(spill') \cup glued' \cup X \cup {0}
  BY <1>1 DEF Appended
<1>3. SpillTypes'
  BY <1>1 DEF SpillInv, SpillTypes, Appended, Shifted
<1>4. Draining'
  BY <1>1, DrainingKept DEF SpillInv
<1>5. end' # "garbled" => Traced \subseteq Traced' \cup X \cup {0}
  BY <1>1, <1>2 DEF Traced, Kept, Appended
<1>6. 1 .. logged' \subseteq (1 .. logged) \cup Kept' /\ cut \cup X \subseteq cut'
  BY <1>2
<1>7. Accounted'
  BY <1>1, <1>2, <1>3, <1>5, <1>6, AccountedKept DEF SpillInv
<1> QED
  BY <1>1, <1>3, <1>4, <1>7 DEF SpillInv

\* A record is logged; the older half of a full buffer may be on its way to the
\* file.
LEMMA LogMoves ==
    ASSUME SpillInv, S!Log
    PROVE  /\ buffer' \in Seq(Nat) /\ carry' \in Seq(Nat)
           /\ Elems(buffer) \cup Elems(carry) \cup {logged'} = Elems(buffer') \cup Elems(carry')
<1>1. logged' = logged + 1
  BY DEF S!Log
<1>2. logged \in Nat /\ logged' \in Nat /\ buffer \in Seq(Nat) /\ carry \in Seq(Nat)
  BY <1>1 DEF SpillInv, SpillTypes
<1>3. CASE Len(buffer) >= BufferCap /\ carry = <<>> /\ carry' = SubSeq(buffer, 1, S!Half)
           /\ buffer' = SubSeq(buffer, S!Half + 1, Len(buffer)) \o <<logged'>>
  <2> DEFINE n == S!Half
             front == SubSeq(buffer, 1, n)
             rest == SubSeq(buffer, n + 1, Len(buffer))
             one == <<logged'>>
  <2>1. carry' = front /\ buffer' = rest \o one /\ Elems(carry) = {}
    BY <1>3 DEF Elems
  <2>2. n \in 0 .. Len(buffer)
    <3>1. \A x, y \in Nat : x <= y => x \div 2 \in 0 .. y
      OBVIOUS
    <3>2. BufferCap \in Nat /\ Len(buffer) \in Nat /\ BufferCap <= Len(buffer)
      BY <1>2, <1>3, PartsAssumption
    <3> QED
      BY <3>1, <3>2 DEF S!Half
  <2>3. one \in Seq(Nat) /\ Elems(one) = {logged'}
    BY <1>2 DEF Elems
  <2> HIDE DEF n, one
  <2>4. Elems(buffer) = Elems(front) \cup Elems(rest)
    BY <1>2, <2>2, CutCover
  <2>5. front = SubSeq(buffer, 1, n) /\ rest = SubSeq(buffer, n + 1, Len(buffer))
    OBVIOUS
  <2> HIDE DEF front, rest
  <2>6. front \in Seq(Nat) /\ rest \in Seq(Nat)
    BY <1>2, <2>2, <2>5, CutEntries
  <2>7. rest \o one \in Seq(Nat)
    BY <2>3, <2>6, ConcatElems
  <2>8. Elems(rest \o one) = Elems(rest) \cup Elems(one)
    BY <2>3, <2>6, ConcatElems
  <2> QED
    BY <2>1, <2>3, <2>4, <2>6, <2>7, <2>8
<1>4. CASE buffer' = Append(buffer, logged') /\ carry' = carry
  <2>1. Append(buffer, logged') \in Seq(Nat)
    BY <1>2
  <2>2. Elems(Append(buffer, logged')) = Elems(buffer) \cup {logged'}
    BY <1>2, AppendElems
  <2> QED
    BY <1>2, <1>4, <2>1, <2>2
<1> QED
  BY <1>3, <1>4 DEF S!Log

LEMMA LogKeeps == ASSUME SpillInv, S!Log PROVE SpillInv'
<1>1. /\ logged' = logged + 1
      /\ UNCHANGED <<spill, end, count, lost, trimmed, cut, glued, bad, flusher, drain, sent, died>>
  BY DEF S!Log, S!spillVars
<1>2. logged \in Nat /\ logged' \in Nat /\ buffer \in Seq(Nat) /\ carry \in Seq(Nat)
  BY <1>1 DEF SpillInv, SpillTypes
<1>3. buffer' \in Seq(Nat) /\ carry' \in Seq(Nat)
      /\ Elems(buffer) \cup Elems(carry) \cup {logged'} \subseteq Elems(buffer') \cup Elems(carry')
  BY LogMoves
<1>4. Kept \cup {logged'} \subseteq Kept'
  BY <1>1, <1>3 DEF Kept, InHands
<1>5. SpillTypes' /\ Hands'
  BY <1>1, <1>2, <1>3 DEF SpillInv, SpillTypes, Hands
<1>6. 1 .. logged' \subseteq (1 .. logged) \cup {logged'}
  BY <1>1, <1>2
<1>7. sent \subseteq sent' /\ 1 .. logged' \subseteq (1 .. logged) \cup Kept' /\ Kept \subseteq Kept' \cup sent'
  BY <1>1, <1>4, <1>6
<1> QED
  BY <1>1, <1>5, <1>7, SpillQuiet

\* spill_traces.
LEMMA OverflowKeeps == ASSUME SpillInv, S!Overflow PROVE SpillInv'
<1>1. /\ carry' = <<>> /\ S!Spilled(carry)
      /\ UNCHANGED <<logged, buffer, flusher, drain, sent, died>>
  BY DEF S!Overflow
<1>2. carry \in Seq(Nat) /\ flusher \in [S!Threads -> Holding] /\ Hands /\ <<>> \in Seq(Nat)
  BY DEF SpillInv, SpillTypes
<1>3. carry' \in Seq(Nat) /\ flusher' \in [S!Threads -> Holding] /\ Hands' /\ InHands' = InHands
  BY <1>1, <1>2 DEF Hands, InHands
<1> QED
  BY <1>1, <1>2, <1>3, AppendKeeps

\* A flush takes the buffer, or comes by the clock.  What is taken from the buffer
\* is lost only when the file does not decode.
LEMMA TakeKeeps ==
    ASSUME SpillInv, S!Tick \/ \E t \in S!Threads : S!TakeBuffer(t)
    PROVE  SpillInv'
<1>0. SpillTypes /\ Hands
  BY DEF SpillInv
<1>1. CASE S!Tick
  <2>1. /\ S!At("sender", "flush", <<>>) /\ "sender" \in S!Threads /\ flusher["sender"].held = <<>>
        /\ UNCHANGED <<logged, buffer, carry, spill, end, count, lost, trimmed, cut, glued, bad, drain, sent, died>>
    BY <1>0, <1>1 DEF S!Tick, S!spillVars, S!Threads, Hands
  <2>2. <<>> \in Seq(Nat) /\ Elems(<<>>) = {}
    BY DEF Elems
  <2>3. SpillTypes' /\ Hands' /\ InHands \subseteq InHands'
    BY <1>0, <2>1, <2>2, HandsChange DEF SpillTypes
  <2>4. Kept \subseteq Kept'
    BY <2>1, <2>3 DEF Kept
  <2> QED
    BY <2>1, <2>3, <2>4, SpillQuiet
<1>2. ASSUME NEW t \in S!Threads, S!TakeBuffer(t) PROVE SpillInv'
  <2>2. /\ flusher[t].held = <<>> /\ buffer # <<>> /\ buffer' = <<>>
        /\ UNCHANGED <<logged, carry, spill, end, count, lost, trimmed, cut, glued, bad, drain, sent, died>>
    BY <1>0, <1>2 DEF S!TakeBuffer, S!spillVars, Hands
  <2>3. <<>> \in Seq(Nat) /\ Elems(<<>>) = {} /\ buffer \in Seq(Nat)
    BY <1>0 DEF Elems, SpillTypes
  <2>4. CASE count = Nobody
    <3>1. UNCHANGED flusher /\ end' = "garbled"
      BY <1>2, <2>2, <2>4 DEF S!TakeBuffer, SpillInv, FileInv
    <3>2. SpillTypes' /\ Hands'
      BY <1>0, <2>2, <2>3, <3>1 DEF SpillTypes, Hands
    <3> QED
      BY <2>2, <3>1, <3>2, SpillQuiet
  <2>5. CASE count # Nobody
    <3>1. PICK at \in {"drain", "ship"} : S!At(t, at, buffer)
      BY <1>2, <2>5 DEF S!TakeBuffer
    <3>2. /\ flusher' \in [S!Threads -> Holding]
          /\ InHands \subseteq InHands' \cup Elems(flusher[t].held) /\ Elems(buffer) \subseteq InHands' /\ Hands'
      BY <1>0, <2>2, <2>3, <3>1, HandsChange
    <3>3. SpillTypes'
      BY <1>0, <2>2, <2>3, <3>2 DEF SpillTypes
    <3>4. Kept \subseteq Kept'
      BY <2>2, <2>3, <3>2 DEF Kept
    <3> QED
      BY <2>2, <3>2, <3>3, <3>4, SpillQuiet
  <2> QED
    BY <2>4, <2>5
<1> QED
  BY <1>1, <1>2

\* A drain that is given other marks, but its lines and the file are as before.
LEMMA DrainMoves ==
    ASSUME SpillInv, drain.by # Nobody, sent \subseteq sent',
           UNCHANGED <<logged, buffer, carry, spill, end, count, lost, trimmed, cut, glued, bad, flusher, died>>,
           NEW k \in 0 .. Len(drain.lines), NEW left \in Nat,
           drain' = [drain EXCEPT !.consumed = k, !.left = left],
           \A i \in 1 .. k : drain.lines[i] \in sent' \cup {0}
    PROVE  SpillInv'
<1>1. /\ drain \in DrainRecord
      /\ k \in Nat /\ k <= Len(drain.lines)
  BY DEF SpillInv, SpillTypes
<1>2. /\ drain'.by = drain.by /\ drain'.lines = drain.lines /\ drain'.consumed = k
      /\ drain' \in DrainRecord
  BY <1>1
<1>3. SpillTypes' /\ Hands'
  BY <1>2 DEF SpillInv, SpillTypes, Hands
<1>4. Draining'
  <2>1. PICK r \in 0 .. trimmed : Follows(r)
    BY DEF SpillInv, Draining
  <2>2. r \in 0 .. trimmed' /\ Follows(r)'
    BY <1>2, <2>1 DEF Follows
  <2> QED
    BY <1>1, <1>2, <2>2 DEF Draining
<1>5. Traced \subseteq Traced'
  BY DEF Traced, Kept, InHands
<1>6. Accounted'
  BY <1>3, <1>5, NothingDropped DEF SpillInv
<1>7. FileInv'
  BY DEF SpillInv, FileInv
<1> QED
  BY <1>3, <1>4, <1>6, <1>7 DEF SpillInv

\* A batch is sent, or the sending fails.
LEMMA SendKeeps == ASSUME SpillInv, S!DrainBatch \/ S!DrainFails PROVE SpillInv'
<1>1. /\ drain \in DrainRecord
      /\ drain.by # Nobody /\ S!More
  BY DEF S!DrainBatch, S!DrainFails, SpillInv, SpillTypes
<1>2. /\ drain.consumed \in Nat /\ drain.left \in Nat /\ drain.left > 0
      /\ Len(drain.lines) \in Nat /\ drain.consumed < Len(drain.lines)
      /\ \A i \in 1 .. drain.consumed : drain.lines[i] \in sent \cup {0}
  BY <1>1 DEF S!More, SpillInv, Draining
<1>3. CASE S!DrainBatch
  <2> DEFINE k == drain.consumed + 1
             left == drain.left - 1
  <2>1. /\ sent' = sent \cup ({drain.lines[k]} \ {0}) /\ drain' = [drain EXCEPT !.consumed = k, !.left = left]
        /\ UNCHANGED <<logged, buffer, carry, spill, end, count, lost, trimmed, cut, glued, bad, flusher, died>>
    BY <1>3 DEF S!DrainBatch, S!ThisLine, S!Broken, S!spillVars
  <2>2. k \in 0 .. Len(drain.lines) /\ left \in Nat /\ \A i \in 1 .. k : i = k \/ i \in 1 .. drain.consumed
    BY <1>2
  <2> HIDE DEF k, left
  <2>3. \A i \in 1 .. k : drain.lines[i] \in sent' \cup {0}
    BY <1>2, <2>1, <2>2
  <2>4. sent \subseteq sent'
    BY <2>1
  <2> QED
    BY <1>1, <2>1, <2>2, <2>3, <2>4, DrainMoves
<1>4. CASE S!DrainFails
  <2> DEFINE k == drain.consumed
  <2>1. /\ sent \subseteq sent' /\ drain' = [drain EXCEPT !.consumed = k, !.left = 0]
        /\ UNCHANGED <<logged, buffer, carry, spill, end, count, lost, trimmed, cut, glued, bad, flusher, died>>
    BY <1>1, <1>4 DEF S!DrainFails, S!spillVars
  <2>2. k \in 0 .. Len(drain.lines) /\ \A i \in 1 .. k : drain.lines[i] \in sent' \cup {0}
    BY <1>2, <2>1
  <2> HIDE DEF k
  <2>3. 0 \in Nat
    OBVIOUS
  <2> QED
    BY <1>1, <2>1, <2>2, <2>3, DrainMoves
<1> QED
  BY <1>3, <1>4

\* What a drain removes has been sent or was broken, whatever was trimmed meanwhile.
LEMMA RemovesOnlySent ==
    ASSUME SpillInv, drain.by # Nobody
    PROVE  /\ S!ToRemove \in 0 .. Len(spill)
           /\ Elems(SubSeq(spill, 1, S!ToRemove)) \subseteq sent \cup {0}
<1> DEFINE c == drain.consumed
           n == IF c > trimmed THEN c - trimmed ELSE 0
           l == Len(spill)
           k == S!ToRemove
<1>1. /\ c \in Nat /\ trimmed \in Nat /\ l \in Nat /\ spill \in Seq(Nat)
      /\ drain.lines \in Seq(Nat) /\ Len(drain.lines) \in Nat
  BY DEF SpillInv, SpillTypes
<1>2. n \in Nat
  BY <1>1
<1>3. k = S!Min({n, l})
  BY DEF S!ToRemove
<1> HIDE DEF n, l, k
<1>4. k \in {n, l} /\ k <= n /\ k <= l
  <2>1. \E x \in {n, l} : \A y \in {n, l} : x <= y
    BY <1>1, <1>2
  <2> QED
    BY <1>3, <2>1 DEF S!Min
<1>5. k \in 0 .. l /\ k \in Nat
  BY <1>1, <1>2, <1>4
<1>6. ASSUME NEW i \in 1 .. k PROVE spill[i] \in sent \cup {0}
  <2>1. i \in 1 .. l /\ i \in 1 .. n
    BY <1>1, <1>2, <1>4
  <2>2. PICK r \in 0 .. trimmed : Follows(r)
    BY DEF SpillInv, Draining
  <2>3. i + r \in 1 .. c
    <3>1. \A a, b \in Nat : \A x \in 1 .. (IF a > b THEN a - b ELSE 0), y \in 0 .. b : x + y \in 1 .. a
      OBVIOUS
    <3> QED
      BY <1>1, <2>1, <2>2, <3>1 DEF n
  <2>4. c <= Len(drain.lines) /\ \A j \in 1 .. c : drain.lines[j] \in sent \cup {0}
    BY DEF SpillInv, Draining
  <2>5. i + r <= Len(drain.lines)
    BY <1>1, <2>3, <2>4
  <2>6. spill[i] = drain.lines[i + r] \/ spill[i] = 0
    BY <2>1, <2>2, <2>5 DEF Follows, l
  <2> QED
    BY <2>3, <2>4, <2>6
<1> DEFINE front == SubSeq(spill, 1, k)
           rest == SubSeq(spill, k + 1, Len(spill))
<1>7. front = SubSeq(spill, 1, k) /\ rest = SubSeq(spill, k + 1, Len(spill)) /\ k \in 0 .. Len(spill)
  BY <1>5 DEF l
<1> HIDE DEF front, rest
<1>8. Len(front) = k /\ \A i \in 1 .. k : front[i] = spill[i]
  BY <1>1, <1>7, CutEntries
<1>9. Elems(front) \subseteq sent \cup {0}
  BY <1>6, <1>8 DEF Elems
<1> QED
  BY <1>7, <1>9 DEF k

\* drain(), its snapshot.
LEMMA SnapshotKeeps == ASSUME SpillInv, NEW t \in S!Threads, S!Snapshot(t) PROVE SpillInv'
<1>1. /\ SpillTypes /\ Hands /\ FileInv /\ drain.by = Nobody /\ 0 \in Nat
      /\ UNCHANGED <<logged, buffer, carry, spill, end, lost, cut, glued, bad, sent, died>>
      /\ flusher[t].held \in Seq(Nat) /\ spill \in Seq(Nat) /\ Len(spill) \in Nat
  BY DEF S!Snapshot, SpillInv, SpillTypes
<1>2. CASE end = "garbled"
  <2>1. S!At(t, "rest", <<>>) /\ UNCHANGED <<count, trimmed, drain>>
    BY <1>2 DEF S!Snapshot
  <2>2. <<>> \in Seq(Nat)
    OBVIOUS
  <2>3. flusher' \in [S!Threads -> Holding] /\ Hands'
    BY <1>1, <2>1, <2>2, HandsChange
  <2>4. SpillTypes' /\ FileInv' /\ Draining' /\ Accounted'
    BY <1>1, <1>2, <2>1, <2>3 DEF SpillTypes, FileInv, Draining, Accounted
  <2> QED
    BY <2>3, <2>4 DEF SpillInv
<1>3. CASE end # "garbled" /\ spill = <<>>
  <2>1. S!At(t, "tell", flusher[t].held) /\ UNCHANGED drain /\ trimmed' = 0 /\ count' = Len(spill)
    BY <1>3 DEF S!Snapshot
  <2>2. SpillTypes' /\ Hands' /\ InHands \subseteq InHands'
    <3> DEFINE held == flusher[t].held
    <3>0. S!At(t, "tell", held) /\ held \in Seq(Nat) /\ held = flusher[t].held
      BY <1>1, <2>1
    <3> HIDE DEF held
    <3>1. /\ flusher' \in [S!Threads -> Holding]
          /\ InHands \subseteq InHands' \cup Elems(held) /\ Elems(held) \subseteq InHands' /\ Hands'
      BY <1>1, <3>0, HandsChange
    <3> QED
      BY <1>1, <2>1, <3>1 DEF SpillTypes
  <2>3. Draining'
    BY <1>1, <2>1 DEF Draining
  <2>4. Traced \subseteq Traced'
    BY <1>1, <2>2 DEF Traced, Kept
  <2>5. Accounted'
    BY <1>1, <2>2, <2>4, NothingDropped DEF SpillInv
  <2>6. FileInv'
    <3>1. count' # Nobody
      BY <1>1, <2>1, PartsAssumption
    <3> QED
      BY <1>1, <3>1 DEF FileInv
  <2> QED
    BY <2>2, <2>3, <2>5, <2>6 DEF SpillInv
<1>4. CASE end # "garbled" /\ spill # <<>>
  <2>1. PICK left \in Nat : drain' = [by |-> t, lines |-> spill, consumed |-> 0, left |-> left]
    <3>1. ShipMax \in Nat
      BY PartsAssumption
    <3> QED
      BY <1>1, <1>4, <3>1 DEF S!Snapshot
  <2>2. UNCHANGED flusher /\ trimmed' = 0 /\ count' = Len(spill)
    BY <1>4 DEF S!Snapshot
  <2>3. SpillTypes' /\ Hands'
    BY <1>1, <2>1, <2>2 DEF SpillTypes, Hands
  <2>4. Draining'
    <3>1. Follows(0)' /\ 0 \in 0 .. trimmed'
      BY <1>1, <2>1, <2>2 DEF Follows
    <3> QED
      BY <1>1, <2>1, <3>1 DEF Draining
  <2>5. Traced \subseteq Traced'
    BY <1>1, <2>2 DEF Traced, Kept, InHands
  <2>6. Accounted'
    BY <1>1, <2>3, <2>5, NothingDropped DEF SpillInv
  <2>7. FileInv'
    <3>1. count' # Nobody
      BY <1>1, <2>2, PartsAssumption
    <3> QED
      BY <1>1, <3>1 DEF FileInv
  <2> QED
    BY <2>3, <2>4, <2>6, <2>7 DEF SpillInv
<1> QED
  BY <1>2, <1>3, <1>4

\* The file is rewritten without what was sent, or left when that fails.
LEMMA RewriteKeeps ==
    ASSUME SpillInv, drain.by # Nobody, end # "garbled", S!Rewrite, UNCHANGED <<glued, sent>>
    PROVE  /\ spill' \in Seq(Nat) /\ end' \in S!Ends /\ end' # "garbled" /\ count' \in Nat /\ bad' \in Nat
           /\ FileInv' /\ Elems(spill) \subseteq Elems(spill') \cup sent \cup {0}
<1> DEFINE k == S!ToRemove
           front == SubSeq(spill, 1, k)
           rest == SubSeq(spill, k + 1, Len(spill))
<1>1. /\ SpillTypes /\ FileInv /\ spill \in Seq(Nat) /\ Len(spill) \in Nat /\ bad \in Nat /\ end \in S!Ends
  BY DEF SpillInv, SpillTypes
<1>2. k \in 0 .. Len(spill) /\ Elems(front) \subseteq sent \cup {0}
  BY RemovesOnlySent
<1>3. /\ count' = Len(spill) - k
      /\ \/ spill' = rest /\ end' = "whole" /\ UNCHANGED bad
         \/ bad' = bad + 1 /\ UNCHANGED <<spill, end>>
  BY DEF S!Rewrite, S!Fault
<1>4. front = SubSeq(spill, 1, k) /\ rest = SubSeq(spill, k + 1, Len(spill))
  OBVIOUS
<1> HIDE DEF k
<1>5. Elems(spill) = Elems(front) \cup Elems(rest)
  BY <1>1, <1>2, CutCover
<1> HIDE DEF front, rest
<1>6. rest \in Seq(Nat)
  BY <1>1, <1>2, <1>4, CutEntries
<1>7. count' \in Nat
  <2>1. \A a \in Nat : \A b \in 0 .. a : a - b \in Nat
    OBVIOUS
  <2> QED
    BY <1>1, <1>2, <1>3, <2>1
<1>8. count' # Nobody
  BY <1>7, PartsAssumption
<1>9. IsFiniteSet(glued) /\ Cardinality(glued) \in Nat /\ Cardinality(glued) + (IF end = "half" THEN 2 ELSE 0) <= 2 * bad
  BY <1>1, FS_CardinalityType DEF FileInv
<1>10. Cardinality(glued) <= 2 * bad
  BY <1>1, <1>9
<1>11. CASE spill' = rest /\ end' = "whole" /\ UNCHANGED bad
  <2>1. FileInv'
    BY <1>8, <1>9, <1>10, <1>11 DEF FileInv
  <2>2. end' \in S!Ends
    BY <1>11 DEF S!Ends
  <2> QED
    BY <1>1, <1>2, <1>5, <1>6, <1>7, <1>11, <2>1, <2>2
<1>12. CASE bad' = bad + 1 /\ UNCHANGED <<spill, end>>
  <2>1. end' = "half" => spill' # <<>>
    BY <1>1, <1>12 DEF FileInv
  <2>2. FileInv'
    BY <1>1, <1>8, <1>9, <1>10, <1>12, <2>1, FaultPays
  <2> QED
    BY <1>1, <1>7, <1>12, <2>2
<1> QED
  BY <1>3, <1>11, <1>12

LEMMA DrainEndsKeeps == ASSUME SpillInv, S!DrainEnds PROVE SpillInv'
<1> DEFINE t == drain.by
           held == flusher[t].held
<1>1. /\ SpillTypes /\ Hands /\ FileInv /\ drain.by # Nobody /\ t \in S!Threads /\ held \in Seq(Nat)
      /\ drain' = S!Idle /\ <<>> \in Seq(Nat)
      /\ UNCHANGED <<logged, buffer, carry, lost, trimmed, cut, glued, sent, died>>
  BY DEF S!DrainEnds, SpillInv, SpillTypes
<1>2. held = flusher[t].held
  OBVIOUS
<1>3. Draining'
  BY <1>1 DEF Draining, S!Idle
<1>4. drain' \in DrainRecord
  BY <1>1 DEF S!Idle
<1>5. CASE drain.consumed > 0 /\ end = "garbled"
  <2>1. S!At(t, "rest", <<>>) /\ UNCHANGED <<spill, end, count, bad>>
    BY <1>5 DEF S!DrainEnds
  <2> HIDE DEF t, held
  <2>2. flusher' \in [S!Threads -> Holding] /\ Hands'
    BY <1>1, <2>1, HandsChange
  <2>3. SpillTypes' /\ FileInv' /\ Accounted'
    BY <1>1, <1>4, <1>5, <2>1, <2>2 DEF SpillTypes, FileInv, Accounted
  <2> QED
    BY <1>3, <2>2, <2>3 DEF SpillInv
<1>6. CASE ~(drain.consumed > 0 /\ end = "garbled")
  <2>1. S!At(t, "tell", held)
    BY <1>6 DEF S!DrainEnds
  <2>2. /\ spill' \in Seq(Nat) /\ end' \in S!Ends /\ count' \in Nat \cup {Nobody} /\ bad' \in Nat /\ FileInv'
        /\ (end = "garbled" => end' = "garbled")
        /\ Elems(spill) \subseteq Elems(spill') \cup sent \cup {0}
    <3>1. CASE drain.consumed > 0
      <4>1. S!Rewrite /\ end # "garbled"
        BY <1>6, <3>1 DEF S!DrainEnds
      <4> QED
        BY <1>1, <4>1, RewriteKeeps
    <3>2. CASE ~(drain.consumed > 0)
      <4>1. UNCHANGED <<spill, end, count, bad>>
        BY <3>2 DEF S!DrainEnds
      <4> QED
        BY <1>1, <4>1 DEF SpillTypes, FileInv
    <3> QED
      BY <3>1, <3>2
  <2> HIDE DEF t, held
  <2>3. /\ flusher' \in [S!Threads -> Holding]
        /\ InHands \subseteq InHands' \cup Elems(held) /\ Elems(held) \subseteq InHands' /\ Hands'
    BY <1>1, <1>2, <2>1, HandsChange
  <2>4. SpillTypes'
    BY <1>1, <1>4, <2>2, <2>3 DEF SpillTypes
  <2>5. IsFiniteSet({}) /\ Cardinality({}) <= 0 /\ 0 \in Nat
    BY FS_EmptySet
  <2>6. Traced \subseteq Traced' \cup {} \cup {0}
    BY <1>1, <2>2, <2>3 DEF Traced, Kept
  <2>7. /\ cut \cup {} \subseteq cut' /\ 1 .. logged' \subseteq (1 .. logged) \cup Kept'
        /\ lost'.dropped + lost'.told = lost.dropped + lost.told + 0
    BY <1>1, LostType
  <2>8. Accounted'
    BY <1>1, <2>2, <2>4, <2>5, <2>6, <2>7, AccountedKept DEF SpillInv
  <2> QED
    BY <1>3, <2>2, <2>3, <2>4, <2>8 DEF SpillInv
<1> QED
  BY <1>5, <1>6

\* The server is told what was dropped.
LEMMA TellKeeps == ASSUME SpillInv, NEW t \in S!Threads, S!Tell(t) PROVE SpillInv'
<1> DEFINE held == flusher[t].held
           at == IF held = <<>> THEN "rest" ELSE IF count > 0 THEN "append" ELSE "ship"
<1>1. /\ SpillTypes /\ Hands /\ held \in Seq(Nat) /\ S!At(t, at, held)
      /\ UNCHANGED <<logged, buffer, carry, spill, end, count, trimmed, cut, glued, bad, drain, sent, died>>
      /\ lost' = [dropped |-> 0, told |-> lost.told + lost.dropped] \/ UNCHANGED lost
  BY DEF S!Tell, SpillInv, SpillTypes
<1>2. /\ at \in Places /\ held = flusher[t].held
      /\ (at = "rest" => held = <<>>) /\ (at = "ship" => held # <<>>)
  OBVIOUS
<1> HIDE DEF at, held
<1>3. /\ flusher' \in [S!Threads -> Holding]
      /\ InHands \subseteq InHands' \cup Elems(held) /\ Elems(held) \subseteq InHands' /\ Hands'
  BY <1>1, <1>2, HandsChange
<1>4. lost' \in Counts /\ lost'.dropped + lost'.told = lost.dropped + lost.told
  <2>1. lost.dropped \in Nat /\ lost.told \in Nat /\ lost \in Counts
    BY <1>1 DEF SpillTypes
  <2> QED
    BY <1>1, <2>1
<1>5. SpillTypes'
  BY <1>1, <1>3, <1>4 DEF SpillTypes
<1>6. Shifted
  BY <1>1, NotShifted
<1>7. Draining'
  BY <1>1, <1>6, DrainingKept DEF SpillInv
<1>8. Traced \subseteq Traced'
  BY <1>1, <1>3 DEF Traced, Kept
<1>9. Accounted'
  BY <1>1, <1>4, <1>5, <1>8, NothingDropped DEF SpillInv
<1>10. FileInv'
  BY <1>1 DEF SpillInv, FileInv
<1> QED
  BY <1>3, <1>5, <1>7, <1>9, <1>10 DEF SpillInv

\* What a thread holds goes to the file.
LEMMA HeldIsSpilled ==
    ASSUME SpillInv, NEW t \in S!Threads, S!Spilled(flusher[t].held), S!At(t, "rest", <<>>),
           UNCHANGED <<logged, buffer, carry, drain, sent, died>>
    PROVE  SpillInv'
<1> DEFINE held == flusher[t].held
<1>1. /\ SpillTypes /\ Hands /\ held \in Seq(Nat) /\ S!Spilled(held) /\ held = flusher[t].held
      /\ <<>> \in Seq(Nat) /\ carry \in Seq(Nat)
  BY DEF SpillInv, SpillTypes
<1> HIDE DEF held
<1>2. /\ flusher' \in [S!Threads -> Holding]
      /\ InHands \subseteq InHands' \cup Elems(held) /\ Hands'
  BY <1>1, HandsChange
<1>3. carry' \in Seq(Nat) /\ Elems(carry) \cup InHands \subseteq Elems(carry') \cup InHands' \cup Elems(held)
  BY <1>1, <1>2
<1> QED
  BY <1>1, <1>2, <1>3, AppendKeeps

\* A chunk is sent, or it and all that follow go to the file.
LEMMA ShipKeeps == ASSUME SpillInv, NEW t \in S!Threads, S!Ship(t) PROVE SpillInv'
<1> DEFINE held == flusher[t].held
           at == IF Len(held) = 1 THEN "rest" ELSE "ship"
<1>1. CASE S!Spilled(held) /\ S!At(t, "rest", <<>>) /\ UNCHANGED sent
  BY <1>1, HeldIsSpilled DEF S!Ship
<1>2. CASE sent' = sent \cup {Head(held)} /\ S!At(t, at, Tail(held)) /\ UNCHANGED S!spillVars
  <2>1. /\ SpillTypes /\ Hands /\ held \in Seq(Nat) /\ held # <<>> /\ held = flusher[t].held
        /\ UNCHANGED <<logged, buffer, carry, spill, end, count, lost, trimmed, cut, glued, bad, drain, died>>
    BY <1>2 DEF S!Ship, S!spillVars, SpillInv, SpillTypes, Hands
  <2> HIDE DEF held
  <2>2. /\ Tail(held) \in Seq(Nat) /\ Len(Tail(held)) = Len(held) - 1
        /\ Elems(held) = Elems(Tail(held)) \cup {Head(held)}
    BY <2>1, TailElems
  <2> DEFINE rest == Tail(held)
  <2>3. rest \in Seq(Nat) /\ Len(rest) = Len(held) - 1 /\ Len(held) \in Nat /\ S!At(t, at, rest)
    BY <1>2, <2>1, <2>2
  <2> HIDE DEF rest
  <2>4. at \in Places /\ (at = "rest" => rest = <<>>) /\ (at = "ship" => rest # <<>>)
    <3>1. rest = <<>> <=> Len(rest) = 0
      BY <2>3
    <3>2. Len(held) = 1 <=> Len(rest) = 0
      BY <2>3
    <3> QED
      BY <3>1, <3>2
  <2> HIDE DEF at
  <2>5. /\ flusher' \in [S!Threads -> Holding]
        /\ InHands \subseteq InHands' \cup Elems(held) /\ Elems(rest) \subseteq InHands' /\ Hands'
    BY <2>1, <2>3, <2>4, HandsChange
  <2>6. SpillTypes'
    BY <2>1, <2>5 DEF SpillTypes
  <2>7. InHands \subseteq InHands' \cup sent' /\ sent \subseteq sent'
    BY <1>2, <2>2, <2>5 DEF rest
  <2>8. Kept \subseteq Kept' \cup sent'
    BY <2>1, <2>7 DEF Kept
  <2> QED
    BY <2>1, <2>5, <2>6, <2>7, <2>8, SpillQuiet
<1> QED
  BY <1>1, <1>2 DEF S!Ship

\* What was in memory died with the process, also when it dies inside an append.
LEMMA KillKeeps == ASSUME SpillInv, S!Kill PROVE SpillInv'
<1>1. PICK records \in S!InAppend : S!CutShort(records)
  BY DEF S!Kill
<1>2. /\ died' = (1 .. logged) \ (sent \cup S!ToSet(spill')) /\ buffer' = <<>> /\ carry' = <<>>
      /\ lost' = [lost EXCEPT !.dropped = 0] /\ trimmed' = 0 /\ drain' = S!Idle
      /\ flusher' = [t \in S!Threads |-> [at |-> "rest", held |-> <<>>]]
      /\ UNCHANGED <<logged, sent, cut>> /\ bad' = bad + 1
      /\ count' = IF end' = "garbled" THEN Nobody ELSE Len(spill')
  BY DEF S!Kill, S!Fault
<1>3. SpillTypes /\ FileInv /\ records \in Seq(Nat) /\ lost \in Counts /\ bad \in Nat
  BY DEF SpillInv, SpillTypes, S!InAppend
<1>4. /\ spill' \in Seq(Nat) /\ end' \in S!Ends /\ (end' = "half" => spill' # <<>>)
      /\ IsFiniteSet(glued') /\ Cardinality(glued') \in Nat /\ Cardinality(glued') <= 2 * bad
  BY <1>1, <1>3, CutShortAdds DEF Added
<1>5. <<>> \in Seq(Nat) /\ S!ToSet(spill') = Elems(spill') /\ Len(spill') \in Nat
  BY <1>4 DEF S!ToSet, Elems
<1>6. lost' \in Counts
  BY <1>2, <1>3
<1>7. count' \in Nat \cup {Nobody} /\ (count' = Nobody => end' = "garbled")
  <2>1. Nobody \notin Nat
    BY PartsAssumption
  <2>2. CASE end' = "garbled"
    BY <1>2, <2>2
  <2>3. CASE end' # "garbled"
    <3>1. count' = Len(spill')
      BY <1>2, <2>3
    <3>2. count' \in Nat
      BY <1>5, <3>1
    <3> QED
      BY <2>1, <3>2
  <2> QED
    BY <2>2, <2>3
<1>8. SpillTypes' /\ Hands'
  <2>1. flusher' \in [S!Threads -> Holding] /\ Hands'
    BY <1>2, <1>5 DEF Hands
  <2>2. drain' \in DrainRecord
    BY <1>2, <1>5 DEF S!Idle
  <2>3. bad' \in Nat /\ logged' \in Nat /\ trimmed' \in Nat
    BY <1>2, <1>3 DEF SpillTypes
  <2> QED
    BY <1>2, <1>4, <1>5, <1>6, <1>7, <2>1, <2>2, <2>3 DEF SpillTypes
<1>9. FileInv'
  BY <1>2, <1>3, <1>4, <1>7, FaultPays
<1>10. Draining'
  BY <1>2 DEF Draining, S!Idle
<1>11. Gone' = {}
  BY <1>2, <1>5 DEF Gone, Traced, Kept
<1>12. Accounted'
  <2>1. Cardinality({}) = 0
    BY FS_EmptySet
  <2>2. lost'.dropped \in Nat /\ lost'.told \in Nat
    BY <1>6
  <2>3. 0 <= lost'.dropped + lost'.told
    BY <2>2
  <2> QED
    BY <1>11, <2>1, <2>3 DEF Accounted
<1> QED
  BY <1>8, <1>9, <1>10, <1>12 DEF SpillInv

LEMMA SpillInit == ASSUME S!Init PROVE SpillInv
<1>1. /\ logged = 0 /\ buffer = <<>> /\ carry = <<>> /\ spill = <<>> /\ lost = [dropped |-> 0, told |-> 0]
      /\ trimmed = 0 /\ flusher = [t \in S!Threads |-> [at |-> "rest", held |-> <<>>]] /\ drain = S!Idle
      /\ end = "whole" /\ count = 0 /\ glued = {} /\ bad = 0
  BY DEF S!Init
<1>2. <<>> \in Seq(Nat) /\ IsFiniteSet({}) /\ Cardinality({}) = 0
  BY FS_EmptySet
<1>3. SpillTypes /\ Hands /\ Draining
  BY <1>1, <1>2 DEF SpillTypes, Hands, Draining, S!Idle, S!Ends
<1>4. FileInv
  <2>1. count # Nobody
    BY <1>1, PartsAssumption
  <2> QED
    BY <1>1, <1>2, <2>1 DEF FileInv
<1>5. Gone = {}
  BY <1>1 DEF Gone
<1>6. Accounted
  BY <1>1, <1>5, FS_EmptySet DEF Accounted
<1> QED
  BY <1>3, <1>4, <1>6 DEF SpillInv

LEMMA SpillStep == ASSUME SpillInv, [S!Next]_spillVars PROVE SpillInv'
<1>1. CASE S!Log
  BY <1>1, LogKeeps
<1>2. CASE S!Overflow
  BY <1>2, OverflowKeeps
<1>3. CASE S!Tick \/ \E t \in S!Threads : S!TakeBuffer(t)
  BY <1>3, TakeKeeps
<1>4. ASSUME NEW t \in S!Threads, S!Snapshot(t) PROVE SpillInv'
  BY <1>4, SnapshotKeeps
<1>5. ASSUME NEW t \in S!Threads, S!Tell(t) PROVE SpillInv'
  BY <1>5, TellKeeps
<1>6. ASSUME NEW t \in S!Threads, S!AppendHeld(t) PROVE SpillInv'
  BY <1>6, HeldIsSpilled DEF S!AppendHeld
<1>7. ASSUME NEW t \in S!Threads, S!Ship(t) PROVE SpillInv'
  BY <1>7, ShipKeeps
<1>8. CASE S!DrainBatch \/ S!DrainFails
  BY <1>8, SendKeeps
<1>9. CASE S!DrainEnds
  BY <1>9, DrainEndsKeeps
<1>10. CASE S!Kill
  BY <1>10, KillKeeps
<1>11. CASE UNCHANGED spillVars
  BY <1>11 DEF spillVars, SpillInv, SpillTypes, Hands, FileInv, Draining, Follows, Accounted, Gone, Traced,
              Kept, InHands
<1> QED
  BY <1>1, <1>2, <1>3, <1>4, <1>5, <1>6, <1>7, <1>8, <1>9, <1>10, <1>11 DEF S!Next

\* SpillQueue.append, drain and _trim_locked with the flushes around them: no
\* record disappears, unless a trim or the disk took it and counted it or the
\* process died with it.  A drain sends without the lock and then removes lines
\* by number from a file that others have appended to and trimmed: those lines
\* are ones it has sent, because a trim is subtracted once.
THEOREM NothingIsLostInSilence == PartsSpec => []NothingLostInSilence
<1>1. PartsInit => SpillInv
  BY SpillInit DEF PartsInit
<1>2. SpillInv /\ [PartsNext]_partsVars => SpillInv'
  BY SpillStep, EachAlone
<1>3. SpillInv => NothingLostInSilence
  BY AccountedIs DEF SpillInv
<1> QED
  BY <1>1, <1>2, <1>3, PTL DEF PartsSpec

-----------------------------------------------------------------------------
(* TraceSpill: the count and the bound of the file.                        *)

\* Whatever is kept, sent or cut was logged, but for the lines that are broken;
\* while nothing has failed the file is within its bound.
SpillFits ==
    /\ logged \in 0 .. MaxRecords
    /\ Elems(buffer) \cup Elems(carry) \cup InHands \cup sent \cup glued \subseteq S!Records
    /\ Elems(spill) \cup Elems(drain.lines) \cup cut \subseteq S!Records \cup {0}
    /\ NoFault

\* A step that logs nothing and leaves the file alone.
LEMMA FitsQuiet ==
    ASSUME SpillFits, UNCHANGED <<logged, buffer, carry, spill, end, count, cut, glued, bad>>,
           InHands' \subseteq InHands, Elems(drain'.lines) \subseteq Elems(drain.lines) \cup Elems(spill),
           sent' \subseteq S!Records
    PROVE  SpillFits'
<1>1. NoFault'
  BY DEF SpillFits, NoFault
<1> QED
  BY <1>1 DEF SpillFits

\* append() trims the file as soon as it is over its bound.
LEMMA AppendFits ==
    ASSUME SpillInv, SpillFits, NEW records \in Seq(Nat), Elems(records) \subseteq S!Records,
           S!Spilled(records), UNCHANGED <<logged, buffer, drain, sent>>,
           Elems(carry') \subseteq Elems(carry), InHands' \subseteq InHands
    PROVE  SpillFits'
<1>1. Appended(records)
  BY SpilledCounts DEF SpillInv
<1>2. /\ Elems(spill') \cup cut' \subseteq S!Records \cup {0}
      /\ glued' \subseteq S!Records /\ NoFault'
  <2>1. Elems(spill) \cup Elems(records) \cup cut \cup {0} \subseteq S!Records \cup {0} /\ glued \subseteq S!Records /\ NoFault
    BY DEF SpillFits
  <2>2. /\ NoFault' /\ Elems(spill') \subseteq Elems(spill) \cup Elems(records) \cup {0}
        /\ cut' \subseteq cut \cup Elems(spill) \cup Elems(records) \cup {0}
        /\ glued' \subseteq glued \cup ((Elems(spill) \cup Elems(records)) \ {0})
    BY <1>1, <2>1 DEF Appended
  <2> QED
    BY <2>1, <2>2
<1> QED
  BY <1>2 DEF SpillFits

LEMMA LogFits == ASSUME SpillInv, SpillFits, S!Log PROVE SpillFits'
<1>1. /\ logged' = logged + 1 /\ logged < MaxRecords
      /\ UNCHANGED <<spill, end, count, cut, glued, bad, flusher, drain, sent>>
  BY DEF S!Log, S!spillVars
<1>2. logged' \in 0 .. MaxRecords /\ logged' \in S!Records
  BY <1>1, PartsAssumption DEF SpillFits, S!Records
<1>3. Elems(buffer) \cup Elems(carry) \cup {logged'} = Elems(buffer') \cup Elems(carry')
  BY LogMoves
<1>4. InHands' = InHands /\ NoFault'
  BY <1>1 DEF InHands, SpillFits, NoFault
<1> QED
  BY <1>1, <1>2, <1>3, <1>4 DEF SpillFits

\* The flushes.
LEMMA FlushFits ==
    ASSUME SpillInv, SpillFits, NEW t \in S!Threads,
           \/ S!TakeBuffer(t) \/ S!Tick \/ S!Snapshot(t) \/ S!Tell(t) \/ S!AppendHeld(t) \/ S!Ship(t)
    PROVE  SpillFits'
<1> DEFINE held == flusher[t].held
<1>0. /\ SpillTypes /\ held \in Seq(Nat) /\ <<>> \in Seq(Nat) /\ Elems(<<>>) = {} /\ buffer \in Seq(Nat)
      /\ Elems(held) \subseteq InHands /\ Elems(held) \subseteq S!Records /\ held = flusher[t].held
      /\ Places # {}
  BY DEF SpillInv, SpillTypes, SpillFits, InHands, Elems
<1> HIDE DEF held
<1>1. ASSUME NEW at \in Places, S!At(t, at, held) PROVE InHands' \subseteq InHands
  <2>1. InHands' \subseteq InHands \cup Elems(held)
    BY <1>0, <1>1, HandsChange
  <2> QED
    BY <1>0, <2>1
<1>2. ASSUME NEW u \in S!Threads, NEW at \in Places, S!At(u, at, <<>>) PROVE InHands' \subseteq InHands
  <2>1. InHands' \subseteq InHands \cup Elems(<<>>)
    BY <1>0, <1>2, HandsChange
  <2> QED
    BY <1>0, <2>1
<1>3. CASE S!TakeBuffer(t)
  <2>1. buffer' = <<>> /\ UNCHANGED <<logged, carry, spill, end, count, cut, glued, bad, drain, sent>>
    BY <1>3 DEF S!TakeBuffer, S!spillVars
  <2>2. InHands' \subseteq InHands \cup Elems(buffer)
    <3>1. CASE count = Nobody
      BY <1>3, <3>1 DEF S!TakeBuffer, InHands
    <3>2. CASE count # Nobody
      <4>1. PICK at \in {"drain", "ship"} : S!At(t, at, buffer)
        BY <1>3, <3>2 DEF S!TakeBuffer
      <4> QED
        BY <1>0, <4>1, HandsChange
    <3> QED
      BY <3>1, <3>2
  <2>3. NoFault'
    BY <2>1 DEF SpillFits, NoFault
  <2> QED
    BY <1>0, <2>1, <2>2, <2>3 DEF SpillFits
<1>4. CASE S!Tick
  <2>1. S!At("sender", "flush", <<>>) /\ "sender" \in S!Threads
        /\ UNCHANGED <<logged, buffer, carry, spill, end, count, cut, glued, bad, drain, sent>>
    BY <1>4 DEF S!Tick, S!spillVars, S!Threads
  <2>2. InHands' \subseteq InHands
    BY <1>2, <2>1
  <2> QED
    BY <2>1, <2>2, FitsQuiet DEF SpillFits
<1>5. CASE S!Snapshot(t)
  <2>1. UNCHANGED <<logged, buffer, carry, spill, end, cut, glued, bad, sent>>
    BY <1>5 DEF S!Snapshot
  <2>2. count' = count \/ count' = Len(spill)
    BY <1>5 DEF S!Snapshot
  <2>3. NoFault'
    BY <2>1, <2>2 DEF SpillFits, NoFault
  <2>4. InHands' \subseteq InHands
    <3>1. CASE UNCHANGED flusher
      BY <3>1 DEF InHands
    <3>2. CASE S!At(t, "rest", <<>>)
      BY <1>2, <3>2
    <3>3. CASE S!At(t, "tell", held)
      BY <1>1, <3>3
    <3> QED
      BY <1>0, <1>5, <3>1, <3>2, <3>3 DEF S!Snapshot
  <2>5. drain' = drain \/ drain'.lines = spill
    BY <1>5 DEF S!Snapshot
  <2> QED
    BY <2>1, <2>3, <2>4, <2>5 DEF SpillFits
<1>6. CASE S!Tell(t)
  <2>1. PICK at \in Places : S!At(t, at, held)
    BY <1>0, <1>6 DEF S!Tell
  <2>2. UNCHANGED <<logged, buffer, carry, spill, end, count, cut, glued, bad, drain, sent>>
    BY <1>6 DEF S!Tell
  <2>3. InHands' \subseteq InHands
    BY <1>1, <2>1
  <2> QED
    BY <2>2, <2>3, FitsQuiet DEF SpillFits
<1>7. ASSUME S!Spilled(held), S!At(t, "rest", <<>>), UNCHANGED <<logged, buffer, carry, drain, sent>>
      PROVE  SpillFits'
  <2>1. InHands' \subseteq InHands
    BY <1>2, <1>7
  <2> QED
    BY <1>0, <1>7, <2>1, AppendFits
<1>8. CASE S!AppendHeld(t)
  BY <1>0, <1>7, <1>8 DEF S!AppendHeld
<1>9. CASE S!Ship(t)
  <2>1. CASE S!Spilled(held) /\ S!At(t, "rest", <<>>) /\ UNCHANGED sent
    BY <1>7, <1>9, <2>1 DEF S!Ship
  <2>2. ASSUME sent' = sent \cup {Head(held)}, UNCHANGED S!spillVars,
               NEW at \in Places, S!At(t, at, Tail(held))
        PROVE  SpillFits'
    <3>1. held # <<>> /\ UNCHANGED <<logged, buffer, carry, spill, end, count, cut, glued, bad, drain>>
      BY <1>0, <1>9, <2>2 DEF S!Ship, S!spillVars, SpillInv, Hands
    <3>2. Tail(held) \in Seq(Nat) /\ Elems(held) = Elems(Tail(held)) \cup {Head(held)}
      BY <1>0, <3>1, TailElems
    <3> DEFINE rest == Tail(held)
    <3>3. rest \in Seq(Nat) /\ S!At(t, at, rest) /\ Elems(rest) \subseteq InHands
      BY <1>0, <2>2, <3>2
    <3> HIDE DEF rest
    <3>4. InHands' \subseteq InHands \cup Elems(rest)
      BY <1>0, <3>3, HandsChange
    <3>5. InHands' \subseteq InHands /\ sent' \subseteq S!Records
      BY <1>0, <2>2, <3>2, <3>3, <3>4 DEF SpillFits
    <3> QED
      BY <3>1, <3>5, FitsQuiet
  <2> QED
    BY <1>0, <1>9, <2>1, <2>2 DEF S!Ship
<1> QED
  BY <1>3, <1>4, <1>5, <1>6, <1>8, <1>9

\* The drain sends its lines, and leaves the file shorter or as it was.
LEMMA DrainFits ==
    ASSUME SpillInv, SpillFits, S!DrainBatch \/ S!DrainFails \/ S!DrainEnds
    PROVE  SpillFits'
<1>0. /\ SpillTypes /\ drain.by # Nobody /\ drain.by \in S!Threads /\ drain \in DrainRecord
      /\ spill \in Seq(Nat) /\ Len(spill) \in Nat /\ bad \in Nat
      /\ <<>> \in Seq(Nat) /\ Elems(<<>>) = {}
  BY DEF SpillInv, SpillTypes, S!DrainBatch, S!DrainFails, S!DrainEnds, Elems
<1>1. CASE S!DrainBatch
  <2>1. /\ sent' = sent \cup ({drain.lines[drain.consumed + 1]} \ {0}) /\ drain'.lines = drain.lines
        /\ UNCHANGED <<logged, buffer, carry, spill, end, count, cut, glued, bad, flusher>>
    BY <1>0, <1>1 DEF S!DrainBatch, S!ThisLine, S!Broken, S!spillVars
  <2>2. drain.consumed + 1 \in 1 .. Len(drain.lines)
    BY <1>0, <1>1 DEF S!DrainBatch, S!More
  <2>3. drain.lines[drain.consumed + 1] \in Elems(drain.lines)
    BY <2>2 DEF Elems
  <2>4. sent' \subseteq S!Records
    BY <2>1, <2>3 DEF SpillFits
  <2>5. InHands' = InHands
    BY <2>1 DEF InHands
  <2> QED
    BY <2>1, <2>4, <2>5, FitsQuiet
<1>2. CASE S!DrainFails
  <2>1. /\ drain'.lines = drain.lines
        /\ UNCHANGED <<logged, buffer, carry, spill, end, count, cut, glued, bad, flusher, sent>>
    BY <1>0, <1>2 DEF S!DrainFails, S!spillVars
  <2>2. InHands' = InHands /\ sent' \subseteq S!Records
    BY <2>1 DEF InHands, SpillFits
  <2> QED
    BY <2>1, <2>2, FitsQuiet
<1>3. CASE S!DrainEnds
  <2> DEFINE t == drain.by
             held == flusher[t].held
             k == S!ToRemove
             rest == SubSeq(spill, k + 1, Len(spill))
             front == SubSeq(spill, 1, k)
  <2>1. /\ drain' = S!Idle /\ held \in Seq(Nat) /\ Elems(held) \subseteq InHands
        /\ UNCHANGED <<logged, buffer, carry, cut, glued, sent>>
    BY <1>0, <1>3 DEF S!DrainEnds, SpillTypes, InHands
  <2>2. k \in 0 .. Len(spill)
    BY <1>0, RemovesOnlySent
  <2>3. Elems(spill) = Elems(front) \cup Elems(rest)
    BY <1>0, <2>2, CutCover
  <2>4. InHands' \subseteq InHands
    <3>1. held = flusher[t].held /\ t \in S!Threads
      BY <1>0
    <3>2. S!At(t, "rest", <<>>) \/ S!At(t, "tell", held)
      BY <1>3 DEF S!DrainEnds
    <3> HIDE DEF t, held
    <3>3. CASE S!At(t, "rest", <<>>)
      <4>1. InHands' \subseteq InHands \cup Elems(<<>>)
        BY <1>0, <3>1, <3>3, HandsChange
      <4> QED
        BY <1>0, <4>1
    <3>4. CASE S!At(t, "tell", held)
      <4>1. InHands' \subseteq InHands \cup Elems(held)
        BY <1>0, <2>1, <3>1, <3>4, HandsChange
      <4> QED
        BY <2>1, <4>1
    <3> QED
      BY <3>2, <3>3, <3>4
  <2>5. \/ UNCHANGED <<spill, end, count, bad>>
        \/ count' = Len(spill) - k /\ spill' = rest /\ end' = "whole" /\ UNCHANGED bad
        \/ UNCHANGED <<spill, end>> /\ bad' = bad + 1
    BY <1>3 DEF S!DrainEnds, S!Rewrite, S!Fault
  <2>6. front = SubSeq(spill, 1, k) /\ rest = SubSeq(spill, k + 1, Len(spill))
    OBVIOUS
  <2> HIDE DEF k, front, rest
  <2>7. Len(rest) = Len(spill) - k
    BY <1>0, <2>2, <2>6, CutEntries
  <2>8. NoFault'
    <3>1. CASE UNCHANGED <<spill, end, count, bad>>
      BY <3>1 DEF SpillFits, NoFault
    <3>2. CASE count' = Len(spill) - k /\ spill' = rest /\ end' = "whole" /\ UNCHANGED bad
      <4>1. \A a, b \in Nat : a <= b => \A m \in 0 .. a : a - m <= b
        OBVIOUS
      <4>2. MaxSpans + Slack \in Nat
        BY PartsAssumption
      <4> QED
        BY <1>0, <2>2, <2>7, <3>2, <4>1, <4>2 DEF SpillFits, NoFault
    <3>3. CASE UNCHANGED <<spill, end>> /\ bad' = bad + 1
      BY <1>0, <3>3 DEF NoFault
    <3> QED
      BY <2>5, <3>1, <3>2, <3>3
  <2>9. Elems(spill') \subseteq Elems(spill)
    BY <2>3, <2>5
  <2>10. Elems(drain'.lines) = {}
    BY <1>0, <2>1 DEF S!Idle
  <2> QED
    BY <2>1, <2>4, <2>8, <2>9, <2>10 DEF SpillFits
<1> QED
  BY <1>1, <1>2, <1>3

\* A kill is a fault.
LEMMA KillFits == ASSUME SpillInv, SpillFits, S!Kill PROVE SpillFits'
<1>1. PICK records \in S!InAppend : S!CutShort(records)
  BY DEF S!Kill
<1>2. /\ buffer' = <<>> /\ carry' = <<>> /\ drain' = S!Idle /\ bad' = bad + 1
      /\ flusher' = [t \in S!Threads |-> [at |-> "rest", held |-> <<>>]]
      /\ UNCHANGED <<logged, sent, cut>>
  BY DEF S!Kill, S!Fault
<1>3. SpillTypes /\ FileInv /\ records \in Seq(Nat) /\ Elems(records) \subseteq S!Records /\ bad \in Nat
  BY DEF SpillInv, SpillTypes, SpillFits, S!InAppend, InHands
<1>4. /\ Elems(spill') \subseteq Elems(spill) \cup Elems(records) \cup {0}
      /\ glued' \subseteq glued \cup ((Elems(spill) \cup Elems(records)) \ {0})
  BY <1>1, <1>3, CutShortAdds
<1>5. Elems(<<>>) = {}
  BY DEF Elems
<1>6. InHands' = {} /\ Elems(drain'.lines) = {}
  BY <1>2, <1>5 DEF S!Idle, InHands
<1>7. NoFault'
  BY <1>2, <1>3 DEF NoFault
<1> QED
  BY <1>2, <1>3, <1>4, <1>5, <1>6, <1>7 DEF SpillFits

LEMMA FitsStep == ASSUME SpillInv, SpillFits, [S!Next]_spillVars PROVE SpillFits'
<1>1. CASE S!Log
  BY <1>1, LogFits
<1>2. CASE S!Overflow
  <2>1. carry \in Seq(Nat) /\ Elems(carry) \subseteq S!Records /\ Elems(<<>>) = {}
    BY DEF SpillInv, SpillTypes, SpillFits, Elems
  <2>2. S!Spilled(carry) /\ carry' = <<>> /\ UNCHANGED <<logged, buffer, flusher, drain, sent>>
    BY <1>2 DEF S!Overflow
  <2>3. InHands' = InHands
    BY <2>2 DEF InHands
  <2> QED
    BY <2>1, <2>2, <2>3, AppendFits
<1>3. CASE S!Tick
  <2>1. "sender" \in S!Threads
    BY DEF S!Threads
  <2> QED
    BY <1>3, <2>1, FlushFits
<1>4. ASSUME NEW t \in S!Threads, S!TakeBuffer(t) \/ S!Snapshot(t) \/ S!Tell(t) \/ S!AppendHeld(t) \/ S!Ship(t)
      PROVE  SpillFits'
  BY <1>4, FlushFits
<1>5. CASE S!DrainBatch \/ S!DrainFails \/ S!DrainEnds
  BY <1>5, DrainFits
<1>6. CASE S!Kill
  BY <1>6, KillFits
<1>7. CASE UNCHANGED spillVars
  BY <1>7 DEF spillVars, SpillFits, NoFault, InHands
<1> QED
  BY <1>1, <1>2, <1>3, <1>4, <1>5, <1>6, <1>7 DEF S!Next

\* SpillQueue.append, _trim_locked and drain: while no write has failed and the
\* process was not killed, the count is that of the lines in the file and the
\* file never holds more than max_spans and the slack of a trim, whatever two
\* flushes append, send and remove meanwhile.  Whatever fails, nothing is sent,
\* trimmed or glued that was not logged.
THEOREM SpillTypeCorrect == PartsSpec => []S!TypeOK
<1>1. PartsInit => SpillInv /\ SpillFits
  <2>1. ASSUME S!Init PROVE SpillFits
    <3>1. /\ logged = 0 /\ buffer = <<>> /\ carry = <<>> /\ spill = <<>> /\ drain.lines = <<>>
          /\ \A t \in S!Threads : flusher[t].held = <<>>
          /\ sent = {} /\ cut = {} /\ glued = {} /\ end = "whole" /\ count = 0
      BY <2>1 DEF S!Init, S!Idle
    <3>2. Elems(<<>>) = {} /\ Len(<<>>) = 0 /\ {MaxRecords, MaxSpans, Slack} \subseteq Nat
      BY PartsAssumption DEF Elems
    <3>3. InHands = {}
      BY <3>1, <3>2 DEF InHands
    <3>4. NoFault
      BY <3>1, <3>2 DEF NoFault
    <3> QED
      BY <3>1, <3>2, <3>3, <3>4 DEF SpillFits
  <2> QED
    BY <2>1, SpillInit DEF PartsInit
<1>2. SpillInv /\ SpillFits /\ [PartsNext]_partsVars => SpillInv' /\ SpillFits'
  BY SpillStep, FitsStep, EachAlone
<1>3. SpillInv /\ SpillFits => S!TypeOK
  <2> SUFFICES ASSUME SpillInv, SpillFits PROVE S!TypeOK
    OBVIOUS
  <2>1. logged \in 0 .. MaxRecords /\ sent \cup glued \subseteq S!Records /\ cut \subseteq S!Records \cup {0}
    BY DEF SpillFits
  <2>2. end \in S!Ends /\ count \in Nat \cup {Nobody} /\ drain.by \in S!Threads \cup {Nobody}
    BY DEF SpillInv, SpillTypes
  <2>3. bad = 0 => end = "whole" /\ count = Len(spill) /\ Len(spill) <= MaxSpans + Slack
    BY DEF SpillFits, NoFault
  <2> QED
    BY <2>1, <2>2, <2>3 DEF S!TypeOK, S!Broken
<1> QED
  BY <1>1, <1>2, <1>3, PTL DEF PartsSpec

-----------------------------------------------------------------------------
(* LedgerFile: what a replay of the lines finds is what Ledger says.       *)

\* One turn of the replay loop.
TakeIn(m, l) == IF l = Junk THEN m ELSE [m EXCEPT ![l.cmd] = l.st]

\* What a line can be, and what an index.
Anyline == F!Line \cup {Junk}
States == [Key -> F!Entry]

\* A turn leaves an index.
LEMMA TakeInType == \A m \in States, l \in Anyline : TakeIn(m, l) \in States
  BY DEF TakeIn, Anyline, States, F!Line

\* The index after each line of the log.
ReplayRun(seq, v) ==
    /\ v \in [0 .. Len(seq) -> States]
    /\ v[0] = F!Unseen
    /\ \A i \in 1 .. Len(seq) : v[i] = TakeIn(v[i - 1], seq[i])

\* The replay is such a run.
LEMMA ReplayLoop ==
    ASSUME NEW seq \in Seq(Anyline)
    PROVE  \E v : ReplayRun(seq, v) /\ F!Replay(seq) = v[Len(seq)]
<1> DEFINE n == Len(seq)
           Turn == [i \in 1 .. n |-> [m \in States |-> TakeIn(m, seq[i])]]
           P(h) == h = [s \in SUBSET (1 .. n) |->
                          IF s = {} THEN F!Unseen
                          ELSE TakeIn(h[s \ {Largest(s)}], seq[Largest(s)])]
           H == CHOOSE h : P(h)
<1>1. n \in Nat /\ DOMAIN seq = 1 .. n /\ \A i \in 1 .. n : seq[i] \in Anyline
  OBVIOUS
<1>2. F!Unseen \in States
  BY DEF F!Unseen, States, F!Entry
<1>3. Turn \in [1 .. n -> [States -> States]]
  BY <1>1, TakeInType
<1>4. \A i \in 1 .. n, m \in States : Turn[i][m] = TakeIn(m, seq[i])
  OBVIOUS
<1> HIDE DEF Turn, n
<1>5. PICK g : InTurn(n, States, F!Unseen, Turn, g)
  BY <1>1, <1>2, <1>3, FoldExists
<1>6. P(g)
  <2>1. ASSUME NEW s \in SUBSET (1 .. n), s # {}
        PROVE  g[s] = TakeIn(g[s \ {Largest(s)}], seq[Largest(s)])
    <3>1. Largest(s) \in 1 .. n
      BY <1>1, <2>1, LargestOfSome
    <3>2. g[s \ {Largest(s)}] \in States
      BY <1>5 DEF InTurn
    <3>3. QED
      BY <1>4, <1>5, <2>1, <3>1, <3>2 DEF InTurn
  <2>2. QED
    BY <1>5, <2>1 DEF InTurn
<1>7. P(H)
  <2> HIDE DEF P
  <2> QED BY <1>6, Zenon
<1>8. F!Replay(seq) = H[1 .. n]
  BY <1>1, Zenon DEF F!Replay, F!FoldLeft, F!MapThenFoldSet, F!Max, Largest, TakeIn
<1> DEFINE v == [i \in 0 .. n |-> H[1 .. i]]
<1> HIDE DEF H
<1>9. v[0] = F!Unseen
  <2>1. 1 .. 0 = {} /\ {} \in SUBSET (1 .. n) /\ 0 \in 0 .. n
    BY <1>1
  <2>2. H[{}] = F!Unseen
    BY <1>7, <2>1
  <2>3. QED
    BY <2>1, <2>2
<1>10. ASSUME NEW i \in 1 .. n PROVE v[i] = TakeIn(v[i - 1], seq[i])
  <2>1. /\ (1 .. i) \in SUBSET (1 .. n) /\ 1 .. i # {}
        /\ i \in Nat /\ i # 0 /\ i \in 0 .. n /\ i - 1 \in 0 .. n
    <3>1. i \in Nat /\ i # 0 /\ i \in 0 .. n /\ i - 1 \in 0 .. n /\ i \in 1 .. i
      BY <1>1, <1>10
    <3>2. \A m \in 1 .. i : m \in 1 .. n
      BY <1>1, <1>10
    <3>3. QED
      BY <3>1, <3>2
  <2>2. Largest(1 .. i) = i /\ (1 .. i) \ {i} = 1 .. i - 1
    BY <2>1, LargestOfFirst
  <2>3. H[1 .. i] = TakeIn(H[1 .. i - 1], seq[i])
    BY <1>7, <2>1, <2>2
  <2>4. QED
    BY <2>1, <2>3
<1>11. \A i \in 0 .. n : v[i] \in States
  <2> HIDE DEF v
  <2> DEFINE G == {i \in 0 .. n : v[i] \in States}
  <2>1. 0 \in G
    BY <1>1, <1>2, <1>9
  <2>2. ASSUME NEW k \in 0 .. n - 1, k \in G PROVE k + 1 \in G
    <3>1. k + 1 \in 1 .. n /\ k + 1 - 1 = k /\ k + 1 \in 0 .. n
      BY <1>1, <2>2
    <3>2. v[k + 1] = TakeIn(v[k], seq[k + 1])
      BY <1>10, <3>1
    <3>3. QED
      BY <1>1, <2>2, <3>1, <3>2, TakeInType
  <2>3. \A k \in 0 .. n : k \in G
    <3> HIDE DEF G
    <3> QED BY <1>1, <2>1, <2>2, UpTo
  <2>4. QED
    BY <2>3
<1>12. v \in [0 .. n -> States] /\ v[n] = H[1 .. n]
  BY <1>1, <1>11
<1>13. QED
  <2> HIDE DEF v
  <2>1. ReplayRun(seq, v)
    BY <1>9, <1>10, <1>12 DEF ReplayRun, n
  <2>2. QED
    BY <1>8, <1>12, <2>1 DEF n

\* One line more is one turn more.
LEMMA ReplayAppend ==
    ASSUME NEW seq \in Seq(Anyline), NEW l \in Anyline
    PROVE  F!Replay(Append(seq, l)) = TakeIn(F!Replay(seq), l)
<1> DEFINE n == Len(seq)
           more == Append(seq, l)
<1>1. /\ n \in Nat /\ more \in Seq(Anyline) /\ Len(more) = n + 1
      /\ more[n + 1] = l /\ \A i \in 1 .. n : more[i] = seq[i]
  OBVIOUS
<1>2. PICK v : ReplayRun(seq, v) /\ F!Replay(seq) = v[n]
  BY ReplayLoop
<1> HIDE DEF more
<1>3. PICK w : ReplayRun(more, w) /\ F!Replay(more) = w[n + 1]
  BY <1>1, ReplayLoop
<1> HIDE DEF n
<1> DEFINE G == {i \in 0 .. n : w[i] = v[i]}
<1>4. 0 \in G
  BY <1>1, <1>2, <1>3 DEF ReplayRun
<1>5. ASSUME NEW k \in 0 .. n - 1, k \in G PROVE k + 1 \in G
  <2>1. k + 1 \in 1 .. n /\ k + 1 \in 1 .. n + 1 /\ k + 1 - 1 = k /\ k + 1 \in 0 .. n
    BY <1>1, <1>5
  <2>2. v[k + 1] = TakeIn(v[k], seq[k + 1])
    BY <1>2, <2>1 DEF ReplayRun, n
  <2>3. w[k + 1] = TakeIn(w[k], more[k + 1])
    BY <1>1, <1>3, <2>1 DEF ReplayRun
  <2>4. QED
    BY <1>1, <1>5, <2>1, <2>2, <2>3
<1>6. n \in G
  <2> HIDE DEF G
  <2>1. \A k \in 0 .. n : k \in G
    BY <1>1, <1>4, <1>5, UpTo
  <2>2. QED
    BY <1>1, <2>1
<1>7. w[n + 1] = TakeIn(w[n], l)
  <2>1. n + 1 \in 1 .. n + 1 /\ n + 1 - 1 = n
    BY <1>1
  <2>2. QED
    BY <1>1, <1>3, <2>1 DEF ReplayRun
<1>8. F!Replay(more) = TakeIn(F!Replay(seq), l)
  BY <1>2, <1>3, <1>6, <1>7
<1>9. QED
  BY <1>8 DEF more

\* A replay gives an index.
LEMMA ReplayType == \A seq \in Seq(Anyline) : F!Replay(seq) \in States
<1> SUFFICES ASSUME NEW seq \in Seq(Anyline) PROVE F!Replay(seq) \in States
  OBVIOUS
<1>1. PICK v : ReplayRun(seq, v) /\ F!Replay(seq) = v[Len(seq)]
  BY ReplayLoop
<1>2. Len(seq) \in 0 .. Len(seq)
  OBVIOUS
<1>3. QED
  BY <1>1, <1>2 DEF ReplayRun

\* An empty log names no key.
LEMMA ReplayOfNothing == F!Replay(<<>>) = F!Unseen
<1>1. <<>> \in Seq(Anyline) /\ Len(<<>>) = 0
  OBVIOUS
<1>2. PICK v : ReplayRun(<<>>, v) /\ F!Replay(<<>>) = v[Len(<<>>)]
  BY <1>1, ReplayLoop
<1>3. QED
  BY <1>1, <1>2 DEF ReplayRun

\* A key that no line names was never seen.
LEMMA ReplayKnows ==
    ASSUME NEW seq \in Seq(Anyline), NEW c \in Key, F!Replay(seq)[c] # "none"
    PROVE  \E i \in 1 .. Len(seq) : seq[i] # Junk /\ seq[i].cmd = c
<1>1. PICK v : ReplayRun(seq, v) /\ F!Replay(seq) = v[Len(seq)]
  BY ReplayLoop
<1>2. SUFFICES ASSUME \A i \in 1 .. Len(seq) : seq[i] = Junk \/ seq[i].cmd # c PROVE FALSE
  OBVIOUS
<1> DEFINE n == Len(seq)
           G == {i \in 0 .. n : v[i][c] = "none"}
<1>3. n \in Nat /\ \A i \in 1 .. n : seq[i] \in Anyline
  OBVIOUS
<1>4. 0 \in G
  BY <1>1, <1>3 DEF ReplayRun, F!Unseen
<1>5. ASSUME NEW k \in 0 .. n - 1, k \in G PROVE k + 1 \in G
  <2>1. k + 1 \in 1 .. n /\ k + 1 - 1 = k /\ k + 1 \in 0 .. n /\ k \in 0 .. n
    BY <1>3, <1>5
  <2>2. v[k + 1] = TakeIn(v[k], seq[k + 1]) /\ v[k] \in States
    BY <1>1, <2>1 DEF ReplayRun
  <2>3. v[k + 1][c] = v[k][c]
    BY <1>2, <2>1, <2>2 DEF TakeIn, States
  <2>4. QED
    BY <1>5, <2>1, <2>3
<1>6. n \in G
  <2> HIDE DEF G, n
  <2>1. \A k \in 0 .. n : k \in G
    BY <1>3, <1>4, <1>5, UpTo
  <2>2. QED
    BY <1>3, <2>1
<1>7. QED
  BY <1>1, <1>6

\* What compact() writes is replayed to the index it was written from.
LEMMA ReplayOfCompacted ==
    ASSUME keys \in States, IsFiniteSet({c \in Key : keys[c] # "none"})
    PROVE  F!Compacted \in Seq(F!Line) /\ F!Replay(F!Compacted) = keys
<1> DEFINE known == {c \in Key : keys[c] # "none"}
           order == F!SetToSeq(known)
           n == Cardinality(known)
<1>1. n \in Nat /\ ExistsBijection(1 .. n, known)
  BY FS_CardinalityType
<1>2. F!Cardinality(known) = n
  BY DEF F!Cardinality, Cardinality
<1> HIDE DEF n
<1>3. order \in [1 .. n -> known] /\ \A a, b \in 1 .. n : order[a] = order[b] => a = b
  <2>1. PICK f \in [1 .. n -> known] : \A a, b \in 1 .. n : f[a] = f[b] => a = b
    BY <1>1 DEF ExistsBijection, Bijection, Injection, Surjection, IsInjective
  <2>2. F!IsInjective(f)
    BY <2>1 DEF F!IsInjective
  <2>3. order \in [1 .. n -> known] /\ F!IsInjective(order)
    BY <1>2, <2>1, <2>2, Zenon DEF F!SetToSeq
  <2>4. QED
    BY <2>3 DEF F!IsInjective
<1>4. \A c \in known : \E i \in 1 .. n : order[i] = c
  <2>1. order \in Injection(1 .. n, known)
    BY <1>3 DEF Injection, IsInjective
  <2>2. IsFiniteSet(1 .. n) /\ IsFiniteSet(known) /\ Cardinality(1 .. n) = n
    BY <1>1, FS_Interval
  <2>3. order \in Surjection(1 .. n, known)
    BY <2>1, <2>2, FS_Injection DEF n
  <2>4. QED
    BY <2>3 DEF Surjection
<1>5. F!Compacted = [i \in 1 .. n |-> [cmd |-> order[i], st |-> keys[order[i]]]]
  <2>1. order \in Seq(known) /\ Len(order) = n
    BY <1>1, <1>3
  <2>2. QED
    BY <2>1 DEF F!Compacted
<1> HIDE DEF order
<1> DEFINE log == F!Compacted
<1>6. log \in Seq(F!Line) /\ Len(log) = n /\ \A i \in 1 .. n : log[i] = [cmd |-> order[i], st |-> keys[order[i]]]
  BY <1>1, <1>3, <1>5 DEF F!Line, States
<1> HIDE DEF log
<1>7. log \in Seq(Anyline)
  BY <1>6 DEF Anyline
<1>8. PICK v : ReplayRun(log, v) /\ F!Replay(log) = v[n]
  BY <1>6, <1>7, ReplayLoop
<1> DEFINE Found(i) == {order[j] : j \in 1 .. i}
           Upto(i) == \A c \in Key : v[i][c] = IF c \in Found(i) THEN keys[c] ELSE "none"
           G == {i \in 0 .. n : Upto(i)}
<1>9. 0 \in G
  BY <1>1, <1>6, <1>8 DEF ReplayRun, F!Unseen
<1>10. ASSUME NEW k \in 0 .. n - 1, k \in G PROVE k + 1 \in G
  <2>1. k + 1 \in 1 .. n /\ k + 1 - 1 = k /\ k + 1 \in 0 .. n /\ k \in 0 .. n
    BY <1>1, <1>10
  <2>2. v[k + 1] = TakeIn(v[k], log[k + 1]) /\ v[k] \in States
    BY <1>6, <1>8, <2>1 DEF ReplayRun
  <2>3. /\ log[k + 1] = [cmd |-> order[k + 1], st |-> keys[order[k + 1]]]
        /\ log[k + 1] \in F!Line /\ log[k + 1] # Junk
    BY <1>6, <2>1, JunkAssumption
  <2>4. v[k + 1] = [v[k] EXCEPT ![order[k + 1]] = keys[order[k + 1]]]
    BY <2>2, <2>3 DEF TakeIn
  <2>5. Found(k + 1) = Found(k) \cup {order[k + 1]}
    <3>1. 1 .. k + 1 = (1 .. k) \cup {k + 1}
      BY <1>1, <1>10
    <3>2. QED
      BY <3>1
  <2>6. Upto(k)
    BY <1>10
  <2> HIDE DEF Found
  <2>7. Upto(k + 1)
    BY <2>2, <2>4, <2>5, <2>6 DEF States
  <2>8. QED
    BY <2>1, <2>7
<1>11. Upto(n)
  <2> HIDE DEF Upto
  <2>1. n \in G
    <3> HIDE DEF G
    <3>1. \A k \in 0 .. n : k \in G
      BY <1>1, <1>9, <1>10, UpTo
    <3>2. QED
      BY <1>1, <3>1
  <2>2. QED
    BY <2>1
<1>12. \A c \in Key : v[n][c] = keys[c]
  <2>1. \A c \in Key : c \notin Found(n) => keys[c] = "none"
    BY <1>4
  <2> HIDE DEF Found
  <2>2. QED
    BY <1>11, <2>1
<1>13. v[n] \in States
  BY <1>1, <1>6, <1>8 DEF ReplayRun
<1>14. v[n] = keys
  BY <1>12, <1>13 DEF States
<1>15. QED
  BY <1>6, <1>8, <1>14 DEF log

\* The keys that are in the index.
Known == {c \in Key : keys[c] # "none"}

\* A fragment has an unterminated line, the index is finite, and what compact()
\* is about to put in place replays to it.
LogInv ==
    /\ lines \in Seq(Anyline)
    /\ open \in BOOLEAN /\ (open => lines # <<>>)
    /\ keys \in States /\ IsFiniteSet(Known)
    /\ logHandle \in {"none", "open", "compacting"}
    /\ logHandle = "compacting" => tmp \in Seq(F!Line) /\ F!Replay(tmp) = keys

\* The lines without an unterminated one at the end.
Rest == IF open THEN F!Front(lines) ELSE lines

\* The lines after an append to a log, whole or torn.
LEMMA ExtendedLog ==
    ASSUME LogInv, NEW l \in Anyline
    PROVE  /\ F!Extend(lines, l) \in Seq(Anyline) /\ F!Extend(lines, l) # <<>>
           /\ Rest \in Seq(Anyline)
           /\ F!Replay(F!Extend(lines, l)) =
                 IF open THEN F!Replay(Rest) ELSE TakeIn(F!Replay(lines), l)
           /\ F!Front(F!Extend(lines, l)) = Rest
<1>1. CASE open
  <2>1. /\ lines \in Seq(Anyline) /\ lines # <<>>
        /\ Len(lines) \in Nat /\ Len(lines) >= 1
    BY <1>1 DEF LogInv
  <2>2. Rest = SubSeq(lines, 1, Len(lines) - 1) /\ Rest \in Seq(Anyline) /\ Len(Rest) = Len(lines) - 1
    <3>1. Rest = SubSeq(lines, 1, Len(lines) - 1)
      BY <1>1 DEF Rest, F!Front
    <3>2. 1 \in 1 .. Len(lines) + 1 /\ Len(lines) - 1 \in 0 .. Len(lines) /\ Len(lines) - 1 = Len(lines) - 1 - 1 + 1
      BY <2>1
    <3>3. \A i \in 1 .. Len(lines) - 1 : lines[i] \in Anyline
      BY <2>1
    <3> QED
      BY <2>1, <3>1, <3>2, <3>3, SubSeqProperties
  <2>3. F!Extend(lines, l) = Append(Rest, Junk)
    BY <1>1, <2>2 DEF F!Extend, Rest
  <2>4. Junk \in Anyline
    BY DEF Anyline
  <2> HIDE DEF Rest
  <2>5. F!Replay(Append(Rest, Junk)) = F!Replay(Rest)
    BY <2>2, <2>4, ReplayAppend DEF TakeIn
  <2>6. /\ Append(Rest, Junk) \in Seq(Anyline) /\ Append(Rest, Junk) # <<>>
        /\ SubSeq(Append(Rest, Junk), 1, Len(Append(Rest, Junk)) - 1) = Rest
    BY <2>2, <2>4
  <2>7. QED
    BY <1>1, <2>2, <2>3, <2>5, <2>6 DEF F!Front
<1>2. CASE ~open
  <2>1. lines \in Seq(Anyline) /\ Rest = lines /\ F!Extend(lines, l) = Append(lines, l)
    BY <1>2 DEF LogInv, Rest, F!Extend
  <2>2. F!Replay(Append(lines, l)) = TakeIn(F!Replay(lines), l)
    BY <2>1, ReplayAppend
  <2>3. /\ Append(lines, l) \in Seq(Anyline) /\ Append(lines, l) # <<>>
        /\ SubSeq(Append(lines, l), 1, Len(Append(lines, l)) - 1) = lines
    BY <2>1
  <2>4. QED
    BY <1>2, <2>1, <2>2, <2>3 DEF F!Front
<1>3. QED
  BY <1>1, <1>2 DEF LogInv

\* Every step of the file keeps LogInv.
LEMMA LogInvStep == LogInv /\ [F!Next]_logVars => LogInv'
<1> SUFFICES ASSUME LogInv, [F!Next]_logVars PROVE LogInv'
  OBVIOUS
<1>1. CASE F!Open
  <2>1. /\ UNCHANGED <<lines, open, tmp>> /\ keys' = F!Replay(lines) /\ logHandle' = "open"
    BY <1>1 DEF F!Open
  <2>2. F!Replay(lines) \in States
    BY ReplayType DEF LogInv
  <2>3. IsFiniteSet(Known')
    <3> DEFINE named == {lines[i].cmd : i \in 1 .. Len(lines)}
               cmds == [i \in 1 .. Len(lines) |-> lines[i].cmd]
    <3>1. Len(lines) \in Nat
      BY DEF LogInv
    <3>2. cmds \in Surjection(1 .. Len(lines), named)
      BY DEF Surjection
    <3>3. IsFiniteSet(1 .. Len(lines))
      BY <3>1, FS_Interval
    <3>4. IsFiniteSet(named)
      <4> HIDE DEF named, cmds
      <4> QED BY <3>2, <3>3, FS_Surjection
    <3>5. Known' \subseteq named
      BY <2>1, ReplayKnows DEF LogInv, Known
    <3>6. QED
      <4> HIDE DEF named
      <4> QED BY <3>4, <3>5, FS_Subset
  <2>4. QED
    BY <2>1, <2>2, <2>3 DEF LogInv
<1>2. ASSUME NEW c \in Key, NEW s \in F!Entry, F!Record(c, s) PROVE LogInv'
  <2> DEFINE l == [cmd |-> c, st |-> s]
  <2>1. l \in Anyline
    BY DEF Anyline, F!Line
  <2>2. /\ lines' = F!Extend(lines, l) /\ open' = FALSE /\ keys' = [keys EXCEPT ![c] = s]
        /\ UNCHANGED <<tmp, logHandle>> /\ logHandle = "open"
    BY <1>2 DEF F!Record
  <2> HIDE DEF l
  <2>3. lines' \in Seq(Anyline)
    BY <2>1, <2>2, ExtendedLog
  <2>4. keys' \in States
    BY <2>2 DEF LogInv, States
  <2>5. IsFiniteSet(Known')
    <3>1. Known' \subseteq Known \cup {c}
      BY <2>2 DEF LogInv, States, Known
    <3>2. IsFiniteSet(Known \cup {c})
      BY FS_AddElement DEF LogInv
    <3>3. QED
      BY <3>1, <3>2, FS_Subset
  <2>6. QED
    BY <2>2, <2>3, <2>4, <2>5 DEF LogInv
<1>3. CASE F!CompactWrite
  <2>1. /\ UNCHANGED <<lines, open, keys>> /\ tmp' = F!Compacted /\ logHandle' = "compacting"
    BY <1>3 DEF F!CompactWrite
  <2>2. F!Compacted \in Seq(F!Line) /\ F!Replay(F!Compacted) = keys
    BY ReplayOfCompacted DEF LogInv, Known
  <2>3. Known' = Known
    BY <2>1 DEF Known
  <2>4. QED
    BY <2>1, <2>2, <2>3 DEF LogInv
<1>4. CASE F!CompactSwap
  <2>1. tmp \in Seq(Anyline)
    BY <1>4 DEF F!CompactSwap, LogInv, Anyline
  <2>2. Known' = Known
    BY <1>4 DEF F!CompactSwap, Known
  <2>3. QED
    BY <1>4, <2>1, <2>2 DEF F!CompactSwap, LogInv
<1>5. CASE F!Die \/ \E c \in Key, s \in F!Entry : F!DieWriting(c, s)
  <2>1. keys' = F!Unseen /\ logHandle' = "none"
    BY <1>5 DEF F!Die, F!DieWriting, F!Gone
  <2>2. keys' \in States /\ Known' = {}
    BY <2>1 DEF F!Unseen, States, F!Entry, Known
  <2>3. lines' \in Seq(Anyline) /\ open' \in BOOLEAN /\ (open' => lines' # <<>>)
    <3>1. CASE F!Die
      BY <3>1 DEF F!Die, LogInv
    <3>2. ASSUME NEW c \in Key, NEW s \in F!Entry, F!DieWriting(c, s)
          PROVE  lines' \in Seq(Anyline) /\ open' \in BOOLEAN /\ (open' => lines' # <<>>)
      <4>1. Junk \in Anyline /\ [cmd |-> c, st |-> s] \in Anyline
        BY DEF Anyline, F!Line
      <4>2. PICK l \in Anyline : lines' = F!Extend(lines, l) /\ open' \in BOOLEAN
        BY <3>2, <4>1 DEF F!DieWriting
      <4>3. QED
        BY <4>2, ExtendedLog
    <3>3. QED
      BY <1>5, <3>1, <3>2
  <2>4. IsFiniteSet(Known')
    BY <2>2, FS_EmptySet
  <2>5. QED
    BY <2>1, <2>2, <2>3, <2>4 DEF LogInv
<1>6. CASE UNCHANGED logVars
  BY <1>6 DEF logVars, LogInv, Known
<1>7. QED
  BY <1>1, <1>2, <1>3, <1>4, <1>5, <1>6 DEF F!Next

\* A step of the file is a step of the ledger, or changes nothing of it.
LEMMA LedgerStep ==
    LogInv /\ [F!Next]_logVars => [F!L!LedgerNext]_(F!L!ledgerVars)
<1> SUFFICES ASSUME LogInv, [F!Next]_logVars PROVE [F!L!LedgerNext]_(F!L!ledgerVars)
  OBVIOUS
<1>1. /\ F!Abstract = [map |-> F!Replay(lines), rest |-> F!Replay(Rest), torn |-> open]
      /\ F!Abstract' = [map |-> F!Replay(lines'), rest |-> F!Replay(Rest'), torn |-> open']
  BY DEF F!Abstract, Rest
<1>2. F!Entry = F!L!Entry /\ F!Unseen = F!L!Unseen
  BY DEF F!Entry, F!L!Entry, F!L!Started, F!L!Settled, F!Unseen, F!L!Unseen
<1>3. CASE F!Open
  <2>1. F!L!Open
    BY <1>1, <1>3 DEF F!Open, F!L!Open, Rest
  <2>2. QED
    BY <2>1 DEF F!L!LedgerNext
<1>4. ASSUME NEW c \in Key, NEW s \in F!Entry, F!Record(c, s)
      PROVE  F!L!LedgerNext
  <2> DEFINE l == [cmd |-> c, st |-> s]
  <2>1. l \in Anyline /\ l # Junk
    BY JunkAssumption DEF Anyline, F!Line
  <2>2. /\ lines' = F!Extend(lines, l) /\ ~open' /\ keys' = [keys EXCEPT ![c] = s]
        /\ logHandle' = logHandle /\ logHandle = "open"
    BY <1>4 DEF F!Record
  <2>3. TakeIn(F!Replay(lines), l) = [F!Replay(lines) EXCEPT ![c] = s]
    BY <2>1 DEF TakeIn
  <2>4. F!Replay(lines') = IF open THEN F!Replay(Rest) ELSE [F!Replay(lines) EXCEPT ![c] = s]
    <3> HIDE DEF l
    <3> QED BY <2>1, <2>2, <2>3, ExtendedLog
  <2>5. Rest' = lines' /\ open' = FALSE
    BY <2>2, <1>4 DEF Rest, F!Record
  <2>6. F!Abstract' = F!L!Written(F!Abstract, c, s)
    BY <1>1, <2>4, <2>5 DEF F!L!Written, F!L!Whole, F!L!Replay
  <2>7. F!L!Record(c, s)
    BY <2>2, <2>6 DEF F!L!Record
  <2>8. QED
    BY <1>2, <2>7 DEF F!L!LedgerNext
<1>5. CASE F!CompactWrite
  <2>1. UNCHANGED F!L!ledgerVars
    BY <1>1, <1>5 DEF F!CompactWrite, F!L!ledgerVars, Rest
  <2>2. QED
    BY <2>1
<1>6. CASE F!CompactSwap
  <2>1. Rest' = tmp /\ lines' = tmp /\ open' = FALSE /\ F!Replay(tmp) = keys
    BY <1>6 DEF F!CompactSwap, Rest, LogInv
  <2>2. F!Abstract' = F!L!Whole(keys)
    BY <1>1, <2>1 DEF F!L!Whole
  <2>3. F!L!Compact
    BY <1>6, <2>2 DEF F!CompactSwap, F!L!Compact
  <2>4. QED
    BY <2>3 DEF F!L!LedgerNext
<1>7. CASE F!Die
  <2>1. F!Abstract' = F!Abstract
    BY <1>1, <1>7 DEF F!Die, Rest
  <2>2. F!L!Die(F!Abstract)
    BY <1>2, <1>7, <2>1 DEF F!Die, F!Gone, F!L!Die
  <2>3. QED
    BY <1>7, <2>2 DEF F!Die, F!L!LedgerNext, LogInv
<1>8. ASSUME NEW c \in Key, NEW s \in F!Entry, F!DieWriting(c, s)
      PROVE  F!L!LedgerNext
  <2> DEFINE l == [cmd |-> c, st |-> s]
             A == F!Abstract
  <2>1. l \in Anyline /\ l # Junk /\ Junk \in Anyline
    BY JunkAssumption DEF Anyline, F!Line
  <2>2. TakeIn(F!Replay(lines), l) = [F!Replay(lines) EXCEPT ![c] = s]
        /\ TakeIn(F!Replay(lines), Junk) = F!Replay(lines)
    BY <2>1 DEF TakeIn
  <2>3. /\ F!L!Readable(A) = F!Replay(Rest)
        /\ F!L!Replay(A, c, s) = IF open THEN F!Replay(Rest) ELSE [F!Replay(lines) EXCEPT ![c] = s]
    BY <1>1 DEF F!L!Readable, F!L!Replay, Rest
  <2>4. A' \in F!L!Cut(A, c, s)
    <3>1. CASE lines' = F!Extend(lines, Junk) /\ open' = TRUE
      <4>1. F!Replay(lines') = F!Replay(Rest)
        BY <2>1, <2>2, <3>1, ExtendedLog DEF Rest
      <4>2. Rest' = Rest
        BY <2>1, <3>1, ExtendedLog DEF Rest
      <4>3. A' = [map |-> F!L!Readable(A), rest |-> F!L!Readable(A), torn |-> TRUE]
        BY <1>1, <2>3, <3>1, <4>1, <4>2
      <4>4. QED
        BY <4>3 DEF F!L!Cut
    <3>2. CASE lines' = F!Extend(lines, l) /\ open' \in BOOLEAN
      <4>1. F!Replay(lines') = F!L!Replay(A, c, s)
        <5> HIDE DEF l
        <5> QED BY <2>1, <2>2, <2>3, <3>2, ExtendedLog
      <4>2. CASE open'
        <5>1. Rest' = Rest
          <6> HIDE DEF l
          <6> QED BY <2>1, <3>2, <4>2, ExtendedLog DEF Rest
        <5>2. A' = [map |-> F!L!Replay(A, c, s), rest |-> F!L!Readable(A), torn |-> TRUE]
          BY <1>1, <2>3, <3>2, <4>1, <4>2, <5>1
        <5>3. QED
          BY <5>2 DEF F!L!Cut
      <4>3. CASE ~open'
        <5>1. Rest' = lines'
          BY <4>3 DEF Rest
        <5>2. A' = F!L!Written(A, c, s)
          BY <1>1, <3>2, <4>1, <4>3, <5>1 DEF F!L!Written, F!L!Whole
        <5>3. QED
          BY <5>2 DEF F!L!Cut
      <4>4. QED
        BY <4>2, <4>3
    <3>3. QED
      BY <1>8, <3>1, <3>2 DEF F!DieWriting
  <2>5. logHandle = "open" /\ logHandle' = "none" /\ keys' = F!Unseen
    BY <1>8 DEF F!DieWriting, F!Gone
  <2> HIDE DEF A
  <2>6. F!L!Die(A')
    BY <1>2, <2>5 DEF F!L!Die, A
  <2>7. c \in Key /\ s \in F!L!Entry
    BY <1>2
  <2>8. QED
    BY <2>4, <2>5, <2>6, <2>7 DEF F!L!LedgerNext, A
<1>9. CASE UNCHANGED logVars
  BY <1>1, <1>9 DEF logVars, F!L!ledgerVars, Rest
<1>10. QED
  BY <1>3, <1>4, <1>5, <1>6, <1>7, <1>8, <1>9 DEF F!Next

\* What the lines are replayed to is what Ledger says a restart finds: the log
\* of single lines, torn and glued ones included, implements the ledger that
\* Dispense works with.
THEOREM LinesImplementTheLedger == PartsSpec => ImplementsLedger
<1>1. ASSUME PartsInit PROVE LogInv /\ F!L!LedgerInit
  <2>1. /\ lines = <<>> /\ tmp = <<>> /\ open = FALSE /\ keys = F!Unseen /\ logHandle = "none"
    BY <1>1 DEF PartsInit, F!Init
  <2>2. keys \in States /\ Known = {} /\ IsFiniteSet({})
    BY <2>1, FS_EmptySet DEF States, F!Unseen, F!Entry, Known
  <2>3. LogInv
    <3>1. lines \in Seq(Anyline)
      BY <2>1
    <3>2. keys \in States /\ IsFiniteSet(Known)
      BY <2>2
    <3> QED
      BY <2>1, <3>1, <3>2, Zenon DEF LogInv
  <2>4. F!Abstract = [map |-> F!Unseen, rest |-> F!Unseen, torn |-> FALSE] /\ F!Unseen = F!L!Unseen
    BY <2>1, ReplayOfNothing DEF F!Abstract, F!Unseen, F!L!Unseen
  <2>5. F!L!LedgerInit
    BY <2>1, <2>4 DEF F!L!LedgerInit, F!L!Whole
  <2>6. QED
    BY <2>3, <2>5
<1>2. [PartsNext]_partsVars => [F!Next]_logVars
  BY EachAlone
<1>3. QED
  BY <1>1, <1>2, LogInvStep, LedgerStep, PTL
  DEF PartsSpec, ImplementsLedger, F!ImplementsLedger, F!L!LedgerSpec

-----------------------------------------------------------------------------
(* Recipe: numbers and sums.                                               *)

Syringe == [stroke : Nat \ {0}, capacity : Nat \ {0}]

\* Division rounds down.
LEMMA Quotient ==
    ASSUME NEW a \in Int, NEW b \in Nat \ {0}
    PROVE  a \div b \in Int /\ b * (a \div b) <= a /\ a < b * (a \div b) + b
  OBVIOUS

LEMMA Factor ==
    ASSUME NEW x \in Int, NEW y \in Int, NEW b \in Nat \ {0}, b * x < b * y + b
    PROVE  x <= y
  OBVIOUS

\* A volume is rounded to the nearest step, half up.
LEMMA Rounded ==
    ASSUME NEW spec \in Syringe, NEW v \in Int
    PROVE  LET k == R!StepsFor(spec, v)
               b == 2 * spec.capacity
               a == 2 * (spec.stroke * v) + spec.capacity
           IN  k \in Int /\ b \in Nat \ {0} /\ a \in Int /\ b * k <= a /\ a < b * k + b
<1> DEFINE b == 2 * spec.capacity
           a == 2 * (spec.stroke * v) + spec.capacity
<1>1. b \in Nat \ {0} /\ a \in Int /\ spec.stroke \in Nat /\ spec.capacity \in Nat
  BY DEF Syringe
<1>2. 2 * spec.stroke * v + spec.capacity = a
  BY <1>1
<1>3. R!StepsFor(spec, v) = a \div b
  BY <1>2 DEF R!StepsFor
<1> HIDE DEF a, b
<1> QED
  BY <1>1, <1>3, Quotient DEF a, b

\* A liquid of at least one step moves the plunger on.
LEMMA RoundedGrows ==
    ASSUME NEW spec \in Syringe, NEW v \in Int, NEW w \in Int, w * spec.stroke >= spec.capacity
    PROVE  R!StepsFor(spec, v + w) >= R!StepsFor(spec, v) + 1
<1> DEFINE b == 2 * spec.capacity
           x == spec.stroke * v
           y == spec.stroke * w
           k == R!StepsFor(spec, v)
           m == R!StepsFor(spec, v + w)
<1>1. spec.stroke \in Nat /\ spec.capacity \in Nat \ {0} /\ x \in Int /\ y \in Int /\ b \in Nat \ {0}
  BY DEF Syringe
<1>2. y >= spec.capacity /\ spec.stroke * (v + w) = x + y
  BY <1>1
<1>3. k \in Int /\ b * k <= 2 * x + spec.capacity
  BY Rounded
<1>4. m \in Int /\ 2 * (x + y) + spec.capacity < b * m + b
  BY <1>1, <1>2, Rounded
<1>6. b = 2 * spec.capacity
  OBVIOUS
<1> HIDE DEF b, x, y, k, m
<1>5. b * (k + 1) = b * k + b /\ b * k \in Int /\ b * m \in Int /\ k + 1 \in Int
  BY <1>1, <1>3, <1>4
<1>7. b * (k + 1) < b * m + b
  BY <1>1, <1>2, <1>3, <1>4, <1>5, <1>6
<1>8. k + 1 <= m
  BY <1>1, <1>4, <1>5, <1>7, Factor
<1> QED
  BY <1>3, <1>4, <1>8 DEF k, m

\* No volume is no step, and one that fits in the syringe is within the stroke.
LEMMA RoundedWithin ==
    ASSUME NEW spec \in Syringe
    PROVE  /\ R!StepsFor(spec, 0) = 0
           /\ \A v \in Int : v <= spec.capacity => R!StepsFor(spec, v) <= spec.stroke
<1> DEFINE b == 2 * spec.capacity
<1>1. spec.stroke \in Nat \ {0} /\ spec.capacity \in Nat \ {0} /\ b \in Nat \ {0}
  BY DEF Syringe
<1>2. R!StepsFor(spec, 0) = 0
  <2> DEFINE k == R!StepsFor(spec, 0)
             z == spec.stroke * 0
  <2>1. k \in Int /\ b * k <= 2 * z + spec.capacity /\ 2 * z + spec.capacity < b * k + b
    BY Rounded
  <2>2. z = 0 /\ b = 2 * spec.capacity
    BY <1>1
  <2> HIDE DEF b, k, z
  <2>5. b * 0 = 0 /\ b * k \in Int
    BY <1>1, <2>1
  <2>3. b * k < b * 0 + b /\ b * 0 < b * k + b
    <3> DEFINE w == b * k
               c == spec.capacity
    <3>1. w \in Int /\ c \in Nat \ {0} /\ w <= 2 * 0 + c /\ 2 * 0 + c < w + b /\ b = 2 * c
      BY <1>1, <2>1, <2>2, <2>5
    <3> HIDE DEF w, c
    <3>2. w < 0 + b /\ 0 < w + b
      BY <3>1
    <3> QED
      BY <2>5, <3>2 DEF w
  <2>4. k <= 0 /\ 0 <= k
    BY <1>1, <2>1, <2>3, Factor
  <2> QED
    BY <2>1, <2>4 DEF k
<1>3. ASSUME NEW v \in Int, v <= spec.capacity PROVE R!StepsFor(spec, v) <= spec.stroke
  <2> DEFINE k == R!StepsFor(spec, v)
             x == spec.stroke * v
             y == spec.stroke * spec.capacity
  <2>1. k \in Int /\ b * k <= 2 * x + spec.capacity
    BY Rounded
  <2>2. x \in Int /\ y \in Int /\ x <= y /\ b * spec.stroke = 2 * y /\ b * k \in Int /\ b = 2 * spec.capacity
    BY <1>1, <1>3, <2>1
  <2> HIDE DEF b, k, x, y
  <2>3. b * k < b * spec.stroke + b
    BY <1>1, <2>1, <2>2
  <2> QED
    BY <1>1, <2>1, <2>3, Factor DEF k
<1> QED
  BY <1>2, <1>3

\* The sums of the first numbers.
SumRun(numbers, v) ==
    /\ v \in [0 .. Len(numbers) -> Int] /\ v[0] = 0
    /\ \A i \in 1 .. Len(numbers) : v[i] = v[i - 1] + numbers[i]

LEMMA SumLoop ==
    ASSUME NEW numbers \in Seq(Int)
    PROVE  \E v : SumRun(numbers, v) /\ R!Added(numbers) = v[Len(numbers)]
<1> DEFINE T == Int
           n == Len(numbers)
           Turn == [i \in 1 .. n |-> [m \in T |-> m + numbers[i]]]
           P(h) == h = [s \in SUBSET (1 .. n) |->
                          IF s = {} THEN 0 ELSE h[s \ {Largest(s)}] + numbers[Largest(s)]]
           H == CHOOSE h : P(h)
<1>1. n \in Nat /\ DOMAIN numbers = 1 .. n /\ \A i \in 1 .. n : numbers[i] \in Int
  OBVIOUS
<1>2. Turn \in [1 .. n -> [T -> T]] /\ 0 \in T
  BY <1>1
<1>3. \A i \in 1 .. n, m \in T : Turn[i][m] = m + numbers[i]
  OBVIOUS
<1> HIDE DEF Turn, n, T
<1>4. PICK g : InTurn(n, T, 0, Turn, g)
  BY <1>1, <1>2, FoldExists
<1>5. P(g)
  <2>1. ASSUME NEW s \in SUBSET (1 .. n), s # {}
        PROVE  g[s] = g[s \ {Largest(s)}] + numbers[Largest(s)]
    <3>1. Largest(s) \in 1 .. n /\ g[s \ {Largest(s)}] \in T
      BY <1>1, <1>4, <2>1, LargestOfSome DEF InTurn
    <3> QED
      BY <1>3, <1>4, <2>1, <3>1 DEF InTurn
  <2> QED
    BY <1>4, <2>1 DEF InTurn
<1>6. P(H)
  <2> HIDE DEF P
  <2> QED
    BY <1>5, Zenon
<1>7. R!Added(numbers) = H[1 .. n]
  BY <1>1, Zenon DEF R!Added, R!FoldLeft, R!MapThenFoldSet, R!Max, Largest
<1> HIDE DEF H
<1>8. /\ H[{}] = 0
      /\ \A s \in SUBSET (1 .. n) : s # {} => H[s] = H[s \ {Largest(s)}] + numbers[Largest(s)]
  BY <1>6
<1>9. \A s \in SUBSET (1 .. n) : s # {} /\ H[s \ {Largest(s)}] \in T
         => H[s] = Turn[Largest(s)][H[s \ {Largest(s)}]]
  <2> TAKE s \in SUBSET (1 .. n)
  <2>1. s # {} => Largest(s) \in 1 .. n
    BY <1>1, LargestOfSome
  <2> QED
    BY <1>3, <1>8, <2>1
<1>10. PICK v : LoopRun(n, T, 0, Turn, v) /\ v[n] = H[1 .. n]
  <2>1. Obeys(n, T, 0, Turn, H)
    BY <1>8, <1>9 DEF Obeys
  <2> QED
    BY <1>1, <1>2, <2>1, LoopRuns DEF RunsTo
<1>11. ASSUME NEW i \in 1 .. n PROVE v[i] = v[i - 1] + numbers[i]
  <2>1. i - 1 \in 0 .. n /\ v[i - 1] \in T
    BY <1>1, <1>10 DEF LoopRun
  <2> QED
    BY <1>3, <1>10, <2>1 DEF LoopRun
<1>12. SumRun(numbers, v)
  BY <1>10, <1>11 DEF SumRun, LoopRun, n, T
<1> QED
  BY <1>7, <1>10, <1>12 DEF n

-----------------------------------------------------------------------------
(* Recipe: the aspirations of a batch.                                     *)

Liquid == [volume : Int, in : Int, liquid : STRING]
AspirationReasons == {"none", "in_port_out_of_range", "in_port_equals_out_port", "non_positive_volume",
             "derived_zero_steps", "alcohol_port_conflict", "alcohol_port_missing"}
Drawing == [reason : AspirationReasons, volume : Int, drawn : Int, draws : Seq(Int)]

\* What a step is made of.
LEMMA StepIs ==
    ASSUME NEW s \in R!Step
    PROVE  /\ s.kind \in {"op", "valve", "batch", "syringe"} /\ s.idx \in Int /\ R!Stage(s) \in Int
           /\ s.asps \in Seq(Liquid)
<1>1. s.asps \in Seq(Liquid) /\ s.stage \in Seq(Int) /\ s.idx \in Int
      /\ s.kind \in {"op", "valve", "batch", "syringe"}
  BY DEF R!Step, Liquid
<1>2. s.stage # <<>> => s.stage[1] \in Int
  BY <1>1
<1> QED
  BY <1>1, <1>2 DEF R!Stage

LEMMA AspirationIs ==
    ASSUME NEW s \in R!Step, NEW a \in Liquid, NEW spec \in Syringe
    PROVE  /\ R!Aspiration(s, a, spec) \in AspirationReasons
           /\ R!Aspiration(s, a, spec) = "none" => R!IsPort(a.in)
  BY DEF R!Aspiration, AspirationReasons

\* What a turn of the loop does.
LEMMA AspirateIs ==
    ASSUME NEW s \in R!Step, NEW a \in Liquid, NEW spec \in Syringe, NEW d \in Drawing
    PROVE  LET e == R!Aspirate(d, a, s, spec)
               n == R!Draw(spec, d.volume, d.drawn, a.volume)
           IN  /\ e \in Drawing /\ n \in Int /\ n >= 1
               /\ e.reason = "none" =>
                    /\ d.reason = "none" /\ R!Aspiration(s, a, spec) = "none"
                    /\ e = [reason |-> "none", volume |-> d.volume + a.volume, drawn |-> d.drawn + n,
                            draws |-> Append(d.draws, n)]
<1> DEFINE e == R!Aspirate(d, a, s, spec)
           n == R!Draw(spec, d.volume, d.drawn, a.volume)
           k == R!StepsFor(spec, d.volume + a.volume)
<1>1. d.volume \in Int /\ d.drawn \in Int /\ a.volume \in Int /\ d.volume + a.volume \in Int /\ d.draws \in Seq(Int)
  BY DEF Drawing, Liquid
<1>2. k \in Int
  BY <1>1, Rounded
<1>3. n = IF 1 < k - d.drawn THEN k - d.drawn ELSE 1
  BY DEF R!Draw, R!Most
<1> HIDE DEF n, k
<1>4. n \in Int /\ n >= 1
  BY <1>1, <1>2, <1>3
<1>5. CASE d.reason # "none"
  BY <1>4, <1>5 DEF R!Aspirate, n
<1>6. CASE d.reason = "none" /\ R!Aspiration(s, a, spec) # "none"
  <2>1. e = [d EXCEPT !.reason = R!Aspiration(s, a, spec)]
    BY <1>6 DEF R!Aspirate
  <2>2. R!Aspiration(s, a, spec) \in AspirationReasons
    BY AspirationIs
  <2>3. e \in Drawing /\ e.reason # "none"
    BY <1>6, <2>1, <2>2 DEF Drawing
  <2> QED
    BY <1>4, <2>3 DEF n
<1>7. CASE d.reason = "none" /\ R!Aspiration(s, a, spec) = "none"
  <2>1. e = [d EXCEPT !.volume = d.volume + a.volume, !.drawn = d.drawn + n, !.draws = Append(d.draws, n)]
    BY <1>7 DEF R!Aspirate, n
  <2>2. e = [reason |-> "none", volume |-> d.volume + a.volume, drawn |-> d.drawn + n, draws |-> Append(d.draws, n)]
    BY <1>7, <2>1 DEF Drawing
  <2>3. Append(d.draws, n) \in Seq(Int) /\ d.drawn + n \in Int
    BY <1>1, <1>4
  <2>4. e \in Drawing
    BY <1>1, <2>2, <2>3 DEF Drawing, AspirationReasons
  <2> HIDE DEF e
  <2> QED
    BY <1>4, <1>7, <2>2, <2>4 DEF n, e
<1> QED
  BY <1>5, <1>6, <1>7

\* The states of the loop.
DrawnRun(s, spec, v) ==
    /\ v \in [0 .. Len(s.asps) -> Drawing]
    /\ v[0] = R!Empty
    /\ \A i \in 1 .. Len(s.asps) : v[i] = R!Aspirate(v[i - 1], s.asps[i], s, spec)

LEMMA DrawnLoop ==
    ASSUME NEW s \in R!Step, NEW spec \in Syringe
    PROVE  \E v : DrawnRun(s, spec, v) /\ R!Drawn(s, spec) = v[Len(s.asps)]
<1> DEFINE n == Len(s.asps)
           Turn == [i \in 1 .. n |-> [d \in Drawing |-> R!Aspirate(d, s.asps[i], s, spec)]]
           P(h) == h = [t \in SUBSET (1 .. n) |->
                          IF t = {} THEN R!Empty
                          ELSE R!Aspirate(h[t \ {Largest(t)}], s.asps[Largest(t)], s, spec)]
           H == CHOOSE h : P(h)
<1>1. n \in Nat /\ DOMAIN s.asps = 1 .. n /\ \A i \in 1 .. n : s.asps[i] \in Liquid
  <2>1. s.asps \in Seq(Liquid)
    BY StepIs
  <2> QED
    BY <2>1
<1>2. R!Empty \in Drawing
  BY DEF R!Empty, Drawing, AspirationReasons
<1>3. Turn \in [1 .. n -> [Drawing -> Drawing]]
  BY <1>1, AspirateIs
<1>4. \A i \in 1 .. n, d \in Drawing : Turn[i][d] = R!Aspirate(d, s.asps[i], s, spec)
  OBVIOUS
<1> HIDE DEF Turn, n
<1>5. PICK g : InTurn(n, Drawing, R!Empty, Turn, g)
  BY <1>1, <1>2, <1>3, FoldExists
<1>6. P(g)
  <2>1. ASSUME NEW t \in SUBSET (1 .. n), t # {}
        PROVE  g[t] = R!Aspirate(g[t \ {Largest(t)}], s.asps[Largest(t)], s, spec)
    <3>1. Largest(t) \in 1 .. n /\ g[t \ {Largest(t)}] \in Drawing
      BY <1>1, <1>5, <2>1, LargestOfSome DEF InTurn
    <3> QED
      BY <1>4, <1>5, <2>1, <3>1 DEF InTurn
  <2> QED
    BY <1>5, <2>1 DEF InTurn
<1>7. P(H)
  <2> HIDE DEF P
  <2> QED
    BY <1>6, Zenon
<1>8. R!Drawn(s, spec) = H[1 .. n]
  BY <1>1, Zenon DEF R!Drawn, R!FoldLeft, R!MapThenFoldSet, R!Max, Largest
<1> HIDE DEF H
<1>9. /\ H[{}] = R!Empty
      /\ \A t \in SUBSET (1 .. n) : t # {} => H[t] = R!Aspirate(H[t \ {Largest(t)}], s.asps[Largest(t)], s, spec)
  BY <1>7
<1>10. \A t \in SUBSET (1 .. n) : t # {} /\ H[t \ {Largest(t)}] \in Drawing
          => H[t] = Turn[Largest(t)][H[t \ {Largest(t)}]]
  <2> TAKE t \in SUBSET (1 .. n)
  <2>1. t # {} => Largest(t) \in 1 .. n
    BY <1>1, LargestOfSome
  <2> QED
    BY <1>4, <1>9, <2>1
<1>11. PICK v : LoopRun(n, Drawing, R!Empty, Turn, v) /\ v[n] = H[1 .. n]
  <2>1. Obeys(n, Drawing, R!Empty, Turn, H)
    BY <1>9, <1>10 DEF Obeys
  <2> QED
    BY <1>1, <1>2, <1>3, <2>1, LoopRuns DEF RunsTo
<1>12. ASSUME NEW i \in 1 .. n PROVE v[i] = R!Aspirate(v[i - 1], s.asps[i], s, spec)
  <2>1. i - 1 \in 0 .. n /\ v[i - 1] \in Drawing
    BY <1>1, <1>11 DEF LoopRun
  <2> QED
    BY <1>4, <1>11, <2>1 DEF LoopRun
<1>13. DrawnRun(s, spec, v)
  BY <1>11, <1>12 DEF DrawnRun, LoopRun, n
<1> QED
  BY <1>8, <1>11, <1>13 DEF n

Volumes(asps) == [i \in DOMAIN asps |-> asps[i].volume]
Fine(s, spec) == \A i \in DOMAIN s.asps : s.asps[i].volume * spec.stroke >= spec.capacity

\* What holds after i aspirations, w being the sums of their volumes, as long
\* as none was refused.
DrawnSoFar(s, spec, v, w, i) ==
    v[i].reason = "none" =>
        /\ Len(v[i].draws) = i /\ v[i].volume = w[i]
        /\ \A k \in 1 .. i : v[i].draws[k] >= 1 /\ v[k].drawn = v[k - 1].drawn + v[i].draws[k]
        /\ \A k \in 1 .. i : R!IsPort(s.asps[k].in)
        /\ Fine(s, spec) => v[i].drawn = R!StepsFor(spec, w[i])

LEMMA DrawnOneMore ==
    ASSUME NEW s \in R!Step, NEW spec \in Syringe, NEW v, DrawnRun(s, spec, v),
           NEW w, SumRun(Volumes(s.asps), w),
           NEW i \in 0 .. Len(s.asps) - 1, DrawnSoFar(s, spec, v, w, i)
    PROVE  DrawnSoFar(s, spec, v, w, i + 1)
<1> DEFINE n == Len(s.asps)
           a == s.asps[i + 1]
           d == v[i]
           e == v[i + 1]
           m == R!Draw(spec, d.volume, d.drawn, a.volume)
<1>1. n \in Nat /\ i \in Nat /\ i + 1 \in 1 .. n /\ i \in 0 .. n /\ i + 1 \in 0 .. n /\ i + 1 - 1 = i
      /\ s.asps \in Seq(Liquid)
  BY StepIs
<1>2. a \in Liquid /\ i + 1 \in DOMAIN s.asps
  BY <1>1
<1>3. d \in Drawing /\ e \in Drawing /\ e = R!Aspirate(d, a, s, spec)
  <2>1. v \in [0 .. n -> Drawing]
    BY DEF DrawnRun
  <2>4. \A j \in 1 .. n : v[j] = R!Aspirate(v[j - 1], s.asps[j], s, spec)
    BY DEF DrawnRun
  <2>2. v[i + 1] = R!Aspirate(v[(i + 1) - 1], s.asps[i + 1], s, spec)
    <3> HIDE DEF n
    <3> QED
      BY <1>1, <2>4, Zenon
  <2>3. v[i + 1] = R!Aspirate(v[i], s.asps[i + 1], s, spec)
    <3>1. (i + 1) - 1 = i
      BY <1>1
    <3> HIDE DEF n
    <3> QED
      BY <2>2, <3>1, Zenon
  <2> QED
    BY <1>1, <2>1, <2>3
<1>4. w[i] \in Int /\ w[i + 1] = w[i] + a.volume /\ a.volume \in Int
  <2> DEFINE q == Volumes(s.asps)
  <2>1. q[i + 1] = a.volume /\ Len(q) = n
    BY <1>1, <1>2 DEF Volumes
  <2>2. a.volume \in Int
    BY <1>2 DEF Liquid
  <2> HIDE DEF q, a, n
  <2>3. w[i + 1] = w[i + 1 - 1] + q[i + 1] /\ w[i] \in Int
    BY <1>1, <2>1 DEF SumRun, q
  <2> QED
    BY <1>1, <2>1, <2>2, <2>3
<1>5. SUFFICES ASSUME e.reason = "none" PROVE DrawnSoFar(s, spec, v, w, i + 1)
  BY DEF DrawnSoFar
<1>6. /\ m \in Int /\ m >= 1 /\ d.reason = "none" /\ R!Aspiration(s, a, spec) = "none"
      /\ e.volume = d.volume + a.volume /\ e.drawn = d.drawn + m /\ e.draws = Append(d.draws, m)
  <2>1. /\ m \in Int /\ m >= 1 /\ d.reason = "none" /\ R!Aspiration(s, a, spec) = "none"
        /\ e = [reason |-> "none", volume |-> d.volume + a.volume, drawn |-> d.drawn + m,
                draws |-> Append(d.draws, m)]
    <3> HIDE DEF a, d, e
    <3> QED
      BY <1>2, <1>3, <1>5, AspirateIs
  <2> HIDE DEF a, d, e, m
  <2> QED
    BY <2>1
<1>7. /\ Len(d.draws) = i /\ d.volume = w[i]
      /\ \A k \in 1 .. i : d.draws[k] >= 1 /\ v[k].drawn = v[k - 1].drawn + d.draws[k]
      /\ \A k \in 1 .. i : R!IsPort(s.asps[k].in)
      /\ Fine(s, spec) => d.drawn = R!StepsFor(spec, w[i])
  BY <1>6 DEF DrawnSoFar
<1>8. /\ Len(e.draws) = i + 1 /\ e.draws[i + 1] = m
      /\ \A k \in 1 .. i : e.draws[k] = d.draws[k]
  <2>1. d.draws \in Seq(Int)
    BY <1>3 DEF Drawing
  <2> HIDE DEF d, e, m
  <2> QED
    BY <1>6, <1>7, <2>1
<1>9. e.volume = w[i + 1]
  BY <1>4, <1>6, <1>7
<1>10. ASSUME NEW k \in 1 .. i + 1
       PROVE  e.draws[k] >= 1 /\ v[k].drawn = v[k - 1].drawn + e.draws[k] /\ R!IsPort(s.asps[k].in)
  <2>1. CASE k = i + 1
    <3>1. R!IsPort(a.in)
      BY <1>2, <1>6, AspirationIs
    <3> HIDE DEF m
    <3> QED
      BY <1>1, <1>6, <1>8, <2>1, <3>1
  <2>2. CASE k # i + 1
    <3>1. k \in 1 .. i
      BY <1>1, <2>2
    <3> HIDE DEF d, e
    <3> QED
      BY <1>7, <1>8, <3>1
  <2> QED
    BY <2>1, <2>2
<1>11. ASSUME Fine(s, spec) PROVE e.drawn = R!StepsFor(spec, w[i + 1])
  <2> DEFINE x == R!StepsFor(spec, w[i])
             y == R!StepsFor(spec, w[i + 1])
  <2>1. a.volume * spec.stroke >= spec.capacity
    BY <1>2, <1>11 DEF Fine
  <2>2. x \in Int /\ y \in Int /\ y >= x + 1
    <3>1. R!StepsFor(spec, w[i] + a.volume) >= R!StepsFor(spec, w[i]) + 1
      <4> HIDE DEF a
      <4> QED
        BY <1>4, <2>1, RoundedGrows
    <3>2. w[i + 1] \in Int
      BY <1>4
    <3> QED
      BY <1>4, <3>1, <3>2, Rounded
  <2>3. m = IF 1 < y - x THEN y - x ELSE 1
    BY <1>4, <1>7, <1>11 DEF R!Draw, R!Most
  <2>4. d.drawn = x
    BY <1>7, <1>11
  <2> HIDE DEF x, y, m, d, e
  <2>5. e.drawn = y
    BY <1>6, <2>2, <2>3, <2>4
  <2> QED
    BY <2>5 DEF y, e
<1> HIDE DEF a, d, m, n
<1> QED
  BY <1>1, <1>8, <1>9, <1>10, <1>11 DEF DrawnSoFar

\* A batch none of whose aspirations is refused: each draws a step or more,
\* their sum is what is drawn, and it is what the whole volume makes.
LEMMA DrawnWhole ==
    ASSUME NEW s \in R!Step, NEW spec \in Syringe, R!Drawn(s, spec).reason = "none"
    PROVE  LET d == R!Drawn(s, spec)
           IN  /\ d \in Drawing /\ d.volume = R!Total(s.asps) /\ R!Added(d.draws) = d.drawn
               /\ \A k \in DOMAIN d.draws : d.draws[k] >= 1
               /\ \A k \in DOMAIN s.asps : R!IsPort(s.asps[k].in)
               /\ Fine(s, spec) => d.drawn = R!StepsFor(spec, R!Total(s.asps))
<1> DEFINE n == Len(s.asps)
<1>1. n \in Nat /\ s.asps \in Seq(Liquid) /\ DOMAIN s.asps = 1 .. n
  BY StepIs
<1>2. PICK v : DrawnRun(s, spec, v) /\ R!Drawn(s, spec) = v[n]
  BY DrawnLoop
<1>3. Volumes(s.asps) \in Seq(Int) /\ Len(Volumes(s.asps)) = n /\ R!Total(s.asps) = R!Added(Volumes(s.asps))
  <2>1. ASSUME NEW i \in 1 .. n PROVE s.asps[i].volume \in Int
    <3>1. s.asps[i] \in Liquid
      BY <1>1
    <3> QED
      BY <3>1 DEF Liquid
  <2>2. Volumes(s.asps) = [i \in 1 .. n |-> s.asps[i].volume]
    BY <1>1 DEF Volumes
  <2>3. R!Total(s.asps) = R!Added(Volumes(s.asps))
    BY Zenon DEF Volumes, R!Total
  <2> HIDE DEF n
  <2> QED
    BY <1>1, <2>1, <2>2, <2>3
<1>4. PICK w : SumRun(Volumes(s.asps), w) /\ R!Added(Volumes(s.asps)) = w[n]
  BY <1>3, SumLoop
<1> DEFINE G == {i \in 0 .. n : DrawnSoFar(s, spec, v, w, i)}
<1>5. 0 \in G
  <2>1. v[0] = R!Empty /\ w[0] = 0 /\ 0 \in 0 .. n
    BY <1>1, <1>2, <1>4 DEF DrawnRun, SumRun
  <2>2. v[0].draws = <<>> /\ v[0].volume = 0 /\ v[0].drawn = 0
    BY <2>1 DEF R!Empty
  <2>3. DrawnSoFar(s, spec, v, w, 0)
    BY <2>1, <2>2, RoundedWithin DEF DrawnSoFar
  <2> QED
    BY <2>1, <2>3
<1>6. ASSUME NEW k \in 0 .. n - 1, k \in G PROVE k + 1 \in G
  <2>1. DrawnSoFar(s, spec, v, w, k + 1)
    BY <1>2, <1>4, <1>6, DrawnOneMore
  <2> QED
    BY <1>1, <2>1
<1>7. \A k \in 0 .. n : k \in G
  <2> HIDE DEF G
  <2> QED
    BY <1>1, <1>5, <1>6, UpTo
<1>8. n \in 0 .. n /\ v[n] \in Drawing /\ v[n].reason = "none" /\ v[n].draws \in Seq(Int)
  <2>1. n \in 0 .. n /\ v[n] \in Drawing
    BY <1>1, <1>2 DEF DrawnRun
  <2> QED
    BY <1>2, <2>1 DEF Drawing
<1>9. /\ Len(v[n].draws) = n /\ v[n].volume = w[n]
      /\ \A k \in 1 .. n : v[n].draws[k] >= 1 /\ v[k].drawn = v[k - 1].drawn + v[n].draws[k]
      /\ \A k \in 1 .. n : R!IsPort(s.asps[k].in)
      /\ Fine(s, spec) => v[n].drawn = R!StepsFor(spec, w[n])
  BY <1>7, <1>8 DEF DrawnSoFar
<1>10. R!Added(v[n].draws) = v[n].drawn
  <2>1. PICK u : SumRun(v[n].draws, u) /\ R!Added(v[n].draws) = u[n]
    BY <1>8, <1>9, SumLoop
  <2> DEFINE D == {k \in 0 .. n : u[k] = v[k].drawn}
  <2>2. 0 \in D
    BY <1>1, <1>2, <2>1 DEF SumRun, DrawnRun, R!Empty
  <2>3. ASSUME NEW k \in 0 .. n - 1, k \in D PROVE k + 1 \in D
    <3>1. k + 1 \in 1 .. n /\ k + 1 \in 0 .. n /\ k + 1 - 1 = k
      BY <1>1
    <3>2. u[k + 1] = u[k] + v[n].draws[k + 1]
      BY <1>9, <2>1, <3>1 DEF SumRun
    <3> QED
      BY <1>9, <2>3, <3>1, <3>2
  <2>4. \A k \in 0 .. n : k \in D
    <3> HIDE DEF D
    <3> QED
      BY <1>1, <2>2, <2>3, UpTo
  <2> QED
    BY <1>8, <2>1, <2>4
<1>11. DOMAIN v[n].draws = 1 .. n
  BY <1>8, <1>9
<1> HIDE DEF n
<1> QED
  BY <1>1, <1>2, <1>3, <1>4, <1>8, <1>9, <1>10, <1>11

-----------------------------------------------------------------------------
(* Recipe: the order of the steps.                                         *)

LEMMA BeforeOrders ==
    ASSUME NEW input \in Seq(R!Step)
    PROVE  /\ \A i \in DOMAIN input : ~R!Before(input, i, i)
           /\ \A i, j \in DOMAIN input : i = j \/ R!Before(input, i, j) \/ R!Before(input, j, i)
           /\ \A i, j, k \in DOMAIN input :
                R!Before(input, i, j) /\ R!Before(input, j, k) => R!Before(input, i, k)
<1> DEFINE g == [i \in DOMAIN input |-> R!Stage(input[i])]
           x == [i \in DOMAIN input |-> input[i].idx]
<1>1. \A i \in DOMAIN input : input[i] \in R!Step /\ i \in Int
  OBVIOUS
<1>2. \A i \in DOMAIN input : g[i] \in Int /\ x[i] \in Int
  BY <1>1, StepIs
<1>3. \A i, j \in DOMAIN input : R!Before(input, i, j) <=>
         \/ g[i] < g[j]
         \/ g[i] = g[j] /\ x[i] < x[j]
         \/ g[i] = g[j] /\ x[i] = x[j] /\ i < j
  BY DEF R!Before
<1> HIDE DEF g, x
<1> QED
  BY <1>1, <1>2, <1>3

\* at is where the step at each place of the order was.
Order(input, at) ==
    /\ at \in [DOMAIN input -> DOMAIN input]
    /\ \A j \in DOMAIN input : \E m \in DOMAIN input : at[m] = j
    /\ \A m, k \in DOMAIN input : m < k => R!Before(input, at[m], at[k])

LEMMA OneBelow ==
    ASSUME NEW input \in Seq(R!Step)
    PROVE  /\ \A j \in DOMAIN input : R!Place(input, j) \in DOMAIN input
           /\ \A i, j \in DOMAIN input :
                R!Before(input, i, j) => R!Place(input, i) < R!Place(input, j)
<1> DEFINE D == DOMAIN input
           n == Len(input)
           Below(j) == {i \in D : R!Before(input, i, j)}
<1>1. n \in Nat /\ D = 1 .. n
  OBVIOUS
<1>2. IsFiniteSet(D) /\ Cardinality(D) = n
  <2> HIDE DEF D, n
  <2>1. IsFiniteSet(1 .. n) /\ Cardinality(1 .. n) = IF 1 > n THEN 0 ELSE n - 1 + 1
    BY <1>1, FS_Interval
  <2> QED
    BY <1>1, <2>1
<1>3. \A j \in D : R!Place(input, j) = 1 + Cardinality(Below(j))
  BY DEF R!Place, R!Cardinality, Cardinality
<1>4. ASSUME NEW j \in D
      PROVE  /\ IsFiniteSet(Below(j)) /\ Cardinality(Below(j)) \in Nat
             /\ Cardinality(Below(j) \cup {j}) = Cardinality(Below(j)) + 1
             /\ Below(j) \cup {j} \in SUBSET D
  <2>1. Below(j) \in SUBSET D /\ j \notin Below(j)
    BY BeforeOrders
  <2>2. Below(j) \cup {j} \in SUBSET D
    BY <2>1
  <2> HIDE DEF Below, D
  <2>3. IsFiniteSet(Below(j))
    BY <1>2, <2>1, FS_Subset
  <2>4. Cardinality(Below(j)) \in Nat
    BY <2>3, FS_CardinalityType
  <2> QED
    BY <2>1, <2>2, <2>3, <2>4, FS_AddElement
<1>5. ASSUME NEW i \in D, NEW j \in D, R!Before(input, i, j)
      PROVE  Below(i) \cup {i} \in SUBSET Below(j)
  BY <1>5, BeforeOrders
<1> HIDE DEF Below, D
<1>6. ASSUME NEW j \in D PROVE R!Place(input, j) \in D
  <2>1. Cardinality(Below(j) \cup {j}) <= Cardinality(D)
    BY <1>2, <1>4, FS_Subset
  <2> HIDE DEF n
  <2> QED
    BY <1>1, <1>2, <1>3, <1>4, <2>1
<1>7. ASSUME NEW i \in D, NEW j \in D, R!Before(input, i, j)
      PROVE  R!Place(input, i) < R!Place(input, j)
  <2>1. Cardinality(Below(i) \cup {i}) <= Cardinality(Below(j))
    BY <1>4, <1>5, <1>7, FS_Subset
  <2> DEFINE p == Cardinality(Below(i))
             q == Cardinality(Below(j))
  <2>2. p \in Nat /\ q \in Nat /\ p + 1 <= q
    <3>1. Cardinality(Below(i) \cup {i}) = p + 1 /\ p \in Nat /\ q \in Nat
      BY <1>4
    <3> HIDE DEF p
    <3> QED
      BY <2>1, <3>1
  <2>3. R!Place(input, i) = 1 + p /\ R!Place(input, j) = 1 + q
    BY <1>3
  <2> HIDE DEF p, q
  <2> QED
    BY <2>2, <2>3
<1> QED
  BY <1>6, <1>7 DEF D

\* sorted() puts each step at one place, in order.
LEMMA SortedIs ==
    ASSUME NEW input \in Seq(R!Step)
    PROVE  \E at : Order(input, at) /\ R!Sorted(input) = [m \in DOMAIN input |-> input[at[m]]]
<1> DEFINE D == DOMAIN input
           place == [j \in D |-> R!Place(input, j)]
           at == [m \in D |-> CHOOSE j \in D : R!Place(input, j) = m]
<1>1. place \in [D -> D]
  BY OneBelow
<1>2. \A i, j \in D : place[i] = place[j] => i = j
  <2>1. \A i, j \in D : R!Before(input, i, j) => place[i] < place[j]
    BY OneBelow
  <2>2. \A j \in D : place[j] \in Int
    BY <1>1
  <2>3. \A i, j \in D : i = j \/ R!Before(input, i, j) \/ R!Before(input, j, i)
    BY BeforeOrders
  <2> HIDE DEF place, D
  <2> QED
    BY <2>1, <2>2, <2>3
<1>3. place \in Injection(D, D)
  <2> HIDE DEF place, D
  <2> QED
    BY <1>1, <1>2 DEF Injection, IsInjective
<1>4. IsFiniteSet(D)
  <2>1. D = 1 .. Len(input) /\ Len(input) \in Nat
    OBVIOUS
  <2> HIDE DEF D
  <2> QED
    BY <2>1, FS_Interval
<1>5. \A m \in D : \E j \in D : place[j] = m
  <2> HIDE DEF place, D
  <2>1. place \in Surjection(D, D)
    BY <1>3, <1>4, FS_Injection
  <2> QED
    BY <2>1 DEF Surjection
<1>6. \A m \in D : at[m] \in D /\ place[at[m]] = m
  <2>1. \A m \in D : \E j \in D : R!Place(input, j) = m
    BY <1>5
  <2> QED
    BY <2>1
<1>7. \A j \in D : at[place[j]] = j
  <2>1. \A j \in D : place[j] \in D
    BY <1>1
  <2> HIDE DEF at, place, D
  <2> QED
    BY <1>2, <1>6, <2>1
<1>8. \A m, k \in D : m < k => R!Before(input, at[m], at[k])
  <2>1. \A i, j \in D : R!Before(input, i, j) => place[i] < place[j]
    BY OneBelow
  <2>2. \A i, j \in D : i = j \/ R!Before(input, i, j) \/ R!Before(input, j, i)
    BY BeforeOrders
  <2>3. \A m \in D : m \in Int
    OBVIOUS
  <2> HIDE DEF at, place, D
  <2> QED
    BY <1>6, <2>1, <2>2, <2>3
<1>9. at \in [D -> D]
  <2>1. \A m \in D : at[m] \in D
    BY <1>6
  <2> HIDE DEF D
  <2> QED
    BY <2>1
<1>10. Order(input, at)
  <2>1. \A j \in D : \E m \in D : at[m] = j
    <3> HIDE DEF at, D
    <3> QED
      BY <1>1, <1>7
  <2> HIDE DEF at
  <2> QED
    BY <1>8, <1>9, <2>1 DEF Order
<1>11. R!Sorted(input) = [m \in D |-> input[at[m]]]
  BY DEF R!Sorted
<1> HIDE DEF at
<1> QED
  BY <1>10, <1>11

-----------------------------------------------------------------------------
(* Recipe: the steps of a stage.                                           *)

\* g has those of the first i records that are of stage n, in their order.
Grouped(records, n, g, i) ==
    /\ \A k \in 1 .. i : records[k].stage = n => \E j \in DOMAIN g : g[j] = records[k]
    /\ \A j \in DOMAIN g : \E k \in 1 .. i : g[j] = records[k] /\ records[k].stage = n
    /\ \A j, m \in DOMAIN g : j < m =>
         \E k, l \in 1 .. i : k < l /\ g[j] = records[k] /\ g[m] = records[l]

LEMMA GroupedOneMore ==
    ASSUME NEW T, NEW records \in Seq(T), NEW n, NEW g \in Seq(T), NEW h,
           NEW i \in 0 .. Len(records) - 1, Grouped(records, n, g, i),
           h = IF records[i + 1].stage = n THEN Append(g, records[i + 1]) ELSE g
    PROVE  Grouped(records, n, h, i + 1)
<1> DEFINE r == records[i + 1]
           m == Len(g)
<1>1. i \in Nat /\ i + 1 \in 1 .. i + 1 /\ \A k \in 1 .. i : k \in 1 .. i + 1 /\ k < i + 1
  OBVIOUS
<1>2. \A k \in 1 .. i + 1 : k \in 1 .. i \/ k = i + 1
  BY <1>1
<1>3. CASE r.stage # n
  <2>1. h = g
    BY <1>3
  <2> HIDE DEF r
  <2>2. records[i + 1].stage # n
    BY <1>3 DEF r
  <2> QED
    BY <1>1, <1>2, <2>1, <2>2 DEF Grouped
<1>4. CASE r.stage = n
  <2>1. h = Append(g, r) /\ r \in T /\ m \in Nat
    BY <1>4
  <2>2. DOMAIN g = 1 .. m /\ DOMAIN h = 1 .. m + 1 /\ h[m + 1] = r /\ \A j \in 1 .. m : h[j] = g[j]
    <3> HIDE DEF r
    <3> QED
      BY <2>1
  <2>3. r = records[i + 1]
    OBVIOUS
  <2> HIDE DEF r, m
  <2>4. \A j \in 1 .. m + 1 : j \in 1 .. m \/ j = m + 1
    BY <2>1
  <2>5. m + 1 \in 1 .. m + 1 /\ \A j \in 1 .. m : j \in 1 .. m + 1
    BY <2>1
  <2>9. /\ \A k \in 1 .. i : records[k].stage = n => \E j \in 1 .. m : g[j] = records[k]
        /\ \A j, q \in 1 .. m : j < q =>
             \E k, l \in 1 .. i : k < l /\ g[j] = records[k] /\ g[q] = records[l]
    <3>1. DOMAIN g = 1 .. m
      BY <2>2
    <3>2. \A k \in 1 .. i : records[k].stage = n => \E j \in DOMAIN g : g[j] = records[k]
      BY Zenon DEF Grouped
    <3>3. \A j, q \in DOMAIN g : j < q =>
             \E k, l \in 1 .. i : k < l /\ g[j] = records[k] /\ g[q] = records[l]
      BY Zenon DEF Grouped
    <3>4. \A k \in 1 .. i : records[k].stage = n => \E j \in 1 .. m : g[j] = records[k]
      BY <3>1, <3>2, Zenon
    <3>5. \A j, q \in 1 .. m : j < q =>
             \E k, l \in 1 .. i : k < l /\ g[j] = records[k] /\ g[q] = records[l]
      <4> TAKE j, q \in 1 .. m
      <4>1. j \in DOMAIN g /\ q \in DOMAIN g
        BY <3>1
      <4> QED
        BY <3>3, <4>1, Zenon
    <3> QED
      BY <3>4, <3>5
  <2>6. \A k \in 1 .. i + 1 : records[k].stage = n => \E j \in DOMAIN h : h[j] = records[k]
    <3> SUFFICES ASSUME NEW k \in 1 .. i + 1, records[k].stage = n
                 PROVE  \E j \in DOMAIN h : h[j] = records[k]
      OBVIOUS
    <3>1. CASE k = i + 1
      BY <2>2, <2>3, <2>5, <3>1
    <3>2. CASE k \in 1 .. i
      <4>1. PICK j \in 1 .. m : g[j] = records[k]
        BY <2>9, <3>2, Zenon
      <4> QED
        BY <2>2, <2>5, <4>1
    <3> QED
      BY <1>2, <3>1, <3>2
  <2>7. \A j \in DOMAIN h : \E k \in 1 .. i + 1 : h[j] = records[k] /\ records[k].stage = n
    <3> SUFFICES ASSUME NEW j \in 1 .. m + 1
                 PROVE  \E k \in 1 .. i + 1 : h[j] = records[k] /\ records[k].stage = n
      BY <2>2
    <3>1. CASE j = m + 1
      BY <1>1, <1>4, <2>2, <2>3, <3>1
    <3>2. CASE j \in 1 .. m
      <4>1. PICK k \in 1 .. i : g[j] = records[k] /\ records[k].stage = n
        BY <2>2, <3>2 DEF Grouped
      <4> QED
        BY <1>1, <2>2, <3>2, <4>1
    <3> QED
      BY <2>4, <3>1, <3>2
  <2>8. \A j, q \in DOMAIN h : j < q =>
           \E k, l \in 1 .. i + 1 : k < l /\ h[j] = records[k] /\ h[q] = records[l]
    <3> SUFFICES ASSUME NEW j \in DOMAIN h, NEW q \in DOMAIN h, j < q
                 PROVE  \E k, l \in 1 .. i + 1 : k < l /\ h[j] = records[k] /\ h[q] = records[l]
      OBVIOUS
    <3>4. j \in 1 .. m + 1 /\ q \in 1 .. m + 1
      BY <2>2
    <3>1. j \in 1 .. m
      BY <2>1, <3>4
    <3>2. CASE q = m + 1
      <4>1. PICK k \in 1 .. i : g[j] = records[k]
        BY <2>2, <3>1 DEF Grouped
      <4> QED
        BY <1>1, <2>2, <2>3, <3>1, <3>2, <4>1
    <3>3. CASE q \in 1 .. m
      <4>1. PICK k \in 1 .. i, l \in 1 .. i : k < l /\ g[j] = records[k] /\ g[q] = records[l]
        BY <2>9, <3>1, <3>3, Zenon
      <4> QED
        BY <1>1, <2>2, <3>1, <3>3, <4>1
    <3> QED
      BY <2>4, <3>2, <3>3, <3>4
  <2> QED
    BY <2>6, <2>7, <2>8 DEF Grouped
<1> QED
  BY <1>3, <1>4

LEMMA GroupIs ==
    ASSUME NEW T, NEW records \in Seq(T), NEW n
    PROVE  R!Group(records, n) \in Seq(T) /\ Grouped(records, n, R!Group(records, n), Len(records))
<1> DEFINE c == Len(records)
           Q == Seq(T)
           Next1(g, r) == IF r.stage = n THEN Append(g, r) ELSE g
           Turn == [i \in 1 .. c |-> [g \in Q |-> Next1(g, records[i])]]
           P(h) == h = [t \in SUBSET (1 .. c) |->
                          IF t = {} THEN <<>> ELSE Next1(h[t \ {Largest(t)}], records[Largest(t)])]
           H == CHOOSE h : P(h)
<1>1. c \in Nat /\ DOMAIN records = 1 .. c /\ \A i \in 1 .. c : records[i] \in T
  OBVIOUS
<1>2. <<>> \in Q
  OBVIOUS
<1>3. Turn \in [1 .. c -> [Q -> Q]]
  <2>1. \A g \in Q, r \in T : Next1(g, r) \in Q
    OBVIOUS
  <2> HIDE DEF Next1, Q
  <2> QED
    BY <1>1, <2>1
<1>4. \A i \in 1 .. c, g \in Q : Turn[i][g] = Next1(g, records[i])
  <2> HIDE DEF Next1, Q
  <2> QED
    OBVIOUS
<1>14. \A g, r : Next1(g, r) = IF r.stage = n THEN Append(g, r) ELSE g
  OBVIOUS
<1> HIDE DEF Turn, c, Q
<1>5. PICK f : InTurn(c, Q, <<>>, Turn, f)
  BY <1>1, <1>2, <1>3, FoldExists
<1>6. P(f)
  <2>1. ASSUME NEW t \in SUBSET (1 .. c), t # {}
        PROVE  f[t] = Next1(f[t \ {Largest(t)}], records[Largest(t)])
    <3>1. Largest(t) \in 1 .. c /\ f[t \ {Largest(t)}] \in Q
      BY <1>1, <1>5, <2>1, LargestOfSome DEF InTurn
    <3> HIDE DEF Next1
    <3> QED
      BY <1>4, <1>5, <2>1, <3>1 DEF InTurn
  <2> HIDE DEF Next1
  <2> QED
    BY <1>5, <2>1 DEF InTurn
<1>7. P(H)
  <2> HIDE DEF P
  <2> QED
    BY <1>6, Zenon
<1>8. R!Group(records, n) = H[1 .. c]
  BY <1>1, Zenon DEF R!Group, R!FoldLeft, R!MapThenFoldSet, R!Max, Largest
<1> HIDE DEF H, Next1
<1>9. /\ H[{}] = <<>>
      /\ \A t \in SUBSET (1 .. c) : t # {} => H[t] = Next1(H[t \ {Largest(t)}], records[Largest(t)])
  BY <1>7
<1>10. \A t \in SUBSET (1 .. c) : t # {} /\ H[t \ {Largest(t)}] \in Q
          => H[t] = Turn[Largest(t)][H[t \ {Largest(t)}]]
  <2> TAKE t \in SUBSET (1 .. c)
  <2>1. t # {} => Largest(t) \in 1 .. c
    BY <1>1, LargestOfSome
  <2> QED
    BY <1>4, <1>9, <2>1
<1>11. PICK v : LoopRun(c, Q, <<>>, Turn, v) /\ v[c] = H[1 .. c]
  <2>1. Obeys(c, Q, <<>>, Turn, H)
    BY <1>9, <1>10 DEF Obeys
  <2> QED
    BY <1>1, <1>2, <1>3, <2>1, LoopRuns DEF RunsTo
<1> DEFINE G == {i \in 0 .. c : Grouped(records, n, v[i], i)}
<1>12. 0 \in G
  <2>1. v[0] = <<>> /\ 0 \in 0 .. c /\ DOMAIN <<>> = {} /\ 1 .. 0 = {}
    BY <1>1, <1>11 DEF LoopRun
  <2>2. Grouped(records, n, v[0], 0)
    BY <2>1 DEF Grouped
  <2> QED
    BY <2>1, <2>2
<1>13. ASSUME NEW k \in 0 .. c - 1, k \in G PROVE k + 1 \in G
  <2>1. k + 1 \in 1 .. c /\ k + 1 \in 0 .. c /\ k + 1 - 1 = k /\ v[k] \in Q /\ k \in 0 .. Len(records) - 1
    BY <1>1, <1>11 DEF LoopRun, c
  <2>2. v[k + 1] = Turn[k + 1][v[k]]
    BY <1>11, <2>1 DEF LoopRun
  <2>3. v[k + 1] = IF records[k + 1].stage = n THEN Append(v[k], records[k + 1]) ELSE v[k]
    BY <1>4, <1>14, <2>1, <2>2
  <2>4. Grouped(records, n, v[k + 1], k + 1)
    BY <1>13, <2>1, <2>3, GroupedOneMore DEF Q
  <2> QED
    BY <2>1, <2>4
<1>15. \A k \in 0 .. c : k \in G
  <2> HIDE DEF G
  <2> QED
    BY <1>1, <1>12, <1>13, UpTo
<1>16. c \in 0 .. c /\ v[c] \in Q
  BY <1>1, <1>11 DEF LoopRun
<1> QED
  BY <1>8, <1>11, <1>15, <1>16 DEF c, Q

-----------------------------------------------------------------------------
(* Recipe: what the gates let through.                                     *)

Noted(s, draws, ports) ==
    [idx |-> s.idx, stage |-> R!Stage(s), kind |-> s.kind, pump |-> s.pump, draws |-> draws, ports |-> ports]
Records == [idx : Int, stage : Int, kind : {"op", "valve", "batch", "syringe"}, pump : Int,
            draws : Seq(Int), ports : SUBSET (1 .. ValvePorts)]
Reasons == AspirationReasons \cup
    {"negative_stage", "unknown_engine_op", "duplicate_pump_in_stage", "multiple_valve_steps",
     "unknown_valve_base", "unknown_valve_op", "valve_open_requires_open_sec", "non_positive_valve_open_sec",
     "non_positive_valve_volume", "unmapped_pump_addr", "volume_over_max", "out_port_out_of_range",
     "empty_batch", "batch_over_capacity"}
Accs == [reason : Reasons, steps : Seq(Records), pumps : SUBSET (Int \X Int), valves : Nat]

\* A step that moves a pump is recorded, and claims the pump for its stage.
Moves(acc, s, e, draws, ports) ==
    /\ s.pump \in DOMAIN PumpMap /\ <<R!Stage(s), s.pump>> \notin acc.pumps
    /\ e = [reason |-> "none", steps |-> Append(acc.steps, Noted(s, draws, ports)),
            pumps |-> acc.pumps \cup {<<R!Stage(s), s.pump>>}, valves |-> acc.valves]

\* The first valve step is recorded and counted.
Opens(acc, s, e) ==
    /\ acc.valves = 0
    /\ e = [reason |-> "none", steps |-> Append(acc.steps, Noted(s, <<>>, {})),
            pumps |-> acc.pumps, valves |-> 1]

LEMMA StepFields ==
    ASSUME NEW s \in R!Step
    PROVE  s.pump \in Int /\ s.volume \in Int /\ s.in \in Int /\ s.out \in Int
  BY DEF R!Step

LEMMA RecordIs ==
    ASSUME NEW s \in R!Step, NEW draws \in Seq(Int), NEW ports \in SUBSET (1 .. ValvePorts)
    PROVE  Noted(s, draws, ports) \in Records
  BY StepIs, StepFields DEF Noted, Records

LEMMA AccIs ==
    ASSUME NEW p \in Seq(Records), NEW q \in SUBSET (Int \X Int), NEW n \in Nat, NEW e,
           e = [reason |-> "none", steps |-> p, pumps |-> q, valves |-> n]
    PROVE  e \in Accs
<1> DEFINE A == Seq(Records)
           B == SUBSET (Int \X Int)
<1>1. p \in A /\ q \in B /\ Accs = [reason : Reasons, steps : A, pumps : B, valves : Nat]
      /\ "none" \in Reasons
  BY DEF Accs, Reasons, AspirationReasons
<1> HIDE DEF A, B
<1> QED
  BY <1>1

LEMMA MovesType ==
    ASSUME NEW acc \in Accs, NEW s \in R!Step, NEW e,
           NEW draws \in Seq(Int), NEW ports \in SUBSET (1 .. ValvePorts), Moves(acc, s, e, draws, ports)
    PROVE  e \in Accs
<1>1. Append(acc.steps, Noted(s, draws, ports)) \in Seq(Records)
  BY RecordIs DEF Accs
<1>2. acc.pumps \cup {<<R!Stage(s), s.pump>>} \in SUBSET (Int \X Int)
  BY StepIs, StepFields DEF Accs
<1> DEFINE p == Append(acc.steps, Noted(s, draws, ports))
           q == acc.pumps \cup {<<R!Stage(s), s.pump>>}
<1>3. e = [reason |-> "none", steps |-> p, pumps |-> q, valves |-> acc.valves]
  BY DEF Moves
<1>4. acc.valves \in Nat
  BY DEF Accs
<1>5. p \in Seq(Records) /\ q \in SUBSET (Int \X Int)
  BY <1>1, <1>2
<1> HIDE DEF p, q
<1> QED
  BY <1>3, <1>4, <1>5, AccIs

LEMMA OpensType ==
    ASSUME NEW acc \in Accs, NEW s \in R!Step, NEW e, Opens(acc, s, e)
    PROVE  e \in Accs
<1>1. Append(acc.steps, Noted(s, <<>>, {})) \in Seq(Records)
  <2>1. <<>> \in Seq(Int) /\ {} \in SUBSET (1 .. ValvePorts)
    OBVIOUS
  <2>2. Noted(s, <<>>, {}) \in Records
    BY <2>1, RecordIs
  <2> QED
    BY <2>2 DEF Accs
<1> DEFINE p == Append(acc.steps, Noted(s, <<>>, {}))
<1>2. e = [reason |-> "none", steps |-> p, pumps |-> acc.pumps, valves |-> 1]
  BY DEF Opens
<1>3. acc.pumps \in SUBSET (Int \X Int)
  BY DEF Accs
<1>4. p \in Seq(Records)
  BY <1>1
<1> HIDE DEF p
<1> QED
  BY <1>2, <1>3, <1>4, AccIs

LEMMA RefusedIs ==
    ASSUME NEW acc \in Accs, NEW why \in Reasons, why # "none"
    PROVE  R!Refused(acc, why) \in Accs /\ R!Refused(acc, why).reason = why
  BY DEF R!Refused, Accs

LEMMA ClaimedMoves ==
    ASSUME NEW acc \in Accs, acc.reason = "none", NEW s \in R!Step, ~R!Claimed(acc, s),
           s.pump \in DOMAIN PumpMap, NEW draws \in Seq(Int), NEW ports \in SUBSET (1 .. ValvePorts)
    PROVE  Moves(acc, s, R!Claim(R!Resolved(acc, s, draws, ports), s), draws, ports)
<1> DEFINE f == R!Resolved(acc, s, draws, ports)
<1>1. f = [acc EXCEPT !.steps = Append(acc.steps, Noted(s, draws, ports))]
  BY DEF R!Resolved, Noted
<1>2. f = [reason |-> "none", steps |-> Append(acc.steps, Noted(s, draws, ports)),
           pumps |-> acc.pumps, valves |-> acc.valves]
  <2> HIDE DEF f
  <2> QED
    BY <1>1 DEF Accs
<1>3. R!Claim(f, s) = [f EXCEPT !.pumps = f.pumps \cup {<<R!Stage(s), s.pump>>}]
  BY DEF R!Claim
<1> HIDE DEF f
<1>4. R!Claim(f, s) = [reason |-> "none", steps |-> Append(acc.steps, Noted(s, draws, ports)),
                       pumps |-> acc.pumps \cup {<<R!Stage(s), s.pump>>}, valves |-> acc.valves]
  BY <1>2, <1>3
<1> QED
  BY <1>4 DEF Moves, R!Claimed, f

\* A batch that runs draws what its aspirations make, within the stroke.
WholeBatch(s, draws) ==
    LET d == R!Drawn(s, PumpMap[s.pump])
    IN  d.reason = "none" /\ draws = d.draws /\ d.drawn <= PumpMap[s.pump].stroke

\* What each gate does with a step that it does not refuse.
Runs(acc, s, e) ==
    IF s.kind = "valve" THEN Opens(acc, s, e)
    ELSE \E draws \in Seq(Int), ports \in SUBSET (1 .. ValvePorts) :
           Moves(acc, s, e, draws, ports) /\ (s.kind = "batch" => WholeBatch(s, draws))

LEMMA RunsType ==
    ASSUME NEW acc \in Accs, NEW s \in R!Step, NEW e, Runs(acc, s, e)
    PROVE  e \in Accs /\ e.reason = "none"
<1>1. CASE s.kind = "valve"
  BY <1>1, OpensType DEF Runs, Opens
<1>2. CASE s.kind # "valve"
  <2>1. PICK draws \in Seq(Int), ports \in SUBSET (1 .. ValvePorts) : Moves(acc, s, e, draws, ports)
    BY <1>2, Zenon DEF Runs
  <2> QED
    BY <2>1, MovesType DEF Moves
<1> QED
  BY <1>1, <1>2

LEMMA OpIs ==
    ASSUME NEW acc \in Accs, acc.reason = "none", NEW s \in R!Step, s.kind = "op", NEW e,
           e = R!Op(acc, s, PumpMap)
    PROVE  \/ e \in Accs /\ e.reason # "none"
           \/ s.pump \notin DOMAIN PumpMap /\ e = acc
           \/ Runs(acc, s, e)
<1> DEFINE one(p) == IF R!IsPort(p) THEN {p} ELSE {}
           ports == IF s.op = "initialize" THEN one(s.in) \cup one(s.out)
                    ELSE IF s.op = "estop" THEN {} ELSE one(s.in)
<1>1. ports \in SUBSET (1 .. ValvePorts)
  BY DEF R!IsPort
<1>2. CASE s.op \notin {"estop", "initialize", "plungerFull", "plungerHome"}
  BY <1>2, RefusedIs DEF R!Op, Reasons
<1>3. CASE s.op \in {"estop", "initialize", "plungerFull", "plungerHome"} /\ s.pump \notin DOMAIN PumpMap
  BY <1>3 DEF R!Op
<1>4. CASE /\ s.op \in {"estop", "initialize", "plungerFull", "plungerHome"} /\ s.pump \in DOMAIN PumpMap
           /\ R!Claimed(acc, s)
  BY <1>4, RefusedIs DEF R!Op, Reasons
<1>5. CASE /\ s.op \in {"estop", "initialize", "plungerFull", "plungerHome"} /\ s.pump \in DOMAIN PumpMap
           /\ ~R!Claimed(acc, s)
  <2>1. e = R!Claim(R!Resolved(acc, s, <<>>, ports), s)
    BY <1>5 DEF R!Op
  <2>2. <<>> \in Seq(Int)
    OBVIOUS
  <2> HIDE DEF ports
  <2>3. Moves(acc, s, e, <<>>, ports)
    BY <1>1, <1>5, <2>1, <2>2, ClaimedMoves
  <2> QED
    BY <1>1, <2>2, <2>3 DEF Runs
<1> QED
  BY <1>2, <1>3, <1>4, <1>5

LEMMA ValveIs ==
    ASSUME NEW acc \in Accs, acc.reason = "none", NEW s \in R!Step, s.kind = "valve", NEW e,
           e = R!ValveStep(acc, s)
    PROVE  (e \in Accs /\ e.reason # "none") \/ Runs(acc, s, e)
<1> DEFINE why == IF acc.valves > 0 THEN "multiple_valve_steps"
                  ELSE IF s.base \notin R!ValveBases THEN "unknown_valve_base"
                  ELSE IF s.op \notin {"", "open", "close"} THEN "unknown_valve_op"
                  ELSE IF s.op = "close" THEN "none"
                  ELSE IF s.op = "open" /\ s.open = <<>> THEN "valve_open_requires_open_sec"
                  ELSE IF s.open # <<>> /\ s.open[1] <= 0 THEN "non_positive_valve_open_sec"
                  ELSE IF s.open = <<>> /\ s.volume <= 0 THEN "non_positive_valve_volume"
                  ELSE "none"
           f == [acc EXCEPT !.valves = acc.valves + 1]
<1>1. e = IF why = "none" THEN R!Resolved(f, s, <<>>, {}) ELSE R!Refused(f, why)
  BY DEF R!ValveStep
<1>2. why \in Reasons
  BY DEF Reasons, AspirationReasons
<1>3. f \in Accs
  BY DEF Accs
<1>4. acc.valves \in Nat /\ (why = "none" => acc.valves = 0)
  <2>1. acc.valves \in Nat
    BY DEF Accs
  <2>2. acc.valves > 0 => why = "multiple_valve_steps"
    OBVIOUS
  <2> HIDE DEF why
  <2> QED
    BY <2>1, <2>2
<1> HIDE DEF why
<1>5. CASE why # "none"
  <2> HIDE DEF f
  <2> QED
    BY <1>1, <1>2, <1>3, <1>5, RefusedIs
<1>6. CASE why = "none"
  <2>1. f = [reason |-> "none", steps |-> acc.steps, pumps |-> acc.pumps, valves |-> 1]
    BY <1>4, <1>6 DEF Accs
  <2>2. e = [f EXCEPT !.steps = Append(f.steps, Noted(s, <<>>, {}))]
    BY <1>1, <1>6 DEF R!Resolved, Noted
  <2> HIDE DEF f
  <2>3. Opens(acc, s, e)
    BY <1>4, <1>6, <2>1, <2>2 DEF Opens
  <2> QED
    BY <2>3 DEF Runs
<1> QED
  BY <1>5, <1>6

LEMMA SyringeIs ==
    ASSUME NEW acc \in Accs, acc.reason = "none", NEW s \in R!Step, s.kind = "syringe", NEW e,
           e = R!SyringeStep(acc, s, PumpMap)
    PROVE  (e \in Accs /\ e.reason # "none") \/ Runs(acc, s, e)
<1> DEFINE why == IF R!Claimed(acc, s) THEN "duplicate_pump_in_stage"
                  ELSE IF s.pump \notin DOMAIN PumpMap THEN "unmapped_pump_addr"
                  ELSE IF s.volume <= 0 THEN "non_positive_volume"
                  ELSE IF s.volume > PumpMap[s.pump].capacity THEN "volume_over_max"
                  ELSE IF R!StepsFor(PumpMap[s.pump], s.volume) < 1 THEN "derived_zero_steps"
                  ELSE IF s.in = 0 /\ s.out = 0 THEN "none"
                  ELSE IF ~R!IsPort(s.in) THEN "in_port_out_of_range"
                  ELSE IF ~R!IsPort(s.out) THEN "out_port_out_of_range"
                  ELSE IF s.in = s.out THEN "in_port_equals_out_port"
                  ELSE "none"
           draws == <<R!StepsFor(PumpMap[s.pump], s.volume)>>
           ports == {s.in, s.out} \ {0}
<1>1. e = IF why = "none" THEN R!Claim(R!Resolved(acc, s, draws, ports), s) ELSE R!Refused(acc, why)
  BY DEF R!SyringeStep
<1>2. why \in Reasons
  BY DEF Reasons, AspirationReasons
<1>3. ASSUME why = "none"
      PROVE  /\ ~R!Claimed(acc, s) /\ s.pump \in DOMAIN PumpMap
             /\ (s.in = 0 /\ s.out = 0) \/ (R!IsPort(s.in) /\ R!IsPort(s.out))
  <2> DEFINE late == IF ~R!IsPort(s.in) THEN "in_port_out_of_range"
                     ELSE IF ~R!IsPort(s.out) THEN "out_port_out_of_range"
                     ELSE IF s.in = s.out THEN "in_port_equals_out_port"
                     ELSE "none"
             ports1 == IF s.in = 0 /\ s.out = 0 THEN "none" ELSE late
             size == IF s.volume <= 0 THEN "non_positive_volume"
                     ELSE IF s.volume > PumpMap[s.pump].capacity THEN "volume_over_max"
                     ELSE IF R!StepsFor(PumpMap[s.pump], s.volume) < 1 THEN "derived_zero_steps"
                     ELSE ports1
  <2>1. late = "none" => R!IsPort(s.in) /\ R!IsPort(s.out)
    OBVIOUS
  <2>2. why = IF R!Claimed(acc, s) THEN "duplicate_pump_in_stage"
              ELSE IF s.pump \notin DOMAIN PumpMap THEN "unmapped_pump_addr" ELSE size
    OBVIOUS
  <2>3. size = "none" => ports1 = "none"
    <3> HIDE DEF ports1
    <3> QED
      OBVIOUS
  <2>4. ports1 = "none" => (s.in = 0 /\ s.out = 0) \/ late = "none"
    <3> HIDE DEF late
    <3> QED
      OBVIOUS
  <2> HIDE DEF late, ports1, size, why
  <2> QED
    BY <1>3, <2>1, <2>2, <2>3, <2>4
<1> HIDE DEF why
<1>5. CASE why # "none"
  BY <1>1, <1>2, <1>5, RefusedIs
<1>6. CASE why = "none"
  <2>1. ports \in SUBSET (1 .. ValvePorts)
    BY <1>3, <1>6 DEF R!IsPort
  <2>2. draws \in Seq(Int)
    <3>1. PumpMap[s.pump] \in Syringe
      BY <1>3, <1>6, RecipeAssumption DEF Syringe
    <3>2. R!StepsFor(PumpMap[s.pump], s.volume) \in Int
      BY <3>1, StepFields, Rounded
    <3> QED
      BY <3>2
  <2>3. e = R!Claim(R!Resolved(acc, s, draws, ports), s)
    BY <1>1, <1>6
  <2> HIDE DEF draws, ports
  <2>4. Moves(acc, s, e, draws, ports)
    BY <1>3, <1>6, <2>1, <2>2, <2>3, ClaimedMoves
  <2> QED
    BY <2>1, <2>2, <2>4 DEF Runs
<1> QED
  BY <1>5, <1>6

LEMMA DrawnType ==
    ASSUME NEW s \in R!Step, NEW spec \in Syringe
    PROVE  R!Drawn(s, spec) \in Drawing
<1>1. PICK v : DrawnRun(s, spec, v) /\ R!Drawn(s, spec) = v[Len(s.asps)]
  BY DrawnLoop
<1>2. Len(s.asps) \in 0 .. Len(s.asps)
  <2>1. s.asps \in Seq(Liquid)
    BY StepIs
  <2> QED
    BY <2>1
<1> QED
  BY <1>1, <1>2 DEF DrawnRun

LEMMA BatchIs ==
    ASSUME NEW acc \in Accs, acc.reason = "none", NEW s \in R!Step, s.kind = "batch", NEW e,
           e = R!Batch(acc, s, PumpMap)
    PROVE  (e \in Accs /\ e.reason # "none") \/ Runs(acc, s, e)
<1> DEFINE spec == PumpMap[s.pump]
           d == R!Drawn(s, spec)
           late == IF d.volume > spec.capacity \/ d.drawn > spec.stroke THEN "batch_over_capacity" ELSE "none"
           drawn == IF d.reason # "none" THEN d.reason ELSE late
           why == IF R!Claimed(acc, s) THEN "duplicate_pump_in_stage"
                  ELSE IF s.pump \notin DOMAIN PumpMap THEN "unmapped_pump_addr"
                  ELSE IF s.asps = <<>> THEN "empty_batch"
                  ELSE IF ~R!IsPort(s.out) THEN "out_port_out_of_range"
                  ELSE drawn
           ports == {s.out} \cup {s.asps[i].in : i \in DOMAIN s.asps}
<1>1. e = IF why = "none" THEN R!Claim(R!Resolved(acc, s, d.draws, ports), s) ELSE R!Refused(acc, why)
  BY DEF R!Batch
<1>2. ASSUME s.pump \in DOMAIN PumpMap
      PROVE  spec \in Syringe /\ d \in Drawing /\ drawn \in Reasons
  <2>1. spec \in Syringe
    BY <1>2, RecipeAssumption DEF Syringe
  <2>2. d \in Drawing
    BY <2>1, DrawnType
  <2>3. d.reason \in AspirationReasons
    BY <2>2 DEF Drawing
  <2>4. late \in {"none", "batch_over_capacity"}
    OBVIOUS
  <2> HIDE DEF late, d
  <2>5. drawn \in Reasons
    BY <2>3, <2>4 DEF Reasons, AspirationReasons
  <2> QED
    BY <2>1, <2>2, <2>5
<1>3. why \in Reasons
  <2> HIDE DEF drawn
  <2> QED
    BY <1>2 DEF Reasons, AspirationReasons
<1>4. ASSUME why = "none"
      PROVE  /\ ~R!Claimed(acc, s) /\ s.pump \in DOMAIN PumpMap /\ R!IsPort(s.out)
             /\ d.reason = "none" /\ d.drawn <= spec.stroke
  <2>1. ~R!Claimed(acc, s) /\ s.pump \in DOMAIN PumpMap /\ R!IsPort(s.out) /\ drawn = "none"
    <3> HIDE DEF drawn
    <3> QED
      BY <1>4
  <2>2. d.reason = "none" /\ late = "none"
    <3> HIDE DEF late, d
    <3> QED
      BY <2>1
  <2>3. ~(d.drawn > spec.stroke)
    <3> HIDE DEF d
    <3> QED
      BY <2>2
  <2>4. d.drawn \in Int /\ spec.stroke \in Int
    BY <1>2, <2>1 DEF Drawing, Syringe
  <2> HIDE DEF d, spec
  <2> QED
    BY <2>1, <2>2, <2>3, <2>4
<1> HIDE DEF why
<1>5. CASE why # "none"
  BY <1>1, <1>3, <1>5, RefusedIs
<1>6. CASE why = "none"
  <2>1. spec \in Syringe /\ d \in Drawing /\ d.reason = "none"
    BY <1>2, <1>4, <1>6
  <2>2. d.draws \in Seq(Int)
    BY <2>1 DEF Drawing
  <2>3. ports \in SUBSET (1 .. ValvePorts)
    <3>1. \A k \in DOMAIN s.asps : R!IsPort(s.asps[k].in)
      <4> HIDE DEF spec
      <4> QED
        BY <2>1, DrawnWhole
    <3> QED
      BY <1>4, <1>6, <3>1 DEF R!IsPort
  <2>4. e = R!Claim(R!Resolved(acc, s, d.draws, ports), s)
    BY <1>1, <1>6
  <2>5. WholeBatch(s, d.draws)
    BY <1>4, <1>6 DEF WholeBatch
  <2> HIDE DEF d, ports
  <2>6. Moves(acc, s, e, d.draws, ports)
    BY <1>4, <1>6, <2>2, <2>3, <2>4, ClaimedMoves
  <2> QED
    BY <2>2, <2>3, <2>5, <2>6 DEF Runs
<1> QED
  BY <1>5, <1>6

\* A turn of the loop of resolve: the job is refused, or the step runs, or it
\* is an op of a pump that is not there.
LEMMA TakeIs ==
    ASSUME NEW acc \in Accs, NEW s \in R!Step, NEW e, e = R!Take(acc, s, PumpMap)
    PROVE  /\ e \in Accs
           /\ e.reason = "none" =>
                /\ acc.reason = "none" /\ R!Stage(s) >= 0
                /\ (R!Skipped(s) /\ e = acc) \/ (~R!Skipped(s) /\ Runs(acc, s, e))
<1>1. CASE acc.reason # "none"
  BY <1>1 DEF R!Take
<1>2. CASE acc.reason = "none" /\ R!Stage(s) < 0
  <2>1. e = R!Refused(acc, "negative_stage")
    BY <1>2 DEF R!Take
  <2> QED
    BY <2>1, RefusedIs DEF Reasons
<1>3. CASE acc.reason = "none" /\ ~(R!Stage(s) < 0)
  <2>1. e = R!Admit(acc, s, PumpMap)
    BY <1>3 DEF R!Take
  <2>2. R!Stage(s) >= 0
    BY <1>3, StepIs
  <2>3. /\ s.kind = "op" => e = R!Op(acc, s, PumpMap)
        /\ s.kind = "valve" => e = R!ValveStep(acc, s)
        /\ s.kind = "batch" => e = R!Batch(acc, s, PumpMap)
        /\ s.kind = "syringe" => e = R!SyringeStep(acc, s, PumpMap)
    BY <2>1 DEF R!Admit
  <2>4. \/ e \in Accs /\ e.reason # "none"
        \/ R!Skipped(s) /\ e = acc
        \/ Runs(acc, s, e)
    <3>1. CASE s.kind = "op"
      BY <1>3, <2>3, <3>1, OpIs DEF R!Skipped
    <3>2. CASE s.kind = "valve"
      BY <1>3, <2>3, <3>2, ValveIs
    <3>3. CASE s.kind = "batch"
      BY <1>3, <2>3, <3>3, BatchIs
    <3>4. CASE s.kind = "syringe"
      BY <1>3, <2>3, <3>4, SyringeIs
    <3> QED
      BY <3>1, <3>2, <3>3, <3>4, StepIs
  <2>5. ASSUME Runs(acc, s, e) PROVE ~R!Skipped(s) /\ e \in Accs /\ e.reason = "none"
    <3>1. ~R!Skipped(s)
      <4>1. s.kind # "op" \/ s.pump \in DOMAIN PumpMap
        <5>1. CASE s.kind = "op"
          <6>1. \E draws \in Seq(Int), ports \in SUBSET (1 .. ValvePorts) : Moves(acc, s, e, draws, ports)
            BY <2>5, <5>1, Zenon DEF Runs
          <6> QED
            BY <6>1 DEF Moves
        <5> QED
          BY <5>1
      <4> QED
        BY <4>1 DEF R!Skipped
    <3> QED
      BY <2>5, <3>1, RunsType
  <2> QED
    BY <1>3, <2>2, <2>4, <2>5
<1> QED
  BY <1>1, <1>2, <1>3

-----------------------------------------------------------------------------
(* Recipe: the loop over the steps.                                        *)

\* The states of the loop.
TakenRun(q, v) ==
    /\ v \in [0 .. Len(q) -> Accs]
    /\ v[0] = R!Begin
    /\ \A i \in 1 .. Len(q) : v[i] = R!Take(v[i - 1], q[i], PumpMap)

LEMMA TakenLoop ==
    ASSUME NEW q \in Seq(R!Step)
    PROVE  \E v : TakenRun(q, v) /\ R!Taken(q, PumpMap) = v[Len(q)]
<1> DEFINE n == Len(q)
           Turn == [i \in 1 .. n |-> [acc \in Accs |-> R!Take(acc, q[i], PumpMap)]]
           P(h) == h = [t \in SUBSET (1 .. n) |->
                          IF t = {} THEN R!Begin
                          ELSE R!Take(h[t \ {Largest(t)}], q[Largest(t)], PumpMap)]
           H == CHOOSE h : P(h)
<1>1. n \in Nat /\ DOMAIN q = 1 .. n /\ \A i \in 1 .. n : q[i] \in R!Step
  OBVIOUS
<1>2. R!Begin \in Accs
  BY DEF R!Begin, Accs, Reasons, AspirationReasons
<1>3. Turn \in [1 .. n -> [Accs -> Accs]]
  BY <1>1, TakeIs
<1>4. \A i \in 1 .. n, acc \in Accs : Turn[i][acc] = R!Take(acc, q[i], PumpMap)
  OBVIOUS
<1> HIDE DEF Turn, n
<1>5. PICK g : InTurn(n, Accs, R!Begin, Turn, g)
  BY <1>1, <1>2, <1>3, FoldExists
<1>6. P(g)
  <2>1. ASSUME NEW t \in SUBSET (1 .. n), t # {}
        PROVE  g[t] = R!Take(g[t \ {Largest(t)}], q[Largest(t)], PumpMap)
    <3>1. Largest(t) \in 1 .. n /\ g[t \ {Largest(t)}] \in Accs
      BY <1>1, <1>5, <2>1, LargestOfSome DEF InTurn
    <3> QED
      BY <1>4, <1>5, <2>1, <3>1 DEF InTurn
  <2> QED
    BY <1>5, <2>1 DEF InTurn
<1>7. P(H)
  <2> HIDE DEF P
  <2> QED
    BY <1>6, Zenon
<1>8. R!Taken(q, PumpMap) = H[1 .. n]
  BY <1>1, Zenon DEF R!Taken, R!FoldLeft, R!MapThenFoldSet, R!Max, Largest
<1> HIDE DEF H
<1>9. /\ H[{}] = R!Begin
      /\ \A t \in SUBSET (1 .. n) : t # {} => H[t] = R!Take(H[t \ {Largest(t)}], q[Largest(t)], PumpMap)
  BY <1>7
<1>10. \A t \in SUBSET (1 .. n) : t # {} /\ H[t \ {Largest(t)}] \in Accs
          => H[t] = Turn[Largest(t)][H[t \ {Largest(t)}]]
  <2> TAKE t \in SUBSET (1 .. n)
  <2>1. t # {} => Largest(t) \in 1 .. n
    BY <1>1, LargestOfSome
  <2> QED
    BY <1>4, <1>9, <2>1
<1>11. PICK v : LoopRun(n, Accs, R!Begin, Turn, v) /\ v[n] = H[1 .. n]
  <2>1. Obeys(n, Accs, R!Begin, Turn, H)
    BY <1>9, <1>10 DEF Obeys
  <2> QED
    BY <1>1, <1>2, <1>3, <2>1, LoopRuns DEF RunsTo
<1>12. ASSUME NEW i \in 1 .. n PROVE v[i] = R!Take(v[i - 1], q[i], PumpMap)
  <2>1. i - 1 \in 0 .. n /\ v[i - 1] \in Accs
    BY <1>1, <1>11 DEF LoopRun
  <2> QED
    BY <1>4, <1>11, <2>1 DEF LoopRun
<1>13. TakenRun(q, v)
  BY <1>11, <1>12 DEF TakenRun, LoopRun, n
<1> QED
  BY <1>8, <1>11, <1>13 DEF n

\* The record a step leaves.
Of(r, s) ==
    /\ r.idx = s.idx /\ r.stage = R!Stage(s) /\ r.kind = s.kind /\ r.pump = s.pump
    /\ s.kind = "batch" => WholeBatch(s, r.draws)

Earlier(g, x, h, y) == g < h \/ (g = h /\ x < y)

InOrder(q) ==
    \A k, l \in DOMAIN q : k < l => Earlier(R!Stage(q[k]), q[k].idx, R!Stage(q[l]), q[l].idx)

\* Where the loop is after the first i steps of q, if it has refused none.
AllKept(q, i, e) ==
    /\ \A k \in 1 .. i : R!Stage(q[k]) >= 0
    /\ \A k \in 1 .. i : ~R!Skipped(q[k]) => \E j \in DOMAIN e.steps : Of(e.steps[j], q[k])
    /\ \A j \in DOMAIN e.steps : \E k \in 1 .. i : ~R!Skipped(q[k]) /\ Of(e.steps[j], q[k])

InTheirOrder(e) ==
    \A j, m \in DOMAIN e.steps : j < m =>
        Earlier(e.steps[j].stage, e.steps[j].idx, e.steps[m].stage, e.steps[m].idx)

OneMoveEach(e) ==
    /\ \A j \in DOMAIN e.steps : e.steps[j].kind # "valve" =>
         e.steps[j].pump \in DOMAIN PumpMap /\ <<e.steps[j].stage, e.steps[j].pump>> \in e.pumps
    /\ \A j, m \in DOMAIN e.steps :
         j < m /\ e.steps[j].stage = e.steps[m].stage /\ e.steps[j].kind # "valve" /\ e.steps[m].kind # "valve"
           => e.steps[j].pump # e.steps[m].pump

OneValve(q, i, e) ==
    /\ \A k \in 1 .. i : q[k].kind = "valve" => e.valves = 1
    /\ \A k, l \in 1 .. i : q[k].kind = "valve" /\ q[l].kind = "valve" => k = l

\* A step that runs, in one form for all gates: r is its record.
Adds(acc, s, e, r) ==
    /\ r \in Records /\ Of(r, s) /\ e.steps = Append(acc.steps, r)
    /\ s.kind = "valve" => acc.valves = 0 /\ e.valves = 1 /\ e.pumps = acc.pumps
    /\ s.kind # "valve" =>
         /\ s.pump \in DOMAIN PumpMap /\ <<R!Stage(s), s.pump>> \notin acc.pumps
         /\ e.pumps = acc.pumps \cup {<<R!Stage(s), s.pump>>} /\ e.valves = acc.valves

LEMMA RunsAdds ==
    ASSUME NEW acc \in Accs, NEW s \in R!Step, NEW e, Runs(acc, s, e)
    PROVE  \E r : Adds(acc, s, e, r)
<1>1. CASE s.kind = "valve"
  <2> DEFINE r == Noted(s, <<>>, {})
  <2>1. <<>> \in Seq(Int) /\ {} \in SUBSET (1 .. ValvePorts)
    OBVIOUS
  <2>2. r \in Records
    BY <2>1, RecordIs
  <2>3. Of(r, s)
    BY <1>1 DEF Of, Noted
  <2>4. /\ acc.valves = 0
        /\ e = [reason |-> "none", steps |-> Append(acc.steps, r), pumps |-> acc.pumps, valves |-> 1]
    BY <1>1 DEF Runs, Opens
  <2> HIDE DEF r
  <2> QED
    BY <1>1, <2>2, <2>3, <2>4 DEF Adds
<1>2. CASE s.kind # "valve"
  <2>1. PICK draws \in Seq(Int), ports \in SUBSET (1 .. ValvePorts) :
           Moves(acc, s, e, draws, ports) /\ (s.kind = "batch" => WholeBatch(s, draws))
    BY <1>2, Zenon DEF Runs
  <2> DEFINE r == Noted(s, draws, ports)
  <2>2. r \in Records
    BY RecordIs
  <2>3. Of(r, s)
    BY <2>1 DEF Of, Noted
  <2>4. /\ s.pump \in DOMAIN PumpMap /\ <<R!Stage(s), s.pump>> \notin acc.pumps
        /\ e = [reason |-> "none", steps |-> Append(acc.steps, r),
                pumps |-> acc.pumps \cup {<<R!Stage(s), s.pump>>}, valves |-> acc.valves]
    BY <2>1 DEF Moves
  <2> HIDE DEF r
  <2> QED
    BY <1>2, <2>2, <2>3, <2>4 DEF Adds
<1> QED
  BY <1>1, <1>2

LEMMA AddsIs ==
    ASSUME NEW acc \in Accs, NEW s, NEW e, NEW r, Adds(acc, s, e, r)
    PROVE  /\ DOMAIN acc.steps = 1 .. Len(acc.steps) /\ Len(acc.steps) \in Nat
           /\ DOMAIN e.steps = 1 .. Len(acc.steps) + 1 /\ e.steps[Len(acc.steps) + 1] = r
           /\ \A j \in 1 .. Len(acc.steps) : e.steps[j] = acc.steps[j] /\ acc.steps[j] \in Records
<1>1. acc.steps \in Seq(Records) /\ r \in Records /\ e.steps = Append(acc.steps, r)
  BY DEF Accs, Adds
<1> QED
  BY <1>1

LEMMA KeptOneMore ==
    ASSUME NEW q \in Seq(R!Step), NEW i \in 0 .. Len(q) - 1, NEW acc \in Accs, AllKept(q, i, acc),
           NEW e, NEW r, Adds(acc, q[i + 1], e, r), ~R!Skipped(q[i + 1]), R!Stage(q[i + 1]) >= 0
    PROVE  AllKept(q, i + 1, e)
<1> DEFINE m == Len(acc.steps)
<1>1. /\ DOMAIN acc.steps = 1 .. m /\ m \in Nat /\ DOMAIN e.steps = 1 .. m + 1 /\ e.steps[m + 1] = r
      /\ \A j \in 1 .. m : e.steps[j] = acc.steps[j]
  BY AddsIs
<1>2. i \in Nat /\ Of(r, q[i + 1])
  BY DEF Adds
<1>3. i + 1 \in 1 .. i + 1 /\ (\A k \in 1 .. i : k \in 1 .. i + 1) /\ \A k \in 1 .. i + 1 : k \in 1 .. i \/ k = i + 1
  BY <1>2
<1> HIDE DEF m
<1>4. m + 1 \in 1 .. m + 1 /\ (\A k \in 1 .. m : k \in 1 .. m + 1) /\ \A k \in 1 .. m + 1 : k \in 1 .. m \/ k = m + 1
  BY <1>1
<1>5. \A k \in 1 .. i + 1 : R!Stage(q[k]) >= 0
  BY <1>3 DEF AllKept
<1>6. ASSUME NEW k \in 1 .. i + 1, ~R!Skipped(q[k]) PROVE \E j \in DOMAIN e.steps : Of(e.steps[j], q[k])
  <2>1. CASE k = i + 1
    BY <1>1, <1>2, <1>4, <2>1
  <2>2. CASE k \in 1 .. i
    <3>1. \E j \in DOMAIN acc.steps : Of(acc.steps[j], q[k])
      BY <1>6, <2>2, Zenon DEF AllKept
    <3>2. PICK j \in 1 .. m : Of(acc.steps[j], q[k])
      BY <1>1, <3>1, Zenon
    <3> QED
      BY <1>1, <1>4, <3>2
  <2> QED
    BY <1>3, <2>1, <2>2
<1>7. ASSUME NEW j \in DOMAIN e.steps PROVE \E k \in 1 .. i + 1 : ~R!Skipped(q[k]) /\ Of(e.steps[j], q[k])
  <2>1. CASE j = m + 1
    BY <1>1, <1>2, <1>3, <2>1
  <2>2. CASE j \in 1 .. m
    <3>1. j \in DOMAIN acc.steps
      BY <1>1, <2>2
    <3>2. PICK k \in 1 .. i : ~R!Skipped(q[k]) /\ Of(acc.steps[j], q[k])
      BY <3>1, Zenon DEF AllKept
    <3> QED
      BY <1>1, <1>3, <2>2, <3>2
  <2> QED
    BY <1>1, <1>4, <2>1, <2>2
<1> QED
  BY <1>5, <1>6, <1>7, Zenon DEF AllKept

LEMMA OrderOneMore ==
    ASSUME NEW q \in Seq(R!Step), InOrder(q), NEW i \in 0 .. Len(q) - 1, NEW acc \in Accs,
           AllKept(q, i, acc), InTheirOrder(acc), NEW e, NEW r, Adds(acc, q[i + 1], e, r)
    PROVE  InTheirOrder(e)
<1> DEFINE m == Len(acc.steps)
<1>1. /\ DOMAIN acc.steps = 1 .. m /\ m \in Nat /\ DOMAIN e.steps = 1 .. m + 1 /\ e.steps[m + 1] = r
      /\ \A j \in 1 .. m : e.steps[j] = acc.steps[j]
  BY AddsIs
<1>2. i \in Nat /\ Of(r, q[i + 1])
  BY DEF Adds
<1>3. i + 1 \in DOMAIN q /\ \A k \in 1 .. i : k \in DOMAIN q /\ k < i + 1
  OBVIOUS
<1> HIDE DEF m
<1>4. ASSUME NEW j \in 1 .. m
      PROVE  Earlier(acc.steps[j].stage, acc.steps[j].idx, r.stage, r.idx)
  <2>1. j \in DOMAIN acc.steps
    BY <1>1
  <2>2. PICK k \in 1 .. i : Of(acc.steps[j], q[k])
    BY <2>1, Zenon DEF AllKept
  <2>3. Earlier(R!Stage(q[k]), q[k].idx, R!Stage(q[i + 1]), q[i + 1].idx)
    BY <1>3 DEF InOrder
  <2> QED
    BY <1>2, <2>2, <2>3 DEF Of
<1>5. SUFFICES ASSUME NEW j \in DOMAIN e.steps, NEW k \in DOMAIN e.steps, j < k
               PROVE  Earlier(e.steps[j].stage, e.steps[j].idx, e.steps[k].stage, e.steps[k].idx)
  BY Zenon DEF InTheirOrder
<1>6. j \in 1 .. m /\ (k = m + 1 \/ k \in 1 .. m)
  BY <1>1, <1>5
<1>7. CASE k = m + 1
  BY <1>1, <1>4, <1>6, <1>7
<1>8. CASE k \in 1 .. m
  <2>1. j \in DOMAIN acc.steps /\ k \in DOMAIN acc.steps
    BY <1>1, <1>6, <1>8
  <2>2. Earlier(acc.steps[j].stage, acc.steps[j].idx, acc.steps[k].stage, acc.steps[k].idx)
    BY <1>5, <2>1, Zenon DEF InTheirOrder
  <2> QED
    BY <1>1, <1>6, <1>8, <2>2
<1> QED
  BY <1>6, <1>7, <1>8

LEMMA MovesOneMore ==
    ASSUME NEW acc \in Accs, OneMoveEach(acc), NEW s \in R!Step, NEW e, NEW r, Adds(acc, s, e, r)
    PROVE  OneMoveEach(e)
<1> DEFINE m == Len(acc.steps)
<1>1. /\ DOMAIN acc.steps = 1 .. m /\ m \in Nat /\ DOMAIN e.steps = 1 .. m + 1 /\ e.steps[m + 1] = r
      /\ \A j \in 1 .. m : e.steps[j] = acc.steps[j]
  BY AddsIs
<1>2. r.stage = R!Stage(s) /\ r.pump = s.pump /\ r.kind = s.kind
  BY DEF Adds, Of
<1>3. acc.pumps \subseteq e.pumps
  BY DEF Adds
<1>4. ASSUME r.kind # "valve"
      PROVE  /\ r.pump \in DOMAIN PumpMap /\ <<r.stage, r.pump>> \in e.pumps
             /\ <<r.stage, r.pump>> \notin acc.pumps
  BY <1>2, <1>4 DEF Adds
<1> HIDE DEF m
<1>5. \A j \in 1 .. m : acc.steps[j].kind # "valve" =>
         acc.steps[j].pump \in DOMAIN PumpMap /\ <<acc.steps[j].stage, acc.steps[j].pump>> \in acc.pumps
  BY <1>1 DEF OneMoveEach
<1>6. \A j \in DOMAIN e.steps : e.steps[j].kind # "valve" =>
         e.steps[j].pump \in DOMAIN PumpMap /\ <<e.steps[j].stage, e.steps[j].pump>> \in e.pumps
  <2> TAKE j \in DOMAIN e.steps
  <2>1. j \in 1 .. m \/ j = m + 1
    BY <1>1
  <2> QED
    BY <1>1, <1>3, <1>4, <1>5, <2>1
<1>7. ASSUME NEW j \in DOMAIN e.steps, NEW k \in DOMAIN e.steps, j < k,
             e.steps[j].stage = e.steps[k].stage, e.steps[j].kind # "valve", e.steps[k].kind # "valve"
      PROVE  e.steps[j].pump # e.steps[k].pump
  <2>1. j \in 1 .. m /\ (k = m + 1 \/ k \in 1 .. m)
    BY <1>1, <1>7
  <2>2. CASE k = m + 1
    <3>1. <<acc.steps[j].stage, acc.steps[j].pump>> \in acc.pumps
      BY <1>1, <1>5, <1>7, <2>1
    <3>2. <<r.stage, r.pump>> \notin acc.pumps /\ acc.steps[j].stage = r.stage
      BY <1>1, <1>4, <1>7, <2>1, <2>2
    <3> QED
      BY <1>1, <2>1, <2>2, <3>1, <3>2
  <2>3. CASE k \in 1 .. m
    <3>1. j \in DOMAIN acc.steps /\ k \in DOMAIN acc.steps
      BY <1>1, <2>1, <2>3
    <3>2. e.steps[j] = acc.steps[j] /\ e.steps[k] = acc.steps[k]
      BY <1>1, <2>1, <2>3
    <3> QED
      BY <1>7, <3>1, <3>2, Zenon DEF OneMoveEach
  <2> QED
    BY <2>1, <2>2, <2>3
<1> QED
  BY <1>6, <1>7, Zenon DEF OneMoveEach

LEMMA ValveOneMore ==
    ASSUME NEW q \in Seq(R!Step), NEW i \in 0 .. Len(q) - 1, NEW acc \in Accs, OneValve(q, i, acc),
           NEW e, NEW r, Adds(acc, q[i + 1], e, r)
    PROVE  OneValve(q, i + 1, e)
<1>1. \A k \in 1 .. i + 1 : k \in 1 .. i \/ k = i + 1
  OBVIOUS
<1>2. CASE q[i + 1].kind = "valve"
  <2>1. acc.valves = 0 /\ e.valves = 1
    BY <1>2 DEF Adds
  <2>2. \A k \in 1 .. i : q[k].kind # "valve"
    BY <2>1 DEF OneValve
  <2> QED
    BY <1>1, <2>1, <2>2 DEF OneValve
<1>3. CASE q[i + 1].kind # "valve"
  <2>1. e.valves = acc.valves
    BY <1>3 DEF Adds
  <2> QED
    BY <1>1, <1>3, <2>1 DEF OneValve
<1> QED
  BY <1>2, <1>3

KeptSoFar(q, i, e) ==
    e.reason = "none" => AllKept(q, i, e) /\ InTheirOrder(e) /\ OneMoveEach(e) /\ OneValve(q, i, e)

LEMMA KeepsSoFar ==
    ASSUME NEW q \in Seq(R!Step), InOrder(q), NEW i \in 0 .. Len(q) - 1, NEW acc \in Accs,
           KeptSoFar(q, i, acc), NEW e, e = R!Take(acc, q[i + 1], PumpMap)
    PROVE  KeptSoFar(q, i + 1, e)
<1> DEFINE s == q[i + 1]
<1>1. s \in R!Step /\ i \in Nat
  OBVIOUS
<1>2. SUFFICES ASSUME e.reason = "none" PROVE KeptSoFar(q, i + 1, e)
  BY DEF KeptSoFar
<1>3. /\ acc.reason = "none" /\ R!Stage(s) >= 0
      /\ (R!Skipped(s) /\ e = acc) \/ (~R!Skipped(s) /\ Runs(acc, s, e))
  <2> HIDE DEF s
  <2>1. e = R!Take(acc, s, PumpMap)
    BY DEF s
  <2> QED
    BY <1>1, <1>2, <2>1, TakeIs
<1>4. AllKept(q, i, acc) /\ InTheirOrder(acc) /\ OneMoveEach(acc) /\ OneValve(q, i, acc)
  BY <1>3 DEF KeptSoFar
<1>5. CASE R!Skipped(s) /\ e = acc
  <2>1. \A k \in 1 .. i + 1 : k \in 1 .. i \/ k = i + 1
    BY <1>1
  <2>5. \A k \in 1 .. i : k \in 1 .. i + 1
    BY <1>1
  <2>2. s.kind = "op"
    BY <1>5 DEF R!Skipped
  <2>3. OneValve(q, i + 1, acc)
    BY <1>4, <2>1, <2>2 DEF OneValve
  <2>4. AllKept(q, i + 1, acc)
    <3>1. \A k \in 1 .. i + 1 : R!Stage(q[k]) >= 0
      BY <1>3, <1>4, <2>1 DEF AllKept
    <3>2. \A k \in 1 .. i + 1 : ~R!Skipped(q[k]) => \E j \in DOMAIN acc.steps : Of(acc.steps[j], q[k])
      BY <1>4, <1>5, <2>1, Zenon DEF AllKept
    <3>3. \A j \in DOMAIN acc.steps : \E k \in 1 .. i + 1 : ~R!Skipped(q[k]) /\ Of(acc.steps[j], q[k])
      <4> TAKE j \in DOMAIN acc.steps
      <4>1. PICK k \in 1 .. i : ~R!Skipped(q[k]) /\ Of(acc.steps[j], q[k])
        BY <1>4, Zenon DEF AllKept
      <4> QED
        BY <2>5, <4>1, Zenon
    <3> QED
      BY <3>1, <3>2, <3>3, Zenon DEF AllKept
  <2> QED
    BY <1>4, <1>5, <2>3, <2>4 DEF KeptSoFar
<1>6. CASE ~R!Skipped(s) /\ Runs(acc, s, e)
  <2>1. PICK r : Adds(acc, s, e, r)
    BY <1>1, <1>6, RunsAdds
  <2>2. AllKept(q, i + 1, e) /\ InTheirOrder(e)
    BY <1>3, <1>4, <1>6, <2>1, KeptOneMore, OrderOneMore
  <2>3. OneMoveEach(e) /\ OneValve(q, i + 1, e)
    BY <1>1, <1>4, <2>1, MovesOneMore, ValveOneMore
  <2> QED
    BY <2>2, <2>3 DEF KeptSoFar
<1> QED
  BY <1>3, <1>5, <1>6

\* Where the loop ends, if it refuses no step.
LEMMA TakenIs ==
    ASSUME NEW q \in Seq(R!Step), InOrder(q)
    PROVE  R!Taken(q, PumpMap) \in Accs /\ KeptSoFar(q, Len(q), R!Taken(q, PumpMap))
<1> DEFINE n == Len(q)
<1>1. n \in Nat
  OBVIOUS
<1>2. PICK v : TakenRun(q, v) /\ R!Taken(q, PumpMap) = v[n]
  BY TakenLoop
<1> DEFINE G == {i \in 0 .. n : KeptSoFar(q, i, v[i])}
<1>3. 0 \in G
  <2>1. v[0] = R!Begin /\ 0 \in 0 .. n
    BY <1>1, <1>2 DEF TakenRun
  <2>2. v[0].steps = <<>> /\ DOMAIN <<>> = {} /\ 1 .. 0 = {}
    BY <2>1 DEF R!Begin
  <2>3. AllKept(q, 0, v[0]) /\ InTheirOrder(v[0]) /\ OneMoveEach(v[0]) /\ OneValve(q, 0, v[0])
    BY <2>2 DEF AllKept, InTheirOrder, OneMoveEach, OneValve
  <2> QED
    BY <2>1, <2>3 DEF KeptSoFar
<1>4. ASSUME NEW k \in 0 .. n - 1, k \in G PROVE k + 1 \in G
  <2>1. k + 1 \in 1 .. n /\ k + 1 \in 0 .. n /\ k \in 0 .. n /\ (k + 1) - 1 = k
    BY <1>1
  <2>2. v[k] \in Accs
    BY <1>2, <2>1 DEF TakenRun
  <2>3. \A i \in 1 .. n : v[i] = R!Take(v[i - 1], q[i], PumpMap)
    BY <1>2 DEF TakenRun
  <2>4. v[k + 1] = R!Take(v[(k + 1) - 1], q[k + 1], PumpMap)
    <3> HIDE DEF n
    <3> QED
      BY <2>1, <2>3, Zenon
  <2>5. v[k + 1] = R!Take(v[k], q[k + 1], PumpMap)
    <3> HIDE DEF n
    <3> QED
      BY <2>1, <2>4, Zenon
  <2>6. KeptSoFar(q, k + 1, v[k + 1])
    BY <1>4, <2>2, <2>5, KeepsSoFar
  <2> QED
    BY <2>1, <2>6
<1>5. \A k \in 0 .. n : k \in G
  <2> HIDE DEF G
  <2> QED
    BY <1>1, <1>3, <1>4, UpTo
<1>6. n \in 0 .. n /\ v[n] \in Accs
  BY <1>1, <1>2 DEF TakenRun
<1> QED
  BY <1>2, <1>5, <1>6

-----------------------------------------------------------------------------
(* Recipe: the whole job.                                                  *)

\* The steps of a job in order, and nothing else.
LEMMA SortedJob ==
    ASSUME NEW input \in Inputs
    PROVE  LET q == R!Sorted(input)
           IN  /\ input \in Seq(R!Step) /\ q \in Seq(R!Step) /\ Len(q) = Len(input) /\ InOrder(q)
               /\ \A k \in DOMAIN q : \E i \in DOMAIN input : q[k] = input[i]
               /\ \A i \in DOMAIN input : \E k \in DOMAIN q : q[k] = input[i]
<1> DEFINE q == R!Sorted(input)
           n == Len(input)
<1>1. input \in Seq(R!Step) /\ \A i, j \in DOMAIN input : i # j => input[i].idx # input[j].idx
  BY RecipeAssumption
<1>2. PICK at : Order(input, at) /\ q = [m \in DOMAIN input |-> input[at[m]]]
  BY <1>1, SortedIs
<1>3. /\ n \in Nat /\ DOMAIN input = 1 .. n
      /\ \A m \in 1 .. n : at[m] \in 1 .. n /\ input[m] \in R!Step
      /\ \A j \in 1 .. n : \E m \in 1 .. n : at[m] = j
      /\ \A m, k \in 1 .. n : m < k => R!Before(input, at[m], at[k])
  <2>1. n \in Nat /\ DOMAIN input = 1 .. n
    BY <1>1
  <2>2. \A m \in 1 .. n : at[m] \in 1 .. n /\ input[m] \in R!Step
    BY <1>1, <1>2, <2>1 DEF Order
  <2> HIDE DEF n
  <2>3. \A j \in 1 .. n : \E m \in 1 .. n : at[m] = j
    BY <1>2, <2>1, Zenon DEF Order
  <2>4. \A m, k \in 1 .. n : m < k => R!Before(input, at[m], at[k])
    <3> TAKE m, k \in 1 .. n
    <3>1. m \in DOMAIN input /\ k \in DOMAIN input
      BY <2>1
    <3> QED
      BY <1>2, <3>1, Zenon DEF Order
  <2> QED
    BY <2>1, <2>2, <2>3, <2>4
<1> HIDE DEF q, n
<1>4. q = [m \in 1 .. n |-> input[at[m]]] /\ \A m \in 1 .. n : q[m] = input[at[m]] /\ q[m] \in R!Step
  BY <1>2, <1>3
<1>5. q \in Seq(R!Step) /\ Len(q) = n /\ DOMAIN q = 1 .. n
  BY <1>3, <1>4
<1>6. ASSUME NEW k \in DOMAIN q, NEW l \in DOMAIN q, k < l
      PROVE  Earlier(R!Stage(q[k]), q[k].idx, R!Stage(q[l]), q[l].idx)
  <2>1. R!Before(input, at[k], at[l]) /\ at[k] \in 1 .. n /\ at[l] \in 1 .. n
    BY <1>3, <1>5, <1>6
  <2>2. at[k] # at[l]
    BY <1>1, <1>3, <2>1, BeforeOrders
  <2>3. input[at[k]].idx # input[at[l]].idx
    BY <1>1, <1>3, <2>1, <2>2
  <2>4. q[k] = input[at[k]] /\ q[l] = input[at[l]]
    BY <1>4, <1>5
  <2> QED
    BY <2>1, <2>3, <2>4 DEF R!Before, Earlier
<1>7. InOrder(q)
  BY <1>6, Zenon DEF InOrder
<1>8. \A k \in DOMAIN q : \E i \in DOMAIN input : q[k] = input[i]
  BY <1>3, <1>4, <1>5
<1>9. \A i \in DOMAIN input : \E k \in DOMAIN q : q[k] = input[i]
  <2> TAKE i \in DOMAIN input
  <2>1. PICK k \in 1 .. n : at[k] = i
    BY <1>3
  <2> QED
    BY <1>4, <1>5, <2>1
<1> QED
  BY <1>1, <1>5, <1>7, <1>8, <1>9 DEF q, n

StagesOf(records) == {records[i].stage : i \in DOMAIN records}

\* Stages are cut without a gap, up to that of the last step.
LEMMA CutIs ==
    ASSUME NEW acc \in Accs, InTheirOrder(acc), R!Cut(acc).reason = "none"
    PROVE  /\ acc.reason = "none"
           /\ \E last \in Nat :
                /\ StagesOf(acc.steps) = 0 .. last
                /\ R!Cut(acc).stages = [n \in 1 .. last + 1 |-> R!Group(acc.steps, n - 1)]
<1> DEFINE present == StagesOf(acc.steps)
           last == CHOOSE m \in present : \A n \in present : n <= m
           c == Len(acc.steps)
<1>1. acc.steps \in Seq(Records) /\ c \in Nat /\ DOMAIN acc.steps = 1 .. c
  BY DEF Accs
<1>2. R!Cut(acc) = IF acc.reason # "none" THEN [reason |-> acc.reason, stages |-> <<>>]
                   ELSE IF acc.steps = <<>> THEN [reason |-> "empty_recipe", stages |-> <<>>]
                   ELSE IF present # 0 .. last THEN [reason |-> "stage_gap_missing", stages |-> <<>>]
                   ELSE [reason |-> "none", stages |-> [n \in 1 .. last + 1 |-> R!Group(acc.steps, n - 1)]]
  BY Zenon DEF R!Cut, StagesOf
<1> HIDE DEF present, last
<1>3. /\ acc.reason = "none" /\ acc.steps # <<>> /\ present = 0 .. last
      /\ R!Cut(acc).stages = [n \in 1 .. last + 1 |-> R!Group(acc.steps, n - 1)]
  <2>1. acc.reason = "none"
    BY <1>2
  <2>2. acc.steps # <<>>
    BY <1>2, <2>1
  <2>3. present = 0 .. last
    BY <1>2, <2>1, <2>2
  <2> QED
    BY <1>2, <2>1, <2>2, <2>3
<1>6. \A j \in 1 .. c : acc.steps[j].stage \in Int
  <2> TAKE j \in 1 .. c
  <2>1. acc.steps[j] \in Records
    BY <1>1
  <2> QED
    BY <2>1 DEF Records
<1>4. last \in present
  <2>1. c \in 1 .. c /\ \A j \in 1 .. c : j < c \/ j = c
    BY <1>1, <1>3
  <2>2. \A j \in 1 .. c : acc.steps[j].stage \in Int
    BY <1>6
  <2>3. \A j \in 1 .. c : acc.steps[j].stage <= acc.steps[c].stage
    <3> TAKE j \in 1 .. c
    <3>1. CASE j = c
      BY <2>1, <2>2, <3>1
    <3>2. CASE j < c
      <4>1. Earlier(acc.steps[j].stage, acc.steps[j].idx, acc.steps[c].stage, acc.steps[c].idx)
        BY <1>1, <2>1, <3>2 DEF InTheirOrder
      <4> QED
        BY <2>1, <2>2, <4>1 DEF Earlier
    <3> QED
      BY <2>1, <3>1, <3>2
  <2>4. acc.steps[c].stage \in present /\ \A x \in present : x <= acc.steps[c].stage
    BY <1>1, <2>1, <2>3 DEF present, StagesOf
  <2> QED
    BY <2>4, Zenon DEF last
<1>5. last \in Nat
  <2>1. \A x \in present : x \in Int
    BY <1>1, <1>6 DEF present, StagesOf
  <2> QED
    BY <1>3, <1>4, <2>1
<1> QED
  BY <1>3, <1>5 DEF present

\* What an accepted job is cut into, kept and sorted.
CutFrom(input, q, acc, last) ==
    /\ q = R!Sorted(input) /\ acc = R!Taken(q, PumpMap) /\ acc \in Accs
    /\ AllKept(q, Len(q), acc) /\ InTheirOrder(acc) /\ OneMoveEach(acc) /\ OneValve(q, Len(q), acc)
    /\ last \in Nat /\ StagesOf(acc.steps) = 0 .. last
    /\ R!Resolve(input, PumpMap).stages = [n \in 1 .. last + 1 |-> R!Group(acc.steps, n - 1)]

LEMMA AcceptedIs ==
    ASSUME NEW input \in Inputs, R!Resolve(input, PumpMap).reason = "none"
    PROVE  \E q, acc, last : CutFrom(input, q, acc, last)
<1> DEFINE q == R!Sorted(input)
           acc == R!Taken(q, PumpMap)
<1>1. q \in Seq(R!Step) /\ InOrder(q)
  BY SortedJob
<1>2. R!Resolve(input, PumpMap) = R!Cut(acc)
  BY DEF R!Resolve
<1> HIDE DEF q
<1>3. acc \in Accs /\ KeptSoFar(q, Len(q), acc)
  BY <1>1, TakenIs
<1> HIDE DEF acc
<1>4. acc.reason = "none"
  <2>1. R!Cut(acc).reason = IF acc.reason # "none" THEN acc.reason ELSE R!Cut(acc).reason
    BY DEF R!Cut
  <2> QED
    BY <1>2, <2>1
<1>5. AllKept(q, Len(q), acc) /\ InTheirOrder(acc) /\ OneMoveEach(acc) /\ OneValve(q, Len(q), acc)
  BY <1>3, <1>4 DEF KeptSoFar
<1>6. PICK last \in Nat :
        /\ StagesOf(acc.steps) = 0 .. last
        /\ R!Cut(acc).stages = [n \in 1 .. last + 1 |-> R!Group(acc.steps, n - 1)]
  BY <1>2, <1>3, <1>5, CutIs
<1>7. CutFrom(input, q, acc, last)
  BY <1>2, <1>3, <1>5, <1>6, Zenon DEF CutFrom, q, acc
<1> QED
  BY <1>7, Zenon

\* The records of a stage that was cut.
OfStage(acc, n, group) ==
    /\ \A k \in DOMAIN acc.steps : acc.steps[k].stage = n - 1 => \E j \in DOMAIN group : group[j] = acc.steps[k]
    /\ \A j \in DOMAIN group : \E k \in DOMAIN acc.steps : group[j] = acc.steps[k] /\ acc.steps[k].stage = n - 1
    /\ \A i, j \in DOMAIN group : i < j =>
         \E k, l \in DOMAIN acc.steps : k < l /\ group[i] = acc.steps[k] /\ group[j] = acc.steps[l]

LEMMA StageIs ==
    ASSUME NEW input, NEW q, NEW acc, NEW last, CutFrom(input, q, acc, last),
           NEW n \in 1 .. last + 1, NEW group, group = R!Resolve(input, PumpMap).stages[n]
    PROVE  OfStage(acc, n, group)
<1>1. acc.steps \in Seq(Records) /\ DOMAIN acc.steps = 1 .. Len(acc.steps)
  BY DEF CutFrom, Accs
<1>2. group = R!Group(acc.steps, n - 1)
  BY DEF CutFrom
<1>3. Grouped(acc.steps, n - 1, group, Len(acc.steps))
  BY <1>1, <1>2, GroupIs
<1>4. 1 .. Len(acc.steps) = DOMAIN acc.steps
  BY <1>1
<1>5. \A k \in DOMAIN acc.steps : acc.steps[k].stage = n - 1 => \E j \in DOMAIN group : group[j] = acc.steps[k]
  BY <1>3, <1>4, Zenon DEF Grouped
<1>6. \A j \in DOMAIN group : \E k \in DOMAIN acc.steps : group[j] = acc.steps[k] /\ acc.steps[k].stage = n - 1
  <2> TAKE j \in DOMAIN group
  <2>1. PICK k \in 1 .. Len(acc.steps) : group[j] = acc.steps[k] /\ acc.steps[k].stage = n - 1
    BY <1>3, Zenon DEF Grouped
  <2> QED
    BY <1>4, <2>1
<1>7. \A i, j \in DOMAIN group : i < j =>
         \E k, l \in DOMAIN acc.steps : k < l /\ group[i] = acc.steps[k] /\ group[j] = acc.steps[l]
  <2> SUFFICES ASSUME NEW i \in DOMAIN group, NEW j \in DOMAIN group, i < j
               PROVE  \E k, l \in DOMAIN acc.steps : k < l /\ group[i] = acc.steps[k] /\ group[j] = acc.steps[l]
    OBVIOUS
  <2>1. PICK k \in 1 .. Len(acc.steps), l \in 1 .. Len(acc.steps) :
           k < l /\ group[i] = acc.steps[k] /\ group[j] = acc.steps[l]
    BY <1>3, Zenon DEF Grouped
  <2>2. k \in DOMAIN acc.steps /\ l \in DOMAIN acc.steps
    BY <1>4
  <2> QED
    BY <2>1, <2>2, Zenon
<1> QED
  BY <1>5, <1>6, <1>7, Zenon DEF OfStage

\* Stage by stage an accepted job is what was sent.
LEMMA AcceptedRuns ==
    ASSUME NEW input \in Inputs, job = [kind |-> "steps", steps |-> input],
           result = R!Resolve(input, PumpMap), result.reason = "none"
    PROVE  R!RunsAsSent
<1> DEFINE Sent == R!Sent
           Wanted == {t \in Sent : ~R!Skipped(t)}
<1>11. job.kind = "steps" /\ job.steps = input
  OBVIOUS
<1>12. (\A i \in DOMAIN input : input[i] \in Sent) /\ (\A s \in Sent : \E i \in DOMAIN input : s = input[i])
  BY <1>11 DEF R!Sent
<1> HIDE DEF Sent
<1>1. PICK q, acc, last : CutFrom(input, q, acc, last)
  BY AcceptedIs
<1>2. /\ input \in Seq(R!Step) /\ q \in Seq(R!Step) /\ DOMAIN q = 1 .. Len(q)
      /\ \A k \in DOMAIN q : \E i \in DOMAIN input : q[k] = input[i]
      /\ \A i \in DOMAIN input : \E k \in DOMAIN q : q[k] = input[i]
  <2>1. q = R!Sorted(input)
    BY <1>1 DEF CutFrom
  <2>2. /\ input \in Seq(R!Step) /\ q \in Seq(R!Step)
        /\ \A k \in DOMAIN q : \E i \in DOMAIN input : q[k] = input[i]
        /\ \A i \in DOMAIN input : \E k \in DOMAIN q : q[k] = input[i]
    BY <2>1, SortedJob
  <2> QED
    BY <2>2
<1>3. /\ acc.steps \in Seq(Records) /\ last \in Nat /\ StagesOf(acc.steps) = 0 .. last
      /\ DOMAIN result.stages = 1 .. last + 1 /\ Len(result.stages) = last + 1
  <2>1. acc.steps \in Seq(Records) /\ last \in Nat /\ StagesOf(acc.steps) = 0 .. last
        /\ result.stages = [n \in 1 .. last + 1 |-> R!Group(acc.steps, n - 1)]
    BY <1>1 DEF CutFrom, Accs
  <2> QED
    BY <2>1
<1>4. /\ \A k \in DOMAIN q : ~R!Skipped(q[k]) => \E j \in DOMAIN acc.steps : Of(acc.steps[j], q[k])
      /\ \A j \in DOMAIN acc.steps : \E k \in DOMAIN q : ~R!Skipped(q[k]) /\ Of(acc.steps[j], q[k])
  BY <1>1, <1>2 DEF CutFrom, AllKept
\* Every record is of a step that was sent, and the other way round.
<1>5. \A j \in DOMAIN acc.steps : \E s \in Wanted : Of(acc.steps[j], s)
  <2> TAKE j \in DOMAIN acc.steps
  <2>1. PICK k \in DOMAIN q : ~R!Skipped(q[k]) /\ Of(acc.steps[j], q[k])
    BY <1>4
  <2>2. q[k] \in Sent
    BY <1>2, <1>12
  <2> QED
    BY <2>1, <2>2
<1>6. \A s \in Wanted : \E j \in DOMAIN acc.steps : Of(acc.steps[j], s)
  <2> TAKE s \in Wanted
  <2>1. PICK k \in DOMAIN q : q[k] = s
    BY <1>2, <1>12
  <2> QED
    BY <1>4, <2>1
<1>7. {R!Stage(s) : s \in Wanted} = 0 .. Len(result.stages) - 1
  <2>1. {R!Stage(s) : s \in Wanted} = StagesOf(acc.steps)
    <3> HIDE DEF Wanted
    <3>1. \A s \in Wanted : R!Stage(s) \in StagesOf(acc.steps)
      BY <1>6 DEF Of, StagesOf
    <3>2. \A j \in DOMAIN acc.steps : acc.steps[j].stage \in {R!Stage(s) : s \in Wanted}
      BY <1>5 DEF Of
    <3> QED
      BY <3>1, <3>2 DEF StagesOf
  <2> QED
    BY <1>3, <2>1
<1>8. ASSUME NEW n \in DOMAIN result.stages, NEW group, group = result.stages[n]
      PROVE  /\ {<<r.idx, r.kind, r.pump>> : r \in {group[i] : i \in DOMAIN group}}
                = {<<s.idx, s.kind, s.pump>> : s \in {t \in Sent : ~R!Skipped(t) /\ R!Stage(t) = n - 1}}
             /\ \A i, j \in DOMAIN group : i < j =>
                  /\ group[i].idx < group[j].idx
                  /\ "valve" \in {group[i].kind, group[j].kind} \/ group[i].pump # group[j].pump
             /\ \A i \in DOMAIN group :
                  /\ group[i].ports \subseteq 1 .. ValvePorts
                  /\ group[i].kind # "valve" => group[i].pump \in DOMAIN PumpMap
  <2>1. n \in 1 .. last + 1 /\ group = R!Resolve(input, PumpMap).stages[n]
    BY <1>3, <1>8
  <2>2. /\ \A k \in DOMAIN acc.steps : acc.steps[k].stage = n - 1 => \E j \in DOMAIN group : group[j] = acc.steps[k]
        /\ \A j \in DOMAIN group : \E k \in DOMAIN acc.steps : group[j] = acc.steps[k] /\ acc.steps[k].stage = n - 1
        /\ \A i, j \in DOMAIN group : i < j =>
             \E k, l \in DOMAIN acc.steps : k < l /\ group[i] = acc.steps[k] /\ group[j] = acc.steps[l]
    <3>1. OfStage(acc, n, group)
      BY <1>1, <2>1, StageIs
    <3> QED
      BY <3>1, Zenon DEF OfStage
  <2>3. InTheirOrder(acc) /\ OneMoveEach(acc)
    BY <1>1 DEF CutFrom
  <2>4. {<<r.idx, r.kind, r.pump>> : r \in {group[i] : i \in DOMAIN group}}
          = {<<s.idx, s.kind, s.pump>> : s \in {t \in Sent : ~R!Skipped(t) /\ R!Stage(t) = n - 1}}
    <3> DEFINE X == {<<r.idx, r.kind, r.pump>> : r \in {group[i] : i \in DOMAIN group}}
               Y == {<<s.idx, s.kind, s.pump>> : s \in {t \in Sent : ~R!Skipped(t) /\ R!Stage(t) = n - 1}}
    <3>1. \A j \in DOMAIN group : <<group[j].idx, group[j].kind, group[j].pump>> \in Y
      <4> TAKE j \in DOMAIN group
      <4>1. PICK k \in DOMAIN acc.steps : group[j] = acc.steps[k] /\ acc.steps[k].stage = n - 1
        BY <2>2
      <4>2. PICK s \in Wanted : Of(acc.steps[k], s)
        BY <1>5
      <4>3. s \in {t \in Sent : ~R!Skipped(t) /\ R!Stage(t) = n - 1}
        BY <4>1, <4>2 DEF Of
      <4> QED
        BY <4>1, <4>2, <4>3 DEF Of
    <3>2. \A s \in {t \in Sent : ~R!Skipped(t) /\ R!Stage(t) = n - 1} : <<s.idx, s.kind, s.pump>> \in X
      <4> TAKE s \in {t \in Sent : ~R!Skipped(t) /\ R!Stage(t) = n - 1}
      <4>1. PICK k \in DOMAIN acc.steps : Of(acc.steps[k], s)
        BY <1>6
      <4>2. PICK j \in DOMAIN group : group[j] = acc.steps[k]
        BY <2>2, <4>1 DEF Of
      <4> QED
        BY <4>1, <4>2 DEF Of
    <3>3. \A x \in X : x \in Y
      <4> HIDE DEF Y
      <4> QED
        BY <3>1
    <3>4. \A y \in Y : y \in X
      <4> HIDE DEF X
      <4> QED
        BY <3>2
    <3> HIDE DEF X, Y
    <3>5. X = Y
      BY <3>3, <3>4
    <3> QED
      BY <3>5 DEF X, Y
  <2>5. ASSUME NEW i \in DOMAIN group, NEW j \in DOMAIN group, i < j
        PROVE  /\ group[i].idx < group[j].idx
               /\ "valve" \in {group[i].kind, group[j].kind} \/ group[i].pump # group[j].pump
    <3>1. PICK k, l \in DOMAIN acc.steps : k < l /\ group[i] = acc.steps[k] /\ group[j] = acc.steps[l]
      BY <2>2, <2>5
    <3>2. group[i].stage = n - 1 /\ group[j].stage = n - 1
      BY <2>2
    <3>3. Earlier(acc.steps[k].stage, acc.steps[k].idx, acc.steps[l].stage, acc.steps[l].idx)
      BY <2>3, <3>1, Zenon DEF InTheirOrder
    <3>4. group[i].idx < group[j].idx
      <4>1. n - 1 \in Int /\ ~(n - 1 < n - 1)
        BY <2>1
      <4> QED
        BY <3>1, <3>2, <3>3, <4>1 DEF Earlier
    <3>5. acc.steps[k].stage = acc.steps[l].stage
      BY <3>1, <3>2
    <3>6. acc.steps[k].kind # "valve" /\ acc.steps[l].kind # "valve" => acc.steps[k].pump # acc.steps[l].pump
      BY <2>3, <3>1, <3>5, Zenon DEF OneMoveEach
    <3> QED
      BY <3>1, <3>4, <3>6
  <2>6. ASSUME NEW i \in DOMAIN group
        PROVE  /\ group[i].ports \subseteq 1 .. ValvePorts
               /\ group[i].kind # "valve" => group[i].pump \in DOMAIN PumpMap
    <3>1. PICK k \in DOMAIN acc.steps : group[i] = acc.steps[k]
      BY <2>2
    <3>2. acc.steps[k] \in Records
      BY <1>3
    <3>3. acc.steps[k].ports \subseteq 1 .. ValvePorts
      BY <3>2 DEF Records
    <3>4. acc.steps[k].kind # "valve" => acc.steps[k].pump \in DOMAIN PumpMap
      BY <2>3, Zenon DEF OneMoveEach
    <3> QED
      BY <3>1, <3>3, <3>4
  <2> HIDE DEF Sent
  <2> QED
    BY <2>4, <2>5, <2>6
<1>9. Cardinality({s \in Sent : s.kind = "valve"}) <= 1
  <2> DEFINE W == {s \in Sent : s.kind = "valve"}
  <2>1. \A s, t \in W : s = t
    <3> TAKE s, t \in W
    <3>1. PICK k, l \in DOMAIN q : q[k] = s /\ q[l] = t
      BY <1>2, <1>12
    <3>2. k = l
      BY <1>1, <1>2, <3>1 DEF CutFrom, OneValve
    <3> QED
      BY <3>1, <3>2
  <2> HIDE DEF W
  <2>2. W = {} => Cardinality(W) <= 1
    BY FS_EmptySet
  <2>3. ASSUME W # {} PROVE Cardinality(W) <= 1
    <3>1. PICK s : W = {s}
      BY <2>1, <2>3
    <3>2. Cardinality({s}) = 1
      BY FS_Singleton
    <3> QED
      BY <3>1, <3>2
  <2>4. Cardinality(W) <= 1
    BY <2>2, <2>3
  <2> QED
    BY <2>4 DEF W
<1>10. R!Cardinality({s \in Sent : s.kind = "valve"}) = Cardinality({s \in Sent : s.kind = "valve"})
  BY DEF R!Cardinality, Cardinality
<1> QED
  BY <1>7, <1>8, <1>9, <1>10, Zenon DEF R!RunsAsSent, Sent

\* A batch that fits in the syringe is not refused as too large.
LEMMA BatchFits ==
    ASSUME NEW s \in R!Step, s.kind = "batch", s.pump \in DOMAIN PumpMap, Fine(s, PumpMap[s.pump]),
           R!Total(s.asps) <= PumpMap[s.pump].capacity
    PROVE  R!Take(R!Begin, s, PumpMap).reason # "batch_over_capacity"
<1> DEFINE spec == PumpMap[s.pump]
           d == R!Drawn(s, spec)
           late == IF d.volume > spec.capacity \/ d.drawn > spec.stroke THEN "batch_over_capacity" ELSE "none"
           drawn == IF d.reason # "none" THEN d.reason ELSE late
           why == IF R!Claimed(R!Begin, s) THEN "duplicate_pump_in_stage"
                  ELSE IF s.pump \notin DOMAIN PumpMap THEN "unmapped_pump_addr"
                  ELSE IF s.asps = <<>> THEN "empty_batch"
                  ELSE IF ~R!IsPort(s.out) THEN "out_port_out_of_range"
                  ELSE drawn
           ports == {s.out} \cup {s.asps[i].in : i \in DOMAIN s.asps}
           e == R!Batch(R!Begin, s, PumpMap)
<1>1. e = IF why = "none" THEN R!Claim(R!Resolved(R!Begin, s, d.draws, ports), s) ELSE R!Refused(R!Begin, why)
  BY DEF R!Batch
<1>2. spec \in Syringe /\ d \in Drawing
  <2>1. spec \in Syringe
    BY RecipeAssumption DEF Syringe
  <2> QED
    BY <2>1, DrawnType
<1>3. drawn # "batch_over_capacity"
  <2>1. CASE d.reason # "none"
    <3>1. d.reason \in AspirationReasons
      BY <1>2 DEF Drawing
    <3> HIDE DEF d, late
    <3> QED
      BY <2>1, <3>1 DEF AspirationReasons
  <2>2. CASE d.reason = "none"
    <3>1. d.volume = R!Total(s.asps) /\ d.drawn = R!StepsFor(spec, R!Total(s.asps))
      BY <1>2, <2>2, DrawnWhole
    <3>2. d.volume \in Int /\ d.drawn \in Int
      BY <1>2 DEF Drawing
    <3>3. d.drawn <= spec.stroke /\ d.volume <= spec.capacity
      <4> HIDE DEF spec, d
      <4>1. R!Total(s.asps) \in Int
        BY <3>1, <3>2
      <4>2. R!StepsFor(spec, R!Total(s.asps)) <= spec.stroke
        BY <1>2, <4>1, RoundedWithin DEF spec
      <4> QED
        BY <3>1, <4>2 DEF spec
    <3>4. spec.stroke \in Int /\ spec.capacity \in Int
      BY <1>2 DEF Syringe
    <3> HIDE DEF d, spec
    <3>5. late = "none"
      BY <3>2, <3>3, <3>4
    <3> HIDE DEF late
    <3> QED
      BY <2>2, <3>5
  <2> QED
    BY <2>1, <2>2
<1>4. why # "batch_over_capacity"
  <2> HIDE DEF drawn
  <2> QED
    BY <1>3
<1> HIDE DEF why
<1>5. e.reason # "batch_over_capacity"
  <2>1. CASE why # "none"
    BY <1>1, <1>4, <2>1 DEF R!Refused, R!Begin
  <2>2. CASE why = "none"
    <3>1. R!Claim(R!Resolved(R!Begin, s, d.draws, ports), s).reason = "none"
      BY DEF R!Claim, R!Resolved, R!Begin
    <3> QED
      BY <1>1, <2>2, <3>1
  <2> QED
    BY <2>1, <2>2
<1>6. R!Take(R!Begin, s, PumpMap) = IF R!Stage(s) < 0 THEN R!Refused(R!Begin, "negative_stage") ELSE e
  BY DEF R!Take, R!Admit, R!Begin
<1>7. R!Refused(R!Begin, "negative_stage").reason = "negative_stage"
  BY DEF R!Refused, R!Begin
<1> HIDE DEF e
<1> QED
  BY <1>5, <1>6, <1>7

\* Batches keep their volume, whether the job is accepted or not.
LEMMA BatchesKeep ==
    ASSUME NEW input \in Inputs, job = [kind |-> "steps", steps |-> input],
           result = R!Resolve(input, PumpMap)
    PROVE  R!BatchesKeepTheirVolume
<1>1. job.kind = "steps" /\ job.steps = input
  OBVIOUS
<1>2. (\A i \in DOMAIN input : input[i] \in R!Sent) /\ (\A s \in R!Sent : \E i \in DOMAIN input : s = input[i])
  BY <1>1 DEF R!Sent
<1>3. /\ input \in Seq(R!Step)
      /\ \A i, j \in DOMAIN input : i # j => input[i].idx # input[j].idx
  BY RecipeAssumption
<1>4. SUFFICES ASSUME NEW s \in R!Sent, s.kind = "batch", s.pump \in DOMAIN PumpMap
      PROVE  /\ \A n \in DOMAIN result.stages : \A i \in DOMAIN result.stages[n] :
                  result.stages[n][i].idx = s.idx =>
                    /\ R!DrawnOf(result.stages[n][i]) <= PumpMap[s.pump].stroke
                    /\ \A k \in DOMAIN result.stages[n][i].draws : result.stages[n][i].draws[k] >= 1
                    /\ Fine(s, PumpMap[s.pump])
                         => R!DrawnOf(result.stages[n][i]) = R!StepsFor(PumpMap[s.pump], R!Total(s.asps))
             /\ R!Sent = {s} /\ Fine(s, PumpMap[s.pump]) /\ R!Total(s.asps) <= PumpMap[s.pump].capacity
                  => result.reason # "batch_over_capacity"
  BY Zenon DEF R!BatchesKeepTheirVolume, Fine
<1>5. s \in R!Step /\ PumpMap[s.pump] \in Syringe
  BY <1>2, <1>3, <1>4, RecipeAssumption DEF Syringe
<1>6. ASSUME NEW n \in DOMAIN result.stages, NEW i \in DOMAIN result.stages[n], NEW r,
             r = result.stages[n][i], r.idx = s.idx
      PROVE  /\ R!DrawnOf(r) <= PumpMap[s.pump].stroke
             /\ \A k \in DOMAIN r.draws : r.draws[k] >= 1
             /\ Fine(s, PumpMap[s.pump]) => R!DrawnOf(r) = R!StepsFor(PumpMap[s.pump], R!Total(s.asps))
  <2>1. result.reason = "none"
    <3>1. result = R!Cut(R!Taken(R!Sorted(input), PumpMap))
      BY DEF R!Resolve
    <3>2. \A acc : R!Cut(acc).reason # "none" => R!Cut(acc).stages = <<>>
      BY DEF R!Cut
    <3>3. result.stages # <<>>
      BY <1>6
    <3> QED
      BY <3>1, <3>2, <3>3
  <2>2. PICK q, acc, last : CutFrom(input, q, acc, last)
    BY <2>1, AcceptedIs
  <2>3. DOMAIN result.stages = 1 .. last + 1
    BY <2>2 DEF CutFrom
  <2>4. PICK k \in DOMAIN acc.steps : r = acc.steps[k]
    <3>1. OfStage(acc, n, result.stages[n])
      BY <2>2, <2>3, StageIs
    <3> QED
      BY <1>6, <3>1 DEF OfStage
  <2>5. PICK m \in DOMAIN q : Of(r, q[m])
    <3>1. PICK m \in 1 .. Len(q) : Of(r, q[m])
      BY <2>2, <2>4, Zenon DEF CutFrom, AllKept
    <3>2. q \in Seq(R!Step)
      BY <2>2, SortedJob DEF CutFrom
    <3> QED
      BY <3>1, <3>2
  <2>6. PICK j \in DOMAIN input : q[m] = input[j]
    BY <2>2, SortedJob DEF CutFrom
  <2>7. q[m] = s
    <3>1. PICK l \in DOMAIN input : s = input[l]
      BY <1>2
    <3>2. input[j].idx = input[l].idx
      BY <1>6, <2>5, <2>6, <3>1 DEF Of
    <3> QED
      BY <1>3, <2>6, <3>1, <3>2
  <2>8. WholeBatch(s, r.draws)
    BY <1>4, <2>5, <2>7 DEF Of
  <2> DEFINE d == R!Drawn(s, PumpMap[s.pump])
  <2>9. d.reason = "none" /\ r.draws = d.draws /\ d.drawn <= PumpMap[s.pump].stroke
    BY <2>8 DEF WholeBatch
  <2>10. /\ R!Added(d.draws) = d.drawn /\ \A x \in DOMAIN d.draws : d.draws[x] >= 1
         /\ Fine(s, PumpMap[s.pump]) => d.drawn = R!StepsFor(PumpMap[s.pump], R!Total(s.asps))
    BY <1>5, <2>9, DrawnWhole
  <2> HIDE DEF d
  <2> QED
    BY <2>9, <2>10 DEF R!DrawnOf
<1>7. ASSUME R!Sent = {s}, Fine(s, PumpMap[s.pump]), R!Total(s.asps) <= PumpMap[s.pump].capacity
      PROVE  result.reason # "batch_over_capacity"
  <2> DEFINE q == R!Sorted(input)
             acc == R!Taken(q, PumpMap)
  <2>1. Len(input) = 1 /\ input[1] = s
    <3>1. Len(input) \in Nat /\ DOMAIN input = 1 .. Len(input)
      BY <1>3
    <3>2. \A i \in 1 .. Len(input) : input[i] = s
      BY <1>2, <1>7, <3>1
    <3>3. Len(input) # 0
      BY <1>2, <3>1
    <3>4. ~(2 \in 1 .. Len(input) /\ 1 \in 1 .. Len(input))
      BY <1>3, <3>1, <3>2
    <3> QED
      BY <3>1, <3>2, <3>3, <3>4
  <2>2. q \in Seq(R!Step) /\ Len(q) = 1 /\ q[1] = s
    <3>1. q \in Seq(R!Step) /\ Len(q) = 1 /\ \A k \in DOMAIN q : \E i \in DOMAIN input : q[k] = input[i]
      BY <2>1, SortedJob
    <3>2. 1 \in DOMAIN q /\ DOMAIN input = {1}
      <4> HIDE DEF q
      <4> QED
        BY <1>3, <2>1, <3>1
    <3> QED
      BY <2>1, <3>1, <3>2
  <2> HIDE DEF q
  <2>3. PICK v : TakenRun(q, v) /\ acc = v[1]
    BY <2>2, TakenLoop
  <2>4. acc = R!Take(R!Begin, s, PumpMap)
    <3>1. v[1] = R!Take(v[1 - 1], q[1], PumpMap) /\ v[0] = R!Begin
      <4>1. 1 \in 1 .. Len(q)
        BY <2>2
      <4> QED
        BY <2>3, <4>1, Zenon DEF TakenRun
    <3>2. 1 - 1 = 0
      OBVIOUS
    <3> QED
      BY <2>2, <2>3, <3>1, <3>2, Zenon
  <2>5. acc.reason # "batch_over_capacity"
    BY <1>4, <1>5, <1>7, <2>4, BatchFits
  <2>6. result = R!Cut(acc)
    BY DEF R!Resolve, q
  <2> HIDE DEF acc
  <2>7. R!Cut(acc).reason \in {acc.reason, "empty_recipe", "stage_gap_missing", "none"}
    BY DEF R!Cut
  <2> QED
    BY <2>5, <2>6, <2>7
<1> QED
  BY <1>6, <1>7

\* The resolver is asked once, of one of the jobs.
ResolverInv ==
    job.kind = "steps" =>
        \E input \in Inputs :
            /\ job = [kind |-> "steps", steps |-> input]
            /\ result = R!None \/ result = R!Resolve(input, PumpMap)

LEMMA ResolverKeeps ==
    /\ PartsInit => ResolverInv
    /\ ResolverInv /\ [PartsNext]_partsVars => ResolverInv'
<1>1. ASSUME PartsInit PROVE ResolverInv
  <2>1. CASE part = "recipe"
    <3>1. R!Init
      BY <1>1, <2>1 DEF PartsInit
    <3> QED
      BY <3>1 DEF R!Init, ResolverInv
  <2>2. CASE part # "recipe"
    <3>1. job.kind = "none"
      BY <1>1, <2>2 DEF PartsInit
    <3> QED
      BY <3>1 DEF ResolverInv
  <2> QED
    BY <2>1, <2>2
<1>2. ASSUME ResolverInv, [PartsNext]_partsVars PROVE ResolverInv'
  <2>1. [R!Next]_recipeVars
    BY <1>2, EachAlone
  <2>2. CASE R!ResolveJob
    BY <1>2, <2>2 DEF R!ResolveJob, ResolverInv
  <2>3. CASE R!ApplyTuning
    BY <1>2, <2>3 DEF R!ApplyTuning, ResolverInv
  <2>4. CASE UNCHANGED recipeVars
    BY <1>2, <2>4 DEF recipeVars, ResolverInv
  <2> QED
    BY <2>1, <2>2, <2>3, <2>4 DEF R!Next
<1> QED
  BY <1>1, <1>2

LEMMA ResolverInvImplies == ResolverInv => RunsAsSent /\ BatchesKeepTheirVolume
<1> SUFFICES ASSUME ResolverInv PROVE R!RunsAsSent /\ R!BatchesKeepTheirVolume
  BY DEF RunsAsSent, BatchesKeepTheirVolume
<1>1. CASE job.kind # "steps" \/ result = R!None
  BY <1>1, Zenon DEF R!RunsAsSent, R!Accepted, R!BatchesKeepTheirVolume
<1>2. CASE job.kind = "steps" /\ result # R!None
  <2>1. PICK input \in Inputs : /\ job = [kind |-> "steps", steps |-> input]
                                /\ result = R!Resolve(input, PumpMap)
    BY <1>2 DEF ResolverInv
  <2>2. R!BatchesKeepTheirVolume
    BY <2>1, BatchesKeep
  <2>3. CASE result.reason = "none"
    BY <2>1, <2>2, <2>3, AcceptedRuns
  <2>4. CASE result.reason # "none"
    BY <2>2, <2>4, Zenon DEF R!RunsAsSent, R!Accepted
  <2> QED
    BY <2>3, <2>4
<1> QED
  BY <1>1, <1>2

\* An accepted job is run as it was sent, whatever the jobs and the rack are.
THEOREM AcceptedJobsRunAsSent == PartsSpec => []RunsAsSent
<1>1. PartsSpec => []ResolverInv
  BY ResolverKeeps, PTL DEF PartsSpec
<1> QED
  BY <1>1, ResolverInvImplies, PTL

\* However a batch is divided, the plunger goes where the whole volume puts it.
THEOREM BatchesDrawTheirVolume == PartsSpec => []BatchesKeepTheirVolume
<1>1. PartsSpec => []ResolverInv
  BY ResolverKeeps, PTL DEF PartsSpec
<1> QED
  BY <1>1, ResolverInvImplies, PTL
=============================================================================

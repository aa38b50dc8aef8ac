--------------------------- MODULE HotApplyProofs ---------------------------
(***************************************************************************)
(* For any settings, pumps, faults and saves: the hash the daemon reports  *)
(* is that of the values in force, an envelope runs under the settings it  *)
(* was assembled for, and outside an application no pump is homed for      *)
(* another capacity.                                                       *)
(***************************************************************************)
EXTENDS HotApply, TLAPS

Holding == main.at \in {"home", "assign", "persist", "mark"}
Taken == main.at \in {"persist", "mark"}

Shape ==
    /\ watch = [latest |-> watch.latest, pending |-> watch.pending, applied |-> watch.applied]
    /\ DOMAIN setUp = Pump
    /\ Holding => main.of # None
    /\ main.at = "home" => main.next \in Pump

\* An application takes the values over before it marks them as applied.
TakenIsInForce == Taken => force = main.of

\* A pump is set up for nothing or for this capacity.
For(cap, p) == setUp[p] \in {None, cap}

\* An application homes the pumps one by one for the capacity to come, or finds
\* that it does not change, or that the pump model has no such capacity.
Prepared ==
    /\ main.at = "home" => \A p \in Pump : p < main.next => For(main.of.cap, p)
    /\ main.at \in {"assign", "persist", "mark"} /\ ~Blocked(main.of.cap) =>
          \A p \in Pump : For(main.of.cap, p)

HotInv ==
    /\ Shape /\ TakenIsInForce /\ Prepared
    /\ ReportedIsInForce /\ RunsUnderItsSettings /\ SetUpForCapacity

\* What the threads other than the consuming one leave alone.
ours == <<force, main, setUp>>

-----------------------------------------------------------------------------
LEMMA HotInit == Init => HotInv
  BY HotApplyAssumption DEF Init, Nothing, HotInv, Shape, Holding, Taken, TakenIsInForce, Prepared,
     ReportedIsInForce, RunsUnderItsSettings, SetUpForCapacity

\* Only the applied hash matters of what the watcher keeps.
LEMMA WatcherKeeps ==
    ASSUME HotInv, UNCHANGED ours, watch'.applied = watch.applied,
           watch' = [latest |-> watch'.latest, pending |-> watch'.pending, applied |-> watch'.applied]
    PROVE  HotInv'
  BY DEF ours, HotInv, Shape, Holding, Taken, TakenIsInForce, Prepared, For, Blocked, CapacityOf,
     ReportedIsInForce, RunsUnderItsSettings, SetUpForCapacity

LEMMA Same == ASSUME HotInv, UNCHANGED <<watch, force, main, setUp>> PROVE HotInv'
  BY WatcherKeeps DEF ours, HotInv, Shape

\* The memory of a process that ends, or exits to be restarted, holds nothing.
LEMMA GoneKeeps == Gone => HotInv'
  BY HotApplyAssumption DEF Gone, Nothing, HotInv, Shape, Holding, Taken, TakenIsInForce, Prepared,
     ReportedIsInForce, RunsUnderItsSettings, SetUpForCapacity

\* A boot has no pump set up, and the snapshot, if any, in force.
LEMMA BootKeeps == ASSUME NEW s, Booted(s) PROVE HotInv'
  BY DEF Booted, HotInv, Shape, Holding, Taken, TakenIsInForce, Prepared, For,
     ReportedIsInForce, RunsUnderItsSettings, SetUpForCapacity

\* When no pump is set up, none is set up for a wrong capacity.
LEMMA ForgetKeeps ==
    ASSUME HotInv, setUp' = [p \in Pump |-> None], UNCHANGED <<watch, force>>,
           UNCHANGED main \/ (main.at = "home" /\ main'.at = "loop")
    PROVE  HotInv'
<1>1. Shape'
  BY DEF HotInv, Shape, Holding
<1>2. TakenIsInForce' /\ ReportedIsInForce' /\ RunsUnderItsSettings'
  BY DEF HotInv, Taken, TakenIsInForce, ReportedIsInForce, RunsUnderItsSettings
<1>3. \A p \in Pump : setUp'[p] = None
  OBVIOUS
<1>4. Prepared' /\ SetUpForCapacity'
  BY <1>3 DEF Prepared, For, SetUpForCapacity
<1> QED
  BY <1>1, <1>2, <1>4 DEF HotInv

-----------------------------------------------------------------------------
(* The steps of an application.                                            *)

LEMMA ApplyKeeps == ASSUME HotInv, Apply PROVE HotInv'
<1> DEFINE s == watch.pending
<1>1. main.at = "loop" /\ s # None
  BY DEF Apply
<1>2. CASE Gone
  BY <1>2, GoneKeeps
<1>3. CASE Homing(s) /\ Goto("home", s, 1) /\ UNCHANGED <<watch, force, setUp>>
  <2>1. 1 \in Pump /\ main' = [at |-> "home", of |-> s, next |-> 1]
    BY <1>3, HotApplyAssumption DEF Goto, Pump
  <2>2. \A p \in Pump : ~(p < 1)
    BY HotApplyAssumption DEF Pump
  <2>3. Shape' /\ Prepared'
    BY <1>1, <1>3, <2>1, <2>2 DEF HotInv, Shape, Holding, Prepared
  <2>4. TakenIsInForce' /\ ReportedIsInForce' /\ RunsUnderItsSettings' /\ SetUpForCapacity'
    BY <1>1, <1>3, <2>1 DEF HotInv, Taken, TakenIsInForce, ReportedIsInForce,
       RunsUnderItsSettings, SetUpForCapacity
  <2> QED
    BY <2>3, <2>4 DEF HotInv
<1>4. CASE ~Homing(s) /\ Goto("assign", s, 0) /\ UNCHANGED <<watch, force, setUp>>
  <2>1. main' = [at |-> "assign", of |-> s, next |-> 0]
    BY <1>4 DEF Goto
  <2>2. ~Blocked(s.cap) => \A p \in Pump : For(s.cap, p)
    BY <1>1, <1>4 DEF Homing, For, HotInv, SetUpForCapacity
  <2>3. Shape'
    BY <1>1, <1>4, <2>1 DEF HotInv, Shape, Holding
  <2>4. Prepared'
    BY <1>4, <2>1, <2>2 DEF Prepared, For, Blocked
  <2>5. TakenIsInForce' /\ ReportedIsInForce' /\ RunsUnderItsSettings' /\ SetUpForCapacity'
    BY <1>1, <1>4, <2>1 DEF HotInv, Taken, TakenIsInForce, ReportedIsInForce,
       RunsUnderItsSettings, SetUpForCapacity
  <2> QED
    BY <2>3, <2>4, <2>5 DEF HotInv
<1> QED
  BY <1>2, <1>3, <1>4 DEF Apply

\* reinitialize() of the next pump.
LEMMA HomeKeeps == ASSUME HotInv, Home PROVE HotInv'
<1>1. /\ main.at = "home" /\ main.next \in Pump /\ main.of # None
      /\ setUp' = [setUp EXCEPT ![main.next] = main.of.cap] /\ DOMAIN setUp = Pump
      /\ UNCHANGED <<watch, force>>
  BY DEF Home, HotInv, Shape, Holding
<1>2. \A p \in Pump : p <= main.next => setUp'[p] \in {None, main.of.cap}
  BY <1>1 DEF HotInv, Prepared, For, Pump
<1>3. CASE main.next < NPumps /\ main' = [at |-> "home", of |-> main.of, next |-> main.next + 1]
  <2>1. main.next + 1 \in Pump /\ \A p \in Pump : p < main.next + 1 => p <= main.next
    BY <1>1, <1>3, HotApplyAssumption DEF Pump
  <2>2. Shape' /\ Prepared'
    BY <1>1, <1>2, <1>3, <2>1 DEF HotInv, Shape, Holding, Prepared, For
  <2> QED
    BY <1>1, <1>3, <2>2 DEF HotInv, Taken, TakenIsInForce, ReportedIsInForce,
       RunsUnderItsSettings, SetUpForCapacity
<1>4. CASE ~(main.next < NPumps) /\ main' = [at |-> "assign", of |-> main.of, next |-> 0]
  <2>1. \A p \in Pump : p <= main.next
    BY <1>1, <1>4, HotApplyAssumption DEF Pump
  <2>2. Shape' /\ Prepared'
    BY <1>1, <1>2, <1>4, <2>1 DEF HotInv, Shape, Holding, Prepared, For
  <2> QED
    BY <1>1, <1>4, <2>2 DEF HotInv, Taken, TakenIsInForce, ReportedIsInForce,
       RunsUnderItsSettings, SetUpForCapacity
<1> QED
  BY <1>3, <1>4 DEF Home, Goto

\* The values are taken over: what was homed is homed for them.
LEMMA AssignKeeps == ASSUME HotInv, Assign PROVE HotInv'
<1>1. /\ main.at = "assign" /\ main.of # None /\ force' = main.of
      /\ main' = [at |-> "persist", of |-> main.of, next |-> 0]
      /\ UNCHANGED <<watch, setUp>>
  BY DEF Assign, Goto, HotInv, Shape, Holding
<1>2. Shape' /\ Prepared'
  BY <1>1 DEF HotInv, Shape, Holding, Prepared, For, Blocked
<1> QED
  BY <1>1, <1>2 DEF HotInv, Taken, TakenIsInForce, ReportedIsInForce,
     RunsUnderItsSettings, SetUpForCapacity

LEMMA PersistKeeps == ASSUME HotInv, Persist PROVE HotInv'
<1>1. /\ main.at = "persist" /\ main' = [at |-> "mark", of |-> main.of, next |-> 0]
      /\ UNCHANGED <<watch, force, setUp>>
  BY DEF Persist, Goto
<1>2. Shape' /\ Prepared'
  BY <1>1 DEF HotInv, Shape, Holding, Prepared, For, Blocked
<1> QED
  BY <1>1, <1>2 DEF HotInv, Taken, TakenIsInForce, ReportedIsInForce,
     RunsUnderItsSettings, SetUpForCapacity

\* mark_applied(): the hash that is reported from here on is that of the
\* values in force.
LEMMA MarkKeeps == ASSUME HotInv, Mark PROVE HotInv'
<1>1. /\ main.at = "mark" /\ main.of # None /\ force = main.of
      /\ main' = [at |-> "loop", of |-> None, next |-> 0]
      /\ UNCHANGED <<force, setUp>>
  BY DEF Mark, Goto, HotInv, Shape, Holding, Taken, TakenIsInForce
<1>2. /\ watch'.applied = main.of
      /\ watch' = [latest |-> watch'.latest, pending |-> watch'.pending, applied |-> watch'.applied]
  BY DEF Mark, Marked, HotInv, Shape
<1>3. SetUpForCapacity'
  BY <1>1 DEF HotInv, Prepared, For, SetUpForCapacity, CapacityOf, Blocked
<1>4. Shape'
  BY <1>1, <1>2 DEF HotInv, Shape, Holding
<1> QED
  BY <1>1, <1>2, <1>3, <1>4 DEF HotInv, Prepared, Taken, TakenIsInForce, ReportedIsInForce,
     RunsUnderItsSettings

-----------------------------------------------------------------------------
(* The steps of a job.                                                     *)

LEMMA PollKeeps == ASSUME HotInv, Poll PROVE HotInv'
<1>1. CASE UNCHANGED main
  BY <1>1, Same DEF Poll
<1>2. CASE Admitted(queued) /\ Goto("job", queued, 1)
  <2>1. /\ main.at = "loop" /\ main' = [at |-> "job", of |-> queued, next |-> 1]
        /\ UNCHANGED <<watch, force, setUp>>
    BY <1>2 DEF Poll, Goto
  <2>2. RunsUnderItsSettings'
    BY <1>2, <2>1 DEF HotInv, ReportedIsInForce, Admitted, RunsUnderItsSettings
  <2>3. SetUpForCapacity'
    BY <2>1 DEF HotInv, SetUpForCapacity, CapacityOf, Blocked
  <2> QED
    BY <2>1, <2>2, <2>3 DEF HotInv, Shape, Holding, Prepared, Taken, TakenIsInForce,
       ReportedIsInForce
<1> QED
  BY <1>1, <1>2 DEF Poll

LEMMA JobPumpKeeps == ASSUME HotInv, JobPump PROVE HotInv'
<1>1. /\ main.at = "job" /\ main' = [at |-> "job", of |-> main.of, next |-> main.next + 1]
      /\ DOMAIN setUp' = DOMAIN setUp
      /\ UNCHANGED <<watch, force>>
  BY DEF JobPump, Goto
<1>2. \A p \in Pump : setUp'[p] \in {setUp[p], CapacityOf(force)}
  BY DEF JobPump, HotInv, Shape
<1>3. SetUpForCapacity'
  BY <1>1, <1>2 DEF HotInv, SetUpForCapacity, CapacityOf, Blocked
<1> QED
  BY <1>1, <1>3 DEF HotInv, Shape, Holding, Prepared, Taken, TakenIsInForce,
     ReportedIsInForce, RunsUnderItsSettings

LEMMA JobEndsKeeps == ASSUME HotInv, JobEnds PROVE HotInv'
<1>1. /\ main.at = "job" /\ main' = [at |-> "loop", of |-> None, next |-> 0]
      /\ UNCHANGED <<watch, force, setUp>>
  BY DEF JobEnds, Goto
<1>2. SetUpForCapacity'
  BY <1>1 DEF HotInv, SetUpForCapacity, CapacityOf, Blocked
<1> QED
  BY <1>1, <1>2 DEF HotInv, Shape, Holding, Prepared, Taken, TakenIsInForce,
     ReportedIsInForce, RunsUnderItsSettings

-----------------------------------------------------------------------------
LEMMA HotStep == ASSUME HotInv, [Next]_vars PROVE HotInv'
<1>1. CASE BootOnline \/ BootOffline
  BY <1>1, BootKeeps DEF BootOnline, BootOffline
<1>2. CASE Observe
  BY <1>2, WatcherKeeps DEF Observe, Observed, ours, HotInv, Shape
<1>3. CASE Connect \/ RetryDue \/ Beat \/ Probe \/ ProbeEnds \/ Issue
  BY <1>3, Same DEF Connect, RetryDue, Beat, Probe, ProbeEnds, Issue, daemonVars
<1>4. ASSUME NEW s \in Settings, Save(s) PROVE HotInv'
  BY <1>4, Same DEF Save, daemonVars
<1>5. CASE PumpChanges \/ PumpRecovers \/ Release \/ LinkFalls
  BY <1>5, Same DEF PumpChanges, PumpRecovers, Release, LinkFalls, daemonVars
<1>6. CASE EmergencyStop
  BY <1>6, ForgetKeeps DEF EmergencyStop
<1>7. CASE Kill
  BY <1>7, GoneKeeps DEF Kill
<1>8. CASE Apply
  BY <1>8, ApplyKeeps
<1>9. CASE Home
  BY <1>9, HomeKeeps
<1>10. CASE HomeFails
  BY <1>10, ForgetKeeps DEF HomeFails, ForgetSetUp, Goto
<1>11. CASE Assign
  BY <1>11, AssignKeeps
<1>12. CASE Persist
  BY <1>12, PersistKeeps
<1>13. CASE Mark
  BY <1>13, MarkKeeps
<1>14. CASE Poll
  BY <1>14, PollKeeps
<1>15. CASE JobPump
  BY <1>15, JobPumpKeeps
<1>16. CASE JobEnds
  BY <1>16, JobEndsKeeps
<1>17. CASE UNCHANGED vars
  BY <1>17, Same DEF vars, daemonVars
<1> QED
  BY <1>1, <1>2, <1>3, <1>4, <1>5, <1>6, <1>7, <1>8, <1>9, <1>10, <1>11, <1>12, <1>13,
     <1>14, <1>15, <1>16, <1>17 DEF Next

LEMMA HotInvariant == Spec => []HotInv
<1>1. Init => HotInv
  BY HotInit
<1>2. HotInv /\ [Next]_vars => HotInv'
  BY HotStep
<1> QED
  BY <1>1, <1>2, PTL DEF Spec

\* mark_applied comes last: the hash a heartbeat may report is that of the
\* values in force, whatever the server saved meanwhile.
THEOREM ReportedHashIsInForce == Spec => []ReportedIsInForce
<1>1. HotInv => ReportedIsInForce
  BY DEF HotInv
<1> QED
  BY <1>1, HotInvariant, PTL

\* _settings_mismatch, _capacity_mismatch: an envelope that is admitted runs to
\* its end under the settings it was assembled for.
THEOREM EnvelopeRunsUnderItsSettings == Spec => []RunsUnderItsSettings
<1>1. HotInv => RunsUnderItsSettings
  BY DEF HotInv
<1> QED
  BY <1>1, HotInvariant, PTL

\* Wherever an application stops - a pump that does not home, an emergency
\* stop, a kill - no pump stays set up for a capacity that is not in force.
THEOREM PumpsAreSetUpForCapacity == Spec => []SetUpForCapacity
<1>1. HotInv => SetUpForCapacity
  BY DEF HotInv
<1> QED
  BY <1>1, HotInvariant, PTL
-----------------------------------------------------------------------------
(* The types, and the bound on attempts.                                   *)

\* Whatever travels from the server to the heartbeat is settings, or nothing.
Frames ==
    /\ server \in Settings
    /\ reported \in Frame /\ force \in Frame /\ cache \in Frame /\ queued \in Frame
    /\ watch.latest \in Frame /\ watch.pending \in Frame /\ watch.applied \in Frame
    /\ line = None \/ line \in Seq(Settings)
    /\ main.of \in Frame

Read == Seq({"ok", "silent"})

\* Where the consuming thread and the health watch are, and an application that
\* homes pumps has an attempt left to use up.
Counts ==
    /\ main.next \in 0 .. NPumps + 1
    /\ fails \in [of : Frame, n : 0 .. MaxAttempts, pump : Pump \cup {None},
                  was : {"ok", "silent", None}, due : BOOLEAN]
    /\ \A p \in Pump : seen[p] \in {"ok", "silent", None}
    /\ round = None \/ (round \in Read /\ Len(round) <= NPumps)
    /\ main.at = "home" /\ fails.of = main.of => fails.n < MaxAttempts

HotTypes == Frames /\ Counts

LEMMA FramesInit == Init => HotTypes
<1> SUFFICES ASSUME Init PROVE HotTypes
  OBVIOUS
<1>1. Frames
  BY DEF Init, Nothing, Frames, Frame
<1>2. Counts
  BY HotApplyAssumption DEF Init, Nothing, NoFails, Counts, Frame, Pump
<1> QED
  BY <1>1, <1>2 DEF HotTypes

LEMMA FramesStep == ASSUME HotInv, Frames, [Next]_vars PROVE Frames'
<1> USE DEF Frame
<1>1. CASE BootOnline \/ BootOffline
  BY <1>1 DEF BootOnline, BootOffline, Booted, Frames, worldVars
<1>2. CASE Connect
  BY <1>2 DEF Connect, Frames, daemonVars, worldVars
<1>3. CASE Observe
  <2>1. line \in Seq(Settings) /\ line # <<>>
    BY <1>3 DEF Observe, Frames
  <2>2. Head(line) \in Settings /\ Tail(line) \in Seq(Settings)
    BY <2>1
  <2>3. watch'.latest \in Frame /\ watch'.pending \in Frame /\ watch'.applied = watch.applied
    BY <1>3, <2>2 DEF Observe, Observed, Frames, HotInv, Shape
  <2> QED
    BY <1>3, <2>2, <2>3 DEF Observe, Frames, worldVars
<1>4. CASE Apply
  BY <1>4 DEF Apply, Gone, Nothing, Goto, Frames, worldVars
<1>5. CASE Home \/ HomeFails \/ Assign \/ Persist
  BY <1>5 DEF Home, HomeFails, Assign, Persist, Goto, Frames, worldVars
<1>6. CASE Mark
  <2>1. watch'.latest \in Frame /\ watch'.pending \in Frame /\ watch'.applied \in Frame
    BY <1>6 DEF Mark, Marked, Frames, HotInv, Shape
  <2> QED
    BY <1>6, <2>1 DEF Mark, Goto, Frames, worldVars
<1>7. CASE RetryDue \/ Beat \/ Probe \/ ProbeEnds \/ Issue
  BY <1>7 DEF RetryDue, Beat, Probe, ProbeEnds, Issue, Frames, daemonVars, worldVars
<1>8. CASE Poll \/ JobPump \/ JobEnds
  BY <1>8 DEF Poll, JobPump, JobEnds, Goto, Frames, worldVars
<1>9. ASSUME NEW s \in Settings, Save(s) PROVE Frames'
  BY <1>9 DEF Save, Frames, daemonVars
<1>10. CASE PumpChanges \/ PumpRecovers \/ EmergencyStop \/ Release \/ LinkFalls
  BY <1>10 DEF PumpChanges, PumpRecovers, EmergencyStop, Release, LinkFalls, Fault, Frames, daemonVars
<1>11. CASE Kill
  BY <1>11 DEF Kill, Fault, Gone, Nothing, Frames
<1>12. CASE UNCHANGED vars
  BY <1>12 DEF vars, daemonVars, worldVars, Frames
<1> QED
  BY <1>1, <1>2, <1>3, <1>4, <1>5, <1>6, <1>7, <1>8, <1>9, <1>10, <1>11, <1>12 DEF Next

\* A pass of the health watch that goes through has read every pump.
LEMMA ProbeCounts == ASSUME Counts, Probe \/ ProbeEnds PROVE Counts'
<1>1. NPumps \in Nat /\ MaxAttempts \in Nat \ {0}
  BY HotApplyAssumption
<1>2. CASE Probe
  <2>1. CASE Yields
    BY <1>2, <2>1 DEF Probe, Counts
  <2>2. CASE ~Yields
    <3> DEFINE read == IF round = None THEN <<>> ELSE round
    <3>1. read \in Read /\ Len(read) <= NPumps /\ (round = None => Len(read) = 0)
      BY <1>1 DEF Counts, Read
    <3>2. PICK h \in {"ok", "silent"} : round' = Append(read, h)
      BY <1>2, <2>2 DEF Probe
    <3>3. Len(read) < NPumps
      BY <1>2, <2>2, <3>1 DEF Probe
    <3> HIDE DEF read
    <3>4. round' \in Read /\ Len(round') <= NPumps
      BY <1>1, <3>1, <3>2, <3>3 DEF Read
    <3> QED
      BY <1>2, <3>4 DEF Probe, Counts
  <2> QED
    BY <2>1, <2>2
<1>3. CASE ProbeEnds
  <2>1. round \in Read /\ Len(round) = NPumps /\ seen' = round /\ round' = None /\ UNCHANGED main
    BY <1>3 DEF ProbeEnds, Counts
  <2>2. \A p \in Pump : round[p] \in {"ok", "silent"}
    BY <2>1 DEF Read, Pump
  <2>3. /\ fails' \in [of : Frame, n : 0 .. MaxAttempts, pump : Pump \cup {None},
                       was : {"ok", "silent", None}, due : BOOLEAN]
        /\ fails'.of = fails.of /\ (fails'.n = fails.n \/ fails'.n = MaxAttempts - 1)
    <3>1. CASE fails.pump = None
      BY <1>3, <3>1 DEF ProbeEnds, Counts
    <3>2. CASE fails.pump # None
      <4> DEFINE now == round[fails.pump]
                 again == fails.n >= MaxAttempts /\ Returns(fails.was, now)
                 n == IF again THEN MaxAttempts - 1 ELSE fails.n
                 due == again \/ fails.due
      <4>1. now \in {"ok", "silent"}
        BY <2>2, <3>2 DEF Counts
      <4>2. fails' = [fails EXCEPT !.was = now, !.n = n, !.due = due]
        BY <1>3, <3>2 DEF ProbeEnds
      <4>3. due \in BOOLEAN
        BY DEF Counts
      <4>4. n \in 0 .. MaxAttempts /\ n \in {fails.n, MaxAttempts - 1}
        BY <1>1 DEF Counts
      <4> HIDE DEF now, again, n, due
      <4> QED
        BY <4>1, <4>2, <4>3, <4>4 DEF Counts
    <3> QED
      BY <3>1, <3>2
  <2> QED
    BY <1>1, <2>1, <2>2, <2>3 DEF Counts
<1> QED
  BY <1>2, <1>3

LEMMA CountsStep == ASSUME HotInv, Frames, Counts, [Next]_vars PROVE Counts'
<1>0. NPumps \in Nat \ {0} /\ MaxAttempts \in Nat \ {0}
  BY HotApplyAssumption
<1>1. CASE BootOnline \/ BootOffline
  <2>1. /\ main' = [at |-> "loop", of |-> None, next |-> 0] /\ round' = None
        /\ fails' = NoFails /\ seen' = [p \in Pump |-> None]
    BY <1>1 DEF BootOnline, BootOffline, Booted
  <2>2. NoFails \in [of : Frame, n : 0 .. MaxAttempts, pump : Pump \cup {None},
                     was : {"ok", "silent", None}, due : BOOLEAN]
    BY <1>0 DEF NoFails, Frame
  <2> QED
    BY <1>0, <2>1, <2>2 DEF Counts
<1>2. CASE Connect \/ Observe \/ Beat \/ Issue
  BY <1>2 DEF Connect, Observe, Beat, Issue, Counts, daemonVars
<1>3. CASE Apply
  <2>1. CASE Gone
    BY <1>0, <2>1 DEF Gone, Nothing, NoFails, Counts, Frame, Pump
  <2>2. CASE ~Gone
    BY <1>0, <1>3, <2>2 DEF Apply, MayTry, Goto, Counts
  <2> QED
    BY <2>1, <2>2
<1>4. CASE Home
  BY <1>0, <1>4 DEF Home, Goto, Counts, HotInv, Shape, Pump
<1>5. CASE HomeFails
  <2>1. /\ main.at = "home" /\ main.next \in Pump /\ main.of \in Frame
        /\ main' = [at |-> "loop", of |-> None, next |-> 0] /\ UNCHANGED <<seen, round>>
        /\ fails' = [of |-> main.of, n |-> IF fails.of = main.of THEN fails.n + 1 ELSE 1,
                     pump |-> main.next, was |-> seen[main.next], due |-> FALSE]
    BY <1>5 DEF HomeFails, Goto, HotInv, Shape, Frames
  <2>2. (IF fails.of = main.of THEN fails.n + 1 ELSE 1) \in 0 .. MaxAttempts
    BY <1>0, <2>1 DEF Counts
  <2> QED
    BY <1>0, <2>1, <2>2 DEF Counts
<1>6. CASE Assign \/ Persist
  BY <1>0, <1>6 DEF Assign, Persist, Goto, Counts
<1>7. CASE Mark
  <2>1. /\ main' = [at |-> "loop", of |-> None, next |-> 0] /\ UNCHANGED <<seen, round>>
        /\ fails' = [fails EXCEPT !.of = None, !.n = 0, !.pump = None]
    BY <1>7 DEF Mark, Goto
  <2>2. fails' \in [of : Frame, n : 0 .. MaxAttempts, pump : Pump \cup {None},
                    was : {"ok", "silent", None}, due : BOOLEAN]
    <3> DEFINE attempts == 0 .. MaxAttempts
               pumps == Pump \cup {None}
               health == {"ok", "silent", None}
    <3>1. fails \in [of : Frame, n : attempts, pump : pumps, was : health, due : BOOLEAN]
      BY DEF Counts
    <3>2. None \in Frame /\ 0 \in attempts /\ None \in pumps
      BY <1>0 DEF Frame
    <3> HIDE DEF attempts, pumps, health
    <3>3. fails' \in [of : Frame, n : attempts, pump : pumps, was : health, due : BOOLEAN]
      BY <2>1, <3>1, <3>2
    <3> QED
      BY <3>3 DEF attempts, pumps, health
  <2> QED
    BY <1>0, <2>1, <2>2 DEF Counts
<1>8. CASE RetryDue
  BY <1>8 DEF RetryDue, Counts
<1>9. CASE Poll \/ JobPump \/ JobEnds
  BY <1>0, <1>9 DEF Poll, JobPump, JobEnds, Goto, Counts
<1>10. CASE Probe \/ ProbeEnds
  BY <1>10, ProbeCounts
<1>11. ASSUME NEW s \in Settings, Save(s) PROVE Counts'
  BY <1>11 DEF Save, Counts, daemonVars
<1>12. CASE PumpChanges \/ PumpRecovers \/ EmergencyStop \/ Release \/ LinkFalls
  BY <1>12 DEF PumpChanges, PumpRecovers, EmergencyStop, Release, LinkFalls, Counts, daemonVars
<1>13. CASE Kill
  BY <1>0, <1>13 DEF Kill, Gone, Nothing, NoFails, Counts, Frame, Pump
<1>14. CASE UNCHANGED vars
  BY <1>14 DEF vars, daemonVars, Counts
<1> QED
  BY <1>1, <1>2, <1>3, <1>4, <1>5, <1>6, <1>7, <1>8, <1>9, <1>10, <1>11, <1>12, <1>13, <1>14 DEF Next

\* The state is well typed; in particular a frame is never tried more often
\* than HOT_APPLY_MAX_ATTEMPTS, and no pass reads more pumps than there are.
THEOREM HotApplyTypeCorrect == Spec => []TypeOK
<1>1. HotInv /\ HotTypes /\ [Next]_vars => HotTypes'
  BY FramesStep, CountsStep DEF HotTypes
<1>2. HotTypes => TypeOK
  BY DEF HotTypes, Frames, Counts, TypeOK
<1> QED
  BY <1>1, <1>2, FramesInit, HotInvariant, PTL DEF Spec
=============================================================================

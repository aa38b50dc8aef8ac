--------------------------- MODULE PumpWatchProofs ---------------------------
(***************************************************************************)
(* For any number of pumps, ports, exchanges, failures and jobs: every     *)
(* variable keeps its type, and a frame of one model reaches a pump of     *)
(* another only if that pump was exchanged after the boot.                 *)
(***************************************************************************)
EXTENDS PumpWatch, FiniteSetTheorems, TLAPS

\* The pumps of the map say the adapter's model unless they were exchanged.
MapFits ==
    built.engine \in Model =>
        \A p \in built.map \ changed : Classified(rack.at[p]) = built.engine

\* A job runs in a process that has an adapter.
JobHasEngine == Busy => proc # "down" /\ built.engine \in Model

\* A third reading that fails lets the pump pass.
FailsCounted == \A p \in Pump \ gate.checked : gate.fails[p] <= 2

WatchInv == TypeOK /\ FailsCounted /\ MapFits /\ JobHasEngine /\ FramesFit

-----------------------------------------------------------------------------
(* What is read from the pumps.                                            *)

LEMMA PumpIsFinite == \A S \in SUBSET Pump : IsFiniteSet(S) /\ Cardinality(S) \in Nat
<1>1. IsFiniteSet(Pump)
  BY PumpWatchAssumption, FS_Interval DEF Pump
<1> QED
  BY <1>1, FS_Subset, FS_CardinalityType

LEMMA ClassifiedType == \A d : Classified(d) \in Model \cup {"none"}
  BY DEF Classified, Model

\* detect_pump_model: a model is found only if every pump that was heard says it.
LEMMA JudgedFits ==
    ASSUME TypeOK, NEW heard \in SUBSET Answering, NEW read \in SUBSET Legible, read \subseteq heard
    PROVE  LET d == Judged(heard, read) IN
           /\ d.heard = heard /\ d.model \in Model \cup {"none"}
           /\ d.model \in Model => \A p \in heard : Classified(rack.at[p]) = d.model
<1> DEFINE d == Judged(heard, read)
           known == {Classified(rack.at[p]) : p \in read}
<1>1. d.heard = heard /\ d.model = IF read = heard /\ Cardinality(known) = 1
                                   THEN CHOOSE m \in known : TRUE ELSE "none"
  BY DEF Judged
<1>2. known \subseteq Model
  BY ClassifiedType DEF Legible
<1>3. IsFiniteSet(known)
  <2>1. IsFiniteSet(Model)
    <3>1. IsFiniteSet({"sy01b"}) /\ IsFiniteSet({"sy01b"} \cup {"tecan"})
      BY FS_Singleton, FS_AddElement
    <3>2. Model = {"sy01b"} \cup {"tecan"}
      BY DEF Model
    <3> QED
      BY <3>1, <3>2
  <2> QED
    BY <1>2, <2>1, FS_Subset
<1>4. ASSUME read = heard, Cardinality(known) = 1
      PROVE  d.model \in known /\ \A p \in heard : Classified(rack.at[p]) = d.model
  <2>1. PICK x : known = {x}
    BY <1>3, <1>4, FS_Singleton
  <2>2. d.model = x
    BY <1>1, <1>4, <2>1
  <2> QED
    BY <1>4, <2>1, <2>2
<1>5. ASSUME ~(read = heard /\ Cardinality(known) = 1) PROVE d.model = "none"
  BY <1>1, <1>5
<1>6. "none" \notin Model
  BY DEF Model
<1> HIDE DEF d, known
<1> QED
  BY <1>1, <1>2, <1>4, <1>5, <1>6 DEF d

LEMMA Detected ==
    ASSUME TypeOK, NEW d \in Detections
    PROVE  /\ d.cost \in Nat /\ d.det.heard \subseteq Pump
           /\ d.det.model \in Model \cup {"none"}
           /\ d.det.model \in Model => \A p \in d.det.heard : Classified(rack.at[p]) = d.det.model
<1>1. PICK heard \in SUBSET Answering, read \in SUBSET Legible : d = Detection(heard, read)
  BY DEF Detections
<1>2. Answering \subseteq Pump /\ Legible \subseteq Pump
  BY DEF Answering, Legible
<1>3. d.cost \in Nat
  <2>1. Cardinality(Answering \ heard) \in Nat /\ Cardinality((Legible \cap heard) \ read) \in Nat
    BY <1>2, PumpIsFinite
  <2> QED
    BY <1>1, <2>1 DEF Detection
<1>4. d.det = Judged(heard, read \cap heard)
  BY <1>1 DEF Detection
<1>5. read \cap heard \in SUBSET Legible /\ read \cap heard \subseteq heard
  OBVIOUS
<1> DEFINE j == Judged(heard, read \cap heard)
<1>6. /\ j.heard = heard /\ j.model \in Model \cup {"none"}
      /\ j.model \in Model => \A p \in heard : Classified(rack.at[p]) = j.model
  BY <1>5, JudgedFits
<1> HIDE DEF j
<1> QED
  BY <1>2, <1>3, <1>4, <1>6 DEF j

\* The adapter of a boot is that of the pumps it was told of.
LEMMA AssembledFits ==
    ASSUME TypeOK, NEW d \in Detections, NEW declared \in Model \cup {"none"}, NEW source \in {"snapshot", "cache"}
    PROVE  LET a == Assembled(d.det, declared, source) IN
           /\ a[1] \in Model \cup {"undeclared"}
           /\ a[2] \in {"detected", "snapshot", "cache", "undeclared", "mixed", "undetected"}
           /\ a[1] \in Model => \A p \in d.det.heard : Classified(rack.at[p]) = a[1]
<1> DEFINE m == Adoptable(d.det, declared)
           a == Assembled(d.det, declared, source)
<1>1. m \in {"none", d.det.model}
  BY DEF Adoptable
<1>2. /\ d.det.model \in Model \cup {"none"}
      /\ d.det.model \in Model => \A p \in d.det.heard : Classified(rack.at[p]) = d.det.model
  BY Detected
<1>3. a = IF d.det.heard = {}
          THEN IF declared = "none" THEN <<"undeclared", "undeclared">> ELSE <<declared, source>>
          ELSE IF m # "none" THEN <<d.det.model, "detected">>
          ELSE <<"undeclared", IF d.det.mixed THEN "mixed" ELSE "undetected">>
  BY DEF Assembled
<1>4. "undeclared" \notin Model
  BY DEF Model
<1> HIDE DEF m, a
<1>5. CASE d.det.heard = {} /\ declared = "none"
  BY <1>3, <1>4, <1>5 DEF a
<1>6. CASE d.det.heard = {} /\ declared # "none"
  <2>1. a = <<declared, source>> /\ declared \in Model
    BY <1>3, <1>6
  <2> QED
    BY <1>6, <2>1 DEF a
<1>7. CASE d.det.heard # {} /\ m # "none"
  <2>1. a = <<d.det.model, "detected">> /\ d.det.model \in Model
    BY <1>1, <1>2, <1>3, <1>7
  <2> QED
    BY <1>2, <2>1 DEF a
<1>8. CASE d.det.heard # {} /\ m = "none"
  <2>1. PICK why \in {"mixed", "undetected"} : a = <<"undeclared", why>>
    BY <1>3, <1>8
  <2> QED
    BY <1>4, <2>1 DEF a
<1> QED
  BY <1>5, <1>6, <1>7, <1>8

-----------------------------------------------------------------------------
(* The steps.                                                              *)

\* The addresses in order.
LEMMA PumpOrder == 1 \in Pump /\ \A p \in Pump : p # NPumps => p < NPumps /\ p + 1 \in Pump
  BY PumpWatchAssumption DEF Pump

Rounds == [pc : {"rest", "ask", "read", "forget", "scout", "judge"}, p : Pump,
           health : [Pump -> {"ok", "garbled", "silent"}]]

LEMMA RoundsType == Resting \in Rounds /\ \A r \in Rounds : Following(r) \in Rounds
<1>1. Resting \in Rounds
  BY PumpOrder DEF Resting, Rounds
<1>2. ASSUME NEW r \in Rounds PROVE Following(r) \in Rounds
  BY PumpOrder DEF Following, Rounds
<1> QED
  BY <1>1, <1>2

LEMMA WatchInit == Init => WatchInv
  BY PumpWatchAssumption
  DEF Init, WatchInv, TypeOK, FailsCounted, MapFits, JobHasEngine, FramesFit, Busy, NoJob, Resting,
      Unread, Armed, Pump, Port, Model

LEMMA SpendType ==
    ASSUME TypeOK, NEW n \in Nat, Noisy(n), Spend(n)
    PROVE  spent' \in [changes : 0 .. MaxChanges, noise : 0 .. MaxNoise, jobs : 0 .. MaxJobs]
  BY PumpWatchAssumption DEF TypeOK, Noisy, Spend

LEMMA BootKeeps == ASSUME WatchInv, Boot PROVE WatchInv'
<1>1. PICK d \in Detections, got \in BOOLEAN, confirmed \in BOOLEAN :
          LET lost == IF server = "none" \/ got THEN 0 ELSE 1
              fresh == server # "none" /\ got
              declared == IF fresh THEN server ELSE cached
              a == Assembled(d.det, declared, IF fresh THEN "snapshot" ELSE "cache")
          IN  /\ Noisy(d.cost + lost) /\ Spend(d.cost + lost)
              /\ cached' = IF fresh /\ confirmed THEN server ELSE cached
              /\ built' = [engine |-> a[1], source |-> a[2], declared |-> declared,
                           port |-> IF d.det.heard = {} THEN 1 ELSE rack.port,
                           map |-> d.det.heard]
  BY DEF Boot
<1> DEFINE lost == IF server = "none" \/ got THEN 0 ELSE 1
           fresh == server # "none" /\ got
           declared == IF fresh THEN server ELSE cached
           source == IF fresh THEN "snapshot" ELSE "cache"
           a == Assembled(d.det, declared, source)
           port == IF d.det.heard = {} THEN 1 ELSE rack.port
<1>2. TypeOK
  BY DEF WatchInv
<1>3. declared \in Model \cup {"none"} /\ source \in {"snapshot", "cache"} /\ port \in Port
      /\ lost \in Nat /\ cached' \in Servers \cup {"none"}
  BY <1>1, <1>2, PumpWatchAssumption DEF TypeOK, Model, Port
<1>4. /\ d.cost \in Nat /\ d.det.heard \subseteq Pump
      /\ a[1] \in Model \cup {"undeclared"}
      /\ a[2] \in {"detected", "snapshot", "cache", "undeclared", "mixed", "undetected"}
      /\ a[1] \in Model => \A p \in d.det.heard : Classified(rack.at[p]) = a[1]
  BY <1>2, <1>3, Detected, AssembledFits
<1>5. Noisy(d.cost + lost) /\ Spend(d.cost + lost)
  BY <1>1
<1>6. built' = [engine |-> a[1], source |-> a[2], declared |-> declared, port |-> port, map |-> d.det.heard]
  BY <1>1
<1> HIDE DEF lost, fresh, declared, source, a, port
<1>7. spent' \in [changes : 0 .. MaxChanges, noise : 0 .. MaxNoise, jobs : 0 .. MaxJobs]
  BY <1>2, <1>3, <1>4, <1>5, SpendType
<1>8. built' \in [engine : Model \cup {"undeclared"}, declared : Model \cup {"none"},
                  source : {"detected", "snapshot", "cache", "undeclared", "mixed", "undetected"},
                  port : Port, map : SUBSET Pump]
  BY <1>3, <1>4, <1>6
<1>9. /\ proc' = "up" /\ changed' = {} /\ stray' = {} /\ fw' = Unread /\ gate' = Armed /\ streak' = 0
      /\ UNCHANGED <<rack, server, round, job, refused>> /\ proc = "down"
  BY DEF Boot
<1>10. TypeOK'
  BY <1>2, <1>3, <1>7, <1>8, <1>9 DEF TypeOK, Unread, Armed
<1>11. ~Busy /\ ~Busy'
  BY <1>9 DEF WatchInv, JobHasEngine, Busy
<1>12. MapFits'
  <2>1. built'.engine = a[1] /\ built'.map = d.det.heard
    BY <1>6
  <2> QED
    BY <1>4, <1>9, <2>1 DEF MapFits
<1> QED
  BY <1>9, <1>10, <1>11, <1>12 DEF WatchInv, FailsCounted, Armed, JobHasEngine, FramesFit

\* A step that leaves the rack, the adapter, the gate's memory and the job.
LEMMA StillWatch ==
    ASSUME WatchInv, TypeOK', UNCHANGED <<rack, built, changed, gate, job, stray>>,
           proc' = "down" => ~Busy
    PROVE  WatchInv'
  BY DEF WatchInv, FailsCounted, MapFits, JobHasEngine, FramesFit, Busy

LEMMA ProcessKeeps == ASSUME WatchInv, Exit \/ Redetect PROVE WatchInv'
<1>1. TypeOK
  BY DEF WatchInv
<1>2. CASE Exit
  <2>1. TypeOK'
    BY <1>1, <1>2, PumpWatchAssumption DEF Exit, TypeOK, Resting, Pump
  <2> QED
    BY <1>2, <2>1, StillWatch DEF Exit, Busy
<1>3. CASE Redetect
  <2>1. PICK d \in Detections :
            /\ spent' = spent \/ (Noisy(d.cost) /\ Spend(d.cost))
            /\ cached' \in {cached, server} /\ proc' \in {proc, "ending"}
            /\ UNCHANGED <<rack, server, built, changed, fw, gate, round, streak, job, refused, stray>>
    BY <1>3 DEF Redetect, Restart
  <2>2. spent' \in [changes : 0 .. MaxChanges, noise : 0 .. MaxNoise, jobs : 0 .. MaxJobs]
    BY <1>1, <2>1, Detected, SpendType DEF TypeOK
  <2>3. TypeOK'
    BY <1>1, <2>1, <2>2 DEF TypeOK
  <2>4. proc = "up"
    BY <1>3 DEF Redetect
  <2> QED
    BY <2>1, <2>3, <2>4, StillWatch
<1> QED
  BY <1>2, <1>3

\* The answers to the question for the model.
LEMMA SaidType ==
    ASSUME TypeOK, NEW p \in Pump, NEW s \in Said(p)
    PROVE  s[1] \in Model \cup {"none"} /\ s[2] \in Nat
  BY ClassifiedType DEF Said

LEMMA HealthType == \A p \in Pump : Health(p) \in {"ok", "garbled", "silent"}
  BY DEF Health

\* The watch moves neither the rack nor the adapter.
LEMMA WatchKeeps == ASSUME WatchInv, Watch PROVE WatchInv'
<1>1. TypeOK
  BY DEF WatchInv
<1>2. CASE BeginRound \/ Yield
  <2>1. /\ round' \in {Resting, [Resting EXCEPT !.pc = "ask"]}
        /\ UNCHANGED <<rack, server, cached, bootVars, fw, gate, streak, job, spent, refused, stray>>
    BY <1>2 DEF BeginRound, Yield
  <2>2. round' \in Rounds
    BY <2>1, RoundsType DEF Rounds
  <2>3. TypeOK'
    BY <1>1, <2>1, <2>2 DEF TypeOK, bootVars, Rounds
  <2> QED
    BY <2>1, <2>3, StillWatch DEF bootVars, WatchInv, JobHasEngine
<1>3. CASE AskHealth
  <2>1. PICK h \in {Health(round.p), "silent", "garbled"}, n \in {0, 1} :
            LET r == [round EXCEPT !.health[round.p] = h] IN
            /\ Noisy(n) /\ Spend(n)
            /\ round' = IF h = "ok" THEN [r EXCEPT !.pc = "read"] ELSE Following(r)
    BY <1>3 DEF AskHealth
  <2>2. UNCHANGED <<rack, server, cached, bootVars, fw, gate, streak, job, refused, stray>> /\ proc = "up"
    BY <1>3 DEF AskHealth
  <2>3. h \in {"ok", "garbled", "silent"} /\ round.p \in Pump
    BY <1>1, HealthType DEF TypeOK
  <2> DEFINE r == [round EXCEPT !.health[round.p] = h]
  <2>4. r \in Rounds
    BY <1>1, <2>3 DEF TypeOK, Rounds
  <2>5. round' = [r EXCEPT !.pc = "read"] \/ round' = Following(r)
    BY <2>1
  <2> HIDE DEF r
  <2>6. round' \in Rounds
    <3>1. [r EXCEPT !.pc = "read"] \in Rounds
      BY <2>4 DEF Rounds
    <3> QED
      BY <2>4, <2>5, <3>1, RoundsType
  <2>7. spent' \in [changes : 0 .. MaxChanges, noise : 0 .. MaxNoise, jobs : 0 .. MaxJobs]
    BY <1>1, <2>1, SpendType
  <2>8. TypeOK'
    BY <1>1, <2>2, <2>6, <2>7 DEF TypeOK, bootVars, Rounds
  <2> QED
    BY <2>2, <2>8, StillWatch DEF bootVars
<1>4. CASE ReadFingerprint
  <2>1. PICK s \in Said(round.p) : Noisy(s[2]) /\ Spend(s[2]) /\ Observe(round.p, s[1])
    BY <1>4 DEF ReadFingerprint
  <2>2. /\ round' = Following(round) /\ proc = "up"
        /\ UNCHANGED <<rack, server, cached, bootVars, streak, job, refused, stray>>
    BY <1>4 DEF ReadFingerprint
  <2>3. round.p \in Pump /\ s[1] \in Model \cup {"none"} /\ s[2] \in Nat
    BY <1>1, SaidType DEF TypeOK
  <2>4. spent' \in [changes : 0 .. MaxChanges, noise : 0 .. MaxNoise, jobs : 0 .. MaxJobs]
    BY <1>1, <2>1, <2>3, SpendType
  <2>5. round' \in Rounds
    BY <1>1, <2>2, RoundsType DEF TypeOK, Rounds
  <2>6. /\ fw' \in [Pump -> Model \cup {"none"}]
        /\ gate' \in [checked : SUBSET Pump, fails : [Pump -> 0 .. 3]]
        /\ \A p \in Pump \ gate'.checked : gate'.fails[p] <= 2
    BY <1>1, <2>1, <2>3 DEF Observe, TypeOK, WatchInv, FailsCounted
  <2>7. TypeOK'
    BY <1>1, <2>2, <2>4, <2>5, <2>6 DEF TypeOK, bootVars, Rounds
  <2> QED
    BY <2>2, <2>6, <2>7 DEF bootVars, WatchInv, FailsCounted, MapFits, JobHasEngine, FramesFit, Busy
<1>5. CASE Forget
  <2>1. TypeOK'
    BY <1>1, <1>5 DEF Forget, TypeOK, Remembered, bootVars
  <2> QED
    BY <1>1, <1>5, <2>1, StillWatch DEF Forget, bootVars, WatchInv, JobHasEngine
<1>6. CASE Scout
  <2>1. TypeOK'
    BY <1>1, <1>6 DEF Scout, TypeOK, Restart
  <2> QED
    BY <1>1, <1>6, <2>1, StillWatch DEF Scout, Restart, WatchInv, JobHasEngine
<1>7. CASE Judge
  <2>1. streak' \in 0 .. 2 /\ proc' \in {proc, "ending"} /\ round' = Resting
        /\ UNCHANGED <<rack, server, cached, built, changed, fw, gate, job, spent, refused, stray>>
    BY <1>1, <1>7 DEF Judge, Streak, Restart, TypeOK
  <2>2. TypeOK'
    BY <1>1, <2>1, PumpWatchAssumption DEF TypeOK, Resting, Pump
  <2> QED
    BY <1>1, <2>1, <2>2, StillWatch DEF WatchInv, JobHasEngine
<1> QED
  BY <1>2, <1>3, <1>4, <1>5, <1>6, <1>7 DEF Watch

\* A job begins only with an adapter.
LEMMA BeginJobKeeps == ASSUME WatchInv, BeginJob PROVE WatchInv'
<1>1. TypeOK'
  <2>1. /\ TypeOK /\ job' = [pc |-> "gate", p |-> 1] /\ spent' = [spent EXCEPT !.jobs = @ + 1]
        /\ spent.jobs < MaxJobs
        /\ UNCHANGED <<rack, server, cached, bootVars, fw, gate, round, streak, refused, stray>>
    BY DEF WatchInv, BeginJob
  <2>2. job' \in [pc : {"none", "gate", "fire"}, p : Pump]
    BY <2>1, PumpOrder
  <2>3. spent' \in [changes : 0 .. MaxChanges, noise : 0 .. MaxNoise, jobs : 0 .. MaxJobs]
    BY <2>1, PumpWatchAssumption DEF TypeOK
  <2> QED
    BY <2>1, <2>2, <2>3 DEF TypeOK, bootVars
<1> QED
  BY <1>1 DEF WatchInv, BeginJob, bootVars, FailsCounted, MapFits, JobHasEngine, FramesFit, Busy

LEMMA OnwardType ==
    ASSUME TypeOK
    PROVE  Onward \in [pc : {"none", "gate", "fire"}, p : Pump]
<1>1. job \in [pc : {"none", "gate", "fire"}, p : Pump]
  BY DEF TypeOK
<1>2. job.p < NPumps => job.p + 1 \in Pump
  BY <1>1, PumpWatchAssumption DEF Pump
<1> QED
  BY <1>1, <1>2, PumpOrder DEF Onward, NoJob

\* The gate lets pass or refuses; it sends no frame.
LEMMA GateKeeps == ASSUME WatchInv, PassGate \/ ReadAtGate PROVE WatchInv'
<1>1. TypeOK /\ Busy
  BY DEF WatchInv, PassGate, ReadAtGate, Busy, NoJob
<1>2. CASE PassGate
  <2>1. job' = Onward /\ UNCHANGED <<rack, server, cached, bootVars, fw, gate, round, streak, spent, refused, stray>>
    BY <1>2 DEF PassGate
  <2>2. TypeOK'
    BY <1>1, <2>1, OnwardType DEF TypeOK, bootVars
  <2> QED
    BY <1>1, <2>1, <2>2 DEF bootVars, WatchInv, FailsCounted, MapFits, JobHasEngine, FramesFit
<1>3. CASE ReadAtGate
  <2>1. PICK s \in Said(job.p) :
            /\ Noisy(s[2]) /\ Spend(s[2]) /\ Read(job.p, s[1])
            /\ job' \in {Onward, NoJob} /\ refused' \subseteq refused \cup {job.p}
    BY <1>3 DEF ReadAtGate
  <2>2. /\ UNCHANGED <<rack, server, cached, bootVars, round, streak, stray>>
        /\ job.p \in built.map \ gate.checked
    BY <1>3 DEF ReadAtGate
  <2>3. job.p \in Pump /\ s[1] \in Model \cup {"none"} /\ s[2] \in Nat
    BY <1>1, SaidType DEF TypeOK
  <2>4. spent' \in [changes : 0 .. MaxChanges, noise : 0 .. MaxNoise, jobs : 0 .. MaxJobs]
    BY <1>1, <2>1, <2>3, SpendType
  <2>5. job' \in [pc : {"none", "gate", "fire"}, p : Pump]
    BY <1>1, <2>1, OnwardType, PumpWatchAssumption DEF NoJob, Pump
  <2>6. /\ fw' \in [Pump -> Model \cup {"none"}]
        /\ gate' \in [checked : SUBSET Pump, fails : [Pump -> 0 .. 3]]
        /\ \A p \in Pump \ gate'.checked : gate'.fails[p] <= 2
    <3>1. fw' \in [Pump -> Model \cup {"none"}]
      BY <1>1, <2>1, <2>3 DEF Read, TypeOK
    <3>2. gate.fails[job.p] \in 0 .. 2 /\ gate \in [checked : SUBSET Pump, fails : [Pump -> 0 .. 3]]
          /\ \A p \in Pump \ gate.checked : gate.fails[p] <= 2
      BY <1>1, <2>2, <2>3 DEF WatchInv, FailsCounted, TypeOK
    <3>3. CASE s[1] # "none"
      <4>1. gate' = [gate EXCEPT !.checked = @ \cup {job.p}]
        BY <2>1, <3>3 DEF Read
      <4> QED
        BY <2>3, <3>1, <3>2, <4>1
    <3>4. CASE s[1] = "none"
      <4>1. gate' = [checked |-> IF gate.fails[job.p] = 2 THEN gate.checked \cup {job.p} ELSE gate.checked,
                     fails |-> [gate.fails EXCEPT ![job.p] = @ + 1]]
        BY <2>1, <3>4 DEF Read
      <4> QED
        BY <2>3, <3>1, <3>2, <4>1
    <3> QED
      BY <3>3, <3>4
  <2>7. TypeOK'
    BY <1>1, <2>1, <2>2, <2>3, <2>4, <2>5, <2>6 DEF TypeOK, bootVars
  <2> QED
    BY <1>1, <2>2, <2>6, <2>7 DEF bootVars, WatchInv, FailsCounted, MapFits, JobHasEngine, FramesFit
<1> QED
  BY <1>2, <1>3

\* The frames are the adapter's: only an exchanged pump can be of another model.
LEMMA FireKeeps == ASSUME WatchInv, Fire PROVE WatchInv'
<1>1. TypeOK /\ Busy
  BY DEF WatchInv, Fire, Busy, NoJob
<1>2. /\ job' = Onward /\ UNCHANGED <<rack, server, cached, bootVars, fw, gate, round, streak, spent, refused>>
      /\ stray' = IF job.p \in built.map /\ Health(job.p) # "silent"
                     /\ Classified(rack.at[job.p]) # built.engine
                  THEN stray \cup {job.p} ELSE stray
  BY DEF Fire
<1>3. stray' \subseteq changed
  BY <1>1, <1>2 DEF WatchInv, JobHasEngine, MapFits, FramesFit
<1>4. TypeOK'
  BY <1>1, <1>2, <1>3, OnwardType DEF TypeOK, bootVars
<1> QED
  BY <1>1, <1>2, <1>3, <1>4 DEF bootVars, WatchInv, FailsCounted, MapFits, JobHasEngine, FramesFit

\* What is exchanged is in changed.
LEMMA ChangeKeeps == ASSUME WatchInv, Change PROVE WatchInv'
<1>1. TypeOK /\ ~Busy /\ spent.changes < MaxChanges
      /\ spent' = [spent EXCEPT !.changes = @ + 1]
      /\ UNCHANGED <<server, cached, proc, built, fw, gate, round, streak, job>>
  BY DEF WatchInv, Change
<1>2. PICK at \in Racks(rack.at), port \in Port :
          LET other == IF port # rack.port THEN Pump ELSE {p \in Pump : at[p] # rack.at[p]}
          IN  /\ other # {} /\ (at = rack.at \/ port = rack.port)
              /\ rack' = [at |-> at, port |-> port]
              /\ changed' = changed \cup other
              /\ refused' = refused \ other
              /\ stray' = stray \ other
  BY DEF Change
<1> DEFINE other == IF port # rack.port THEN Pump ELSE {p \in Pump : at[p] # rack.at[p]}
<1>3. /\ rack' = [at |-> at, port |-> port] /\ changed' = changed \cup other
      /\ refused' = refused \ other /\ stray' = stray \ other
  BY <1>2
<1>4. at \in [Pump -> Devices]
  BY <1>1 DEF Racks, TypeOK
<1>5. other \subseteq Pump /\ \A p \in Pump \ other : at[p] = rack.at[p]
  OBVIOUS
<1> HIDE DEF other
<1>6. spent' \in [changes : 0 .. MaxChanges, noise : 0 .. MaxNoise, jobs : 0 .. MaxJobs]
  BY <1>1, PumpWatchAssumption DEF TypeOK
<1>7. TypeOK'
  BY <1>1, <1>3, <1>4, <1>5, <1>6 DEF TypeOK
<1>8. MapFits'
  <2>1. rack'.at = at /\ built.map \subseteq Pump
    BY <1>1, <1>3 DEF TypeOK
  <2> QED
    BY <1>1, <1>3, <1>5, <2>1 DEF WatchInv, MapFits
<1> QED
  BY <1>1, <1>3, <1>7, <1>8 DEF WatchInv, FailsCounted, JobHasEngine, FramesFit, Busy

LEMMA LinkResetKeeps == ASSUME WatchInv, LinkReset PROVE WatchInv'
<1>1. /\ TypeOK /\ Noisy(1) /\ Spend(1) /\ fw' = Unread /\ gate' = Armed
      /\ UNCHANGED <<rack, server, cached, proc, changed, round, streak, job, refused, stray>>
  BY DEF WatchInv, LinkReset
<1>2. PICK port \in Port : built' = [built EXCEPT !.port = port]
  BY DEF LinkReset
<1>3. spent' \in [changes : 0 .. MaxChanges, noise : 0 .. MaxNoise, jobs : 0 .. MaxJobs]
  BY <1>1, SpendType
<1>4. TypeOK' /\ built'.engine = built.engine /\ built'.map = built.map
  BY <1>1, <1>2, <1>3 DEF TypeOK, Unread, Armed
<1> QED
  BY <1>1, <1>4 DEF WatchInv, FailsCounted, MapFits, JobHasEngine, FramesFit, Busy, Armed

LEMMA WatchStep == WatchInv /\ [Next]_vars => WatchInv'
<1> SUFFICES ASSUME WatchInv, [Next]_vars PROVE WatchInv'
  OBVIOUS
<1>1. CASE UNCHANGED vars
  BY <1>1 DEF vars, bootVars, WatchInv, TypeOK, FailsCounted, MapFits, JobHasEngine, FramesFit, Busy
<1> QED
  BY <1>1, BootKeeps, ProcessKeeps, WatchKeeps, BeginJobKeeps, GateKeeps, FireKeeps, ChangeKeeps,
     LinkResetKeeps DEF Next, Job

LEMMA WatchInvariant == Spec => []WatchInv
  BY WatchInit, WatchStep, PTL DEF Spec

\* Every variable keeps its type; an address fails the gate at most three times
\* before it passes.
THEOREM PumpWatchTypeCorrect == Spec => []TypeOK
<1>1. WatchInv => TypeOK
  BY DEF WatchInv
<1> QED
  BY <1>1, WatchInvariant, PTL

\* Whatever the server declares, the cache holds and a noisy detection hears,
\* frames of one model reach a pump of another only if it was exchanged since
\* the boot that mapped it.
THEOREM FramesFitTheRack == Spec => []FramesFit
<1>1. WatchInv => FramesFit
  BY DEF WatchInv
<1> QED
  BY <1>1, WatchInvariant, PTL
=============================================================================

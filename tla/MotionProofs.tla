---------------------------- MODULE MotionProofs ----------------------------
(***************************************************************************)
(* What a step of a job does to the liquid, for any number of pumps, ports *)
(* and retries and whatever goes wrong: a unit is drawn through the port   *)
(* of its place in the batch, and a job reported completed poured it all.  *)
(***************************************************************************)
EXTENDS Motion, TLAPS

-----------------------------------------------------------------------------
(* Types, as far as the argument needs them.                               *)

Cmd == [do : {"still", "turn", "move", "home", "stop", "ask", "set"}, to : Nat]
Motor == {Still} \cup [do : {"turn", "move", "home"}, to : Nat]
Device == [pos : Nat, port : Nat, err : Error, motor : Motor]
Code0 == Error \cup {NoAnswer}
Last == Len(Script(job.kind))
Step == [pc : {"rest", "ready", "clear", "send", "check", "ask", "halt9", "halt15", "enlist"},
         at : -2 .. Last, busy : Nat, tries : Nat, out : {"none", "ok", "failed"}]

Homings == [p : Pump, at : -2 .. 0, wait : SUBSET Pump, idle : [Pump -> Nat], heard : BOOLEAN,
            res : [Pump -> Int]]
Jobs == [kind : {"batch", "plunger"}, verdict : {"none", "completed", "interrupted", "failed"}]
Halts == [pc : {"watch", "stop", "drop"}, p : Pump]

\* How a thread counts: a step begins with nothing refused, and a command that
\* was refused is sent once more.
Counts(t) ==
    /\ t.pc # "rest" => t.out = "none"
    /\ t.pc \in {"ready", "clear", "enlist"} => t.busy = 0
    /\ t.pc = "ready" => t.at = 1
    /\ t.pc = "send" => t.busy \in {0, 2}

MotionTypes ==
    /\ pump \in [Pump -> Device] /\ poured \in [Pump -> Nat]
    /\ th \in [Pump -> Step] /\ \A p \in Pump : Counts(th[p])
    /\ homing \in Homings
    /\ halt \in Halts
    /\ job \in Jobs

-----------------------------------------------------------------------------
(* The course of a batch, for a pump s, its thread t and what it poured.   *)

\* A pump that draws its i-th unit, or back to it, is at its i-th port.
Draws(s) ==
    s.motor.do = "move" /\ s.motor.to # 0 =>
        s.motor.to \in 1 .. Full /\ s.port = Aspirations[s.motor.to] /\ s.pos >= s.motor.to - 1

\* Where a pump is when all commands before the k-th are done.
Before(k, s) ==
    /\ \A i \in 1 .. Full : k = 2 * i => s.port = Aspirations[i]
    /\ \A i \in 2 .. Full + 1 : k \in {2 * i - 1, 2 * i} => s.pos = i - 1
    /\ k = 2 * Full + 2 => s.port = OutPort

\* While it performs the k-th, and after it.
During(k, s, q) ==
    /\ \A i \in 2 .. Full + 1 : k = 2 * i - 1 => s.pos = i - 1
    /\ k = 2 * Full + 2 => s.port = OutPort /\ q + s.pos >= Full
After(k, s, q) == IF k = 2 * Full + 2 THEN q >= Full ELSE Before(k + 1, s)

\* The k-th command was accepted.
Accepted(k, s, q) ==
    \/ s.err # 0
    \/ s.motor = Batch[k] /\ During(k, s, q)
    \/ s.motor = Still /\ After(k, s, q)

Course(t, s, q) ==
    /\ Draws(s)
    /\ t.pc \in {"send", "check", "ask"} /\ t.at >= 2 => t.busy = 0
    /\ t.pc = "send" /\ t.at >= 2 => s.motor = Still /\ s.err = 0 /\ Before(t.at, s)
    /\ t.pc \in {"check", "ask"} /\ t.at >= 1 /\ t.busy \in {0, 2} => Accepted(t.at, s, q)
    /\ t.out = "ok" => q >= Full

OnCourse == job.kind = "batch" => \A p \in Pump \ hit : Course(th[p], pump[p], poured[p])

MotionInv == MotionTypes /\ NobodyLeftDriving /\ OnCourse /\ CompletedPoured

-----------------------------------------------------------------------------
(* The commands of a batch.                                                *)

LEMMA Places == Full \in Nat /\ Full >= 1 /\ \A i \in 1 .. Full : Aspirations[i] \in Nat
  BY MotionAssumption DEF Full

LEMMA Turned == ASSUME NEW n \in Nat
                PROVE  /\ Turn(n) \in Cmd /\ Turn(n).do = "turn" /\ Turn(n).to = n
                       /\ Move(n) \in Cmd /\ Move(n).do = "move" /\ Move(n).to = n
  BY DEF Turn, Move, Cmd

LEMMA OtherCommands ==
    /\ Still \in Cmd /\ Still.do = "still" /\ Still.to = 0
    /\ TR \in Cmd /\ TR.do = "stop" /\ Query \in Cmd /\ Query.do = "ask"
    /\ Setup[-1] \in Cmd /\ Setup[-1].do = "set" /\ Setup[0] \in Cmd /\ Setup[0].do = "home"
  BY DEF Still, TR, Query, Setup, Cmd

\* Turn and draw for each port in turn, then to the outlet and push.
LEMMA BatchIs ==
    /\ Len(Batch) = 2 * Full + 2
    /\ \A i \in 1 .. Full : Batch[2 * i - 1] = Turn(Aspirations[i]) /\ Batch[2 * i] = Move(i)
    /\ Batch[2 * Full + 1] = Turn(OutPort) /\ Batch[2 * Full + 2] = Move(0)
<1>0. Full \in Nat
  BY Places
<1>1. Len(Batch) = 2 * Full + 2 /\ DOMAIN Batch = 1 .. 2 * Full + 2
  BY <1>0 DEF Batch
<1>2. ASSUME NEW k \in 1 .. 2 * Full + 2
      PROVE  Batch[k] = IF k <= 2 * Full
                        THEN IF k % 2 = 1 THEN Turn(Aspirations[(k + 1) \div 2]) ELSE Move(k \div 2)
                        ELSE IF k % 2 = 1 THEN Turn(OutPort) ELSE Move(0)
  BY <1>2 DEF Batch
<1>3. ASSUME NEW i \in 1 .. Full
      PROVE  Batch[2 * i - 1] = Turn(Aspirations[i]) /\ Batch[2 * i] = Move(i)
  <2>1. /\ 2 * i - 1 \in 1 .. 2 * Full + 2 /\ 2 * i \in 1 .. 2 * Full + 2
        /\ 2 * i - 1 <= 2 * Full /\ 2 * i <= 2 * Full /\ (2 * i - 1) % 2 = 1
        /\ (2 * i - 1 + 1) \div 2 = i /\ (2 * i) % 2 = 0 /\ (2 * i) \div 2 = i
    BY <1>0
  <2>2. Batch[2 * i - 1] = Turn(Aspirations[(2 * i - 1 + 1) \div 2])
    BY <1>2, <2>1
  <2>3. Batch[2 * i] = Move((2 * i) \div 2)
    BY <1>2, <2>1
  <2> QED
    BY <2>1, <2>2, <2>3
<1>4. Batch[2 * Full + 1] = Turn(OutPort) /\ Batch[2 * Full + 2] = Move(0)
  <2>1. /\ 2 * Full + 1 \in 1 .. 2 * Full + 2 /\ 2 * Full + 2 \in 1 .. 2 * Full + 2
        /\ ~(2 * Full + 1 <= 2 * Full) /\ ~(2 * Full + 2 <= 2 * Full)
        /\ (2 * Full + 1) % 2 = 1 /\ (2 * Full + 2) % 2 = 0
    BY <1>0
  <2> QED
    BY <1>2, <2>1
<1> QED
  BY <1>1, <1>3, <1>4

\* Every command of a batch is one of these.
LEMMA Parity ==
    ASSUME NEW k \in 1 .. 2 * Full + 2
    PROVE  (\E i \in 1 .. Full : k = 2 * i - 1 \/ k = 2 * i) \/ k = 2 * Full + 1 \/ k = 2 * Full + 2
<1>0. Full \in Nat
  BY Places
<1>1. PICK n \in Nat : k = 2 * n \/ k = 2 * n - 1
  <2>1. (k + 1) \div 2 \in Nat /\ (k = 2 * ((k + 1) \div 2) \/ k = 2 * ((k + 1) \div 2) - 1)
    BY <1>0
  <2> QED
    BY <2>1
<1>2. CASE n \in 1 .. Full
  BY <1>1, <1>2
<1>3. CASE n \notin 1 .. Full
  BY <1>0, <1>1, <1>3
<1> QED
  BY <1>2, <1>3

-----------------------------------------------------------------------------
(* A pump that moves, and one that is spoken to.                           *)

\* What Mechanics makes of a pump, and of what it poured.
Moved(s, r) ==
    LET pos == CASE s.motor.do = "turn" -> s.pos
                 [] s.motor.do = "home" -> IF s.pos = 0 THEN 0 ELSE s.pos - 1
                 [] OTHER -> IF s.pos < s.motor.to THEN s.pos + 1
                             ELSE IF s.pos > s.motor.to THEN s.pos - 1 ELSE s.pos
        end == CASE s.motor.do = "turn" -> TRUE
                 [] s.motor.do = "home" -> pos = 0
                 [] OTHER -> pos = s.motor.to
    IN  /\ r \in Device /\ r.pos = pos /\ r.err = s.err
        /\ r.port = (IF s.motor.do = "turn" THEN s.motor.to ELSE s.port)
        /\ r.motor = (IF end THEN Still ELSE s.motor)
Poured(s, q, r) == IF s.motor = Move(0) /\ s.port = OutPort THEN q + (s.pos - r.pos) ELSE q

LEMMA MechanicsIs ==
    ASSUME MotionTypes, NEW p \in Pump, Mechanics(p)
    PROVE  /\ pump' \in [Pump -> Device] /\ \A q \in Pump \ {p} : pump'[q] = pump[q]
           /\ Busy(pump[p]) /\ Moved(pump[p], pump'[p])
           /\ poured' \in [Pump -> Nat] /\ \A q \in Pump \ {p} : poured'[q] = poured[q]
           /\ poured'[p] = Poured(pump[p], poured[p], pump'[p]) /\ poured'[p] >= poured[p]
<1> DEFINE s == pump[p]
           pos == CASE s.motor.do = "turn" -> s.pos
                 [] s.motor.do = "home" -> IF s.pos = 0 THEN 0 ELSE s.pos - 1
                 [] OTHER -> IF s.pos < s.motor.to THEN s.pos + 1
                             ELSE IF s.pos > s.motor.to THEN s.pos - 1 ELSE s.pos
           end == CASE s.motor.do = "turn" -> TRUE
                 [] s.motor.do = "home" -> pos = 0
                 [] OTHER -> pos = s.motor.to
           port == IF s.motor.do = "turn" THEN s.motor.to ELSE s.port
           motor == IF end THEN Still ELSE s.motor
<1>1. s \in Device /\ s.pos \in Nat /\ s.port \in Nat /\ s.motor \in Motor /\ s.motor.to \in Nat
      /\ pump \in [Pump -> Device] /\ poured \in [Pump -> Nat]
  BY OtherCommands DEF MotionTypes, Device, Motor
<1>2. pump' = [pump EXCEPT ![p].pos = pos, ![p].port = port, ![p].motor = motor]
  BY DEF Mechanics
<1>3. pos \in Nat /\ port \in Nat /\ motor \in Motor
  BY <1>1, OtherCommands DEF Motor
<1>4. poured' = IF s.motor = Move(0) /\ s.port = OutPort
                THEN [poured EXCEPT ![p] = @ + (s.pos - pos)] ELSE poured
  BY DEF Mechanics
<1>5. s.motor = Move(0) => pos <= s.pos
  BY <1>1, Turned
<1>6. /\ Busy(s) /\ pos = (CASE s.motor.do = "turn" -> s.pos
                 [] s.motor.do = "home" -> IF s.pos = 0 THEN 0 ELSE s.pos - 1
                 [] OTHER -> IF s.pos < s.motor.to THEN s.pos + 1
                             ELSE IF s.pos > s.motor.to THEN s.pos - 1 ELSE s.pos)
      /\ motor = (IF (CASE s.motor.do = "turn" -> TRUE
                 [] s.motor.do = "home" -> pos = 0
                 [] OTHER -> pos = s.motor.to) THEN Still ELSE s.motor)
      /\ port = (IF s.motor.do = "turn" THEN s.motor.to ELSE s.port)
  BY DEF Mechanics
<1> HIDE DEF pos, port, motor
<1>7. pump'[p] = [s EXCEPT !.pos = pos, !.port = port, !.motor = motor]
      /\ \A q \in Pump \ {p} : pump'[q] = pump[q]
  <2>1. pump' = [pump EXCEPT ![p] = [[[pump[p] EXCEPT !.pos = pos] EXCEPT !.port = port] EXCEPT !.motor = motor]]
    BY <1>1, <1>2
  <2> QED
    BY <1>1, <2>1
<1>8. /\ pump'[p].pos = pos /\ pump'[p].port = port /\ pump'[p].motor = motor /\ pump'[p].err = s.err
      /\ pump'[p] \in Device
  BY <1>1, <1>3, <1>7 DEF Device
<1>9. pump' \in [Pump -> Device]
  BY <1>1, <1>2, <1>7, <1>8
<1>10. Moved(s, pump'[p])
  BY <1>6, <1>8 DEF Moved
<1>11. CASE s.motor = Move(0) /\ s.port = OutPort
  <2>1. poured[p] + (s.pos - pos) \in Nat /\ poured[p] + (s.pos - pos) >= poured[p]
    BY <1>1, <1>3, <1>5, <1>11
  <2> QED
    BY <1>1, <1>4, <1>6, <1>7, <1>8, <1>9, <1>10, <1>11, <2>1 DEF Poured
<1>12. CASE ~(s.motor = Move(0) /\ s.port = OutPort)
  <2>1. poured' = poured /\ poured[p] \in Nat /\ Poured(s, poured[p], pump'[p]) = poured[p]
    BY <1>1, <1>4, <1>12 DEF Poured
  <2> QED
    BY <1>1, <1>6, <1>7, <1>9, <1>10, <2>1
<1> QED
  BY <1>11, <1>12

\* A pump that goes on stays on its course.
LEMMA MovedDraws ==
    ASSUME NEW s \in Device, NEW r, Moved(s, r), Draws(s), Busy(s)
    PROVE  Draws(r) /\ (r.pos > s.pos => s.port = Aspirations[r.pos])
<1>1. /\ s.pos \in Nat /\ r.pos \in Nat /\ Full \in Nat
      /\ s.motor \in [do : {"turn", "move", "home"}, to : Nat] /\ s.motor.to \in Nat
  BY Places DEF Moved, Device, Motor, Busy
<1>2. r.motor \in {Still, s.motor}
  BY DEF Moved
<1>3. CASE s.motor.do = "move"
  <2>1. r.port = s.port /\ r.pos = IF s.pos < s.motor.to THEN s.pos + 1
                                  ELSE IF s.pos > s.motor.to THEN s.pos - 1 ELSE s.pos
    BY <1>3 DEF Moved
  <2>2. r.pos > s.pos => r.pos = s.motor.to /\ s.motor.to # 0
    BY <1>1, <1>3, <2>1 DEF Draws
  <2>3. s.motor.to # 0 => r.pos >= s.motor.to - 1
    BY <1>1, <1>3, <2>1 DEF Draws
  <2> QED
    BY <1>1, <1>2, <1>3, <2>1, <2>2, <2>3, OtherCommands DEF Draws
<1>4. CASE s.motor.do # "move"
  <2>1. Draws(r)
    BY <1>2, <1>4, OtherCommands DEF Draws
  <2>2. ~(r.pos > s.pos)
    BY <1>1, <1>4 DEF Moved
  <2> QED
    BY <2>1, <2>2
<1> QED
  BY <1>3, <1>4

-----------------------------------------------------------------------------
(* What a transaction makes of a pump.                                     *)

LEMMA PerformsIs ==
    ASSUME NEW s \in Device, NEW c \in Cmd, c.do # "still"
    PROVE  /\ Performs(s, c) \in Device /\ Code(s, c) \in Error
           /\ Performs(s, c).pos = s.pos /\ Performs(s, c).port = s.port
           /\ Performs(s, c).motor \in {s.motor, Still, c}
           /\ c.do = "ask" => Performs(s, c) = s /\ Code(s, c) = s.err
           /\ c.do = "stop" => Performs(s, c).motor = Still
           /\ c.do = "set" => Performs(s, c).motor = s.motor
           /\ c.do \in {"turn", "move"} =>
                 /\ Code(s, c) = 0 <=> s.motor = Still /\ s.err = 0
                 /\ Code(s, c) = 0 => Performs(s, c).motor = c /\ Performs(s, c).err = 0
                 /\ Code(s, c) # 0 => Performs(s, c) = s
<1>1. s.err \in Error /\ s.motor \in Motor /\ Code(s, c) \in Error
  BY DEF Device, Error, Code
<1>2. CASE c.do = "stop"
  BY <1>1, <1>2 DEF Performs, Device, Error, Motor
<1>3. CASE c.do \in {"ask", "set"} \/ (c.do # "stop" /\ Code(s, c) # 0)
  BY <1>1, <1>3 DEF Performs, Code, Refuses, Busy
<1>4. CASE c.do \in {"turn", "move", "home"} /\ Code(s, c) = 0
  <2>1. c \in Motor
    BY <1>4 DEF Cmd, Motor
  <2>2. Performs(s, c) = [s EXCEPT !.motor = c, !.err = IF c.do = "home" THEN 0 ELSE @]
    BY <1>4 DEF Performs
  <2>3. /\ Performs(s, c) \in Device /\ Performs(s, c).pos = s.pos /\ Performs(s, c).port = s.port
        /\ Performs(s, c).motor = c /\ Performs(s, c).err = IF c.do = "home" THEN 0 ELSE s.err
    BY <1>1, <2>1, <2>2 DEF Device, Error
  <2>4. c.do \in {"turn", "move"} => s.motor = Still /\ s.err = 0
    BY <1>1, <1>4 DEF Code, Refuses, Busy, Error
  <2> QED
    BY <1>1, <1>4, <2>3, <2>4
<1> QED
  BY <1>2, <1>3, <1>4 DEF Cmd

LEMMA OutcomeIs ==
    ASSUME NEW s \in Device, NEW c \in Cmd, c.do # "still", NEW o \in Outcomes(s, c)
    PROVE  /\ o.s \in Device /\ o.s.pos = s.pos /\ o.s.port = s.port /\ o.code \in Code0
           /\ o.s \in {s, Performs(s, c)} /\ o.s.motor \in {s.motor, Still, c}
           /\ o.code # NoAnswer => o.s = Performs(s, c) /\ o.code = Code(s, c)
           /\ o.net = "gone" => o.code = NoAnswer
<1>1. /\ o.s \in {s, Performs(s, c)} /\ o.code \in {Code(s, c), NoAnswer}
      /\ o.code # NoAnswer => o.s = Performs(s, c)
      /\ o.net = "gone" => o.code = NoAnswer
  BY DEF Outcomes
<1> QED
  BY <1>1, PerformsIs DEF Code0

\* Only a command to move lets a pump draw.
LEMMA SpokenDraws ==
    ASSUME NEW s \in Device, NEW c \in Cmd, c.do \notin {"still", "move"}, NEW r \in Device,
           r.pos = s.pos, r.port = s.port, r.motor \in {s.motor, Still, c}, Draws(s)
    PROVE  Draws(r)
  BY OtherCommands DEF Draws

\* A pump goes on to the end of its command, and it stays accepted.
LEMMA MovedAccepted ==
    ASSUME NEW s \in Device, NEW q \in Nat, NEW r, NEW w, Moved(s, r), w = Poured(s, q, r), Busy(s),
           NEW k \in 1 .. 2 * Full + 2, Accepted(k, s, q)
    PROVE  Accepted(k, r, w)
<1>0. /\ s.pos \in Nat /\ r.pos \in Nat /\ Full \in Nat /\ Full >= 1 /\ s.motor # Still
      /\ \A i \in 1 .. Full : Aspirations[i] \in Nat
  BY Places DEF Moved, Device, Busy
<1>1. CASE s.err # 0
  BY <1>1 DEF Moved, Accepted
<1>2. CASE s.err = 0
  <2>1. s.motor = Batch[k] /\ During(k, s, q)
    BY <1>0, <1>2 DEF Accepted
  <2>2. ASSUME NEW i \in 1 .. Full, k = 2 * i - 1 PROVE Accepted(k, r, w)
    <3>1. s.motor.do = "turn" /\ s.motor.to = Aspirations[i]
      BY <1>0, <2>1, <2>2, BatchIs, Turned
    <3>2. r.motor = Still /\ r.port = Aspirations[i] /\ r.pos = s.pos
      BY <3>1 DEF Moved
    <3>3. \A j \in 2 .. Full + 1 : k + 1 \in {2 * j - 1, 2 * j} => s.pos = j - 1
      BY <1>0, <2>1, <2>2 DEF During
    <3>4. k + 1 = 2 * i /\ k # 2 * Full + 2 /\ k + 1 # 2 * Full + 2 /\ \A j \in 1 .. Full : k + 1 = 2 * j => j = i
      BY <1>0, <2>2
    <3> QED
      BY <3>2, <3>3, <3>4 DEF Accepted, After, Before
  <2>3. ASSUME NEW i \in 1 .. Full, k = 2 * i PROVE Accepted(k, r, w)
    <3>1. s.motor.do = "move" /\ s.motor.to = i
      BY <1>0, <2>1, <2>3, BatchIs, Turned
    <3>2. r.motor = (IF r.pos = i THEN Still ELSE Batch[k])
      BY <2>1, <3>1 DEF Moved
    <3>3. /\ k # 2 * Full + 2 /\ k + 1 # 2 * Full + 2 /\ \A j \in 1 .. Full : k + 1 # 2 * j
          /\ \A j \in 2 .. Full + 1 : k # 2 * j - 1
          /\ \A j \in 2 .. Full + 1 : k + 1 \in {2 * j - 1, 2 * j} => j - 1 = i
      BY <1>0, <2>3
    <3> QED
      BY <3>2, <3>3 DEF Accepted, After, Before, During
  <2>4. CASE k = 2 * Full + 1
    <3>1. s.motor.do = "turn" /\ s.motor.to = OutPort
      BY <2>1, <2>4, BatchIs, Turned, MotionAssumption
    <3>2. r.motor = Still /\ r.port = OutPort /\ r.pos = s.pos
      BY <3>1 DEF Moved
    <3>3. \A j \in 2 .. Full + 1 : k + 1 \in {2 * j - 1, 2 * j} => s.pos = j - 1
      BY <1>0, <2>1, <2>4 DEF During
    <3>4. k # 2 * Full + 2 /\ \A j \in 1 .. Full : k + 1 # 2 * j
      BY <1>0, <2>4
    <3> QED
      BY <3>2, <3>3, <3>4 DEF Accepted, After, Before
  <2>5. CASE k = 2 * Full + 2
    <3>1. s.motor = Move(0) /\ s.motor.do = "move" /\ s.motor.to = 0 /\ s.port = OutPort /\ q + s.pos >= Full
      BY <2>1, <2>5, BatchIs, Turned DEF During
    <3>2. r.pos = (IF 0 < s.pos THEN s.pos - 1 ELSE s.pos) /\ r.port = OutPort
          /\ r.motor = (IF r.pos = 0 THEN Still ELSE Batch[k])
      BY <1>0, <2>1, <3>1 DEF Moved
    <3>3. w + r.pos >= Full
      BY <1>0, <3>1, <3>2 DEF Poured
    <3>4. \A j \in 2 .. Full + 1 : k # 2 * j - 1
      BY <1>0, <2>5
    <3>5. w \in Nat
      <4>1. w = q + (s.pos - r.pos)
        BY <3>1 DEF Poured
      <4>2. r.pos <= s.pos
        BY <1>0, <3>2
      <4> QED
        BY <1>0, <4>1, <4>2
    <3> QED
      BY <1>0, <2>5, <3>2, <3>3, <3>4, <3>5 DEF Accepted, After, During
  <2> QED
    BY <2>2, <2>3, <2>4, <2>5, Parity
<1> QED
  BY <1>1, <1>2

-----------------------------------------------------------------------------
(* The thread of a step.                                                   *)

LEMMA LastIs ==
    ASSUME MotionTypes
    PROVE  /\ Last \in Nat /\ Last >= 2 /\ Last = Len(Script(job.kind))
           /\ job.kind = "batch" => Script(job.kind) = Batch /\ Last = 2 * Full + 2
           /\ \A i \in 1 .. Last : Script(job.kind)[i] \in Cmd /\ Script(job.kind)[i].do \in {"turn", "move"}
<1>0. Full \in Nat /\ Full >= 1 /\ AirPort \in Nat /\ OutPort \in Nat
  BY Places, MotionAssumption
<1>1. CASE job.kind = "batch"
  <2>1. Script(job.kind) = Batch /\ Last = 2 * Full + 2
    BY <1>1, BatchIs DEF Last, Script
  <2>2. ASSUME NEW k \in 1 .. 2 * Full + 2 PROVE Batch[k] \in Cmd /\ Batch[k].do \in {"turn", "move"}
    <3>1. ASSUME NEW i \in 1 .. Full PROVE Batch[2 * i - 1] = Turn(Aspirations[i]) /\ Batch[2 * i] = Move(i)
                                          /\ Aspirations[i] \in Nat /\ i \in Nat
      BY <1>0, BatchIs, Places
    <3>2. CASE \E i \in 1 .. Full : k = 2 * i - 1 \/ k = 2 * i
      BY <3>1, <3>2, Turned
    <3>3. CASE k = 2 * Full + 1
      BY <1>0, <3>3, BatchIs, Turned
    <3>4. CASE k = 2 * Full + 2
      <4>1. Batch[k] = Move(0)
        BY <3>4, BatchIs
      <4> QED
        BY <4>1, Turned
    <3> QED
      BY <3>2, <3>3, <3>4, Parity
  <2> QED
    BY <1>0, <2>1, <2>2 DEF Last
<1>2. CASE job.kind # "batch"
  <2>1. Script(job.kind) = Plunger /\ Len(Plunger) = 2 /\ Plunger[1] = Turn(AirPort) /\ Plunger[2] = Move(Full)
    BY <1>2 DEF Script, Plunger
  <2> QED
    BY <1>0, <1>2, <2>1, Turned DEF Last
<1> QED
  BY <1>1, <1>2

LEMMA CommandIs ==
    ASSUME MotionTypes, NEW k \in -2 .. Last
    PROVE  /\ Command(job.kind, k) \in Cmd /\ Command(job.kind, k).do \notin {"still", "stop", "ask"}
           /\ k < 1 => Command(job.kind, k).do # "move"
           /\ k >= 1 => Command(job.kind, k) = Script(job.kind)[k]
<1>0. OutPort \in Nat /\ Last \in Nat
  BY LastIs, MotionAssumption
<1>1. CASE k = -2
  BY <1>0, <1>1, Turned DEF Command, Park
<1>2. CASE k \in {-1, 0}
  BY <1>2, OtherCommands DEF Command, Park
<1>3. CASE k >= 1
  <2>1. k # Park /\ k \notin {-1, 0} /\ k \in 1 .. Last
    BY <1>0, <1>3 DEF Park
  <2>2. Command(job.kind, k) = Script(job.kind)[k]
    BY <2>1 DEF Command
  <2> QED
    BY <1>3, <2>1, <2>2, LastIs
<1> QED
  BY <1>0, <1>1, <1>2, <1>3

LEMMA RestingIs ==
    ASSUME MotionTypes
    PROVE  /\ Resting \in Step /\ Counts(Resting) /\ Resting.pc = "rest" /\ Resting.out = "none"
           /\ Resting.at = 1 /\ Resting.busy = 0
  BY LastIs DEF Resting, Step, Counts

\* A step that is tried again or given up owes nothing.
LEMMA FailedIs ==
    ASSUME MotionTypes, NEW t \in Step, Counts(t), t.pc # "rest", NEW code
    PROVE  /\ Failed(t, code) \in Step /\ Counts(Failed(t, code))
           /\ Failed(t, code).pc \in {"rest", "ready"} /\ Failed(t, code).out # "ok"
<1>1. t.at \in Int /\ t.busy \in Nat /\ t.tries \in Nat /\ Last \in Nat /\ 1 \in -2 .. Last /\ t.out = "none"
  BY LastIs DEF Step, Counts
<1>2. CASE t.at = Park
  BY <1>2, RestingIs DEF Failed
<1>3. CASE Failed(t, code) = [t EXCEPT !.pc = "ready", !.at = 1, !.busy = 0, !.tries = @ + 1]
  <2> DEFINE r == [t EXCEPT !.pc = "ready", !.at = 1, !.busy = 0, !.tries = @ + 1]
  <2>1. t.tries + 1 \in Nat
    BY <1>1
  <2>4. r.pc = "ready" /\ r.at = 1 /\ r.busy = 0 /\ r.out = t.out
    BY DEF Step
  <2>5. r \in Step
    BY <1>1, <2>1 DEF Step
  <2> HIDE DEF r
  <2>2. Counts(r)
    BY <1>1, <2>4 DEF Counts
  <2>3. Failed(t, code) = r
    BY <1>3 DEF r
  <2> QED
    BY <1>1, <2>2, <2>3, <2>4, <2>5
<1>4. CASE Failed(t, code) = [t EXCEPT !.pc = "rest", !.busy = 0, !.out = "failed"]
  <2> DEFINE r == [t EXCEPT !.pc = "rest", !.busy = 0, !.out = "failed"]
  <2>1. r.pc = "rest" /\ r.out = "failed" /\ r \in Step
    BY <1>1 DEF Step
  <2> HIDE DEF r
  <2>2. Counts(r)
    BY <2>1 DEF Counts
  <2>3. Failed(t, code) = r
    BY <1>4 DEF r
  <2> QED
    BY <2>1, <2>2, <2>3
<1> QED
  BY <1>2, <1>3, <1>4 DEF Failed

LEMMA RaisedIs ==
    ASSUME MotionTypes, NEW t \in Step, Counts(t), t.pc # "rest"
    PROVE  /\ Raised(t) \in Step /\ Counts(Raised(t))
           /\ Raised(t).pc \in {"rest", "ready"} /\ Raised(t).out # "ok"
<1>1. CASE t.at = Park
  <2>1. Raised(t) = [Resting EXCEPT !.out = "failed"]
    BY <1>1 DEF Raised
  <2> QED
    BY <2>1, RestingIs DEF Step, Counts
<1>2. CASE t.at # Park
  BY <1>2, FailedIs DEF Raised
<1> QED
  BY <1>1, <1>2

\* After a command comes the next one, and after the last one the end.
LEMMA AdvanceIs ==
    ASSUME MotionTypes, NEW t \in Step, Counts(t), t.pc # "rest"
    PROVE  /\ Advance(t) \in Step /\ Counts(Advance(t))
           /\ Advance(t).pc \in {"rest", "send", "enlist"}
           /\ t.at < 1 => Advance(t).out # "ok" /\ (Advance(t).pc = "send" => Advance(t).at < 1)
           /\ t.at >= 1 /\ t.at < Last =>
                 Advance(t).pc = "send" /\ Advance(t).at = t.at + 1 /\ Advance(t).busy = 0 /\ Advance(t).out = "none"
           /\ t.at = Last => Advance(t).pc = "rest"
<1>1. t.at \in -2 .. Last /\ t.busy \in Nat /\ t.tries \in Nat /\ Last \in Nat /\ Last >= 2 /\ t.out = "none"
  BY LastIs DEF Step, Counts
<1>a. Last = Len(Script(job.kind))
  BY LastIs
<1>2. CASE t.at = Park
  <2>1. Advance(t) = Resting
    BY <1>1, <1>2, <1>a DEF Advance, Park
  <2> QED
    BY <1>1, <1>2, <2>1, RestingIs DEF Park
<1>3. CASE t.at = 0
  <2> DEFINE r == [t EXCEPT !.pc = "enlist", !.busy = 0]
  <2>1. Advance(t) = r
    BY <1>1, <1>3, <1>a DEF Advance, Park
  <2>2. r.pc = "enlist" /\ r.busy = 0 /\ r.out = t.out /\ r \in Step
    BY <1>1 DEF Step
  <2> HIDE DEF r
  <2>3. Counts(r)
    BY <1>1, <2>2 DEF Counts
  <2> QED
    BY <1>1, <1>3, <2>1, <2>2, <2>3
<1>4. CASE t.at = Last
  <2> DEFINE r == [t EXCEPT !.pc = "rest", !.busy = 0, !.out = "ok"]
  <2>1. Advance(t) = r
    BY <1>1, <1>4, <1>a DEF Advance, Park
  <2>2. r.pc = "rest" /\ r \in Step
    BY <1>1 DEF Step
  <2> HIDE DEF r
  <2>3. Counts(r)
    BY <2>2 DEF Counts
  <2> QED
    BY <1>1, <1>4, <2>1, <2>2, <2>3
<1>5. CASE t.at \notin {Park, 0, Last}
  <2> DEFINE r == [t EXCEPT !.pc = "send", !.busy = 0, !.at = @ + 1]
  <2>1. Advance(t) = r
    BY <1>1, <1>5, <1>a DEF Advance, Park
  <2>2. t.at + 1 \in -2 .. Last /\ (t.at < 1 => t.at + 1 < 1)
    BY <1>1, <1>5 DEF Park
  <2>3. r.pc = "send" /\ r.busy = 0 /\ r.at = t.at + 1 /\ r.out = t.out /\ r \in Step
    BY <1>1, <2>2 DEF Step
  <2> HIDE DEF r
  <2>4. Counts(r)
    BY <1>1, <2>3 DEF Counts
  <2> QED
    BY <1>1, <1>5, <2>1, <2>2, <2>3, <2>4
<1> QED
  BY <1>2, <1>3, <1>4, <1>5

\* A thread that is not in a command of the batch owes nothing.
LEMMA OwesNothing ==
    ASSUME NEW t, NEW s, NEW q, Draws(s), t.out # "ok",
           t.pc \notin {"send", "check", "ask"} \/ (t.at \in Int /\ t.at < 1)
    PROVE  Course(t, s, q)
  BY DEF Course

\* What is made of the answer to a command.
LEMMA SettleIs ==
    ASSUME MotionTypes, NEW t \in Step, Counts(t), t.pc = "send", NEW o, o.code \in Code0
    PROVE  /\ Settle(t, o) \in Step /\ Counts(Settle(t, o)) /\ Settle(t, o).out # "ok"
           /\ Settle(t, o).pc \in {"rest", "ready", "enlist", "send", "check"}
           /\ t.at < 1 => Settle(t, o).at < 1 \/ Settle(t, o).pc \notin {"send", "check"}
           /\ t.at >= 1 => Settle(t, o).pc # "send"
           /\ t.at >= 1 /\ Settle(t, o).pc = "check" =>
                 /\ Settle(t, o).at = t.at /\ o.code \in {0, NoAnswer, 15}
                 /\ o.code # 15 => Settle(t, o).busy = t.busy
                 /\ o.code = 15 => Settle(t, o).busy = t.busy + 1
                 /\ job.kind = "batch" => o.code # NoAnswer
<1>1. /\ t.at \in -2 .. Last /\ t.busy \in Nat /\ t.busy + 1 \in Nat /\ t.tries \in Nat /\ t.out = "none"
      /\ Last \in Nat /\ Last >= 2
  BY LastIs DEF Step, Counts
<1>2. CASE Settle(t, o) = Raised(t)
  BY <1>2, RaisedIs
<1>3. CASE Settle(t, o) = Failed(t, NoAnswer) \/ Settle(t, o) = Failed(t, o.code)
  BY <1>3, FailedIs
<1>4. CASE ~Unheard(t, o) /\ o.code \in {0, NoAnswer} /\ Polled(t.at) /\ Settle(t, o) = [t EXCEPT !.pc = "check"]
  <2> DEFINE r == [t EXCEPT !.pc = "check"]
  <2>1. r.pc = "check" /\ r.at = t.at /\ r.busy = t.busy /\ r.out = t.out /\ r \in Step
    BY <1>1 DEF Step
  <2>2. Settle(t, o) = r
    BY <1>4
  <2> HIDE DEF r
  <2>3. Counts(r)
    BY <1>1, <2>1 DEF Counts
  <2>4. t.at >= 1 /\ job.kind = "batch" => o.code # NoAnswer
    BY <1>1, <1>4 DEF Unheard, Tolerant, Park
  <2>5. o.code # 15
    BY <1>4 DEF NoAnswer
  <2> QED
    BY <1>1, <1>4, <2>1, <2>2, <2>3, <2>4, <2>5
<1>5. CASE o.code \in {0, NoAnswer} /\ ~Polled(t.at) /\ Settle(t, o) = Advance(t)
  <2>1. t.at = -1
    BY <1>5 DEF Polled
  <2> QED
    BY <1>1, <1>5, <2>1, AdvanceIs
<1>6. CASE o.code = 15 /\ Settle(t, o) = [t EXCEPT !.pc = "check", !.busy = @ + 1]
  <2> DEFINE r == [t EXCEPT !.pc = "check", !.busy = @ + 1]
  <2>1. r.pc = "check" /\ r.at = t.at /\ r.busy = t.busy + 1 /\ r.out = t.out
    BY DEF Step
  <2>2. r \in Step
    BY <1>1 DEF Step
  <2>3. Settle(t, o) = r
    BY <1>6
  <2> HIDE DEF r
  <2>4. Counts(r)
    BY <1>1, <2>1 DEF Counts
  <2>5. o.code # NoAnswer
    BY <1>6 DEF NoAnswer
  <2> QED
    BY <1>1, <1>6, <2>1, <2>2, <2>3, <2>4, <2>5
<1>7. \/ Settle(t, o) \in {Raised(t), Failed(t, NoAnswer), Failed(t, o.code)}
      \/ ~Unheard(t, o) /\ o.code \in {0, NoAnswer} /\ Polled(t.at) /\ Settle(t, o) = [t EXCEPT !.pc = "check"]
      \/ o.code \in {0, NoAnswer} /\ ~Polled(t.at) /\ Settle(t, o) = Advance(t)
      \/ o.code = 15 /\ Settle(t, o) = [t EXCEPT !.pc = "check", !.busy = @ + 1]
  <2>1. o.code = 15 => o.code \notin {0, NoAnswer}
    BY DEF NoAnswer
  <2> QED
    BY <2>1 DEF Settle
<1> QED
  BY <1>2, <1>3, <1>4, <1>5, <1>6, <1>7

\* A command that is sent is the next one, and finds the pump in its place.
LEMMA SentOnCourse ==
    ASSUME MotionTypes, job.kind = "batch", NEW t \in Step, Counts(t), t.pc = "send",
           NEW s \in Device, NEW q \in Nat, Course(t, s, q),
           NEW o \in Outcomes(s, Command(job.kind, t.at))
    PROVE  Course(Settle(t, o), o.s, q)
<1> DEFINE c == Command(job.kind, t.at)
           r == Settle(t, o)
<1>1. /\ t.at \in -2 .. Last /\ t.at \in Int /\ Last = 2 * Full + 2 /\ Full \in Nat /\ Full >= 1
      /\ t.busy \in {0, 2} /\ s.pos \in Nat /\ s.err \in Error
  BY LastIs, Places DEF Step, Counts, Device
<1>2. /\ c \in Cmd /\ c.do \notin {"still", "stop", "ask"} /\ (t.at < 1 => c.do # "move")
      /\ (t.at >= 1 => c = Batch[t.at])
  BY <1>1, CommandIs, LastIs
<1>3. /\ o.s \in Device /\ o.s.pos = s.pos /\ o.s.port = s.port /\ o.code \in Code0
      /\ o.s.motor \in {s.motor, Still, c}
      /\ o.code # NoAnswer => o.s = Performs(s, c) /\ o.code = Code(s, c)
  BY <1>2, OutcomeIs
<1>4. /\ r \in Step /\ r.out # "ok" /\ r.pc \in {"rest", "ready", "enlist", "send", "check"}
      /\ t.at < 1 => r.at < 1 \/ r.pc \notin {"send", "check"}
      /\ t.at >= 1 => r.pc # "send"
      /\ t.at >= 1 /\ r.pc = "check" =>
                 /\ r.at = t.at /\ o.code \in {0, NoAnswer, 15}
                 /\ o.code # 15 => r.busy = t.busy
                 /\ o.code = 15 => r.busy = t.busy + 1
                 /\ o.code # NoAnswer
  BY <1>3, SettleIs
<1>5. Draws(s) /\ (t.at >= 2 => t.busy = 0 /\ s.motor = Still /\ s.err = 0 /\ Before(t.at, s))
  BY DEF Course
<1> HIDE DEF r, c
<1>8. c.do # "move" => Draws(o.s)
  <2>1. c.do # "move" => c.do \notin {"still", "move"}
    BY <1>2
  <2> QED
    BY <1>2, <1>3, <1>5, <2>1, SpokenDraws
<1>9. c.do = "move" /\ c.to = 0 => Draws(o.s)
  <2>1. Draws(s) /\ o.s.pos = s.pos /\ o.s.port = s.port /\ o.s.motor \in {s.motor, Still, c}
    BY <1>3, <1>5
  <2> QED
    BY <2>1, OtherCommands DEF Draws
<1>6. CASE t.at < 1
  <2>1. Draws(o.s)
    BY <1>2, <1>6, <1>8
  <2>2. r.at \in Int
    BY <1>1, <1>4 DEF Step
  <2>3. Course(r, o.s, q)
    BY <1>4, <1>6, <2>1, <2>2, OwesNothing
  <2> QED
    BY <2>3 DEF r
<1>7. CASE t.at >= 1
  <2>1. t.at \in 1 .. 2 * Full + 2
    BY <1>1, <1>7
  <2>2. c = Batch[t.at] /\ c.do \in {"turn", "move"}
    BY <1>1, <1>2, <1>7, <2>1, LastIs
  <2>3. ASSUME NEW i \in 1 .. Full, t.at = 2 * i - 1 PROVE Draws(o.s)
    <3>1. c.do = "turn"
      <4>1. c = Turn(Aspirations[i]) /\ Aspirations[i] \in Nat
        BY <2>2, <2>3, BatchIs, Places
      <4> QED
        BY <4>1, Turned
    <3> QED
      BY <1>8, <3>1
  <2>4. ASSUME NEW i \in 1 .. Full, t.at = 2 * i PROVE Draws(o.s)
    <3>1. c.do = "move" /\ c.to = i
      BY <2>2, <2>4, BatchIs, Turned
    <3>2. s.port = Aspirations[i]
      BY <1>1, <1>5, <2>4 DEF Before
    <3>3. s.pos >= i - 1
      <4>1. CASE i = 1
        BY <1>1, <4>1
      <4>2. CASE i # 1
        <5>1. i \in 2 .. Full + 1 /\ t.at >= 2
          BY <1>1, <2>4, <4>2
        <5> QED
          BY <1>1, <1>5, <2>4, <5>1 DEF Before
      <4> QED
        BY <4>1, <4>2
    <3> QED
      BY <1>1, <1>3, <1>5, <3>1, <3>2, <3>3, OtherCommands DEF Draws
  <2>5. ASSUME t.at = 2 * Full + 1 PROVE Draws(o.s)
    <3>1. c.do = "turn"
      <4>1. c = Turn(OutPort) /\ OutPort \in Nat
        BY <2>2, <2>5, BatchIs, MotionAssumption
      <4> QED
        BY <4>1, Turned
    <3> QED
      BY <1>8, <3>1
  <2>6. ASSUME t.at = 2 * Full + 2 PROVE Draws(o.s)
    <3>1. c.do = "move" /\ c.to = 0
      <4>1. c = Move(0)
        BY <2>2, <2>6, BatchIs
      <4> QED
        BY <4>1, Turned
    <3> QED
      BY <1>9, <3>1
  <2>7. Draws(o.s)
    <3>1. (\E i \in 1 .. Full : t.at = 2 * i - 1 \/ t.at = 2 * i) \/ t.at = 2 * Full + 1 \/ t.at = 2 * Full + 2
      BY <2>1, Parity
    <3> QED
      BY <2>3, <2>4, <2>5, <2>6, <3>1
  <2>8. /\ Code(s, c) = 0 <=> s.motor = Still /\ s.err = 0
        /\ Code(s, c) = 0 => Performs(s, c).motor = c /\ Performs(s, c).err = 0
    BY <1>2, <2>2, PerformsIs
  <2>9. CASE r.pc = "check"
    <3>1. r.at = t.at /\ o.code \in {0, 15} /\ o.s = Performs(s, c) /\ o.code = Code(s, c)
          /\ (o.code # 15 => r.busy = t.busy) /\ (o.code = 15 => r.busy = t.busy + 1)
      BY <1>3, <1>4, <1>7, <2>9
    <3>2. t.at >= 2 => o.code = 0 /\ r.busy = 0
      BY <1>5, <2>8, <3>1
    <3>3. r.busy \in {0, 2} => o.code = 0
      BY <1>1, <3>1
    <3>4. During(t.at, o.s, q)
      <4>1. CASE t.at = 1
        BY <1>1, <4>1 DEF During
      <4>2. CASE t.at >= 2
        <5>1. \A i \in 2 .. Full + 1 : t.at = 2 * i - 1 => o.s.pos = i - 1
          BY <1>3, <1>5, <4>2 DEF Before
        <5>2. t.at = 2 * Full + 2 => o.s.port = OutPort
          BY <1>3, <1>5, <4>2 DEF Before
        <5>3. t.at = 2 * Full + 2 => q + o.s.pos >= Full
          <6>1. Full + 1 \in 2 .. Full + 1 /\ 2 * (Full + 1) = 2 * Full + 2 /\ (Full + 1) - 1 = Full
            BY <1>1
          <6>2. t.at = 2 * Full + 2 => s.pos = Full
            BY <1>5, <4>2, <6>1 DEF Before
          <6> QED
            BY <1>1, <1>3, <6>2
        <5> QED
          BY <5>1, <5>2, <5>3 DEF During
      <4> QED
        BY <1>1, <1>7, <4>1, <4>2
    <3>5. r.busy \in {0, 2} => Accepted(r.at, o.s, q)
      BY <2>2, <2>8, <3>1, <3>3, <3>4 DEF Accepted
    <3> QED
      BY <1>4, <2>7, <2>9, <3>1, <3>2, <3>5 DEF Course, r
  <2>10. CASE r.pc # "check"
    BY <1>4, <1>7, <2>7, <2>10, OwesNothing DEF r
  <2> QED
    BY <2>9, <2>10
<1> QED
  BY <1>1, <1>6, <1>7

\* The motor stands without an error: the next command, or this one again.
LEMMA ReadyIs ==
    ASSUME MotionTypes, NEW t \in Step, Counts(t), t.pc = "ask",
           NEW s \in Device, NEW q \in Nat, s.motor = Still, s.err = 0
    PROVE  /\ Ready(t) \in Step /\ Counts(Ready(t))
           /\ job.kind = "batch" /\ Course(t, s, q) => Course(Ready(t), s, q)
<1>1. /\ t.at \in -2 .. Last /\ t.at \in Int /\ t.busy \in Nat /\ t.tries \in Nat /\ t.out = "none"
      /\ Full \in Nat /\ Full >= 1 /\ Last \in Nat /\ Last >= 2
  BY LastIs, Places DEF Step, Counts
<1>2. CASE t.busy \in {0, 2}
  <2>1. Ready(t) = Advance(t)
    BY <1>1, <1>2 DEF Ready
  <2> DEFINE r == Advance(t)
  <2>2. /\ r \in Step /\ Counts(r) /\ r.pc \in {"rest", "send", "enlist"}
        /\ t.at < 1 => r.out # "ok" /\ (r.pc = "send" => r.at < 1)
        /\ t.at >= 1 /\ t.at < Last => r.pc = "send" /\ r.at = t.at + 1 /\ r.busy = 0 /\ r.out = "none"
        /\ t.at = Last => r.pc = "rest"
    BY AdvanceIs
  <2> HIDE DEF r
  <2>3. r.at \in Int
    BY <1>1, <2>2 DEF Step
  <2>4. ASSUME job.kind = "batch", Course(t, s, q) PROVE Course(r, s, q)
    <3>1. Last = 2 * Full + 2 /\ Draws(s)
      BY <2>4, LastIs DEF Course
    <3>5. ASSUME t.at >= 1 PROVE After(t.at, s, q)
      <4>1. t.at \in 1 .. Last
        BY <1>1, <3>5
      <4>2. Batch[t.at] # Still
        BY <2>4, <4>1, LastIs, OtherCommands
      <4>3. Accepted(t.at, s, q)
        BY <1>2, <2>4, <3>5 DEF Course
      <4> QED
        BY <4>2, <4>3 DEF Accepted
    <3>2. CASE t.at < 1
      BY <2>2, <2>3, <3>1, <3>2, OwesNothing
    <3>3. CASE t.at >= 1 /\ t.at < Last
      <4>1. Before(t.at + 1, s)
        BY <1>1, <3>1, <3>3, <3>5 DEF After
      <4> QED
        BY <2>2, <3>1, <3>3, <4>1 DEF Course
    <3>4. CASE t.at = Last
      <4>1. q >= Full
        BY <1>1, <3>1, <3>4, <3>5 DEF After
      <4> QED
        BY <2>2, <3>1, <3>4, <4>1 DEF Course
    <3> QED
      BY <1>1, <3>2, <3>3, <3>4
  <2> QED
    BY <2>1, <2>2, <2>4 DEF r
<1>3. CASE t.busy = 1
  <2> DEFINE r == [t EXCEPT !.pc = "send", !.busy = 2]
  <2>1. Ready(t) = r
    BY <1>3 DEF Ready
  <2>2. r.pc = "send" /\ r.at = t.at /\ r.busy = 2 /\ r.out = t.out /\ r \in Step
    BY <1>1 DEF Step
  <2> HIDE DEF r
  <2>3. Counts(r)
    BY <1>1, <2>2 DEF Counts
  <2>4. ASSUME job.kind = "batch", Course(t, s, q) PROVE Course(r, s, q)
    <3>1. Draws(s) /\ ~(t.at >= 2)
      BY <1>3, <2>4 DEF Course
    <3> QED
      BY <1>1, <2>2, <3>1 DEF Course
  <2> QED
    BY <2>1, <2>2, <2>3, <2>4
<1>4. CASE t.busy \notin {0, 1, 2}
  <2>1. Ready(t) = Failed(t, 15)
    BY <1>4 DEF Ready
  <2>2. /\ Failed(t, 15) \in Step /\ Counts(Failed(t, 15))
        /\ Failed(t, 15).pc \in {"rest", "ready"} /\ Failed(t, 15).out # "ok"
    BY FailedIs
  <2>3. Course(t, s, q) => Course(Failed(t, 15), s, q)
    <3>1. Course(t, s, q) => Draws(s)
      BY DEF Course
    <3> QED
      BY <2>2, <3>1, OwesNothing
  <2> QED
    BY <2>1, <2>2, <2>3
<1> QED
  BY <1>2, <1>3, <1>4

\* What is made of the answer to a query.
LEMMA PollingIs ==
    ASSUME MotionTypes, NEW t \in Step, Counts(t), t.pc = "ask",
           NEW s \in Device, NEW q \in Nat,
           NEW o \in Outcomes(s, Query)
    PROVE  /\ o.s = s /\ Polling(t, o) \in Step /\ Counts(Polling(t, o))
           /\ job.kind = "batch" /\ Course(t, s, q) => Course(Polling(t, o), s, q)
<1>1. /\ t.at \in Int /\ t.busy \in Nat /\ t.tries \in Nat /\ t.out = "none" /\ Last \in Nat
  BY LastIs DEF Step, Counts
<1>2. o.s = s /\ (o.code # NoAnswer => o.code = s.err)
  BY OtherCommands, OutcomeIs, PerformsIs
<1>3. ASSUME NEW pc \in {"halt9", "halt15", "check"}, Polling(t, o) = [t EXCEPT !.pc = pc]
      PROVE  /\ Polling(t, o) \in Step /\ Counts(Polling(t, o))
             /\ job.kind = "batch" /\ Course(t, s, q) => Course(Polling(t, o), s, q)
  <2> DEFINE r == [t EXCEPT !.pc = pc]
  <2>1. r.pc = pc /\ r.at = t.at /\ r.busy = t.busy /\ r.out = t.out /\ r \in Step
    BY <1>1 DEF Step
  <2>2. Polling(t, o) = r
    BY <1>3
  <2> HIDE DEF r
  <2>3. Counts(r)
    BY <1>1, <2>1 DEF Counts
  <2>4. Course(t, s, q) => Course(r, s, q)
    BY <1>1, <2>1 DEF Course
  <2> QED
    BY <2>1, <2>2, <2>3, <2>4
<1>4. CASE o.code = 0 /\ ~Busy(o.s) /\ Polling(t, o) = Ready(t)
  <2>1. s.motor = Still /\ s.err = 0
    BY <1>2, <1>4 DEF Busy, NoAnswer
  <2> QED
    BY <1>2, <1>4, <2>1, ReadyIs
<1>5. \/ \E pc \in {"halt9", "halt15", "check"} : Polling(t, o) = [t EXCEPT !.pc = pc]
      \/ o.code = 0 /\ ~Busy(o.s) /\ Polling(t, o) = Ready(t)
  <2>1. CASE o.code = 9
    BY <2>1 DEF Polling
  <2>2. CASE o.code = 15 /\ ~Busy(o.s)
    BY <2>2 DEF Polling
  <2>3. CASE o.code = 0 /\ ~Busy(o.s)
    BY <2>3 DEF Polling
  <2>4. CASE o.code # 9 /\ ~(o.code = 15 /\ ~Busy(o.s)) /\ ~(o.code = 0 /\ ~Busy(o.s))
    BY <2>4 DEF Polling
  <2> QED
    BY <2>1, <2>2, <2>3, <2>4
<1> QED
  BY <1>2, <1>3, <1>4, <1>5

-----------------------------------------------------------------------------
(* The steps of a thread and of its pump.                                  *)

\* One pump and its thread change, the others stay on course.
LEMMA OneThreadHoming ==
    ASSUME MotionTypes, OnCourse, NEW p \in Pump, NEW s \in Device, NEW t \in Step, Counts(t),
           pump' = [pump EXCEPT ![p] = s], th' = [th EXCEPT ![p] = t],
           UNCHANGED <<poured, job, halt, hit>>, homing' \in Homings,
           job.kind = "batch" /\ p \notin hit => Course(t, s, poured[p])
    PROVE  MotionTypes' /\ OnCourse'
<1>1. /\ pump \in [Pump -> Device] /\ th \in [Pump -> Step] /\ \A r \in Pump : Counts(th[r])
      /\ pump' \in [Pump -> Device] /\ pump'[p] = s /\ th'[p] = t
      /\ \A r \in Pump : r # p => pump'[r] = pump[r] /\ th'[r] = th[r]
  BY DEF MotionTypes
<1>2. th' \in [Pump -> Step] /\ \A r \in Pump : Counts(th'[r])
  BY <1>1
<1>3. Step' = Step
  BY DEF Step, Last
<1>4. MotionTypes'
  BY <1>1, <1>2, <1>3 DEF MotionTypes, Counts
<1>5. ASSUME job.kind = "batch", NEW r \in Pump \ hit PROVE Course(th'[r], pump'[r], poured[r])
  BY <1>1, <1>5 DEF OnCourse
<1> QED
  BY <1>4, <1>5 DEF OnCourse

LEMMA OneThread ==
    ASSUME MotionTypes, OnCourse, NEW p \in Pump, NEW s \in Device, NEW t \in Step, Counts(t),
           pump' = [pump EXCEPT ![p] = s], th' = [th EXCEPT ![p] = t],
           UNCHANGED <<poured, homing, job, halt, hit>>,
           job.kind = "batch" /\ p \notin hit => Course(t, s, poured[p])
    PROVE  MotionTypes' /\ OnCourse'
  BY OneThreadHoming DEF MotionTypes

LEMMA EnsureReadyKeeps ==
    ASSUME MotionTypes, OnCourse, NEW p \in Pump, EnsureReady(p) PROVE MotionTypes' /\ OnCourse'
<1> DEFINE pc == IF p \in inited THEN "send" ELSE "clear"
           t == [th[p] EXCEPT !.pc = pc]
<1>1. /\ th[p] \in Step /\ Counts(th[p]) /\ th[p].pc = "ready" /\ pump[p] \in Device
      /\ pc \in {"send", "clear"}
  BY DEF MotionTypes, EnsureReady
<1>2. th' = [th EXCEPT ![p] = t] /\ UNCHANGED <<pump, poured, homing, job, halt, hit>>
  BY DEF EnsureReady, devVars, stopVars, MotionTypes
<1> HIDE DEF pc
<1>3. t.pc = pc /\ t.at = th[p].at /\ t.busy = th[p].busy /\ t.out = th[p].out /\ t \in Step
  BY <1>1 DEF Step
<1> HIDE DEF t
<1>4. t.at = 1 /\ t.busy = 0 /\ t.out = "none" /\ Counts(t)
  BY <1>1, <1>3 DEF Counts
<1>5. job.kind = "batch" /\ p \notin hit => Course(t, pump[p], poured[p])
  BY <1>1, <1>3, <1>4 DEF OnCourse, Course
<1>6. pump' = [pump EXCEPT ![p] = pump[p]]
  BY <1>2 DEF MotionTypes
<1> QED
  BY <1>1, <1>2, <1>3, <1>4, <1>5, <1>6, OneThread

LEMMA EnlistKeeps ==
    ASSUME MotionTypes, OnCourse, NEW p \in Pump, Enlist(p) PROVE MotionTypes' /\ OnCourse'
<1> DEFINE t == [th[p] EXCEPT !.pc = "send", !.at = 1]
<1>1. /\ th[p] \in Step /\ Counts(th[p]) /\ th[p].pc = "enlist" /\ pump[p] \in Device
      /\ 1 \in -2 .. Last
  BY LastIs DEF MotionTypes, Enlist
<1>2. th' = [th EXCEPT ![p] = t] /\ UNCHANGED <<pump, poured, homing, job, halt, hit>>
  BY DEF Enlist, devVars, stopVars, MotionTypes
<1>3. t.pc = "send" /\ t.at = 1 /\ t.busy = th[p].busy /\ t.out = th[p].out /\ t \in Step
  BY <1>1 DEF Step
<1> HIDE DEF t
<1>4. t.at = 1 /\ t.busy = 0 /\ t.out = "none" /\ Counts(t)
  BY <1>1, <1>3 DEF Counts
<1>5. job.kind = "batch" /\ p \notin hit => Course(t, pump[p], poured[p])
  BY <1>1, <1>3, <1>4 DEF OnCourse, Course
<1>6. pump' = [pump EXCEPT ![p] = pump[p]]
  BY <1>2 DEF MotionTypes
<1> QED
  BY <1>1, <1>2, <1>3, <1>4, <1>5, <1>6, OneThread

LEMMA ClearErrorKeeps ==
    ASSUME MotionTypes, OnCourse, NEW p \in Pump, ClearError(p) PROVE MotionTypes' /\ OnCourse'
<1> DEFINE t == [th[p] EXCEPT !.pc = "send", !.at = -1]
<1>1. /\ th[p] \in Step /\ Counts(th[p]) /\ th[p].pc = "clear" /\ pump[p] \in Device
      /\ -1 \in -2 .. Last
  BY LastIs DEF MotionTypes, ClearError
<1>2. PICK o \in Outcomes(pump[p], TR) : Exchange(p, o)
  BY DEF ClearError
<1>3. th' = [th EXCEPT ![p] = t] /\ UNCHANGED <<poured, homing, job, halt, hit>>
      /\ pump' = [pump EXCEPT ![p] = o.s]
  BY <1>2 DEF ClearError, Exchange, devVars, stopVars, MotionTypes
<1>4. t.pc = "send" /\ t.at = -1 /\ t.busy = th[p].busy /\ t.out = th[p].out /\ t \in Step
  BY <1>1 DEF Step
<1> HIDE DEF t
<1>5. t.busy = 0 /\ t.out = "none" /\ Counts(t)
  BY <1>1, <1>4 DEF Counts
<1>6. /\ o.s \in Device /\ o.s.pos = pump[p].pos /\ o.s.port = pump[p].port
      /\ o.s.motor \in {pump[p].motor, Still, TR}
  BY <1>1, OtherCommands, OutcomeIs
<1>7. job.kind = "batch" /\ p \notin hit => Course(t, o.s, poured[p])
  <2>1. ASSUME job.kind = "batch", p \notin hit PROVE Draws(o.s)
    BY <1>1, <1>6, <2>1, OtherCommands, SpokenDraws DEF OnCourse, Course
  <2> QED
    BY <1>4, <1>5, <2>1, OwesNothing
<1> QED
  BY <1>1, <1>3, <1>4, <1>5, <1>6, <1>7, OneThread

LEMMA SendKeeps ==
    ASSUME MotionTypes, OnCourse, NEW p \in Pump, Send(p) PROVE MotionTypes' /\ OnCourse'
<1> DEFINE c == Command(job.kind, th[p].at)
<1>1. /\ th[p] \in Step /\ Counts(th[p]) /\ th[p].pc = "send" /\ pump[p] \in Device
      /\ poured[p] \in Nat /\ th[p].at \in -2 .. Last
  BY DEF MotionTypes, Send, Step
<1>2. PICK o \in Outcomes(pump[p], c) : Exchange(p, o) /\ th' = [th EXCEPT ![p] = Settle(@, o)]
  BY DEF Send
<1> DEFINE t == Settle(th[p], o)
<1>3. th' = [th EXCEPT ![p] = t] /\ UNCHANGED <<poured, homing, job, halt, hit>>
      /\ pump' = [pump EXCEPT ![p] = o.s]
  BY <1>2 DEF Send, Exchange, devVars, stopVars, MotionTypes
<1>4. c \in Cmd /\ c.do # "still"
  BY <1>1, CommandIs
<1>5. o.s \in Device /\ o.code \in Code0
  BY <1>1, <1>4, OutcomeIs
<1>6. t \in Step /\ Counts(t)
  BY <1>1, <1>5, SettleIs
<1>7. job.kind = "batch" /\ p \notin hit => Course(t, o.s, poured[p])
  BY <1>1, SentOnCourse DEF OnCourse
<1> HIDE DEF t
<1> QED
  BY <1>3, <1>5, <1>6, <1>7, OneThread

\* A step that failed: the pump was at most told to stop.
LEMMA FailedKeeps ==
    ASSUME MotionTypes, OnCourse, NEW p \in Pump, NEW s \in Device, NEW t \in Step, Counts(t),
           t.pc \in {"rest", "ready"}, t.out # "ok",
           pump' = [pump EXCEPT ![p] = s], th' = [th EXCEPT ![p] = t],
           UNCHANGED <<poured, homing, job, halt, hit>>,
           s.pos = pump[p].pos, s.port = pump[p].port, s.motor \in {pump[p].motor, Still, TR}
    PROVE  MotionTypes' /\ OnCourse'
<1>1. pump[p] \in Device
  BY DEF MotionTypes
<1>2. ASSUME job.kind = "batch", p \notin hit PROVE Draws(s)
  BY <1>1, <1>2, OtherCommands, SpokenDraws DEF OnCourse, Course
<1>3. job.kind = "batch" /\ p \notin hit => Course(t, s, poured[p])
  BY <1>2, OwesNothing
<1> QED
  BY <1>3, OneThread

LEMMA CheckKeeps ==
    ASSUME MotionTypes, OnCourse, NEW p \in Pump, Check(p) \/ Expire(p) PROVE MotionTypes' /\ OnCourse'
<1>a. th \in [Pump -> Step] /\ pump \in [Pump -> Device] /\ th[p].pc = "check" /\ Counts(th[p])
  BY DEF MotionTypes, Check, Expire
<1>1. /\ th[p] \in Step /\ Counts(th[p]) /\ th[p].pc = "check" /\ pump[p] \in Device /\ th[p].at \in Int
      /\ th \in [Pump -> Step] /\ pump \in [Pump -> Device]
  BY <1>a, LastIs DEF Step
<1>2. UNCHANGED <<pump, poured, homing, job, halt, hit>> /\ pump' = [pump EXCEPT ![p] = pump[p]]
  BY <1>1 DEF Check, Expire, devVars, stopVars
<1>3. CASE th' = [th EXCEPT ![p] = Failed(th[p], NoAnswer)]
  <2> DEFINE t == Failed(th[p], NoAnswer)
  <2>1. t \in Step /\ Counts(t) /\ t.pc \in {"rest", "ready"} /\ t.out # "ok"
    BY <1>1, FailedIs
  <2>2. th' = [th EXCEPT ![p] = t]
    BY <1>3
  <2> HIDE DEF t
  <2> QED
    BY <1>1, <1>2, <2>1, <2>2, FailedKeeps
<1>4. CASE th' = [th EXCEPT ![p] = [th[p] EXCEPT !.pc = "ask"]]
  <2> DEFINE t == [th[p] EXCEPT !.pc = "ask"]
  <2>1. t.pc = "ask" /\ t.at = th[p].at /\ t.busy = th[p].busy /\ t.out = th[p].out /\ t \in Step
    BY <1>1 DEF Step
  <2>2. th' = [th EXCEPT ![p] = t]
    BY <1>4
  <2> HIDE DEF t
  <2>3. Counts(t)
    BY <1>1, <2>1 DEF Counts
  <2>4. job.kind = "batch" /\ p \notin hit => Course(t, pump[p], poured[p])
    BY <1>1, <2>1 DEF OnCourse, Course
  <2> QED
    BY <1>1, <1>2, <2>1, <2>2, <2>3, <2>4, OneThread
<1> QED
  BY <1>1, <1>3, <1>4 DEF Check, Expire

LEMMA TerminateKeeps ==
    ASSUME MotionTypes, OnCourse, NEW p \in Pump, Terminate(p) PROVE MotionTypes' /\ OnCourse'
<1> DEFINE code == IF th[p].pc = "halt9" THEN 9 ELSE 15
           t == Failed(th[p], code)
<1>1. /\ th[p] \in Step /\ Counts(th[p]) /\ th[p].pc \in {"halt9", "halt15"} /\ pump[p] \in Device
      /\ th \in [Pump -> Step] /\ pump \in [Pump -> Device]
  BY DEF MotionTypes, Terminate
<1>2. PICK o \in Outcomes(pump[p], TR) : Exchange(p, o)
  BY DEF Terminate
<1>3. th' = [th EXCEPT ![p] = t] /\ UNCHANGED <<poured, homing, job, halt, hit>>
      /\ pump' = [pump EXCEPT ![p] = o.s]
  BY <1>1, <1>2 DEF Terminate, Exchange, devVars, stopVars
<1>4. t \in Step /\ Counts(t) /\ t.pc \in {"rest", "ready"} /\ t.out # "ok"
  BY <1>1, FailedIs
<1>5. /\ o.s \in Device /\ o.s.pos = pump[p].pos /\ o.s.port = pump[p].port
      /\ o.s.motor \in {pump[p].motor, Still, TR}
  BY <1>1, OtherCommands, OutcomeIs
<1> HIDE DEF t
<1> QED
  BY <1>3, <1>4, <1>5, FailedKeeps

LEMMA AskKeeps ==
    ASSUME MotionTypes, OnCourse, NEW p \in Pump, Ask(p) PROVE MotionTypes' /\ OnCourse'
<1>1. /\ th[p] \in Step /\ Counts(th[p]) /\ th[p].pc = "ask" /\ pump[p] \in Device /\ poured[p] \in Nat
      /\ th \in [Pump -> Step] /\ pump \in [Pump -> Device]
  BY DEF MotionTypes, Ask
<1>2. PICK o \in Outcomes(pump[p], Query) :
        /\ Exchange(p, o)
        /\ th' \in {[th EXCEPT ![p] = Polling(th[p], o)], [th EXCEPT ![p] = Raised(th[p])], th}
  BY DEF Ask
<1>3. o.s = pump[p]
  BY <1>1, OtherCommands, OutcomeIs, PerformsIs
<1>4. UNCHANGED <<poured, homing, job, halt, hit>> /\ pump' = [pump EXCEPT ![p] = pump[p]]
  BY <1>1, <1>2, <1>3 DEF Ask, Exchange, devVars, stopVars
<1>5. CASE th' = [th EXCEPT ![p] = Polling(th[p], o)]
  <2> DEFINE t == Polling(th[p], o)
  <2>1. t \in Step /\ Counts(t)
    BY <1>1, PollingIs
  <2>2. job.kind = "batch" /\ p \notin hit => Course(t, pump[p], poured[p])
    BY <1>1, PollingIs DEF OnCourse
  <2> HIDE DEF t
  <2> QED
    BY <1>1, <1>4, <1>5, <2>1, <2>2, OneThread DEF t
<1>6. CASE th' = [th EXCEPT ![p] = Raised(th[p])]
  <2> DEFINE t == Raised(th[p])
  <2>1. t \in Step /\ Counts(t) /\ t.pc \in {"rest", "ready"} /\ t.out # "ok"
    BY <1>1, RaisedIs
  <2>2. th' = [th EXCEPT ![p] = t]
    BY <1>6
  <2> HIDE DEF t
  <2> QED
    BY <1>1, <1>4, <2>1, <2>2, FailedKeeps
<1>7. CASE th' = th
  <2>1. th' = [th EXCEPT ![p] = th[p]]
    BY <1>1, <1>7
  <2> QED
    BY <1>1, <1>4, <2>1, OneThread DEF OnCourse
<1> QED
  BY <1>2, <1>5, <1>6, <1>7

\* A pump goes on: what it draws and pours is on course.
LEMMA MechanicsKeeps ==
    ASSUME MotionTypes, OnCourse, NEW p \in Pump, Mechanics(p) PROVE MotionTypes' /\ OnCourse'
<1>1. /\ th \in [Pump -> Step] /\ pump \in [Pump -> Device] /\ poured \in [Pump -> Nat]
      /\ th[p] \in Step /\ pump[p] \in Device /\ poured[p] \in Nat
  BY DEF MotionTypes
<1>2. UNCHANGED <<th, homing, job, halt, hit>>
  BY DEF Mechanics, stopVars
<1>3. /\ pump' \in [Pump -> Device] /\ \A q \in Pump \ {p} : pump'[q] = pump[q]
      /\ Busy(pump[p]) /\ Moved(pump[p], pump'[p])
      /\ poured' \in [Pump -> Nat] /\ \A q \in Pump \ {p} : poured'[q] = poured[q]
      /\ poured'[p] = Poured(pump[p], poured[p], pump'[p]) /\ poured'[p] >= poured[p]
  BY MechanicsIs
<1>4. MotionTypes'
  <2>1. Step' = Step
    BY <1>2 DEF Step, Last
  <2> QED
    BY <1>2, <1>3, <2>1 DEF MotionTypes, Counts
<1>5. ASSUME job.kind = "batch", p \notin hit PROVE Course(th[p], pump'[p], poured'[p])
  <2> DEFINE t == th[p]
  <2>1. Course(t, pump[p], poured[p]) /\ Draws(pump[p])
    BY <1>5 DEF OnCourse, Course
  <2>2. Draws(pump'[p])
    BY <1>1, <1>3, <2>1, MovedDraws
  <2>3. t.at \in Int /\ t.at <= 2 * Full + 2 /\ Full \in Nat
    BY <1>1, <1>5, LastIs, Places DEF Step
  <2>4. ASSUME t.pc \in {"check", "ask"}, t.at >= 1, t.busy \in {0, 2} PROVE Accepted(t.at, pump'[p], poured'[p])
    <3>1. Accepted(t.at, pump[p], poured[p]) /\ t.at \in 1 .. 2 * Full + 2
      BY <2>1, <2>3, <2>4 DEF Course
    <3> QED
      BY <1>1, <1>3, <3>1, MovedAccepted
  <2>5. ~(t.pc = "send" /\ t.at >= 2)
    BY <1>3, <2>1 DEF Course, Busy
  <2>6. t.out = "ok" => poured'[p] >= Full
    <3>1. poured'[p] \in Nat /\ poured[p] \in Nat
      BY <1>1, <1>3
    <3> QED
      BY <1>3, <2>1, <2>3, <3>1 DEF Course
  <2>7. t.pc \in {"send", "check", "ask"} /\ t.at >= 2 => t.busy = 0
    BY <2>1 DEF Course
  <2> QED
    BY <2>2, <2>4, <2>5, <2>6, <2>7 DEF Course
<1>6. ASSUME job.kind = "batch", NEW q \in Pump \ hit PROVE Course(th'[q], pump'[q], poured'[q])
  BY <1>2, <1>3, <1>5, <1>6 DEF OnCourse
<1> QED
  BY <1>2, <1>4, <1>6 DEF OnCourse

LEMMA BreakKeeps ==
    ASSUME MotionTypes, OnCourse, NEW p \in Pump, NEW e \in {7, 9, 15}, Break(p, e) PROVE MotionTypes' /\ OnCourse'
<1>1. /\ th \in [Pump -> Step] /\ pump \in [Pump -> Device] /\ poured \in [Pump -> Nat]
      /\ th[p] \in Step /\ pump[p] \in Device /\ Counts(th[p]) /\ Busy(pump[p])
  BY DEF MotionTypes, Break
<1> DEFINE s == [pump[p] EXCEPT !.motor = Still, !.err = e]
<1>2. UNCHANGED <<th, poured, homing, job, halt, hit>> /\ pump' = [pump EXCEPT ![p] = s]
      /\ th' = [th EXCEPT ![p] = th[p]]
  BY <1>1 DEF Break, stopVars
<1>3. s \in Device /\ s.motor = Still /\ s.err = e
  BY <1>1 DEF Device, Motor, Error
<1> HIDE DEF s
<1>4. job.kind = "batch" /\ p \notin hit => Course(th[p], s, poured[p])
  <2>1. Draws(s)
    BY <1>3, OtherCommands DEF Draws
  <2>2. \A k : Accepted(k, s, poured[p])
    BY <1>3 DEF Accepted
  <2> QED
    BY <1>1, <2>1, <2>2 DEF OnCourse, Course, Busy
<1> QED
  BY <1>1, <1>2, <1>3, <1>4, OneThread

-----------------------------------------------------------------------------
(* The steps of the consuming thread and of the stop.                      *)

\* A step that speaks to no pump and moves no thread.
LEMMA QuietKeeps ==
    ASSUME MotionTypes, OnCourse, UNCHANGED <<pump, th, poured>>, hit \subseteq hit', job'.kind = job.kind,
           job' \in Jobs,
           homing' \in Homings,
           halt' \in Halts
    PROVE  MotionTypes' /\ OnCourse'
<1>1. Step' = Step
  BY DEF Step, Last
<1> QED
  BY <1>1 DEF MotionTypes, OnCourse, Counts

\* A step that speaks to one pump whose thread rests, or that a stop reaches.
LEMMA SpokenKeeps ==
    ASSUME MotionTypes, OnCourse, NEW p \in Pump, NEW s \in Device, pump' = [pump EXCEPT ![p] = s],
           UNCHANGED <<th, poured, job>>, hit \subseteq hit',
           homing' \in Homings,
           halt' \in Halts,
           p \in hit' \/ /\ th[p].pc = "rest" /\ s.pos = pump[p].pos /\ s.port = pump[p].port
                         /\ s.motor = pump[p].motor \/ s.motor.do # "move"
    PROVE  MotionTypes' /\ OnCourse'
<1>1. Step' = Step
  BY DEF Step, Last
<1>2. pump' \in [Pump -> Device] /\ pump'[p] = s /\ \A q \in Pump : q # p => pump'[q] = pump[q]
  BY DEF MotionTypes
<1>3. ASSUME job.kind = "batch", NEW q \in Pump \ hit' PROVE Course(th[q], pump'[q], poured[q])
  <2>1. Course(th[q], pump[q], poured[q])
    BY <1>3 DEF OnCourse
  <2>2. CASE q # p
    BY <1>2, <2>1, <2>2
  <2>3. CASE q = p
    <3>1. Draws(pump[p]) /\ th[p].pc = "rest" /\ (th[p].out = "ok" => poured[p] >= Full)
      BY <1>3, <2>1, <2>3 DEF Course
    <3>2. /\ s.pos = pump[p].pos /\ s.port = pump[p].port
          /\ s.motor = pump[p].motor \/ s.motor.do # "move"
      BY <1>3, <2>3
    <3>3. Draws(s)
      BY <3>1, <3>2 DEF Draws
    <3> QED
      BY <1>2, <2>3, <3>1, <3>3 DEF Course
  <2> QED
    BY <2>2, <2>3
<1> QED
  BY <1>1, <1>2, <1>3 DEF MotionTypes, OnCourse, Counts

LEMMA FirstPump == 1 \in Pump /\ NPumps \in Pump /\ Pump \subseteq Int /\ NPumps \in Nat
  BY MotionAssumption DEF Pump

LEMMA HomingFields ==
    ASSUME NEW h \in Homings
    PROVE  /\ \A n \in Pump : [h EXCEPT !.p = n] \in Homings
           /\ \A n \in -2 .. 0 : [h EXCEPT !.at = n] \in Homings
           /\ \A n \in Pump : [h EXCEPT !.p = n, !.at = -2] \in Homings
           /\ \A w \in SUBSET Pump : [h EXCEPT !.wait = w] \in Homings
           /\ \A q \in Pump, n \in {0, 1} : [h EXCEPT !.idle[q] = n] \in Homings
           /\ \A r \in [Pump -> Int] : [h EXCEPT !.res = r] \in Homings
           /\ \A w \in SUBSET Pump, q \in Pump, n \in Int : [h EXCEPT !.wait = w, !.res[q] = n] \in Homings
           /\ [h EXCEPT !.heard = TRUE] \in Homings
<1>1. ASSUME NEW n \in Pump PROVE [h EXCEPT !.p = n] \in Homings
  BY DEF Homings
<1>2. ASSUME NEW n \in -2 .. 0 PROVE [h EXCEPT !.at = n] \in Homings
  BY DEF Homings
<1>3. ASSUME NEW n \in Pump PROVE [h EXCEPT !.p = n, !.at = -2] \in Homings
  <2>1. -2 \in -2 .. 0
    OBVIOUS
  <2>2. [h EXCEPT !.p = n, !.at = -2] = [[h EXCEPT !.p = n] EXCEPT !.at = -2]
    BY DEF Homings
  <2>3. \A g \in Homings : [g EXCEPT !.at = -2] \in Homings
    BY <2>1 DEF Homings
  <2> QED
    BY <1>1, <2>2, <2>3
<1>4. ASSUME NEW w \in SUBSET Pump PROVE [h EXCEPT !.wait = w] \in Homings
  BY DEF Homings
<1>5. ASSUME NEW q \in Pump, NEW n \in {0, 1} PROVE [h EXCEPT !.idle[q] = n] \in Homings
  <2>1. [h.idle EXCEPT ![q] = n] \in [Pump -> Nat] /\ [h EXCEPT !.idle[q] = n] = [h EXCEPT !.idle = [h.idle EXCEPT ![q] = n]]
    BY DEF Homings
  <2> QED
    BY <2>1 DEF Homings
<1>6. ASSUME NEW r \in [Pump -> Int] PROVE [h EXCEPT !.res = r] \in Homings
  BY DEF Homings
<1>7. ASSUME NEW w \in SUBSET Pump, NEW q \in Pump, NEW n \in Int PROVE [h EXCEPT !.wait = w, !.res[q] = n] \in Homings
  <2>1. [h.res EXCEPT ![q] = n] \in [Pump -> Int]
    BY DEF Homings
  <2>2. [h EXCEPT !.wait = w, !.res[q] = n] = [h EXCEPT !.wait = w, !.res = [h.res EXCEPT ![q] = n]]
    BY DEF Homings
  <2>3. [h EXCEPT !.wait = w, !.res = [h.res EXCEPT ![q] = n]] \in Homings
    BY <2>1 DEF Homings
  <2> QED
    BY <2>2, <2>3
<1>8. [h EXCEPT !.heard = TRUE] \in Homings
  BY DEF Homings
<1> QED
  BY <1>1, <1>2, <1>3, <1>4, <1>5, <1>6, <1>7, <1>8

\* The initialisation: what it hears and which pumps it waits for.
LEMMA HomingKeeps ==
    ASSUME MotionTypes, OnCourse, HeadOfStage \/ ClearLatch \/ Look \/ Seek \/ AssumeHome \/ Probe \/ EnlistAll \/ JudgeInit
    PROVE  MotionTypes' /\ OnCourse'
<1>1. homing \in Homings /\ job \in Jobs
  BY DEF MotionTypes
<1>2. UNCHANGED <<pump, th, poured, hit, halt>>
  BY DEF HeadOfStage, ClearLatch, Look, Seek, AssumeHome, Probe, EnlistAll, JudgeInit, devVars, stopVars
<1>3. job' \in Jobs /\ job'.kind = job.kind
  <2>1. \/ UNCHANGED job
        \/ \E v \in {"interrupted", "failed"} : job' = [job EXCEPT !.verdict = v]
    BY DEF HeadOfStage, ClearLatch, Look, Seek, AssumeHome, Probe, EnlistAll, JudgeInit, End
  <2> QED
    BY <1>1, <2>1 DEF Jobs
<1>4. homing' \in Homings
  <2>1. \/ UNCHANGED homing
        \/ homing' = [homing EXCEPT !.res = [p \in Pump |-> NoAnswer]]
        \/ \E p \in homing.wait : homing' = [homing EXCEPT !.p = p]
        \/ homing' = [homing EXCEPT !.wait = Homed]
    BY DEF HeadOfStage, ClearLatch, Look, Seek, AssumeHome, Probe, EnlistAll, JudgeInit
  <2>2. [p \in Pump |-> NoAnswer] \in [Pump -> Int] /\ Homed \in SUBSET Pump /\ homing.wait \subseteq Pump
    BY <1>1 DEF NoAnswer, Homed, Homings
  <2> QED
    BY <1>1, <2>1, <2>2, HomingFields
<1> QED
  BY <1>2, <1>3, <1>4, QuietKeeps DEF MotionTypes

\* It speaks to pumps whose threads rest.
LEMMA FireKeeps ==
    ASSUME MotionTypes, OnCourse, NobodyLeftDriving, Fire PROVE MotionTypes' /\ OnCourse'
<1> DEFINE p == homing.p
           c == IF homing.at = -2 THEN TR ELSE Setup[homing.at]
<1>1. /\ p \in Pump /\ homing.at \in -2 .. 0 /\ pump[p] \in Device /\ th[p].pc = "rest"
      /\ homing \in Homings
  BY DEF MotionTypes, Fire, NobodyLeftDriving, Homings
<1>2. c \in Cmd /\ c.do \notin {"still", "move"}
  BY <1>1, OtherCommands
<1>3. PICK o \in Outcomes(pump[p], c) : Exchange(p, o)
  BY DEF Fire
<1>4. UNCHANGED <<th, poured, job, hit, halt>> /\ pump' = [pump EXCEPT ![p] = o.s]
  BY <1>3 DEF Fire, Exchange, stopVars
<1>5. /\ homing' \in Homings
  <2>1. \/ homing.at < 0 /\ homing' = [homing EXCEPT !.at = @ + 1]
        \/ homing.p < NPumps /\ homing' = [homing EXCEPT !.p = @ + 1, !.at = -2]
        \/ UNCHANGED homing
    BY DEF Fire
  <2>2. homing.p < NPumps => homing.p + 1 \in Pump
    BY <1>1, FirstPump DEF Pump
  <2>3. homing.at < 0 => homing.at + 1 \in -2 .. 0
    BY <1>1
  <2> QED
    BY <1>1, <2>1, <2>2, <2>3, HomingFields
<1> HIDE DEF c
<1>6. /\ o.s \in Device /\ o.s.pos = pump[p].pos /\ o.s.port = pump[p].port
      /\ o.s.motor \in {pump[p].motor, Still, c}
  BY <1>1, <1>2, OutcomeIs
<1>7. o.s.motor = pump[p].motor \/ o.s.motor.do # "move"
  BY <1>2, <1>6, OtherCommands
<1> HIDE DEF p
<1> QED
  BY <1>1, <1>4, <1>5, <1>6, <1>7, SpokenKeeps DEF MotionTypes

LEMMA AskHomeKeeps ==
    ASSUME MotionTypes, OnCourse, NobodyLeftDriving, AskHome PROVE MotionTypes' /\ OnCourse'
<1> DEFINE p == homing.p
<1>1. p \in Pump /\ pump[p] \in Device /\ th[p].pc = "rest" /\ homing \in Homings
  BY DEF MotionTypes, AskHome, NobodyLeftDriving, Homings
<1>2. PICK o \in Outcomes(pump[p], Query) :
        /\ Exchange(p, [o EXCEPT !.s = IF o.code \in {9, 15} THEN Performs(@, TR) ELSE @])
        /\ homing' \in {Sought(o), homing, [homing EXCEPT !.res = [q \in Pump |-> NoAnswer]]}
  BY DEF AskHome
<1> DEFINE s == IF o.code \in {9, 15} THEN Performs(o.s, TR) ELSE o.s
<1> HIDE DEF p
<1>a. Query \in Cmd /\ Query.do = "ask"
  BY OtherCommands
<1>b. o.code \in Code0 /\ o.s \in {pump[p], Performs(pump[p], Query)}
  BY <1>1, <1>a, OutcomeIs
<1>c. Performs(pump[p], Query) = pump[p]
  BY <1>1, <1>a, PerformsIs
<1>3. o.s \in Device /\ o.s.pos = pump[p].pos /\ o.s.port = pump[p].port /\ o.s = pump[p] /\ o.code \in Code0
  BY <1>1, <1>b, <1>c
<1>4. s \in Device /\ s.pos = pump[p].pos /\ s.port = pump[p].port /\ s.motor \in {pump[p].motor, Still, TR}
  BY <1>3, OtherCommands, PerformsIs
<1>5. UNCHANGED <<th, poured, job, hit, halt>> /\ pump' = [pump EXCEPT ![p] = s]
  <2>1. [o EXCEPT !.s = IF o.code \in {9, 15} THEN Performs(@, TR) ELSE @].s = s
    BY DEF Outcomes
  <2> QED
    BY <1>2, <2>1 DEF AskHome, Exchange, stopVars
<1>6. homing' \in Homings
  <2>1. [q \in Pump |-> NoAnswer] \in [Pump -> Int] /\ o.code \in Int
    BY <1>3 DEF NoAnswer, Code0, Error
  <2>2. Sought(o) \in Homings
    <3> DEFINE i == [homing EXCEPT !.heard = TRUE]
    <3>1. i \in Homings
      BY <1>1, HomingFields
    <3>2. \/ Sought(o) = [homing EXCEPT !.idle[p] = 0] \/ Sought(o) = i
          \/ Sought(o) = [i EXCEPT !.idle[p] = 0] \/ Sought(o) = [i EXCEPT !.idle[p] = 1]
          \/ Sought(o) = [i EXCEPT !.wait = @ \ {p}]
          \/ Sought(o) = [i EXCEPT !.wait = @ \ {p}, !.res[p] = o.code]
      <4>1. CASE o.code = NoAnswer
        BY <4>1 DEF Sought, NoAnswer, p
      <4>2. CASE o.code = 7
        BY <4>2 DEF Sought, NoAnswer, p
      <4>3. CASE o.code = 0 /\ Busy(o.s)
        BY <4>3 DEF Sought, NoAnswer, p
      <4>4. CASE o.code = 0 /\ ~Busy(o.s) /\ homing.idle[p] = 0
        BY <4>4 DEF Sought, NoAnswer, p
      <4>5. CASE o.code = 0 /\ ~Busy(o.s) /\ homing.idle[p] # 0
        BY <4>5 DEF Sought, NoAnswer, p
      <4>6. CASE o.code \notin {NoAnswer, 7, 0}
        BY <4>6 DEF Sought, NoAnswer, p
      <4> QED
        BY <4>1, <4>2, <4>3, <4>4, <4>5, <4>6
    <3>3. [i EXCEPT !.wait = @ \ {p}] = [i EXCEPT !.wait = i.wait \ {p}]
          /\ [i EXCEPT !.wait = @ \ {p}, !.res[p] = o.code] = [i EXCEPT !.wait = i.wait \ {p}, !.res[p] = o.code]
      OBVIOUS
    <3> HIDE DEF i
    <3>4. i.wait \ {p} \in SUBSET Pump
      BY <3>1 DEF Homings
    <3>5. [homing EXCEPT !.idle[p] = 0] \in Homings
      BY <1>1, HomingFields
    <3>6. [i EXCEPT !.idle[p] = 0] \in Homings /\ [i EXCEPT !.idle[p] = 1] \in Homings
      BY <1>1, <3>1, HomingFields
    <3>7. [i EXCEPT !.wait = i.wait \ {p}] \in Homings
      BY <3>1, <3>4, HomingFields
    <3>8. [i EXCEPT !.wait = i.wait \ {p}, !.res[p] = o.code] \in Homings
      BY <1>1, <2>1, <3>1, <3>4, HomingFields
    <3> QED
      BY <3>1, <3>2, <3>3, <3>5, <3>6, <3>7, <3>8
  <2>4. [homing EXCEPT !.res = [q \in Pump |-> NoAnswer]] \in Homings
    BY <1>1, <2>1, HomingFields
  <2> QED
    BY <1>1, <1>2, <2>2, <2>4
<1>7. s.motor = pump[p].motor \/ s.motor.do # "move"
  BY <1>4, OtherCommands
<1> HIDE DEF s
<1> QED
  BY <1>1, <1>4, <1>5, <1>6, <1>7, SpokenKeeps DEF MotionTypes

\* A stop reaches the pump: it is not on course any more.
LEMMA WatchKeeps ==
    ASSUME MotionTypes, OnCourse, Watch \/ AskStop \/ LiftStop PROVE MotionTypes' /\ OnCourse'
<1>1. halt \in Halts /\ halt.p \in Pump /\ pump[halt.p] \in Device
  BY DEF MotionTypes, Halts
<1>2. halt' \in Halts
  <2>1. \/ UNCHANGED halt
        \/ halt' = [halt EXCEPT !.pc = "drop"]
        \/ \E pc \in {"watch", "stop", "drop"} : halt' = [pc |-> pc, p |-> 1]
        \/ halt.p < NPumps /\ halt' = [pc |-> "stop", p |-> halt.p + 1]
    BY DEF Watch, AskStop, LiftStop, SeeStop, SeeLifted, HaltPump, DropPump, Watching
  <2>2. halt.p < NPumps => halt.p + 1 \in Pump
    BY <1>1, FirstPump DEF Pump
  <2> QED
    BY <1>1, <2>1, <2>2, FirstPump DEF Halts
<1>3. CASE HaltPump
  <2>1. PICK o \in Outcomes(pump[halt.p], TR) : Exchange(halt.p, o)
    BY <1>3 DEF HaltPump
  <2>2. o.s \in Device
    BY <1>1, OtherCommands, OutcomeIs
  <2>3. /\ UNCHANGED <<th, poured, job, homing>> /\ pump' = [pump EXCEPT ![halt.p] = o.s]
        /\ hit' = hit \cup {halt.p}
    BY <1>3, <2>1 DEF HaltPump, Exchange
  <2> QED
    BY <1>1, <1>2, <2>2, <2>3, SpokenKeeps DEF MotionTypes
<1>4. CASE SeeStop \/ SeeLifted \/ DropPump \/ AskStop \/ LiftStop
  <2>1. UNCHANGED <<pump, th, poured, hit, job, homing>>
    BY <1>4 DEF SeeStop, SeeLifted, DropPump, AskStop, LiftStop, devVars
  <2> QED
    BY <1>2, <2>1, QuietKeeps DEF MotionTypes
<1> QED
  BY <1>3, <1>4 DEF Watch

LEMMA ParkNextKeeps ==
    ASSUME MotionTypes, OnCourse, NobodyLeftDriving, ParkNext PROVE MotionTypes' /\ OnCourse'
<1>1. homing \in Homings /\ homing.wait \subseteq Pump /\ th \in [Pump -> Step] /\ pump \in [Pump -> Device]
  BY DEF MotionTypes, Homings
<1>2. UNCHANGED <<pump, poured, job, hit, halt>>
  BY DEF ParkNext, devVars, stopVars
<1>3. CASE UNCHANGED th /\ homing' \in {homing, [homing EXCEPT !.res = [p \in Pump |-> NoAnswer]]}
  <2>1. [p \in Pump |-> NoAnswer] \in [Pump -> Int]
    BY DEF NoAnswer
  <2>2. homing' \in Homings
    <3>1. [homing EXCEPT !.res = [p \in Pump |-> NoAnswer]] \in Homings
      BY <1>1, <2>1, HomingFields
    <3> QED
      BY <1>1, <1>3, <3>1
  <2> QED
    BY <1>2, <1>3, <2>2, QuietKeeps DEF MotionTypes
<1>4. ASSUME NEW p \in homing.wait, th' = [th EXCEPT ![p] = [Resting EXCEPT !.pc = "send", !.at = Park]],
             homing' = [homing EXCEPT !.wait = @ \ {p}]
      PROVE  MotionTypes' /\ OnCourse'
  <2> DEFINE t == [Resting EXCEPT !.pc = "send", !.at = Park]
  <2>1. t.pc = "send" /\ t.at = -2 /\ t.busy = 0 /\ t.out = "none" /\ t \in Step
    <3>1. Resting \in Step /\ Resting.busy = 0 /\ Resting.out = "none" /\ Park \in -2 .. Last /\ Park = -2
      BY LastIs, RestingIs DEF Park
    <3> QED
      BY <3>1 DEF Step
  <2>2. th' = [th EXCEPT ![p] = t]
    BY <1>4
  <2> HIDE DEF t
  <2>3. Counts(t)
    BY <2>1 DEF Counts
  <2>4. p \in Pump /\ pump[p] \in Device /\ pump' = [pump EXCEPT ![p] = pump[p]]
    BY <1>1, <1>2
  <2>5. homing' \in Homings
    <3>1. homing' = [homing EXCEPT !.wait = homing.wait \ {p}] /\ homing.wait \ {p} \in SUBSET Pump
      BY <1>1, <1>4
    <3> QED
      BY <1>1, <3>1, HomingFields
  <2>6. job.kind = "batch" /\ p \notin hit => Course(t, pump[p], poured[p])
    <3>1. job.kind = "batch" /\ p \notin hit => Draws(pump[p])
      BY <2>4 DEF OnCourse, Course
    <3> QED
      BY <2>1, <3>1, OwesNothing
  <2> QED
    BY <1>2, <2>1, <2>2, <2>3, <2>4, <2>5, <2>6, OneThreadHoming
<1> QED
  BY <1>3, <1>4 DEF ParkNext

LEMMA ScriptLength == ASSUME NEW kind PROVE Len(Script(kind)) \in Nat /\ Len(Script(kind)) >= 2
<1>1. Full \in Nat /\ Full >= 1
  BY Places
<1>2. Len(Plunger) = 2
  BY DEF Plunger
<1>3. Len(Batch) \in Nat /\ Len(Batch) >= 2
  BY <1>1, BatchIs
<1> QED
  BY <1>2, <1>3 DEF Script

\* A thread that is given a step to do, or none.
LEMMA FreshThreads ==
    ASSUME NEW t \in {Resting, [Resting EXCEPT !.pc = "ready"], [Resting EXCEPT !.out = "failed"]}
    PROVE  /\ t \in Step /\ t \in Step' /\ Counts(t) /\ t.pc \in {"rest", "ready"} /\ t.out # "ok"
<1>1. 1 \in -2 .. Last /\ 1 \in -2 .. Last'
  <2>1. Last \in Nat /\ Last >= 2 /\ Last' \in Nat /\ Last' >= 2
    BY ScriptLength DEF Last
  <2> QED
    BY <2>1
<1>2. CASE t = Resting
  BY <1>1, <1>2 DEF Resting, Step, Counts
<1>3. CASE t = [Resting EXCEPT !.pc = "ready"]
  BY <1>1, <1>3 DEF Resting, Step, Counts
<1>4. CASE t = [Resting EXCEPT !.out = "failed"]
  BY <1>1, <1>4 DEF Resting, Step, Counts
<1> QED
  BY <1>2, <1>3, <1>4

\* Every thread starts anew, with the pumps as they are.
LEMMA StartKeeps ==
    ASSUME MotionTypes, OnCourse, Start PROVE MotionTypes' /\ OnCourse'
<1>1. UNCHANGED <<pump, poured, homing, job, halt, hit>>
  BY DEF Start, stopVars
<1>2. /\ DOMAIN th' = Pump /\ th' = [p \in Pump |-> th'[p]]
      /\ \A p \in Pump : th'[p] \in {[Resting EXCEPT !.pc = "ready"], [Resting EXCEPT !.out = "failed"]}
  BY DEF Start
<1>3. \A p \in Pump : th'[p] \in Step' /\ Counts(th'[p]) /\ th'[p].pc \in {"rest", "ready"} /\ th'[p].out # "ok"
  BY <1>2, FreshThreads
<1>4. th' \in [Pump -> Step']
  BY <1>2, <1>3
<1>5. MotionTypes'
  BY <1>1, <1>3, <1>4 DEF MotionTypes, Counts
<1>6. ASSUME job.kind = "batch", NEW p \in Pump \ hit PROVE Course(th'[p], pump[p], poured[p])
  <2>1. Draws(pump[p])
    BY <1>6 DEF OnCourse, Course
  <2> QED
    BY <1>3, <2>1, OwesNothing
<1> QED
  BY <1>1, <1>5, <1>6 DEF OnCourse

\* A pump that stands when the job begins is on course.
LEMMA BeginKeeps ==
    ASSUME MotionTypes, NEW kind \in Kinds, NEW first, Begin(kind, first) PROVE MotionTypes' /\ OnCourse' /\ CompletedPoured'
<1>1. UNCHANGED <<pump, halt>> /\ th' = [p \in Pump |-> Resting] /\ homing' = Fresh
      /\ job' = [kind |-> kind, verdict |-> "none"] /\ poured' = [p \in Pump |-> 0]
      /\ hit' = {p \in Pump : Busy(pump[p])}
  BY DEF Begin, stopVars
<1>2. job' \in Jobs /\ homing' \in Homings
  BY <1>1, FirstPump, MotionAssumption DEF Jobs, Homings, Fresh
<1>3. Resting \in Step' /\ Counts(Resting) /\ Resting.pc = "rest" /\ Resting.out = "none"
  BY FreshThreads DEF Resting
<1>4. MotionTypes'
  BY <1>1, <1>2, <1>3 DEF MotionTypes, Counts
<1>5. ASSUME NEW p \in Pump \ hit' PROVE Course(th'[p], pump[p], poured'[p])
  <2>1. pump[p].motor = Still
    BY <1>1, <1>5 DEF Busy
  <2>2. Draws(pump[p])
    BY <2>1, OtherCommands DEF Draws
  <2>3. th'[p] = Resting
    BY <1>1, <1>5
  <2> QED
    BY <1>3, <2>2, <2>3, OwesNothing
<1>6. CompletedPoured'
  BY <1>1 DEF CompletedPoured
<1> QED
  BY <1>1, <1>4, <1>5, <1>6 DEF OnCourse

\* The verdict: all threads of a completed stage have come to the end.
LEMMA JudgeKeeps ==
    ASSUME MotionTypes, OnCourse, Judge PROVE MotionTypes' /\ OnCourse' /\ CompletedPoured'
<1>1. UNCHANGED <<pump, th, poured, hit, halt, homing>>
  BY DEF Judge, devVars, stopVars
<1>2. PICK v \in {"completed", "interrupted", "failed"} :
        job' = [job EXCEPT !.verdict = v] /\ (v = "completed" => AllOk)
  <2> DEFINE v == CASE AllOk -> "completed" [] ~AllOk /\ latch -> "interrupted" [] OTHER -> "failed"
  <2>1. v \in {"completed", "interrupted", "failed"} /\ (v = "completed" => AllOk)
    OBVIOUS
  <2>2. job' = [job EXCEPT !.verdict = v]
    BY DEF Judge, End
  <2> HIDE DEF v
  <2> QED
    BY <2>1, <2>2
<1>3. job' \in Jobs /\ job'.kind = job.kind /\ job'.verdict = v
  BY <1>2 DEF MotionTypes, Jobs
<1>4. MotionTypes' /\ OnCourse'
  BY <1>1, <1>3, QuietKeeps DEF MotionTypes
<1>5. CompletedPoured'
  <2>1. ASSUME v = "completed", job.kind = "batch", NEW p \in Pump \ hit PROVE poured[p] >= Full
    BY <1>2, <2>1 DEF AllOk, OnCourse, Course
  <2> QED
    BY <1>1, <1>3, <2>1 DEF CompletedPoured
<1> QED
  BY <1>4, <1>5

-----------------------------------------------------------------------------
(* The whole system.                                                       *)

LEMMA ThreadKeeps ==
    ASSUME MotionTypes, OnCourse, NEW p \in Pump, Thread(p) \/ Expire(p) PROVE MotionTypes' /\ OnCourse'
  BY EnsureReadyKeeps, ClearErrorKeeps, SendKeeps, CheckKeeps, AskKeeps, TerminateKeeps, EnlistKeeps DEF Thread

\* A thread that makes a step is of a stage, or parks a valve.
LEMMA ThreadDrives ==
    ASSUME NobodyLeftDriving, NEW p \in Pump, Thread(p) \/ Expire(p)
    PROVE  NobodyLeftDriving' /\ UNCHANGED <<job, hit, poured>>
<1>1. th[p].pc # "rest"
  BY DEF Thread, EnsureReady, ClearError, Send, Check, Ask, Terminate, Enlist, Expire
<1>2. main' = main
  BY DEF Thread, EnsureReady, ClearError, Send, Check, Ask, Terminate, Enlist, Expire
<1>3. UNCHANGED <<job, hit, poured>>
  BY DEF Thread, EnsureReady, ClearError, Send, Check, Ask, Terminate, Enlist, Expire, Exchange, devVars
<1> QED
  BY <1>1, <1>2, <1>3 DEF NobodyLeftDriving

LEMMA ConsumeKeeps ==
    ASSUME MotionTypes, NobodyLeftDriving, OnCourse, CompletedPoured, Consume \/ AssumeHome
    PROVE  MotionTypes' /\ NobodyLeftDriving' /\ OnCourse' /\ CompletedPoured'
<1>1. CASE HeadOfStage \/ ClearLatch \/ Look \/ Seek \/ AssumeHome \/ Probe \/ EnlistAll \/ JudgeInit
  <2>1. UNCHANGED <<th, poured, hit>> /\ main \notin {"run", "park"}
    BY <1>1 DEF HeadOfStage, ClearLatch, Look, Looked, Seek, AssumeHome, Probe, EnlistAll, JudgeInit, devVars
  <2>2. UNCHANGED job \/ \E v \in {"interrupted", "failed"} : job' = [job EXCEPT !.verdict = v]
    BY <1>1 DEF HeadOfStage, ClearLatch, Look, Seek, AssumeHome, Probe, EnlistAll, JudgeInit, End
  <2>3. NobodyLeftDriving'
    BY <2>1 DEF NobodyLeftDriving
  <2>4. CompletedPoured'
    BY <2>1, <2>2 DEF CompletedPoured, MotionTypes, Jobs
  <2> QED
    BY <1>1, <2>3, <2>4, HomingKeeps
<1>2. CASE Fire \/ AskHome
  <2>1. UNCHANGED <<th, poured, hit, job>> /\ main \notin {"run", "park"}
    BY <1>2 DEF Fire, AskHome, Exchange
  <2>2. NobodyLeftDriving' /\ CompletedPoured'
    BY <2>1 DEF NobodyLeftDriving, CompletedPoured
  <2> QED
    BY <1>2, <2>2, FireKeeps, AskHomeKeeps
<1>3. CASE ParkNext
  <2>1. main = "park" /\ (main' = main \/ UNCHANGED th) /\ UNCHANGED <<poured, hit, job>>
        /\ \A p \in Pump : th[p].pc = "rest"
    BY <1>3 DEF ParkNext, devVars
  <2>2. NobodyLeftDriving' /\ CompletedPoured'
    BY <2>1 DEF NobodyLeftDriving, CompletedPoured
  <2> QED
    BY <1>3, <2>2, ParkNextKeeps
<1>4. CASE Start
  <2>1. main' = "run" /\ UNCHANGED <<poured, hit, job>>
    BY <1>4 DEF Start
  <2>2. NobodyLeftDriving' /\ CompletedPoured'
    BY <2>1 DEF NobodyLeftDriving, CompletedPoured
  <2> QED
    BY <1>4, <2>2, StartKeeps
<1>5. CASE Judge
  <2>1. NobodyLeftDriving'
    BY <1>5 DEF Judge, Joined, NobodyLeftDriving
  <2> QED
    BY <1>5, <2>1, JudgeKeeps
<1> QED
  BY <1>1, <1>2, <1>3, <1>4, <1>5 DEF Consume

LEMMA MotionStep == ASSUME MotionInv, [Next]_vars PROVE MotionInv'
<1> USE DEF MotionInv
<1>1. ASSUME NEW kind \in Kinds, NEW first \in {"init", "stage"}, Begin(kind, first) PROVE MotionInv'
  <2>1. NobodyLeftDriving'
    BY <1>1 DEF Begin, NobodyLeftDriving, Resting
  <2> QED
    BY <1>1, <2>1, BeginKeeps
<1>2. CASE Consume \/ AssumeHome
  BY <1>2, ConsumeKeeps
<1>3. ASSUME NEW p \in Pump, Thread(p) \/ Expire(p) PROVE MotionInv'
  <2>1. NobodyLeftDriving' /\ UNCHANGED <<job, hit, poured>>
    BY <1>3, ThreadDrives
  <2> QED
    BY <1>3, <2>1, ThreadKeeps DEF CompletedPoured
<1>4. ASSUME NEW p \in Pump, Mechanics(p) PROVE MotionInv'
  <2>1. /\ poured' \in [Pump -> Nat] /\ \A q \in Pump \ {p} : poured'[q] = poured[q]
        /\ poured'[p] >= poured[p] /\ poured \in [Pump -> Nat] /\ Full \in Nat
    BY <1>4, MechanicsIs, Places DEF MotionTypes
  <2>2. UNCHANGED <<th, main, job, hit>>
    BY <1>4 DEF Mechanics
  <2>3. \A q \in Pump : poured'[q] \in Nat /\ poured[q] \in Nat /\ poured'[q] >= poured[q]
    BY <2>1
  <2>4. NobodyLeftDriving'
    BY <2>2 DEF NobodyLeftDriving
  <2>5. CompletedPoured'
    BY <2>1, <2>2, <2>3 DEF CompletedPoured
  <2> QED
    BY <1>4, <2>4, <2>5, MechanicsKeeps
<1>5. ASSUME NEW p \in Pump, NEW e \in {7, 9, 15}, Break(p, e) PROVE MotionInv'
  <2>1. NobodyLeftDriving' /\ CompletedPoured'
    BY <1>5 DEF Break, NobodyLeftDriving, CompletedPoured
  <2> QED
    BY <1>5, <2>1, BreakKeeps
<1>6. CASE AskStop \/ LiftStop \/ Watch
  <2>1. UNCHANGED <<th, main, job, poured>> /\ hit \subseteq hit'
    BY <1>6 DEF AskStop, LiftStop, Watch, SeeStop, SeeLifted, HaltPump, DropPump, Exchange, devVars
  <2>2. NobodyLeftDriving' /\ CompletedPoured'
    BY <2>1 DEF NobodyLeftDriving, CompletedPoured
  <2> QED
    BY <1>6, <2>2, WatchKeeps
<1>7. CASE UNCHANGED vars
  <2>1. UNCHANGED <<pump, poured, th, main, homing, job, halt, hit>>
    BY <1>7 DEF vars, devVars, stopVars
  <2>2. MotionTypes' /\ OnCourse'
    BY <2>1, QuietKeeps DEF MotionTypes
  <2> QED
    BY <2>1, <2>2 DEF NobodyLeftDriving, CompletedPoured
<1> QED
  BY <1>1, <1>2, <1>3, <1>4, <1>5, <1>6, <1>7 DEF Next

LEMMA MotionInit == Init => MotionInv
<1> SUFFICES ASSUME Init PROVE MotionInv
  OBVIOUS
<1>1. Resting \in Step /\ Counts(Resting) /\ Resting.pc = "rest" /\ Resting.out = "none"
  BY FreshThreads DEF Resting
<1> DEFINE s == [pos |-> 0, port |-> OutPort, motor |-> Still, err |-> 0]
<1>2. s \in Device /\ s.motor = Still
  BY MotionAssumption DEF Device, Error, Motor
<1> HIDE DEF s
<1>3. Draws(s)
  BY <1>2, OtherCommands DEF Draws
<1>4. homing \in Homings /\ halt \in Halts /\ job \in Jobs
  BY FirstPump DEF Init, Fresh, Watching, Homings, Halts, Jobs
<1>5. pump = [p \in Pump |-> s] /\ th = [p \in Pump |-> Resting] /\ poured = [p \in Pump |-> 0] /\ job.verdict = "none"
  BY DEF Init, s
<1>6. MotionTypes
  BY <1>1, <1>2, <1>4, <1>5 DEF MotionTypes
<1>7. OnCourse
  BY <1>1, <1>3, <1>5, OwesNothing DEF OnCourse
<1> QED
  BY <1>1, <1>5, <1>6, <1>7 DEF MotionInv, NobodyLeftDriving, CompletedPoured

\* run_chain reports a job completed only when each pump has pushed out all
\* that was drawn, whatever was lost, garbled, refused or late on the way,
\* however often a step was tried again, and unless a stop reached the pump.
THEOREM CompletedJobsPoured == Spec => []CompletedPoured
<1>1. MotionInv /\ [Next]_vars => MotionInv'
  BY MotionStep
<1>2. MotionInv => CompletedPoured
  BY DEF MotionInv
<1> QED
  BY <1>1, <1>2, MotionInit, PTL DEF Spec

-----------------------------------------------------------------------------
(* Where the liquid comes from.                                            *)

\* Within the stroke of the batch, whatever it performs.
Fits(s) == s.pos <= Full /\ (s.motor.do = "move" => s.motor.to <= Full)
Meant(c) == c.do = "move" => c.to <= Full

\* A pump that is spoken to does not move in that step.
LEMMA SpokenStands ==
    ASSUME MotionTypes, NEW p \in Pump, NEW s \in Device, pump' = [pump EXCEPT ![p] = s], s.pos = pump[p].pos,
           Fits(pump[p]) => Fits(s)
    PROVE  \A q \in Pump : pump'[q].pos = pump[q].pos /\ (Fits(pump[q]) => Fits(pump'[q]))
  BY DEF MotionTypes

LEMMA OutcomeFits ==
    ASSUME NEW s \in Device, NEW r, NEW c, Fits(s), Meant(c), r.pos = s.pos, r.motor \in {s.motor, Still, c}
    PROVE  Fits(r)
  BY OtherCommands DEF Fits, Meant

\* No command of a step goes beyond the stroke.
LEMMA CommandMeant ==
    ASSUME MotionTypes, NEW k \in -2 .. Last PROVE Meant(Command(job.kind, k))
<1>0. Last \in Nat /\ Full \in Nat /\ Full >= 1 /\ OutPort \in Nat /\ AirPort \in Nat
  BY LastIs, Places, MotionAssumption
<1>1. CASE k < 1
  BY <1>1, CommandIs DEF Meant
<1>2. CASE k >= 1 /\ job.kind = "batch"
  <2>1. Command(job.kind, k) = Batch[k] /\ k \in 1 .. 2 * Full + 2
    BY <1>0, <1>2, CommandIs, LastIs
  <2>2. CASE \E i \in 1 .. Full : k = 2 * i - 1
    <3>1. PICK i \in 1 .. Full : k = 2 * i - 1
      BY <2>2
    <3>2. Batch[k] = Turn(Aspirations[i]) /\ Aspirations[i] \in Nat
      BY <3>1, BatchIs, Places
    <3> QED
      BY <2>1, <3>2, Turned DEF Meant
  <2>3. CASE \E i \in 1 .. Full : k = 2 * i
    <3>1. PICK i \in 1 .. Full : k = 2 * i
      BY <2>3
    <3>2. Batch[k] = Move(i) /\ i \in Nat /\ i <= Full
      BY <1>0, <3>1, BatchIs
    <3> QED
      BY <2>1, <3>2, Turned DEF Meant
  <2>4. CASE k = 2 * Full + 1
    BY <1>0, <2>1, <2>4, BatchIs, Turned DEF Meant
  <2>5. CASE k = 2 * Full + 2
    BY <1>0, <2>1, <2>5, BatchIs, Turned DEF Meant
  <2> QED
    BY <2>1, <2>2, <2>3, <2>4, <2>5, Parity
<1>3. CASE k >= 1 /\ job.kind # "batch"
  <2>1. Command(job.kind, k) = Plunger[k] /\ k \in {1, 2}
    <3>1. Script(job.kind) = Plunger /\ Len(Plunger) = 2
      BY <1>3 DEF Script, Plunger
    <3>2. Last = 2
      BY <3>1 DEF Last
    <3> QED
      BY <1>3, <3>1, <3>2, CommandIs
  <2>2. Plunger[1] = Turn(AirPort) /\ Plunger[2] = Move(Full)
    BY DEF Plunger
  <2> QED
    BY <1>0, <2>1, <2>2, Turned DEF Meant
<1>4. k \in Int
  BY <1>0
<1> QED
  BY <1>1, <1>2, <1>3, <1>4

LEMMA OthersStand ==
    ASSUME MotionTypes, Next, \A p \in Pump : ~Mechanics(p)
    PROVE  \A q \in Pump : pump'[q].pos = pump[q].pos /\ (Fits(pump[q]) => Fits(pump'[q]))
<1> DEFINE Goal == \A q \in Pump : pump'[q].pos = pump[q].pos /\ (Fits(pump[q]) => Fits(pump'[q]))
<1>0. /\ homing.p \in Pump /\ homing.at \in -2 .. 0 /\ halt.p \in Pump /\ pump \in [Pump -> Device]
      /\ th \in [Pump -> Step]
  BY DEF MotionTypes, Homings, Halts
<1>1. ASSUME NEW p \in Pump, NEW c \in Cmd, c.do # "still", Meant(c), NEW o \in Outcomes(pump[p], c), Exchange(p, o)
      PROVE  Goal
  <2>1. o.s \in Device /\ o.s.pos = pump[p].pos /\ o.s.motor \in {pump[p].motor, Still, c}
    BY <1>0, <1>1, OutcomeIs
  <2>2. Fits(pump[p]) => Fits(o.s)
    BY <1>0, <1>1, <2>1, OutcomeFits
  <2> QED
    BY <1>1, <2>1, <2>2, SpokenStands DEF Exchange
<1>m. Meant(TR) /\ Meant(Query) /\ Meant(Setup[-1]) /\ Meant(Setup[0])
  BY OtherCommands DEF Meant
<1>2. ASSUME NEW p \in Pump, Thread(p) \/ Expire(p) PROVE Goal
  <2>1. CASE EnsureReady(p) \/ Check(p) \/ Enlist(p) \/ Expire(p)
    BY <2>1 DEF EnsureReady, Check, Enlist, Expire, devVars
  <2>2. CASE ClearError(p) \/ Terminate(p)
    BY <1>1, <1>m, <2>2, OtherCommands DEF ClearError, Terminate
  <2>3. CASE Ask(p)
    BY <1>1, <1>m, <2>3, OtherCommands DEF Ask
  <2>4. CASE Send(p)
    <3>1. th[p].at \in -2 .. Last
      BY <1>0 DEF Step
    <3> QED
      BY <1>1, <2>4, <3>1, CommandIs, CommandMeant DEF Send
  <2> QED
    BY <1>2, <2>1, <2>2, <2>3, <2>4 DEF Thread
<1>3. CASE Fire
  <2> DEFINE c == IF homing.at = -2 THEN TR ELSE Setup[homing.at]
  <2>1. c \in Cmd /\ c.do # "still" /\ Meant(c)
    BY <1>0, <1>m, OtherCommands
  <2>2. \E o \in Outcomes(pump[homing.p], c) : Exchange(homing.p, o)
    BY <1>3 DEF Fire
  <2> HIDE DEF c
  <2> QED
    BY <1>0, <1>1, <2>1, <2>2
<1>4. CASE AskHome
  <2>1. PICK o \in Outcomes(pump[homing.p], Query) :
          Exchange(homing.p, [o EXCEPT !.s = IF o.code \in {9, 15} THEN Performs(@, TR) ELSE @])
    BY <1>4 DEF AskHome
  <2> DEFINE s == IF o.code \in {9, 15} THEN Performs(o.s, TR) ELSE o.s
  <2>2. pump[homing.p] \in Device
    BY <1>0
  <2>3. /\ o.s \in Device /\ o.s.pos = pump[homing.p].pos
        /\ o.s.motor \in {pump[homing.p].motor, Still, Query}
    BY <2>2, OtherCommands, OutcomeIs
  <2>4. s \in Device /\ s.pos = pump[homing.p].pos /\ s.motor \in {o.s.motor, Still, TR}
    BY <2>3, OtherCommands, PerformsIs
  <2>7. Fits(pump[homing.p]) => Fits(s)
    BY <1>m, <2>2, <2>3, <2>4, OutcomeFits
  <2>5. [o EXCEPT !.s = IF o.code \in {9, 15} THEN Performs(@, TR) ELSE @].s = s
    BY DEF Outcomes
  <2>6. pump' = [pump EXCEPT ![homing.p] = s]
    BY <2>1, <2>5 DEF Exchange
  <2> HIDE DEF s
  <2> QED
    BY <1>0, <2>4, <2>6, <2>7, SpokenStands
<1>5. CASE HaltPump
  BY <1>0, <1>1, <1>5, <1>m, OtherCommands DEF HaltPump
<1>6. ASSUME NEW p \in Pump, NEW e \in {7, 9, 15}, Break(p, e) PROVE Goal
  <2> DEFINE s == [pump[p] EXCEPT !.motor = Still, !.err = e]
  <2>1. pump' = [pump EXCEPT ![p] = s] /\ pump[p] \in Device
    BY <1>0, <1>6 DEF Break
  <2>2. s \in Device /\ s.pos = pump[p].pos /\ s.motor = Still
    BY <2>1 DEF Device, Motor, Error
  <2> HIDE DEF s
  <2>3. Fits(pump[p]) => Fits(s)
    BY <1>m, <2>1, <2>2, OutcomeFits
  <2> QED
    BY <2>1, <2>2, <2>3, SpokenStands
<1>7. ASSUME UNCHANGED pump PROVE Goal
  BY <1>7
<1>8. ASSUME NEW kind \in Kinds, NEW first \in {"init", "stage"}, Begin(kind, first) PROVE UNCHANGED pump
  BY <1>8 DEF Begin
<1>9. CASE \/ HeadOfStage \/ ClearLatch \/ Look \/ Seek \/ AssumeHome \/ Probe \/ ParkNext
           \/ EnlistAll \/ JudgeInit \/ Start \/ Judge
  BY <1>7, <1>9 DEF HeadOfStage, ClearLatch, Look, Seek, AssumeHome, Probe, ParkNext, EnlistAll, JudgeInit,
                    Start, Judge, devVars
<1>10. CASE AskStop \/ LiftStop \/ SeeStop \/ SeeLifted \/ DropPump
  BY <1>7, <1>10 DEF AskStop, LiftStop, SeeStop, SeeLifted, DropPump, devVars
<1>11. CASE Consume \/ AssumeHome
  BY <1>3, <1>4, <1>9, <1>11 DEF Consume
<1>12. CASE AskStop \/ LiftStop \/ Watch
  BY <1>5, <1>10, <1>12 DEF Watch
<1>13. CASE \E kind \in Kinds, first \in {"init", "stage"} : Begin(kind, first)
  BY <1>7, <1>8, <1>13
<1>14. CASE \E p \in Pump : Thread(p) \/ Expire(p) \/ Mechanics(p) \/ \E e \in {7, 9, 15} : Break(p, e)
  BY <1>2, <1>6, <1>14
<1> QED
  BY <1>11, <1>12, <1>13, <1>14 DEF Next

\* dispense_batch draws each unit through the port of its aspiration: no command
\* that a still moving pump refused, and no answer that was lost, makes it draw
\* through another one, unless a stop cuts the turn short.
THEOREM DrawnThroughTheRightPort == Spec => DrawnThroughItsPort
<1> DEFINE Right == \A p \in Pump \ hit : job.kind = "batch" /\ pump'[p].pos > pump[p].pos
                       => pump[p].port = Aspirations[pump'[p].pos]
<1>1. MotionInv /\ [Next]_vars => MotionInv'
  BY MotionStep
<1>2. MotionInv /\ [Next]_vars => [Right]_vars
  <2> SUFFICES ASSUME MotionInv, Next PROVE Right
    OBVIOUS
  <2>0. MotionTypes /\ OnCourse /\ pump \in [Pump -> Device]
    BY DEF MotionInv, MotionTypes
  <2>1. ASSUME NEW q \in Pump, Mechanics(q) PROVE Right
    <3>1. SUFFICES ASSUME NEW p \in Pump \ hit, job.kind = "batch", pump'[p].pos > pump[p].pos
                   PROVE  pump[p].port = Aspirations[pump'[p].pos]
      OBVIOUS
    <3>2. (\A r \in Pump \ {q} : pump'[r] = pump[r]) /\ Busy(pump[q]) /\ Moved(pump[q], pump'[q])
      BY <2>0, <2>1, MechanicsIs
    <3>3. CASE p = q
      <4>1. Draws(pump[p]) /\ pump[p] \in Device
        BY <2>0, <3>1 DEF OnCourse, Course
      <4> QED
        BY <3>1, <3>2, <3>3, <4>1, MovedDraws
    <3>4. CASE p # q
      <4>1. pump[p].pos \in Nat /\ pump'[p] = pump[p]
        BY <2>0, <3>2, <3>4 DEF Device
      <4> QED
        BY <3>1, <4>1
    <3> QED
      BY <3>3, <3>4
  <2>2. ASSUME \A p \in Pump : ~Mechanics(p) PROVE Right
    <3>1. \A p \in Pump : pump'[p].pos = pump[p].pos /\ pump[p].pos \in Nat
      BY <2>0, <2>2, OthersStand DEF Device
    <3> QED
      BY <3>1
  <2> QED
    BY <2>1, <2>2
<1> QED
  BY <1>1, <1>2, MotionInit, PTL DEF Spec, DrawnThroughItsPort

-----------------------------------------------------------------------------
(* What is within its bounds.                                              *)

Limits(t) == t.busy <= 3 /\ t.tries <= Retries

Mains == DOMAIN Looked \cup {"over", "init", "clear", "fire", "seek", "ask", "probe",
            "park", "enlist", "judge", "stage", "start", "run"}

\* The plunger is within the stroke, a step is tried no more often than allowed,
\* and a homing pump has said twice in a row at most that it is idle.
StrokeFits == \A p \in Pump : Fits(pump[p])
StepsFit == \A p \in Pump : Limits(th[p])
HomingFits == \A p \in Pump : homing.idle[p] \in 0 .. 1 /\ homing.res[p] \in Code0
RestFits ==
    /\ inited \subseteq Pump /\ hit \subseteq Pump /\ latch \in BOOLEAN /\ main \in Mains
    /\ job.kind \in Kinds \cup {"batch"}
    /\ asked \in 0 .. MaxStops /\ seen \in 0 .. MaxStops /\ stops \in 0 .. MaxStops
    /\ noise \in 0 .. MaxNoise

-----------------------------------------------------------------------------
\* The motor of a pump that goes on stays within the stroke.
LEMMA MovedFits ==
    ASSUME NEW s \in Device, NEW r, Moved(s, r), Busy(s), Fits(s) PROVE Fits(r)
<1>1. /\ s.pos \in Nat /\ r.pos \in Nat /\ Full \in Nat
      /\ s.motor \in [do : {"turn", "move", "home"}, to : Nat] /\ s.motor.to \in Nat
  BY Places DEF Moved, Device, Motor, Busy
<1>2. r.motor \in {Still, s.motor}
  BY DEF Moved
<1>3. CASE s.motor.do = "move"
  BY <1>1, <1>2, <1>3, OtherCommands DEF Moved, Fits
<1>4. CASE s.motor.do = "turn"
  BY <1>1, <1>2, <1>4, OtherCommands DEF Moved, Fits
<1>5. CASE s.motor.do = "home"
  BY <1>1, <1>2, <1>5, OtherCommands DEF Moved, Fits
<1> QED
  BY <1>1, <1>3, <1>4, <1>5

LEMMA StrokeStep == ASSUME MotionTypes, StrokeFits, [Next]_vars PROVE StrokeFits'
<1>0. pump \in [Pump -> Device]
  BY DEF MotionTypes
<1>1. ASSUME NEW p \in Pump, Mechanics(p) PROVE StrokeFits'
  <2>1. (\A q \in Pump \ {p} : pump'[q] = pump[q]) /\ Busy(pump[p]) /\ Moved(pump[p], pump'[p])
    BY <1>1, MechanicsIs
  <2>2. Fits(pump'[p])
    BY <1>0, <2>1, MovedFits DEF StrokeFits
  <2> QED
    BY <2>1, <2>2 DEF StrokeFits, Fits
<1>2. CASE Next /\ \A p \in Pump : ~Mechanics(p)
  BY <1>2, OthersStand DEF StrokeFits, Fits
<1>3. CASE UNCHANGED vars
  BY <1>3 DEF vars, devVars, StrokeFits, Fits
<1> QED
  BY <1>1, <1>2, <1>3

-----------------------------------------------------------------------------
\* A step that fails is tried again at most Retries times.
LEMMA FailedLimits ==
    ASSUME NEW t \in Step, Limits(t), NEW code PROVE Limits(Failed(t, code)) /\ Limits(Raised(t))
<1>1. t.tries \in Nat /\ t.busy \in Nat /\ Retries \in Nat
  BY MotionAssumption DEF Step
<1>2. Limits(Resting) /\ Limits([Resting EXCEPT !.out = "failed"])
  BY <1>1 DEF Limits, Resting
<1>3. ASSUME NEW c PROVE Limits(Failed(t, c))
  <2>1. CASE t.at = Park
    BY <1>2, <2>1 DEF Failed
  <2>2. CASE t.at # Park /\ (c \in Transient /\ t.tries < Retries /\ job.kind = "batch")
    <3>1. Failed(t, c) = [t EXCEPT !.pc = "ready", !.at = 1, !.busy = 0, !.tries = @ + 1]
      BY <2>2 DEF Failed
    <3>2. Failed(t, c).busy = 0 /\ Failed(t, c).tries = t.tries + 1
      BY <3>1 DEF Step
    <3> QED
      BY <1>1, <2>2, <3>2 DEF Limits
  <2>3. CASE t.at # Park /\ ~(c \in Transient /\ t.tries < Retries /\ job.kind = "batch")
    <3>1. Failed(t, c) = [t EXCEPT !.pc = "rest", !.busy = 0, !.out = "failed"]
      BY <2>3 DEF Failed
    <3>2. Failed(t, c).busy = 0 /\ Failed(t, c).tries = t.tries
      BY <3>1 DEF Step
    <3> QED
      BY <1>1, <3>2 DEF Limits
  <2> QED
    BY <2>1, <2>2, <2>3
<1> QED
  BY <1>2, <1>3 DEF Raised

LEMMA AdvanceLimits == ASSUME NEW t \in Step, Limits(t) PROVE Limits(Advance(t))
<1>1. t.tries \in Nat /\ t.busy \in Nat /\ Retries \in Nat
  BY MotionAssumption DEF Step
<1>2. CASE t.at = Park
  BY <1>1, <1>2 DEF Advance, Resting, Limits
<1>3. CASE t.at # Park
  <2>1. Advance(t).busy = 0 /\ Advance(t).tries = t.tries
    BY <1>3 DEF Advance, Step
  <2> QED
    BY <1>1, <2>1 DEF Limits
<1> QED
  BY <1>2, <1>3

\* A refused command is sent once more, so it can be refused no more than twice.
LEMMA SettleLimits ==
    ASSUME NEW t \in Step, Counts(t), t.pc = "send", Limits(t), NEW o PROVE Limits(Settle(t, o))
<1>1. t.tries \in Nat /\ t.busy \in {0, 2} /\ Retries \in Nat
  BY MotionAssumption DEF Step, Counts
<1>2. /\ [t EXCEPT !.pc = "check"].busy = t.busy /\ [t EXCEPT !.pc = "check"].tries = t.tries
      /\ [t EXCEPT !.pc = "check", !.busy = @ + 1].busy = t.busy + 1
      /\ [t EXCEPT !.pc = "check", !.busy = @ + 1].tries = t.tries
  BY DEF Step
<1>3. Limits([t EXCEPT !.pc = "check"]) /\ Limits([t EXCEPT !.pc = "check", !.busy = @ + 1])
  BY <1>1, <1>2 DEF Limits
<1>4. Settle(t, o) \in {Raised(t), Failed(t, NoAnswer), [t EXCEPT !.pc = "check"], Advance(t),
                        [t EXCEPT !.pc = "check", !.busy = @ + 1], Failed(t, o.code)}
  BY DEF Settle
<1> QED
  BY <1>3, <1>4, FailedLimits, AdvanceLimits

LEMMA PollingLimits ==
    ASSUME NEW t \in Step, Limits(t), NEW o PROVE Limits(Polling(t, o))
<1>1. t.tries \in Nat /\ t.busy \in Nat /\ Retries \in Nat
  BY MotionAssumption DEF Step
<1>2. ASSUME NEW pc PROVE Limits([t EXCEPT !.pc = pc]) /\ Limits([t EXCEPT !.pc = pc, !.busy = 2])
  BY <1>1 DEF Limits, Step
<1>3. Limits(Ready(t))
  <2>1. Ready(t) \in {Advance(t), [t EXCEPT !.pc = "send", !.busy = 2], Failed(t, 15)}
    BY DEF Ready
  <2> QED
    BY <1>2, <2>1, FailedLimits, AdvanceLimits
<1>4. Polling(t, o) \in {Ready(t), [t EXCEPT !.pc = "halt9"], [t EXCEPT !.pc = "halt15"], [t EXCEPT !.pc = "check"]}
  BY DEF Polling
<1> QED
  BY <1>2, <1>3, <1>4

LEMMA StepsStep == ASSUME MotionTypes, StepsFit, [Next]_vars PROVE StepsFit'
<1>0. th \in [Pump -> Step] /\ (\A p \in Pump : Counts(th[p]) /\ Limits(th[p])) /\ Retries \in Nat
  BY MotionAssumption DEF MotionTypes, StepsFit
<1>1. ASSUME NEW p \in Pump, NEW t, th' = [th EXCEPT ![p] = t], Limits(t) PROVE StepsFit'
  BY <1>0, <1>1 DEF StepsFit
<1>2. ASSUME NEW p \in Pump, Thread(p) \/ Expire(p) PROVE StepsFit'
  <2>0. th[p] \in Step /\ Counts(th[p]) /\ Limits(th[p]) /\ th[p].tries \in Nat
    BY <1>0 DEF Step
  <2>1. CASE EnsureReady(p) \/ ClearError(p) \/ Enlist(p)
    <3> DEFINE pc == IF p \in inited THEN "send" ELSE "clear"
    <3>1. th' \in {[th EXCEPT ![p].pc = pc], [th EXCEPT ![p].pc = "send", ![p].at = -1],
                   [th EXCEPT ![p].pc = "send", ![p].at = 1]}
      BY <2>1 DEF EnsureReady, ClearError, Enlist
    <3> HIDE DEF pc
    <3>2. /\ th'[p].busy = th[p].busy /\ th'[p].tries = th[p].tries
          /\ DOMAIN th' = Pump /\ \A q \in Pump : q # p => th'[q] = th[q]
      BY <1>0, <2>0, <3>1 DEF Step
    <3> QED
      BY <1>0, <3>2 DEF StepsFit, Limits
  <2>2. CASE Send(p)
    <3>1. PICK o : th' = [th EXCEPT ![p] = Settle(@, o)]
      BY <2>2 DEF Send
    <3>2. Limits(Settle(th[p], o))
      BY <2>0, <2>2, SettleLimits DEF Send
    <3> QED
      BY <1>1, <3>1, <3>2
  <2>3. CASE Check(p) \/ Expire(p) \/ Terminate(p)
    <3>1. PICK code : th' \in {[th EXCEPT ![p] = Failed(@, code)], [th EXCEPT ![p] = [@ EXCEPT !.pc = "ask"]]}
      BY <2>3 DEF Check, Expire, Terminate
    <3>2. Limits(Failed(th[p], code)) /\ Limits([th[p] EXCEPT !.pc = "ask"])
      BY <2>0, FailedLimits DEF Limits, Step
    <3> QED
      BY <1>1, <3>1, <3>2
  <2>4. CASE Ask(p)
    <3>1. PICK o : th' \in {[th EXCEPT ![p] = Polling(@, o)], [th EXCEPT ![p] = Raised(@)], th}
      BY <2>4 DEF Ask
    <3>2. Limits(Polling(th[p], o)) /\ Limits(Raised(th[p]))
      BY <2>0, FailedLimits, PollingLimits
    <3>3. CASE th' = th
      BY <3>3, <1>0 DEF StepsFit
    <3> QED
      BY <1>1, <3>1, <3>2, <3>3
  <2> QED
    BY <1>2, <2>1, <2>2, <2>3, <2>4 DEF Thread
<1>3. /\ Limits(Resting) /\ Limits([Resting EXCEPT !.out = "failed"]) /\ Limits([Resting EXCEPT !.pc = "ready"])
      /\ Limits([Resting EXCEPT !.pc = "send", !.at = Park])
  BY <1>0 DEF Resting, Limits
<1>4. ASSUME NEW kind \in Kinds, NEW first \in {"init", "stage"}, Begin(kind, first) PROVE StepsFit'
  BY <1>3, <1>4 DEF Begin, StepsFit
<1>5. CASE ParkNext
  <2>1. PICK p \in Pump : th' \in {th, [th EXCEPT ![p] = [Resting EXCEPT !.pc = "send", !.at = Park]]}
    <3>1. homing.wait \subseteq Pump
      BY DEF MotionTypes, Homings
    <3> QED
      BY <1>5, <3>1, FirstPump DEF ParkNext
  <2>2. CASE th' = th
    BY <1>0, <2>2 DEF StepsFit
  <2> QED
    BY <1>1, <1>3, <2>1, <2>2
<1>6. CASE Start
  <2>1. \A p \in Pump : th'[p] \in {[Resting EXCEPT !.pc = "ready"], [Resting EXCEPT !.out = "failed"]}
    BY <1>6 DEF Start
  <2> QED
    BY <1>3, <2>1 DEF StepsFit
<1>7. ASSUME UNCHANGED th PROVE StepsFit'
  BY <1>0, <1>7 DEF StepsFit
<1>8. CASE \/ HeadOfStage \/ ClearLatch \/ Look \/ Fire \/ Seek \/ AskHome \/ AssumeHome \/ Probe
           \/ EnlistAll \/ JudgeInit \/ Judge
  BY <1>7, <1>8 DEF HeadOfStage, ClearLatch, Look, Fire, Seek, AskHome, AssumeHome, Probe, EnlistAll,
                    JudgeInit, Judge, End, Exchange
<1>9. CASE AskStop \/ LiftStop \/ Watch \/ UNCHANGED vars
  BY <1>7, <1>9 DEF AskStop, LiftStop, Watch, SeeStop, SeeLifted, HaltPump, DropPump, vars
<1>10. ASSUME NEW p \in Pump, Mechanics(p) \/ \E e \in {7, 9, 15} : Break(p, e) PROVE StepsFit'
  BY <1>7, <1>10 DEF Mechanics, Break
<1> QED
  BY <1>2, <1>4, <1>5, <1>6, <1>8, <1>9, <1>10 DEF Next, Consume

-----------------------------------------------------------------------------
LEMMA HomingFitsStep == ASSUME MotionTypes, HomingFits, [Next]_vars PROVE HomingFits'
<1>0. homing \in Homings /\ pump \in [Pump -> Device] /\ homing.p \in Pump
  BY DEF MotionTypes, Homings
<1>1. NoAnswer \in Code0 /\ 0 \in Code0
  BY DEF Code0, Error
<1>2. ASSUME UNCHANGED <<homing.idle, homing.res>> PROVE HomingFits'
  BY <1>2 DEF HomingFits
<1>3. ASSUME homing' = [homing EXCEPT !.res = [p \in Pump |-> NoAnswer]] PROVE HomingFits'
  BY <1>0, <1>1, <1>3 DEF HomingFits, Homings
<1>4. ASSUME NEW kind \in Kinds, NEW first \in {"init", "stage"}, Begin(kind, first) PROVE HomingFits'
  <2>1. homing'.idle = [p \in Pump |-> 0] /\ homing'.res = [p \in Pump |-> 0]
    BY <1>4 DEF Begin, Fresh
  <2> QED
    BY <1>1, <2>1 DEF HomingFits
<1>5. CASE AskHome
  <2>1. PICK o \in Outcomes(pump[homing.p], Query) :
          homing' \in {Sought(o), homing, [homing EXCEPT !.res = [p \in Pump |-> NoAnswer]]}
    BY <1>5 DEF AskHome
  <2>2. o.code \in Code0
    BY <1>0, OtherCommands, OutcomeIs
  <2>3. CASE homing' = Sought(o)
    <3> DEFINE p == homing.p
               h == [homing EXCEPT !.heard = TRUE]
    <3>1. homing' \in {[homing EXCEPT !.idle[p] = 0], h, [h EXCEPT !.idle[p] = 0], [h EXCEPT !.idle[p] = 1],
                       [h EXCEPT !.wait = @ \ {p}], [h EXCEPT !.wait = @ \ {p}, !.res[p] = o.code]}
      BY <2>3 DEF Sought
    <3>2. /\ homing'.idle \in {homing.idle, [homing.idle EXCEPT ![p] = 0], [homing.idle EXCEPT ![p] = 1]}
          /\ homing'.res \in {homing.res, [homing.res EXCEPT ![p] = o.code]}
      BY <1>0, <3>1 DEF Homings
    <3>3. DOMAIN homing.idle = Pump /\ DOMAIN homing.res = Pump
      BY <1>0 DEF Homings
    <3> QED
      BY <2>2, <3>2, <3>3 DEF HomingFits
  <2> QED
    BY <1>2, <1>3, <2>1, <2>3
<1>6. CASE Look \/ ParkNext \/ Probe \/ Fire \/ Seek
  <2>1. \/ UNCHANGED <<homing.idle, homing.res>>
        \/ homing' = [homing EXCEPT !.res = [p \in Pump |-> NoAnswer]]
    <3>1. CASE Look
      BY <3>1 DEF Look
    <3>2. CASE ParkNext
      BY <1>0, <3>2 DEF ParkNext, Homings
    <3>3. CASE Probe
      BY <1>0, <3>3 DEF Probe, Homings
    <3>4. CASE Fire
      BY <1>0, <3>4 DEF Fire, Homings
    <3>5. CASE Seek
      BY <1>0, <3>5 DEF Seek, Homings
    <3> QED
      BY <1>6, <3>1, <3>2, <3>3, <3>4, <3>5
  <2> QED
    BY <1>2, <1>3, <2>1
<1>7. ASSUME UNCHANGED homing PROVE HomingFits'
  BY <1>2, <1>7
<1>8. CASE HeadOfStage \/ ClearLatch \/ EnlistAll \/ JudgeInit \/ Start \/ Judge \/ AssumeHome
  BY <1>7, <1>8 DEF HeadOfStage, ClearLatch, EnlistAll, JudgeInit, Start, Judge, AssumeHome
<1>9. CASE AskStop \/ LiftStop \/ Watch \/ UNCHANGED vars
  BY <1>7, <1>9 DEF AskStop, LiftStop, Watch, SeeStop, SeeLifted, HaltPump, DropPump, vars
<1>10. ASSUME NEW p \in Pump, Thread(p) \/ Expire(p) \/ Mechanics(p) \/ \E e \in {7, 9, 15} : Break(p, e)
       PROVE  HomingFits'
  BY <1>7, <1>10 DEF Thread, EnsureReady, ClearError, Send, Check, Ask, Terminate, Enlist, Expire, Mechanics, Break
<1> QED
  BY <1>4, <1>5, <1>6, <1>8, <1>9, <1>10 DEF Next, Consume

-----------------------------------------------------------------------------
LEMMA ExchangeNoise == ASSUME RestFits, NEW p, NEW o, Exchange(p, o) PROVE noise' \in 0 .. MaxNoise
<1>1. noise \in Nat /\ MaxNoise \in Nat
  BY MotionAssumption DEF RestFits
<1> QED
  BY <1>1 DEF Exchange

LEMMA RestStep == ASSUME MotionTypes, RestFits, [Next]_vars PROVE RestFits'
<1>0. /\ noise \in Nat /\ MaxNoise \in Nat /\ noise <= MaxNoise /\ stops \in Nat /\ MaxStops \in Nat
      /\ homing.p \in Pump /\ halt.p \in Pump
  BY MotionAssumption DEF RestFits, MotionTypes, Homings, Halts
<1>1. noise' \in 0 .. MaxNoise
  <2>1. \/ noise' = noise
        \/ noise < MaxNoise /\ noise' = noise + 1
        \/ \E p, o : Exchange(p, o)
    <3>1. ASSUME NEW p \in Pump, Thread(p) \/ Expire(p) \/ Mechanics(p) \/ \E e \in {7, 9, 15} : Break(p, e)
          PROVE  noise' = noise \/ (noise < MaxNoise /\ noise' = noise + 1) \/ \E q, o : Exchange(q, o)
      BY <3>1 DEF Thread, EnsureReady, ClearError, Send, Check, Ask, Terminate, Enlist, Expire, Mechanics, Break, devVars
    <3>2. CASE Consume \/ AssumeHome
      <4>1. CASE Fire \/ AskHome
        BY <4>1 DEF Fire, AskHome
      <4>2. CASE HeadOfStage \/ ClearLatch \/ Look \/ Seek \/ ParkNext \/ EnlistAll \/ JudgeInit \/ Judge
        BY <4>2 DEF HeadOfStage, ClearLatch, Look, Seek, ParkNext, EnlistAll, JudgeInit, Judge, devVars
      <4>3. CASE Probe \/ AssumeHome
        BY <4>3 DEF Probe, AssumeHome
      <4>4. CASE Start
        <5>1. PICK f \in SUBSET Pump :
                /\ f # {} => noise < MaxNoise
                /\ noise' = noise + (IF f = {} THEN 0 ELSE 1)
          BY <4>4 DEF Start
        <5>2. CASE f = {}
          BY <1>0, <5>1, <5>2
        <5>3. CASE f # {}
          BY <5>1, <5>3
        <5> QED
          BY <5>2, <5>3
      <4> QED
        BY <3>2, <4>1, <4>2, <4>3, <4>4 DEF Consume
    <3>3. CASE AskStop \/ LiftStop \/ Watch \/ UNCHANGED vars
      BY <3>3 DEF AskStop, LiftStop, Watch, SeeStop, SeeLifted, HaltPump, DropPump, vars, devVars
    <3>4. ASSUME NEW kind \in Kinds, NEW first \in {"init", "stage"}, Begin(kind, first) PROVE noise' = noise
      BY <3>4 DEF Begin
    <3> QED
      BY <3>1, <3>2, <3>3, <3>4 DEF Next
  <2> QED
    BY <1>0, <2>1, ExchangeNoise
<1>2. inited' \subseteq Pump /\ hit' \subseteq Pump
  <2>0. inited \subseteq Pump /\ hit \subseteq Pump
    BY DEF RestFits
  <2>1. ASSUME NEW p \in Pump, Thread(p) \/ Expire(p) \/ Mechanics(p) \/ \E e \in {7, 9, 15} : Break(p, e)
        PROVE  inited' \subseteq Pump /\ hit' \subseteq Pump
    BY <2>0, <2>1 DEF Thread, EnsureReady, ClearError, Send, Check, Ask, Terminate, Enlist, Expire, Mechanics, Break,
                      Kept
  <2>2. CASE Consume \/ AssumeHome
    BY <2>0, <2>2 DEF Consume, HeadOfStage, ClearLatch, Look, Fire, Seek, AskHome, AssumeHome, Probe, ParkNext,
                      EnlistAll, JudgeInit, Start, Judge, Kept, Homed
  <2>3. CASE AskStop \/ LiftStop \/ Watch \/ UNCHANGED vars
    BY <1>0, <2>0, <2>3 DEF AskStop, LiftStop, Watch, SeeStop, SeeLifted, HaltPump, DropPump, vars, Kept
  <2>4. ASSUME NEW kind \in Kinds, NEW first \in {"init", "stage"}, Begin(kind, first)
        PROVE  inited' \subseteq Pump /\ hit' \subseteq Pump
    BY <2>0, <2>4 DEF Begin
  <2> QED
    BY <2>1, <2>2, <2>3, <2>4 DEF Next
<1>3. main' \in Mains
  <2>0. main \in Mains
    BY DEF RestFits
  <2>1. CASE Look
    <3>1. \A m \in DOMAIN Looked : Looked[m] \in {"fire", "seek", "ask", "park", "enlist"}
      BY DEF Looked
    <3> QED
      BY <2>1, <3>1 DEF Look, Mains
  <2>2. CASE \/ HeadOfStage \/ ClearLatch \/ Fire \/ Seek \/ AskHome \/ AssumeHome \/ Probe \/ ParkNext
             \/ EnlistAll \/ JudgeInit \/ Start \/ Judge
    BY <2>0, <2>2 DEF HeadOfStage, ClearLatch, Fire, Seek, AskHome, AssumeHome, Probe, ParkNext,
                      EnlistAll, JudgeInit, Start, Judge, End, Mains, Looked
  <2>3. ASSUME UNCHANGED main PROVE main' \in Mains
    BY <2>0, <2>3
  <2>4. ASSUME NEW p \in Pump, Thread(p) \/ Expire(p) \/ Mechanics(p) \/ \E e \in {7, 9, 15} : Break(p, e)
        PROVE  UNCHANGED main
    BY <2>4 DEF Thread, EnsureReady, ClearError, Send, Check, Ask, Terminate, Enlist, Expire, Mechanics, Break
  <2>5. CASE AskStop \/ LiftStop \/ Watch \/ UNCHANGED vars
    BY <2>3, <2>5 DEF AskStop, LiftStop, Watch, SeeStop, SeeLifted, HaltPump, DropPump, vars
  <2>6. ASSUME NEW kind \in Kinds, NEW first \in {"init", "stage"}, Begin(kind, first) PROVE main' \in Mains
    BY <2>6 DEF Begin, Mains
  <2> QED
    BY <2>1, <2>2, <2>3, <2>4, <2>5, <2>6 DEF Next, Consume
<1>4. job'.kind \in Kinds \cup {"batch"}
  <2>1. \/ job' = job
        \/ \E v : job' = [job EXCEPT !.verdict = v]
        \/ \E kind \in Kinds : job' = [kind |-> kind, verdict |-> "none"]
    <3>1. ASSUME NEW p \in Pump, Thread(p) \/ Expire(p) \/ Mechanics(p) \/ \E e \in {7, 9, 15} : Break(p, e)
          PROVE  job' = job
      BY <3>1 DEF Thread, EnsureReady, ClearError, Send, Check, Ask, Terminate, Enlist, Expire, Mechanics, Break
    <3>2. CASE Consume \/ AssumeHome
      BY <3>2 DEF Consume, HeadOfStage, ClearLatch, Look, Fire, Seek, AskHome, AssumeHome, Probe, ParkNext,
                  EnlistAll, JudgeInit, Start, Judge, End
    <3>3. CASE AskStop \/ LiftStop \/ Watch \/ UNCHANGED vars
      BY <3>3 DEF AskStop, LiftStop, Watch, SeeStop, SeeLifted, HaltPump, DropPump, vars
    <3>4. ASSUME NEW kind \in Kinds, NEW first \in {"init", "stage"}, Begin(kind, first)
          PROVE  job' = [kind |-> kind, verdict |-> "none"]
      BY <3>4 DEF Begin
    <3> QED
      BY <3>1, <3>2, <3>3, <3>4 DEF Next
  <2>2. job \in Jobs /\ job.kind \in Kinds \cup {"batch"}
    BY DEF MotionTypes, RestFits
  <2> QED
    BY <2>1, <2>2 DEF Jobs
<1>5. latch' \in BOOLEAN
  <2>0. latch \in BOOLEAN
    BY DEF RestFits
  <2>1. latch' = latch \/ latch' = TRUE \/ latch' = FALSE
    <3>1. ASSUME NEW p \in Pump, Thread(p) \/ Expire(p) \/ Mechanics(p) \/ \E e \in {7, 9, 15} : Break(p, e)
          PROVE  UNCHANGED latch
      BY <3>1 DEF Thread, EnsureReady, ClearError, Send, Check, Ask, Terminate, Enlist, Expire, Mechanics, Break
    <3>2. CASE ClearLatch
      BY <3>2 DEF ClearLatch
    <3>3. CASE \/ HeadOfStage \/ Look \/ Fire \/ Seek \/ AskHome \/ AssumeHome \/ Probe \/ ParkNext
               \/ EnlistAll \/ JudgeInit \/ Start \/ Judge
      BY <3>3 DEF HeadOfStage, Look, Fire, Seek, AskHome, AssumeHome, Probe, ParkNext,
                  EnlistAll, JudgeInit, Start, Judge
    <3>4. CASE AskStop \/ LiftStop \/ Watch \/ UNCHANGED vars
      BY <3>4 DEF AskStop, LiftStop, Watch, SeeStop, SeeLifted, HaltPump, DropPump, vars
    <3>5. ASSUME NEW kind \in Kinds, NEW first \in {"init", "stage"}, Begin(kind, first) PROVE UNCHANGED latch
      BY <3>5 DEF Begin
    <3> QED
      BY <3>1, <3>2, <3>3, <3>4, <3>5 DEF Next, Consume
  <2> QED
    BY <2>0, <2>1, Zenon
<1>6. asked' \in 0 .. MaxStops /\ seen' \in 0 .. MaxStops /\ stops' \in 0 .. MaxStops
  <2>0. asked \in 0 .. MaxStops /\ seen \in 0 .. MaxStops /\ stops \in 0 .. MaxStops
    BY DEF RestFits
  <2>1. ASSUME UNCHANGED <<asked, seen, stops>>
        PROVE  asked' \in 0 .. MaxStops /\ seen' \in 0 .. MaxStops /\ stops' \in 0 .. MaxStops
    BY <2>0, <2>1
  <2>2. ASSUME NEW p \in Pump, Thread(p) \/ Expire(p) \/ Mechanics(p) \/ \E e \in {7, 9, 15} : Break(p, e)
        PROVE  UNCHANGED <<asked, seen, stops>>
    BY <2>2 DEF Thread, EnsureReady, ClearError, Send, Check, Ask, Terminate, Enlist, Expire, Mechanics, Break, stopVars
  <2>3. CASE Consume \/ AssumeHome
    BY <2>1, <2>3 DEF Consume, HeadOfStage, ClearLatch, Look, Fire, Seek, AskHome, AssumeHome, Probe, ParkNext,
                EnlistAll, JudgeInit, Start, Judge, stopVars
  <2>4. CASE AskStop \/ LiftStop \/ Watch \/ UNCHANGED vars
    BY <1>0, <2>0, <2>4 DEF AskStop, LiftStop, Watch, SeeStop, SeeLifted, HaltPump, DropPump, vars, stopVars
  <2>5. ASSUME NEW kind \in Kinds, NEW first \in {"init", "stage"}, Begin(kind, first)
        PROVE  UNCHANGED <<asked, seen, stops>>
    BY <2>5 DEF Begin, stopVars
  <2> QED
    BY <2>1, <2>2, <2>3, <2>4, <2>5 DEF Next
<1> QED
  BY <1>1, <1>2, <1>3, <1>4, <1>5, <1>6 DEF RestFits

-----------------------------------------------------------------------------
\* The states of pumps, threads and the consuming thread: no plunger leaves the
\* stroke of the batch, no command goes beyond it, a step is tried at most
\* max_retries times more, and a refused command is sent no more than twice.
THEOREM MotionTypeCorrect == Spec => []TypeOK
<1> DEFINE Fit == StrokeFits /\ StepsFit /\ HomingFits /\ RestFits
<1>1. Init => Fit
  <2> SUFFICES ASSUME Init PROVE Fit
    OBVIOUS
  <2>1. StrokeFits
    BY Places, OtherCommands DEF Init, StrokeFits, Fits
  <2>2. StepsFit
    BY MotionAssumption DEF Init, StepsFit, Limits, Resting
  <2>3. HomingFits
    BY DEF Init, Fresh, HomingFits, Code0, Error
  <2>4. RestFits
    <3>1. latch \in BOOLEAN
      BY Zenon DEF Init
    <3> QED
      BY <3>1, MotionAssumption DEF Init, RestFits, Mains
  <2> QED
    BY <2>1, <2>2, <2>3, <2>4
<1>2. MotionInv /\ Fit /\ [Next]_vars => MotionInv' /\ Fit'
  BY MotionStep, StrokeStep, StepsStep, HomingFitsStep, RestStep DEF MotionInv
<1>3. MotionInv /\ Fit => TypeOK
  <2> SUFFICES ASSUME MotionInv, Fit PROVE TypeOK
    OBVIOUS
  <2>0. MotionTypes
    BY DEF MotionInv
  <2>1. pump \in [Pump -> [pos : 0 .. Full, port : Nat, err : Error,
                          motor : [do : {"still", "turn", "move", "home"}, to : Nat]]]
    <3>1. ASSUME NEW s \in Device, Fits(s)
          PROVE  s \in [pos : 0 .. Full, port : Nat, err : Error,
                        motor : [do : {"still", "turn", "move", "home"}, to : Nat]]
      <4>1. s.pos \in 0 .. Full
        BY <3>1, Places DEF Device, Fits
      <4>2. s.motor \in [do : {"still", "turn", "move", "home"}, to : Nat]
        BY DEF Device, Motor, Still
      <4> QED
        BY <4>1, <4>2 DEF Device
    <3> QED
      BY <2>0, <3>1 DEF MotionTypes, StrokeFits
  <2>2. th \in [Pump -> [pc : {"rest", "ready", "clear", "send", "check", "ask", "halt9",
                              "halt15", "enlist"},
                        at : -2 .. 2 * Full + 2, busy : 0 .. 3, tries : 0 .. Retries,
                        out : {"none", "ok", "failed"}]]
    <3>1. Last \in Nat /\ Last <= 2 * Full + 2 /\ Full \in Nat
      <4>1. CASE job.kind = "batch"
        BY <2>0, <4>1, LastIs, Places
      <4>2. CASE job.kind # "batch"
        <5>1. Last = 2
          BY <4>2 DEF Last, Script, Plunger
        <5> QED
          BY <5>1, Places
      <4> QED
        BY <4>1, <4>2
    <3>2. ASSUME NEW t \in Step, Limits(t)
          PROVE  t \in [pc : {"rest", "ready", "clear", "send", "check", "ask", "halt9",
                              "halt15", "enlist"},
                        at : -2 .. 2 * Full + 2, busy : 0 .. 3, tries : 0 .. Retries,
                        out : {"none", "ok", "failed"}]
      <4>1. t.at \in -2 .. 2 * Full + 2 /\ t.busy \in 0 .. 3 /\ t.tries \in 0 .. Retries
        BY <3>1, <3>2, MotionAssumption DEF Step, Limits
      <4> QED
        BY <4>1 DEF Step
    <3> QED
      BY <2>0, <3>2 DEF MotionTypes, StepsFit
  <2>3. homing \in [p : Pump, at : -2 .. 0, wait : SUBSET Pump, idle : [Pump -> 0 .. 1],
                   heard : BOOLEAN, res : [Pump -> Error \cup {NoAnswer}]]
    <3>1. homing \in Homings
      BY <2>0 DEF MotionTypes
    <3>2. homing.idle \in [Pump -> 0 .. 1] /\ homing.res \in [Pump -> Error \cup {NoAnswer}]
      BY <3>1 DEF HomingFits, Homings, Code0
    <3> QED
      BY <3>1, <3>2, Zenon DEF Homings
  <2>4. job \in [kind : Kinds \cup {"batch"}, verdict : {"none", "completed", "interrupted", "failed"}]
    BY <2>0 DEF MotionTypes, RestFits, Jobs
  <2>5. halt \in [pc : {"watch", "stop", "drop"}, p : Pump] /\ poured \in [Pump -> Nat]
    BY <2>0 DEF MotionTypes, Halts
  <2> QED
    BY <2>1, <2>2, <2>3, <2>4, <2>5 DEF TypeOK, RestFits, Mains
<1> QED
  BY <1>1, <1>2, <1>3, MotionInit, PTL DEF Spec
=============================================================================

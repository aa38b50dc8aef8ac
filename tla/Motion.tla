------------------------------- MODULE Motion -------------------------------
(***************************************************************************)
(* The physical side of a job: PumpSequencer runs the stages, one thread   *)
(* per pump drives EngineExecutor and Sy01bEngineAdapter over the shared   *)
(* RS485 bus, and the emergency-stop watcher halts pumps in between.       *)
(*                                                                         *)
(* A transaction holds the bus lock, so it is one step; everything between *)
(* two transactions of a thread can be interleaved.  The daemon, the       *)
(* sequencer and the adapter share one latch.  A plunger position is       *)
(* counted in aspirations: aspiration i of the batch moves it from i-1 to  *)
(* i, and the dispense moves it back to 0.                                 *)
(***************************************************************************)
EXTENDS Integers, Sequences

CONSTANTS
    NPumps,      \* pumps of a stage; a pump appears once (see Recipe)
    Aspirations, \* the ports of a batch, in order
    OutPort,     \* the outlet, where a batch is pushed out and a valve parked
    AirPort,     \* the port of the maintenance operation
    Kinds,       \* "batch": a recipe step; "plunger": a maintenance operation
    Retries,     \* EngineExecutor.max_retries (3 in the code)
    Noise,       \* what can go wrong: see Outcomes, Expire, Break and Start
    MaxNoise,    \* bound: how often something goes wrong
    MaxStops     \* bound: emergency stops the server issues

ASSUME MotionAssumption ==
    /\ NPumps \in Nat \ {0}
    /\ Aspirations \in Seq(Nat) /\ Aspirations # <<>>
    /\ OutPort \in Nat /\ AirPort \in Nat
    /\ Kinds \subseteq {"batch", "plunger"} /\ Kinds # {}
    /\ Retries \in Nat /\ MaxNoise \in Nat /\ MaxStops \in Nat
    /\ Noise \subseteq {"lost", "cut", "gone", "late", "break", "thread"}

Pump == 1 .. NPumps
Full == Len(Aspirations)

VARIABLES
    pump,   \* the devices: plunger, valve, motor and latched error
    inited, \* _initialized: the pumps whose set-up is taken as done
    latch,  \* the emergency-stop event
    th,     \* for each pump the thread of its step
    main,   \* where the consuming thread is in the job
    homing, \* the coalesced initialisation: its pump, command and results
    job,    \* kind of the job and how it ended
    asked,  \* server: requestedAt of the active stop, 0 when there is none
    seen,   \* _last_estop_at of the watcher
    halt,   \* what emergency_stop_all still has to do
    stops,  \* stops issued so far
    noise,  \* faults so far
    poured, \* history: units pushed out by the dispenses of this job
    hit     \* history: pumps a stop reached in this job, or moving when it began

devVars == <<pump, noise, poured>>
stopVars == <<asked, seen, halt, stops>>
vars == <<devVars, inited, latch, th, main, homing, job, stopVars, hit>>

-----------------------------------------------------------------------------
(* The commands of a step.                                                 *)

Still == [do |-> "still", to |-> 0]
TR == [do |-> "stop", to |-> 0]
Query == [do |-> "ask", to |-> 0]
Turn(port) == [do |-> "turn", to |-> port]
Move(n) == [do |-> "move", to |-> n]

\* _setup: U (stall current), then Z (home).
Setup == [k \in {-1, 0} |-> [do |-> IF k = 0 THEN "home" ELSE "set", to |-> 0]]

\* dispense_batch: turn to each port and draw to the running total, turn to
\* the outlet and push everything; _cycle is the batch of one aspiration.
Batch == [k \in 1 .. 2 * Full + 2 |->
            IF k <= 2 * Full
            THEN IF k % 2 = 1 THEN Turn(Aspirations[(k + 1) \div 2]) ELSE Move(k \div 2)
            ELSE IF k % 2 = 1 THEN Turn(OutPort) ELSE Move(0)]

\* run_op, plunger_full: turn to the air port and draw the whole stroke.
Plunger == <<Turn(AirPort), Move(Full)>>

Script(kind) == IF kind = "batch" THEN Batch ELSE Plunger
Park == -2  \* initialize_polled turns each valve to the outlet at the end

Command(kind, k) ==
    CASE k = Park -> Turn(OutPort) [] k \in {-1, 0} -> Setup[k] [] OTHER -> Script(kind)[k]

\* poll and ack_tolerant of _settle
Polled(k) == k # -1
Tolerant(kind, k) == k = Park \/ (k > 0 /\ kind = "plunger")

-----------------------------------------------------------------------------
(* A pump, as the adapter takes it to behave.                              *)

Error == {0, 7, 9, 15}  \* fine, not homed, overload, command overflow
NoAnswer == -1000       \* nothing, or no status frame, was received

Busy(s) == s.motor # Still
Refuses(s, c) == s.err # 0 /\ ~(s.err = 7 /\ c.do \in {"set", "home"})

Code(s, c) ==
    IF c.do = "stop" THEN 0
    ELSE IF c.do = "ask" \/ Refuses(s, c) THEN s.err
    ELSE IF Busy(s) THEN 15 ELSE 0

Performs(s, c) ==
    IF c.do = "stop" THEN [s EXCEPT !.motor = Still, !.err = IF @ = 7 THEN 7 ELSE 0]
    ELSE IF c.do \in {"ask", "set"} \/ Code(s, c) # 0 THEN s
    ELSE [s EXCEPT !.motor = c, !.err = IF c.do = "home" THEN 0 ELSE @]

\* What _txn can make of a transaction: the request is lost, the answer is
\* cut or garbled, or the serial device is gone before or after the request.
Outcomes(s, c) ==
    {[net |-> "ok", s |-> Performs(s, c), code |-> Code(s, c)]} \cup
    {[net |-> n, s |-> s, code |-> NoAnswer] : n \in Noise \cap {"lost", "gone"}} \cup
    {[net |-> n, s |-> Performs(s, c), code |-> NoAnswer] : n \in Noise \cap {"cut", "gone"}}

\* The transaction takes place with outcome o.
Exchange(p, o) ==
    /\ noise + (IF o.net = "ok" THEN 0 ELSE 1) <= MaxNoise
    /\ noise' = noise + (IF o.net = "ok" THEN 0 ELSE 1)
    /\ pump' = [pump EXCEPT ![p] = o.s]
    /\ UNCHANGED poured

\* A device that disappears is reopened: _reconnect_serial drops the caches.
Kept(o, set) == IF o.net = "gone" THEN {} ELSE set

\* The motor of a pump goes on by one unit.
Mechanics(p) ==
    LET s == pump[p]
        pos == CASE s.motor.do = "turn" -> s.pos
                 [] s.motor.do = "home" -> IF s.pos = 0 THEN 0 ELSE s.pos - 1
                 [] OTHER -> IF s.pos < s.motor.to THEN s.pos + 1
                             ELSE IF s.pos > s.motor.to THEN s.pos - 1 ELSE s.pos
        end == CASE s.motor.do = "turn" -> TRUE
                 [] s.motor.do = "home" -> pos = 0
                 [] OTHER -> pos = s.motor.to
    IN  /\ Busy(s)
        /\ pump' = [pump EXCEPT ![p].pos = pos,
                                ![p].port = IF s.motor.do = "turn" THEN s.motor.to ELSE @,
                                ![p].motor = IF end THEN Still ELSE @]
        /\ poured' = IF s.motor = Move(0) /\ s.port = OutPort
                     THEN [poured EXCEPT ![p] = @ + (s.pos - pos)] ELSE poured
        /\ UNCHANGED <<noise, inited, latch, th, main, homing, job, stopVars, hit>>

\* A moving pump stops with an error, or loses its home.
Break(p, e) ==
    /\ "break" \in Noise /\ noise < MaxNoise
    /\ Busy(pump[p]) /\ pump[p].err = 0
    /\ noise' = noise + 1
    /\ pump' = [pump EXCEPT ![p].motor = Still, ![p].err = e]
    /\ UNCHANGED <<poured, inited, latch, th, main, homing, job, stopVars, hit>>

-----------------------------------------------------------------------------
(* A thread of a stage: EngineExecutor._run_with_retry around one attempt. *)

Resting == [pc |-> "rest", at |-> 1, busy |-> 0, tries |-> 0, out |-> "none"]

\* An attempt ended with this code: silence and the transient codes are tried
\* again from the start of the cycle, the others are final.  run_op is tried
\* once, and nothing is made of a failed parking.
Transient == {NoAnswer, 1, 7, 11, 15}

Failed(t, code) ==
    IF t.at = Park THEN Resting
    ELSE IF code \in Transient /\ t.tries < Retries /\ job.kind = "batch"
         THEN [t EXCEPT !.pc = "ready", !.at = 1, !.busy = 0, !.tries = @ + 1]
         ELSE [t EXCEPT !.pc = "rest", !.busy = 0, !.out = "failed"]

\* The command is done: the next one, or the end of the step.
Advance(t) ==
    CASE t.at = Park -> Resting
      [] t.at = 0 -> [t EXCEPT !.pc = "enlist", !.busy = 0]
      [] t.at = Len(Script(job.kind)) -> [t EXCEPT !.pc = "rest", !.busy = 0, !.out = "ok"]
      [] OTHER -> [t EXCEPT !.pc = "send", !.busy = 0, !.at = @ + 1]

\* An exception: _cycle and run_op make a silence of it, initialize_polled
\* lets it through while it parks.
Raised(t) == IF t.at = Park THEN [Resting EXCEPT !.out = "failed"] ELSE Failed(t, NoAnswer)

\* Mutant: silence is never a failure, the pump is polled all the same.
Deaf(t, o) == FALSE

\* Is the answer to a command a failure whatever the pump does?
Unheard(t, o) == o.code = NoAnswer /\ ~Tolerant(job.kind, t.at)

\* _settle on the answer to its command.  busy counts the answers 15 to one
\* command: the motion before is waited for, and the command sent once more.
Settle(t, o) ==
    IF o.net = "gone" THEN Raised(t)
    ELSE IF Unheard(t, o) THEN Failed(t, NoAnswer)
    ELSE CASE o.code \in {0, NoAnswer} ->
                  IF Polled(t.at) THEN [t EXCEPT !.pc = "check"] ELSE Advance(t)
           [] o.code = 15 /\ Polled(t.at) -> [t EXCEPT !.pc = "check", !.busy = @ + 1]
           [] OTHER -> Failed(t, o.code)

\* Mutant: a refused command counts as done when the motion before it is.
Done(t) == Advance(t)

\* The motor stands and has no error: the motion of this command is over, or
\* the one it was refused for.
Ready(t) ==
    CASE t.busy \in {0, 2} -> Advance(t)
      [] t.busy = 1 -> [t EXCEPT !.pc = "send", !.busy = 2]
      [] OTHER -> Failed(t, 15)

\* _poll_until_ready on the answer to its query.
Polling(t, o) ==
    CASE o.code = 9 -> [t EXCEPT !.pc = "halt9"]
      [] o.code = 15 /\ ~Busy(o.s) -> [t EXCEPT !.pc = "halt15"]
      [] o.code = 0 /\ ~Busy(o.s) -> Ready(t)
      [] OTHER -> [t EXCEPT !.pc = "check"]

\* _ensure_ready: the set-up is skipped for a pump in the cache.
EnsureReady(p) ==
    /\ th[p].pc = "ready"
    /\ th' = [th EXCEPT ![p].pc = IF p \in inited THEN "send" ELSE "clear"]
    /\ UNCHANGED <<devVars, inited, latch, main, homing, job, stopVars, hit>>

\* Its TR: the result does not matter.
ClearError(p) ==
    /\ th[p].pc = "clear"
    /\ \E o \in Outcomes(pump[p], TR) : Exchange(p, o) /\ inited' = Kept(o, inited)
    /\ th' = [th EXCEPT ![p].pc = "send", ![p].at = -1]
    /\ UNCHANGED <<latch, main, homing, job, stopVars, hit>>

Send(p) ==
    /\ th[p].pc = "send"
    /\ \E o \in Outcomes(pump[p], Command(job.kind, th[p].at)) :
          /\ Exchange(p, o)
          /\ inited' = Kept(o, inited) \ (IF o.code \in {7, 9} THEN {p} ELSE {})
          /\ th' = [th EXCEPT ![p] = Settle(@, o)]
    /\ UNCHANGED <<latch, main, homing, job, stopVars, hit>>

\* The head of the polling loop.
Check(p) ==
    /\ th[p].pc = "check"
    /\ th' = [th EXCEPT ![p] = IF latch THEN Failed(@, NoAnswer) ELSE [@ EXCEPT !.pc = "ask"]]
    /\ UNCHANGED <<devVars, inited, latch, main, homing, job, stopVars, hit>>

\* Mutant: the loop has no deadline.
Endless(p) == FALSE

\* Its deadline: it is longer than any motion, and a pump that keeps saying 7
\* is asked until then.
Expire(p) ==
    /\ th[p].pc = "check"
    /\ \/ pump[p].err = 7 /\ UNCHANGED noise
       \/ "late" \in Noise /\ noise < MaxNoise /\ noise' = noise + 1
    /\ th' = [th EXCEPT ![p] = Failed(@, NoAnswer)]
    /\ UNCHANGED <<pump, poured, inited, latch, main, homing, job, stopVars, hit>>

\* A query is sent again on a reopened device; reopening may fail too.
Ask(p) ==
    /\ th[p].pc = "ask"
    /\ \E o \in Outcomes(pump[p], Query) :
          /\ Exchange(p, o)
          /\ inited' = Kept(o, inited) \ (IF o.code = 7 THEN {p} ELSE {})
          /\ \/ o.net # "gone" /\ th' = [th EXCEPT ![p] = Polling(@, o)]
             \/ o.net = "gone" /\ th' = [th EXCEPT ![p] = Raised(@)]
             \/ o.net = "gone" /\ UNCHANGED th
    /\ UNCHANGED <<latch, main, homing, job, stopVars, hit>>

\* _terminate_and_flag_reinit: TR, whatever becomes of it.
Terminate(p) ==
    /\ th[p].pc \in {"halt9", "halt15"}
    /\ \E o \in Outcomes(pump[p], TR) : Exchange(p, o) /\ inited' = Kept(o, inited) \ {p}
    /\ th' = [th EXCEPT ![p] = Failed(@, IF @.pc = "halt9" THEN 9 ELSE 15)]
    /\ UNCHANGED <<latch, main, homing, job, stopVars, hit>>

\* _setup succeeded.
Enlist(p) ==
    /\ th[p].pc = "enlist"
    /\ inited' = inited \cup {p}
    /\ th' = [th EXCEPT ![p].pc = "send", ![p].at = 1]
    /\ UNCHANGED <<devVars, latch, main, homing, job, stopVars, hit>>

-----------------------------------------------------------------------------
(* The consuming thread: the coalesced initialisation, then one stage.     *)

\* p and at: the pump and its command; wait: pumps whose home is awaited;
\* idle: answers in a row that found it; heard: has any pump answered?
Fresh == [p |-> 1, at |-> -2, wait |-> Pump, idle |-> [p \in Pump |-> 0],
          heard |-> FALSE, res |-> [p \in Pump |-> 0]]

\* A job of some kind, with or without an initialisation in front of it.
Begin(kind, first) ==
    /\ main = "over"
    /\ main' = first
    /\ job' = [kind |-> kind, verdict |-> "none"]
    /\ th' = [p \in Pump |-> Resting]
    /\ homing' = Fresh
    /\ poured' = [p \in Pump |-> 0]
    /\ hit' = {p \in Pump : Busy(pump[p])}
    /\ UNCHANGED <<pump, noise, inited, latch, stopVars>>

End(verdict) == main' = "over" /\ job' = [job EXCEPT !.verdict = verdict]

\* A stage is not started while the latch is set; before any motion a set
\* latch is waited for a short while.
HeadOfStage ==
    /\ main \in {"init", "stage"}
    /\ \/ ~latch /\ main' = (IF main = "init" THEN "clear" ELSE "start") /\ UNCHANGED job
       \/ latch /\ End("interrupted")
    /\ UNCHANGED <<devVars, inited, latch, th, homing, stopVars, hit>>

\* initialize_polled clears the latch and the cache of its pumps.
ClearLatch ==
    /\ main = "clear"
    /\ latch' = FALSE
    /\ inited' = {}
    /\ main' = "fire?"
    /\ UNCHANGED <<devVars, th, homing, job, stopVars, hit>>

\* _ff_wait before a command, a round of queries and the registration: a set
\* latch makes all of them fail.
Looked == [i \in {"fire?", "seek?", "ask?", "park?", "enlist?"} |->
              CASE i = "fire?" -> "fire" [] i = "seek?" -> "seek" [] i = "ask?" -> "ask"
                [] i = "park?" -> "park" [] OTHER -> "enlist"]
Look ==
    /\ main \in DOMAIN Looked
    /\ IF latch
       THEN main' = "judge" /\ homing' = [homing EXCEPT !.res = [p \in Pump |-> NoAnswer]]
       ELSE main' = Looked[main] /\ UNCHANGED homing
    /\ UNCHANGED <<devVars, inited, latch, th, job, stopVars, hit>>

\* TR, U and Z to each pump in turn, whatever it answers.
Fire ==
    /\ main = "fire"
    /\ \E o \in Outcomes(pump[homing.p], IF homing.at = -2 THEN TR ELSE Setup[homing.at]) :
          Exchange(homing.p, o) /\ inited' = Kept(o, inited)
    /\ IF homing.at < 0
       THEN main' = "fire?" /\ homing' = [homing EXCEPT !.at = @ + 1]
       ELSE IF homing.p < NPumps
            THEN main' = "fire?" /\ homing' = [homing EXCEPT !.p = @ + 1, !.at = -2]
            ELSE main' = "seek?" /\ UNCHANGED homing
    /\ UNCHANGED <<latch, th, job, stopVars, hit>>

\* The next pump of a round, or no pump is left.
Seek ==
    /\ main = "seek"
    /\ IF homing.wait = {} THEN main' = "probe" /\ UNCHANGED homing
       ELSE main' = "ask?" /\ \E p \in homing.wait : homing' = [homing EXCEPT !.p = p]
    /\ UNCHANGED <<devVars, inited, latch, th, job, stopVars, hit>>

\* What an answer says of the homing of the pump.
Sought(o) ==
    LET p == homing.p
        i == [homing EXCEPT !.heard = TRUE]
    IN  CASE o.code = NoAnswer -> [homing EXCEPT !.idle[p] = 0]
          [] o.code = 7 -> i
          [] o.code = 0 /\ Busy(o.s) -> [i EXCEPT !.idle[p] = 0]
          [] o.code = 0 /\ ~Busy(o.s) /\ homing.idle[p] = 0 -> [i EXCEPT !.idle[p] = 1]
          [] o.code = 0 /\ ~Busy(o.s) /\ homing.idle[p] # 0 -> [i EXCEPT !.wait = @ \ {p}]
          [] OTHER -> [i EXCEPT !.wait = @ \ {p}, !.res[p] = o.code]

\* A pump with an error is terminated; a device that cannot be reopened raises
\* out of the initialisation.
AskHome ==
    /\ main = "ask"
    /\ \E o \in Outcomes(pump[homing.p], Query) :
          /\ Exchange(homing.p, [o EXCEPT !.s = IF o.code \in {9, 15} THEN Performs(@, TR) ELSE @])
          /\ inited' = Kept(o, inited)
          /\ \/ o.net # "gone" /\ main' = "seek" /\ homing' = Sought(o)
             \/ o.net = "gone" /\ main' = "seek" /\ UNCHANGED homing
             \/ o.net = "gone" /\ main' = "judge"
                /\ homing' = [homing EXCEPT !.res = [p \in Pump |-> NoAnswer]]
    /\ UNCHANGED <<latch, th, job, stopVars, hit>>

\* HOME_SETTLE_S is over: the pumps that did not say so are taken as homed.
AssumeHome ==
    /\ main = "seek" /\ homing.wait # {}
    /\ \/ \E p \in homing.wait : pump[p].err = 7 /\ UNCHANGED noise
       \/ "late" \in Noise /\ noise < MaxNoise /\ noise' = noise + 1
    /\ main' = "probe"
    /\ UNCHANGED <<pump, poured, inited, latch, th, homing, job, stopVars, hit>>

\* When nothing at all was heard every pump is asked once more.
Homed == {p \in Pump : homing.res[p] = 0}
Probe ==
    /\ main = "probe"
    /\ \/ main' = "park?" /\ homing' = [homing EXCEPT !.wait = Homed] /\ UNCHANGED noise
       \/ /\ ~homing.heard /\ noise < MaxNoise /\ noise' = noise + 1
          /\ main' = "judge"
          /\ homing' = [homing EXCEPT !.res = [p \in Pump |-> NoAnswer]]
    /\ UNCHANGED <<pump, poured, inited, latch, th, job, stopVars, hit>>

\* Each homed pump parks its valve, one after the other.
ParkNext ==
    /\ main = "park"
    /\ \A p \in Pump : th[p].pc = "rest"
    /\ \/ /\ \E p \in Pump : th[p].out = "failed"
          /\ main' = "judge" /\ homing' = [homing EXCEPT !.res = [p \in Pump |-> NoAnswer]]
          /\ UNCHANGED th
       \/ /\ \A p \in Pump : th[p].out # "failed"
          /\ homing.wait = {} /\ main' = "enlist?" /\ UNCHANGED <<th, homing>>
       \/ /\ \A p \in Pump : th[p].out # "failed"
          /\ \E p \in homing.wait :
                /\ th' = [th EXCEPT ![p] = [Resting EXCEPT !.pc = "send", !.at = Park]]
                /\ homing' = [homing EXCEPT !.wait = @ \ {p}]
          /\ UNCHANGED main
    /\ UNCHANGED <<devVars, inited, latch, job, stopVars, hit>>

EnlistAll ==
    /\ main = "enlist"
    /\ inited' = inited \cup Homed
    /\ main' = "judge"
    /\ UNCHANGED <<devVars, latch, th, homing, job, stopVars, hit>>

\* The sequencer's verdict on the initialisation.
JudgeInit ==
    /\ main = "judge"
    /\ IF Homed = Pump THEN main' = "stage" /\ UNCHANGED job
       ELSE End(IF latch THEN "interrupted" ELSE "failed")
    /\ UNCHANGED <<devVars, inited, latch, th, homing, stopVars, hit>>

\* _run_stage: a thread for each step.  Starting one may fail while others
\* already move.
Start ==
    /\ main = "start"
    /\ \E f \in SUBSET Pump :
          /\ f # {} => "thread" \in Noise /\ noise < MaxNoise /\ NPumps > 1
          /\ noise' = noise + (IF f = {} THEN 0 ELSE 1)
          /\ th' = [p \in Pump |-> IF p \in f THEN [Resting EXCEPT !.out = "failed"]
                                   ELSE [Resting EXCEPT !.pc = "ready"]]
    /\ main' = "run"
    /\ UNCHANGED <<pump, poured, inited, latch, homing, job, stopVars, hit>>

\* Mutant: a thread that could not be started ends the stage at once.
JoinedOrRefused == \A p \in Pump : th[p].pc # "rest" => \E q \in Pump : th[q].out = "failed"

\* Every thread of the stage has ended.
Joined == \A p \in Pump : th[p].pc = "rest"

\* The verdict on the stage.
AllOk == \A p \in Pump : th[p].out = "ok"
Judge ==
    /\ main = "run" /\ Joined
    /\ End(CASE AllOk -> "completed" [] ~AllOk /\ latch -> "interrupted" [] OTHER -> "failed")
    /\ UNCHANGED <<devVars, inited, latch, th, homing, stopVars, hit>>

-----------------------------------------------------------------------------
(* The emergency stop: the server's signal and the watcher's poll.         *)

AskStop ==
    /\ asked = 0 /\ stops < MaxStops
    /\ stops' = stops + 1 /\ asked' = stops'
    /\ UNCHANGED <<devVars, inited, latch, th, main, homing, job, seen, halt, hit>>

LiftStop ==
    /\ asked # 0
    /\ asked' = 0
    /\ UNCHANGED <<devVars, inited, latch, th, main, homing, job, seen, halt, stops, hit>>

Watching == [pc |-> "watch", p |-> 1]

\* poll_estop_once with an active stop it has not seen; one whose requestedAt
\* it knows, and a poll that fails, change nothing.
SeeStop ==
    /\ halt.pc = "watch"
    /\ asked \notin {0, seen}
    /\ seen' = asked
    /\ latch' = TRUE
    /\ halt' = [pc |-> "stop", p |-> 1]
    /\ UNCHANGED <<devVars, inited, th, main, homing, job, asked, stops, hit>>

\* poll_estop_once with the stop lifted.
SeeLifted ==
    /\ halt.pc = "watch"
    /\ asked = 0 /\ latch
    /\ latch' = FALSE
    /\ seen' = 0
    /\ UNCHANGED <<devVars, inited, th, main, homing, job, asked, halt, stops, hit>>

\* emergency_stop_all: TR to one pump after the other ...
HaltPump ==
    /\ halt.pc = "stop"
    /\ \E o \in Outcomes(pump[halt.p], TR) : Exchange(halt.p, o) /\ inited' = Kept(o, inited)
    /\ halt' = [halt EXCEPT !.pc = "drop"]
    /\ hit' = hit \cup {halt.p}
    /\ UNCHANGED <<latch, th, main, homing, job, asked, seen, stops>>

\* ... and the set-up of each is forgotten after its TR.
DropPump ==
    /\ halt.pc = "drop"
    /\ inited' = inited \ {halt.p}
    /\ halt' = IF halt.p < NPumps THEN [pc |-> "stop", p |-> halt.p + 1] ELSE Watching
    /\ UNCHANGED <<devVars, latch, th, main, homing, job, asked, seen, stops, hit>>

-----------------------------------------------------------------------------
Init ==
    /\ pump = [p \in Pump |-> [pos |-> 0, port |-> OutPort, motor |-> Still, err |-> 0]]
    /\ inited = {} /\ latch = FALSE
    /\ th = [p \in Pump |-> Resting]
    /\ main = "over" /\ homing = Fresh
    /\ job = [kind |-> "batch", verdict |-> "none"]
    /\ asked = 0 /\ seen = 0 /\ halt = Watching /\ stops = 0
    /\ noise = 0
    /\ poured = [p \in Pump |-> 0] /\ hit = {}

Thread(p) ==
    \/ EnsureReady(p) \/ ClearError(p) \/ Send(p) \/ Check(p) \/ Ask(p)
    \/ Terminate(p) \/ Enlist(p)

Consume ==
    \/ HeadOfStage \/ ClearLatch \/ Look \/ Fire \/ Seek \/ AskHome \/ Probe
    \/ ParkNext \/ EnlistAll \/ JudgeInit \/ Start \/ Judge

Watch == SeeStop \/ SeeLifted \/ HaltPump \/ DropPump

Next ==
    \/ \E kind \in Kinds, first \in {"init", "stage"} : Begin(kind, first)
    \/ Consume \/ AssumeHome
    \/ \E p \in Pump : Thread(p) \/ Expire(p) \/ Mechanics(p) \/ \E e \in {7, 9, 15} : Break(p, e)
    \/ AskStop \/ LiftStop \/ Watch

Spec == Init /\ [][Next]_vars

Fairness ==
    /\ WF_vars(Consume) /\ SF_vars(AssumeHome /\ \E p \in homing.wait : pump[p].err = 7)
    /\ \A p \in Pump : WF_vars(Thread(p)) /\ WF_vars(Mechanics(p))
    /\ \A p \in Pump : SF_vars(Expire(p) /\ pump[p].err = 7)

FairSpec == Spec /\ Fairness

-----------------------------------------------------------------------------
TypeOK ==
    /\ pump \in [Pump -> [pos : 0 .. Full, port : Nat, err : Error,
                          motor : [do : {"still", "turn", "move", "home"}, to : Nat]]]
    /\ inited \subseteq Pump /\ hit \subseteq Pump
    /\ latch \in BOOLEAN
    /\ th \in [Pump -> [pc : {"rest", "ready", "clear", "send", "check", "ask", "halt9",
                              "halt15", "enlist"},
                        at : -2 .. 2 * Full + 2, busy : 0 .. 3, tries : 0 .. Retries,
                        out : {"none", "ok", "failed"}]]
    /\ main \in DOMAIN Looked \cup {"over", "init", "clear", "fire", "seek", "ask", "probe",
                "park", "enlist", "judge", "stage", "start", "run"}
    /\ homing \in [p : Pump, at : -2 .. 0, wait : SUBSET Pump, idle : [Pump -> 0 .. 1],
                   heard : BOOLEAN, res : [Pump -> Error \cup {NoAnswer}]]
    /\ job \in [kind : Kinds \cup {"batch"},
                verdict : {"none", "completed", "interrupted", "failed"}]
    /\ asked \in 0 .. MaxStops /\ seen \in 0 .. MaxStops /\ stops \in 0 .. MaxStops
    /\ halt \in [pc : {"watch", "stop", "drop"}, p : Pump]
    /\ noise \in 0 .. MaxNoise
    /\ poured \in [Pump -> Nat]

\* A job reported completed poured the whole dose of every pump, whatever was
\* lost, garbled or refused on the way, unless a stop reached the pump.
CompletedPoured ==
    job.verdict = "completed" /\ job.kind = "batch"
        => \A p \in Pump \ hit : poured[p] >= Full

\* The consuming thread judges a stage, and goes on to the next job, only when
\* no thread drives a pump any more, also when a thread could not be started.
NobodyLeftDriving ==
    main \notin {"run", "park"} => \A p \in Pump : th[p].pc = "rest"

\* A unit of liquid is only ever drawn through the port the recipe gives for
\* it, in spite of commands the pump refused because it was still moving.  (Not
\* for a pump that a stop reaches: TR in a turn looks like the end of the turn.)
DrawnThroughItsPort ==
    [][\A p \in Pump \ hit : job.kind = "batch" /\ pump'[p].pos > pump[p].pos
           => pump[p].port = Aspirations[pump'[p].pos]]_vars

\* The maintenance stroke draws air and nothing else.  (This does not hold: see
\* the README.)
StrokeDrawsAir ==
    [][\A p \in Pump : job.kind = "plunger" /\ pump'[p].pos > pump[p].pos
           => pump[p].port = AirPort]_vars

\* A pump never pours its dose twice in a job, however often a step is retried.
NoDoublePour == \A p \in Pump : poured[p] <= Full

\* Once an emergency stop has reached every pump, no motor starts before the
\* server lifts the stop.  (This does not hold: see the README.)
StopHolds ==
    [][\A p \in Pump : asked # 0 /\ seen = asked /\ halt.pc = "watch" /\ ~Busy(pump[p])
           => ~Busy(pump'[p])]_vars

\* Every job ends, however the bus and the pumps misbehave.
JobEnds == main # "over" ~> main = "over"
=============================================================================

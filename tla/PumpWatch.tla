------------------------------ MODULE PumpWatch ------------------------------
(***************************************************************************)
(* Which pump model the daemon drives.  At boot the pumps are asked for    *)
(* their firmware fingerprint before an adapter is built; while the daemon *)
(* runs the idle watch of the heartbeat thread asks them again, the gate   *)
(* in front of every initialisation refuses a pump of another model, and   *)
(* whatever the adapter cannot follow is left to a restart.                *)
(*                                                                         *)
(* A model frame is the preamble of an initialisation: U for one model,    *)
(* N for the other; sent to the wrong one it overwrites its settings.      *)
(***************************************************************************)
EXTENDS Integers, FiniteSets

CONSTANTS
    NPumps,     \* the expected addresses are 1 .. NPumps
    NPorts,     \* candidate serial ports, in the order they are tried
    Devices,    \* what may sit at an address: see Fingerprint
    Servers,    \* the models the server may declare, "none" for no declaration
    MaxChanges, \* bound: physical changes of the rack
    MaxNoise,   \* bound: transactions, fetches and links that fail
    MaxJobs     \* bound: jobs, so that the watch finds the daemon idle

ASSUME PumpWatchAssumption ==
    /\ NPumps \in Nat \ {0} /\ NPorts \in Nat \ {0}
    /\ Devices \subseteq {"absent", "garbled", "mute", "sy01b", "alike", "tecan"}
    /\ Servers \subseteq {"none", "sy01b", "tecan"}
    /\ MaxChanges \in Nat /\ MaxNoise \in Nat /\ MaxJobs \in Nat

Pump == 1 .. NPumps
Port == 1 .. NPorts
Model == {"sy01b", "tecan"}

VARIABLES
    rack,    \* the device at each address, and the port they are plugged in
    server,  \* the model the server declares
    cached,  \* the hardware profile cache: the last confirmed declaration
    proc,    \* the process
    built,   \* what the boot built: adapter, where from, declaration, port, pump map
    fw,      \* _fw_fingerprints: the model read last, "none" for no entry
    gate,    \* _fp_checked and _fp_fails
    round,   \* the watch's pass over the addresses
    streak,  \* passes in a row that saw another model
    job,     \* the initialisation of a job
    spent,   \* bounds used up: changes, noise, jobs
    changed, \* history: pumps exchanged since the boot
    refused, \* history: pumps the gate refused, as long as they are not exchanged
    stray    \* history: pumps that got a frame of another model since the boot

bootVars == <<proc, built, changed>>
vars == <<rack, server, cached, bootVars, fw, gate, round, streak, job, spent, refused, stray>>

-----------------------------------------------------------------------------
(* What a pump says.                                                       *)

\* classify_fingerprint: the exact values, and Runze's form.
Classified(d) == CASE d \in {"sy01b", "alike"} -> "sy01b" [] d = "tecan" -> "tecan" [] OTHER -> "none"
Exact(d) == d \in {"sy01b", "tecan"}

\* health_probe: a frame that parses is ok whatever error it carries.
Health(p) ==
    IF built.port # rack.port \/ rack.at[p] = "absent" THEN "silent"
    ELSE IF rack.at[p] = "garbled" THEN "garbled" ELSE "ok"

Answering == {p \in Pump : rack.at[p] \notin {"absent", "garbled"}}
Noisy(n) == spent.noise + n <= MaxNoise
Spend(n) == spent' = [spent EXCEPT !.noise = @ + n]

\* detect_pump_model: the model when every pump that answered says the same.
\* Mutant: one readable pump decides.
OneIsEnough(heard, read) ==
    LET known == {Classified(rack.at[p]) : p \in read}
    IN  [heard |-> heard,
         model |-> IF Cardinality(known) = 1 THEN CHOOSE m \in known : TRUE ELSE "none",
         strong |-> \A p \in read : Exact(rack.at[p]),
         mixed |-> Cardinality(known) > 1]

Judged(heard, read) ==
    LET known == {Classified(rack.at[p]) : p \in read}
    IN  [heard |-> heard,
         model |-> IF read = heard /\ Cardinality(known) = 1 THEN CHOOSE m \in known : TRUE
                   ELSE "none",
         strong |-> \A p \in heard : Exact(rack.at[p]),
         mixed |-> Cardinality(known) > 1]

\* A result of detect_on_candidates, from the pumps that are heard and those that
\* can be read; each that is not although it could be costs some noise.
Legible == {p \in Answering : Classified(rack.at[p]) # "none"}
Detection(heard, read) ==
    [det |-> Judged(heard, read \cap heard),
     cost |-> Cardinality(Answering \ heard) + Cardinality((Legible \cap heard) \ read)]
Detections == {Detection(heard, read) : heard \in SUBSET Answering, read \in SUBSET Legible}

\* adoptable_detected_model
Adoptable(det, declared) ==
    IF det.model = "sy01b" /\ ~det.strong /\ declared # "sy01b" THEN "none" ELSE det.model

-----------------------------------------------------------------------------
(* The process: boot, end, and the thread that waits for a model.          *)

Resting == [pc |-> "rest", p |-> 1, health |-> [p \in Pump |-> "silent"]]
NoJob == [pc |-> "none", p |-> 1]
Unread == [p \in Pump |-> "none"]
Armed == [checked |-> {}, fails |-> [p \in Pump |-> 0]]

\* The adapter the boot builds: the detected model, or the declared one when
\* no pump answers; when they answer and cannot be told, none.
Assembled(det, declared, source) ==
    IF det.heard = {}
    THEN IF declared = "none" THEN <<"undeclared", "undeclared">> ELSE <<declared, source>>
    ELSE IF Adoptable(det, declared) # "none" THEN <<det.model, "detected">>
    ELSE <<"undeclared", IF det.mixed THEN "mixed" ELSE "undetected">>

\* build_components and build_resolver: the declaration comes from a snapshot
\* of the server, else from the cache; only a confirmed one is cached.
Boot ==
    /\ proc = "down"
    /\ \E d \in Detections, got, confirmed \in BOOLEAN :
          LET lost == IF server = "none" \/ got THEN 0 ELSE 1
              fresh == server # "none" /\ got
              declared == IF fresh THEN server ELSE cached
              a == Assembled(d.det, declared, IF fresh THEN "snapshot" ELSE "cache")
          IN  /\ Noisy(d.cost + lost) /\ Spend(d.cost + lost)
              /\ cached' = IF fresh /\ confirmed THEN server ELSE cached
              /\ built' = [engine |-> a[1], source |-> a[2], declared |-> declared,
                           port |-> IF d.det.heard = {} THEN 1 ELSE rack.port,
                           map |-> d.det.heard]
    /\ proc' = "up" /\ changed' = {} /\ stray' = {}
    /\ fw' = Unread /\ gate' = Armed /\ streak' = 0
    /\ UNCHANGED <<rack, server, round, job, refused>>

\* SIGTERM to itself: the loop ends after the job in progress, and systemd
\* starts the process again.
Restart == proc' = "ending"
Exit ==
    /\ proc = "ending" /\ job = NoJob
    /\ proc' = "down"
    /\ round' = Resting
    /\ UNCHANGED <<rack, server, cached, built, changed, fw, gate, streak, job, spent, refused, stray>>

\* _undeclared_refetch: detect again, and when nothing answered at boot either,
\* ask for the declaration again.
Redetect ==
    /\ proc = "up" /\ built.engine = "undeclared"
    /\ \E d \in Detections :
          \/ /\ Adoptable(d.det, built.declared) # "none"
             /\ Noisy(d.cost) /\ Spend(d.cost) /\ Restart
             /\ UNCHANGED cached
          \/ /\ Adoptable(d.det, built.declared) = "none"
             /\ built.source = "undeclared" /\ server # "none"
             /\ Noisy(d.cost) /\ Spend(d.cost) /\ Restart
             /\ cached' \in {cached, server}
          \/ /\ Adoptable(d.det, built.declared) = "none"
             /\ UNCHANGED <<proc, spent, cached>>
    /\ UNCHANGED <<rack, server, built, changed, fw, gate, round, streak, job, refused, stray>>

-----------------------------------------------------------------------------
(* The fingerprints the adapter keeps.                                     *)

\* _model_gate on one address: what it reads is remembered, a pump it could
\* not read three times is let through.
Read(p, seen) ==
    /\ fw' = [fw EXCEPT ![p] = IF seen = "none" THEN @ ELSE seen]
    /\ gate' = IF seen # "none" THEN [gate EXCEPT !.checked = @ \cup {p}]
               ELSE [checked |-> IF gate.fails[p] = 2 THEN gate.checked \cup {p} ELSE gate.checked,
                     fails |-> [gate.fails EXCEPT ![p] = @ + 1]]

\* observe_fingerprint: a new value arms the gate of its address again.
Observe(p, seen) ==
    /\ fw' = [fw EXCEPT ![p] = IF seen = "none" THEN @ ELSE seen]
    /\ gate' = IF seen \in {"none", fw[p]} THEN gate
               ELSE [checked |-> gate.checked \ {p}, fails |-> [gate.fails EXCEPT ![p] = 0]]

\* The answers to & at this moment, with their cost.
Said(p) ==
    LET d == IF Health(p) = "ok" THEN Classified(rack.at[p]) ELSE "none"
    IN  {<<d, 0>>} \cup (IF d = "none" THEN {} ELSE {<<"none", 1>>})

-----------------------------------------------------------------------------
(* The idle watch, _refresh_hw_health.                                     *)

Busy == job # NoJob

\* The pass begins when nothing is made; an undeclared engine has no probe.
BeginRound ==
    /\ proc = "up" /\ round.pc = "rest" /\ ~Busy /\ built.engine \in Model
    /\ round' = [Resting EXCEPT !.pc = "ask"]
    /\ UNCHANGED <<rack, server, cached, bootVars, fw, gate, streak, job, spent, refused, stray>>

Following(r) == IF r.p = NPumps THEN [r EXCEPT !.pc = "forget"] ELSE [r EXCEPT !.pc = "ask", !.p = @ + 1]

\* A job or a stop during the pass: the partial result is dropped.
Yield ==
    /\ round.pc \in {"ask", "read"} /\ (Busy \/ proc = "ending")
    /\ round' = Resting
    /\ UNCHANGED <<rack, server, cached, bootVars, fw, gate, streak, job, spent, refused, stray>>

AskHealth ==
    /\ round.pc = "ask" /\ ~Busy /\ proc = "up"
    /\ \E h \in {Health(round.p), "silent", "garbled"} :
          LET cost == IF h = Health(round.p) THEN 0 ELSE 1
              r == [round EXCEPT !.health[round.p] = h]
          IN  /\ Noisy(cost) /\ Spend(cost)
              /\ round' = IF h = "ok" THEN [r EXCEPT !.pc = "read"] ELSE Following(r)
    /\ UNCHANGED <<rack, server, cached, bootVars, fw, gate, streak, job, refused, stray>>

ReadFingerprint ==
    /\ round.pc = "read" /\ ~Busy /\ proc = "up"
    /\ \E s \in Said(round.p) : Noisy(s[2]) /\ Spend(s[2]) /\ Observe(round.p, s[1])
    /\ round' = Following(round)
    /\ UNCHANGED <<rack, server, cached, bootVars, streak, job, refused, stray>>

\* Mutant: what a pump said before it went silent is kept.
Kept(health) == fw

\* The fingerprints of addresses that did not answer are forgotten.
Remembered(health) == [p \in Pump |-> IF health[p] = "ok" THEN fw[p] ELSE "none"]

Forget ==
    /\ round.pc = "forget"
    /\ fw' = Remembered(round.health)
    /\ round' = [round EXCEPT !.pc =
                     IF (\A p \in Pump : round.health[p] = "silent") /\ ~Busy /\ proc = "up"
                     THEN "scout" ELSE "judge"]
    /\ UNCHANGED <<rack, server, cached, bootVars, gate, streak, job, spent, refused, stray>>

\* _check_pump_port_moved: all silent, and a pump answers on another port.
Scout ==
    /\ round.pc = "scout"
    /\ \/ /\ built.port # rack.port /\ Answering # {} /\ ~Busy
          /\ Restart
       \/ /\ built.port = rack.port \/ Answering = {} \/ Busy
          /\ UNCHANGED proc
    /\ round' = [round EXCEPT !.pc = "judge"]
    /\ UNCHANGED <<rack, server, cached, built, changed, fw, gate, streak, job, spent, refused, stray>>

\* Mutant: a garbled frame counts as a pump that could be mapped.
NotSilent(h) == h # "silent"

\* A pump the boot would find.
Found(h) == h = "ok"

\* _judge_pump_model_change, then the pumps that answer and are not mapped.
Known == {fw[p] : p \in Pump} \ {"none"}
Streak ==
    IF Known = {} \/ Cardinality(Known) > 1 \/ Known = {built.engine} THEN 0
    ELSE IF streak = 2 THEN 2 ELSE streak + 1
Missing == \E p \in Pump \ built.map : Found(round.health[p])

Judge ==
    /\ round.pc = "judge"
    /\ streak' = Streak
    /\ IF (streak' = 2 \/ Missing) /\ ~Busy /\ proc = "up" THEN Restart ELSE UNCHANGED proc
    /\ round' = Resting
    /\ UNCHANGED <<rack, server, cached, built, changed, fw, gate, job, spent, refused, stray>>

-----------------------------------------------------------------------------
(* The initialisation of a job, initialize_polled: the gate, then a frame  *)
(* to each pump of the map.                                                *)

BeginJob ==
    /\ proc = "up" /\ ~Busy /\ spent.jobs < MaxJobs
    /\ built.engine \in Model /\ built.map # {}
    /\ job' = [pc |-> "gate", p |-> 1]
    /\ spent' = [spent EXCEPT !.jobs = @ + 1]
    /\ UNCHANGED <<rack, server, cached, bootVars, fw, gate, round, streak, refused, stray>>

Onward == IF job.p < NPumps THEN [job EXCEPT !.p = @ + 1]
          ELSE IF job.pc = "gate" THEN [pc |-> "fire", p |-> 1] ELSE NoJob

PassGate ==
    /\ job.pc = "gate"
    /\ job.p \notin built.map \/ job.p \in gate.checked
    /\ job' = Onward
    /\ UNCHANGED <<rack, server, cached, bootVars, fw, gate, round, streak, spent, refused, stray>>

\* A pump of another model is refused, and with it the job; it is in
\* _fp_checked all the same.
ReadAtGate ==
    /\ job.pc = "gate" /\ job.p \in built.map \ gate.checked
    /\ \E s \in Said(job.p) :
          /\ Noisy(s[2]) /\ Spend(s[2]) /\ Read(job.p, s[1])
          /\ IF s[1] \in {"none", built.engine} THEN job' = Onward /\ UNCHANGED refused
             ELSE job' = NoJob /\ refused' = refused \cup {job.p}
    /\ UNCHANGED <<rack, server, cached, bootVars, round, streak, stray>>

\* The frames of the adapter's model.
Fire ==
    /\ job.pc = "fire"
    /\ job' = Onward
    /\ stray' = IF job.p \in built.map /\ Health(job.p) # "silent"
                   /\ Classified(rack.at[job.p]) # built.engine
                THEN stray \cup {job.p} ELSE stray
    /\ UNCHANGED <<rack, server, cached, bootVars, fw, gate, round, streak, spent, refused>>

-----------------------------------------------------------------------------
(* The world.                                                              *)

\* One pump, or the whole rack, is exchanged or switched on or off, or the rack
\* is plugged in elsewhere: with the daemon idle, and without the serial device
\* going away.
Racks(at) ==
    {[q \in Pump |-> d] : d \in Devices} \cup
    {[at EXCEPT ![q] = d] : q \in Pump, d \in Devices}

Change ==
    /\ spent.changes < MaxChanges /\ ~Busy
    /\ spent' = [spent EXCEPT !.changes = @ + 1]
    /\ \E at \in Racks(rack.at), port \in Port :
          LET other == IF port # rack.port THEN Pump ELSE {p \in Pump : at[p] # rack.at[p]}
          IN  /\ other # {} /\ (at = rack.at \/ port = rack.port)
              /\ rack' = [at |-> at, port |-> port]
              /\ changed' = changed \cup other
              /\ refused' = refused \ other
              /\ stray' = stray \ other
    /\ UNCHANGED <<server, cached, proc, built, fw, gate, round, streak, job>>

\* The serial device goes away and another one, or the same, is opened.
LinkReset ==
    /\ proc = "up" /\ built.engine \in Model /\ Noisy(1) /\ Spend(1)
    /\ built' \in {[built EXCEPT !.port = port] : port \in Port}
    /\ fw' = Unread /\ gate' = Armed
    /\ UNCHANGED <<rack, server, cached, proc, changed, round, streak, job, refused, stray>>

Init ==
    /\ \E d \in Devices : rack = [at |-> [p \in Pump |-> d], port |-> 1]
    /\ server \in Servers /\ cached = "none"
    /\ proc = "down"
    /\ built = [engine |-> "undeclared", source |-> "undeclared", declared |-> "none",
                port |-> 1, map |-> {}]
    /\ fw = Unread /\ gate = Armed /\ round = Resting /\ streak = 0 /\ job = NoJob
    /\ spent = [changes |-> 0, noise |-> 0, jobs |-> 0]
    /\ changed = {} /\ refused = {} /\ stray = {}

Watch == BeginRound \/ Yield \/ AskHealth \/ ReadFingerprint \/ Forget \/ Scout \/ Judge
Job == PassGate \/ ReadAtGate \/ Fire

Next == Boot \/ Exit \/ Redetect \/ Watch \/ BeginJob \/ Job \/ Change \/ LinkReset

Spec == Init /\ [][Next]_vars

\* The heartbeat thread and the refetch thread keep running, a job ends, and
\* systemd starts the process whenever it has ended.
Fairness == WF_vars(Boot) /\ WF_vars(Exit) /\ WF_vars(Watch) /\ WF_vars(Job) /\ WF_vars(Redetect)
FairSpec == Spec /\ Fairness

-----------------------------------------------------------------------------
TypeOK ==
    /\ rack \in [at : [Pump -> Devices], port : Port]
    /\ server \in Servers /\ cached \in Servers \cup {"none"}
    /\ proc \in {"down", "up", "ending"}
    /\ built \in [engine : Model \cup {"undeclared"}, declared : Model \cup {"none"},
                  source : {"detected", "snapshot", "cache", "undeclared", "mixed", "undetected"},
                  port : Port, map : SUBSET Pump]
    /\ fw \in [Pump -> Model \cup {"none"}]
    /\ gate \in [checked : SUBSET Pump, fails : [Pump -> 0 .. 3]]
    /\ round \in [pc : {"rest", "ask", "read", "forget", "scout", "judge"}, p : Pump,
                  health : [Pump -> {"ok", "garbled", "silent"}]]
    /\ streak \in 0 .. 2
    /\ job \in [pc : {"none", "gate", "fire"}, p : Pump]
    /\ spent \in [changes : 0 .. MaxChanges, noise : 0 .. MaxNoise, jobs : 0 .. MaxJobs]
    /\ changed \subseteq Pump /\ refused \subseteq Pump /\ stray \subseteq Pump

\* A frame of one model reaches a pump of another, or one that cannot be told,
\* only if that pump was exchanged since the boot: whatever the declaration, the
\* cache and a noisy detection say.
FramesFit == stray \subseteq changed

\* A pump the gate has refused gets no frame of the adapter's model as long as
\* nobody exchanges it.  (This does not hold: see the README.)
RefusedForGood == [][\A p \in refused \ stray : p \notin stray']_vars

\* The restarts the daemon asks for itself come to an end.
RestartsEnd == <>[](proc = "up")

\* The rack answers, and says one model beyond doubt.
Uniform(m) == Answering # {} /\ \A p \in Answering : rack.at[p] = m

\* When the pumps that answer are of one known model and stay so, the daemon
\* ends up driving that model.
RackAdopted == \A m \in Model : <>[](Uniform(m) => built.engine = m)
=============================================================================

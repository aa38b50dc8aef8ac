------------------------------ MODULE HotApply ------------------------------
(***************************************************************************)
(* The settings of the device while the daemon runs.  The server sends a   *)
(* frame on every change and withholds orders until the heartbeat reports  *)
(* the hash of that frame; a watcher thread keeps the newest frame, the    *)
(* consuming thread applies it between two polls, homing the pumps again   *)
(* when the syringe capacity changed, and an envelope that was assembled   *)
(* under other settings is refused.                                        *)
(*                                                                         *)
(* A hash stands for its settings: the server computes it over all of      *)
(* them and the daemon never does.                                         *)
(***************************************************************************)
EXTENDS Naturals, Sequences, FiniteSets

CONSTANTS
    Settings,    \* records [rack, cap, ports]: declared model and addresses, capacity, the rest
    Unsupported, \* capacities that are not in the list of the pump model
    DefaultCap,  \* the capacity of the mode, when nothing else is known
    NPumps,      \* the pumps of the map are 1 .. NPumps
    MaxAttempts, \* HOT_APPLY_MAX_ATTEMPTS
    MaxChanges,  \* bound: settings saved on the server
    MaxFaults,   \* bound: pumps that change, links that fall, stops, kills, fetches that fail
    MaxRests,    \* bound: maintenance that succeeds, beats between
    None

ASSUME HotApplyAssumption ==
    /\ \A s \in Settings : DOMAIN s = {"rack", "cap", "ports"}
    /\ NPumps \in Nat \ {0} /\ MaxAttempts \in Nat \ {0}
    /\ MaxChanges \in Nat /\ MaxFaults \in Nat /\ MaxRests \in Nat
    /\ None \notin Settings

Pump == 1 .. NPumps

VARIABLES
    server,   \* the settings saved on the server
    reported, \* the hash the last heartbeat reported
    line,     \* frames of the stream nobody has read; None when it is down
    watch,    \* the watcher: latest, pending and applied frame
    force,    \* the settings in the resolver, the capacity guard and the preset
    cache,    \* the hardware profile cache
    main,     \* the consuming thread: where it is, the frame or envelope it holds
    fails,    \* _hot_fail_hash, _hot_fail_count, _hot_fail_pump, its state, may retry
    seen,     \* _pump_health
    round,    \* a pass of the health watch: what it has read so far; None for no pass
    setUp,    \* _initialized, with the capacity each pump was homed for
    pump,     \* the pumps: "ok", "mute" (no answer), "sick" (cannot home)
    stopped,  \* the emergency stop latch
    queued,   \* an envelope: the settings it was assembled under
    spent     \* bounds used up

daemonVars == <<watch, force, main, fails, seen, round, setUp>>
worldVars == <<server, pump, stopped, spent>>
vars == <<reported, line, daemonVars, worldVars, cache, queued>>

-----------------------------------------------------------------------------
(* Boot.                                                                   *)

NoFails == [of |-> None, n |-> 0, pump |-> None, was |-> None, due |-> TRUE]

\* build_resolver and the watcher's first state, from the snapshot of the boot;
\* without one, from the cache; without either, the capacity of the mode, and
\* the capacity guard is off.
Booted(snapshot) ==
    /\ watch' = [latest |-> None, pending |-> None, applied |-> snapshot]
    /\ force' = IF snapshot # None THEN snapshot ELSE cache'
    /\ main' = [at |-> "loop", of |-> None, next |-> 0]
    /\ fails' = NoFails
    /\ seen' = [p \in Pump |-> None] /\ round' = None
    /\ setUp' = [p \in Pump |-> None]

\* The memory of a process that is not there.
Nothing ==
    [watch |-> [latest |-> None, pending |-> None, applied |-> None],
     main |-> [at |-> "boot", of |-> None, next |-> 0],
     perPump |-> [p \in Pump |-> None]]

Gone ==
    /\ watch' = Nothing.watch /\ main' = Nothing.main
    /\ force' = None /\ fails' = NoFails
    /\ seen' = Nothing.perPump /\ setUp' = Nothing.perPump
    /\ round' = None /\ line' = None

Init ==
    /\ server \in Settings
    /\ reported = None /\ cache = None /\ queued = None
    /\ watch = Nothing.watch /\ main = Nothing.main
    /\ force = None /\ fails = NoFails
    /\ seen = Nothing.perPump /\ setUp = Nothing.perPump
    /\ round = None /\ line = None
    /\ pump = [p \in Pump |-> "ok"]
    /\ stopped = FALSE
    /\ spent = [changes |-> 0, faults |-> 0, rests |-> 0]

Up == main.at # "boot"

\* build_components: the settings are fetched once, and kept in the cache.
BootOnline ==
    /\ ~Up
    /\ cache' = server
    /\ Booted(server)
    /\ UNCHANGED <<reported, line, worldVars, queued>>

BootOffline ==
    /\ ~Up
    /\ spent.faults < MaxFaults
    /\ spent' = [spent EXCEPT !.faults = @ + 1]
    /\ UNCHANGED cache
    /\ Booted(None)
    /\ UNCHANGED <<reported, line, server, pump, stopped, queued>>

-----------------------------------------------------------------------------
(* The watcher thread.                                                     *)

\* _loop, run_once: a new stream begins with the settings of now.
Connect ==
    /\ Up /\ line = None
    /\ line' = <<server>>
    /\ UNCHANGED <<reported, daemonVars, worldVars, cache, queued>>

\* observe(): the newest frame wins; one that is applied already clears what is
\* pending.  Frames without a hash or a hardware block change nothing.
Observed(s) ==
    [watch EXCEPT !.latest = s, !.pending = IF s = watch.applied THEN None ELSE s]

Observe ==
    /\ Up /\ line # None /\ line # <<>>
    /\ watch' = Observed(Head(line))
    /\ line' = Tail(line)
    /\ UNCHANGED <<reported, force, main, fails, seen, round, setUp, worldVars, cache, queued>>

-----------------------------------------------------------------------------
(* The consuming thread, between two polls.                                *)

Goto(at, s, n) == main' = [at |-> at, of |-> s, next |-> n]

\* derive_hot_settings, capacity_changed.
CapacityOf(s) == IF s = None THEN DefaultCap ELSE s.cap
Blocked(cap) == cap \in Unsupported
Homing(s) == CapacityOf(force) # s.cap /\ ~Blocked(s.cap)

\* _apply_pending_settings, the attempts a failed hash has left.
MayTry(s) == fails.of = s => fails.n < MaxAttempts /\ fails.due

\* _hot_apply up to its first change: nothing applied yet, or another rack, is
\* left to a restart; otherwise the pumps are homed if the capacity changed.
Apply ==
    LET s == watch.pending
    IN /\ main.at = "loop" /\ s # None
       /\ MayTry(s)
       /\ IF watch.applied = None \/ watch.applied.rack # s.rack
          THEN Gone
          ELSE /\ IF Homing(s) THEN Goto("home", s, 1) ELSE Goto("assign", s, 0)
               /\ UNCHANGED <<line, watch, force, fails, seen, round, setUp>>
       /\ UNCHANGED <<reported, worldVars, cache, queued>>

\* reinitialize(): TR, set-up, Z with the force of the capacity.  A latched stop
\* does not keep the frames back, but the poll after them sees it.
Home ==
    /\ main.at = "home"
    /\ pump[main.next] = "ok" /\ ~stopped
    /\ setUp' = [setUp EXCEPT ![main.next] = main.of.cap]
    /\ IF main.next < NPumps
       THEN Goto("home", main.of, main.next + 1)
       ELSE Goto("assign", main.of, 0)
    /\ UNCHANGED <<reported, line, watch, force, fails, seen, round, worldVars, cache, queued>>

\* Mutant: a pump that failed leaves the others homed for the new capacity.
ForgetFailed == [setUp EXCEPT ![main.next] = None]

\* initialize(): no pump counts as set up.
ForgetSetUp == [p \in Pump |-> None]

\* A pump that does not home: nothing is applied; the failure is counted, with
\* the last health of the pump.
HomeFails ==
    /\ main.at = "home"
    /\ pump[main.next] # "ok" \/ stopped
    /\ setUp' = ForgetSetUp
    /\ fails' = [of |-> main.of, n |-> IF fails.of = main.of THEN fails.n + 1 ELSE 1,
                 pump |-> main.next, was |-> seen[main.next], due |-> FALSE]
    /\ Goto("loop", None, 0)
    /\ UNCHANGED <<reported, line, watch, force, seen, round, worldVars, cache, queued>>

\* Preset, resolver, capacity guard and contract, then the cache.
Assign ==
    /\ main.at = "assign"
    /\ force' = main.of
    /\ Goto("persist", main.of, 0)
    /\ UNCHANGED <<reported, line, watch, fails, seen, round, setUp, worldVars, cache, queued>>

Persist ==
    /\ main.at = "persist"
    /\ cache' = main.of
    /\ Goto("mark", main.of, 0)
    /\ UNCHANGED <<reported, line, watch, force, fails, seen, round, setUp, worldVars, queued>>

\* Mutant: a frame that came during the application is forgotten.
MarkedOnly(s) ==
    [watch EXCEPT !.applied = s, !.pending = IF @ = s THEN None ELSE @]

\* Mutant: what is reported is the newest frame.
MarkedPending(s) ==
    [watch EXCEPT !.applied = IF watch.pending = None THEN s ELSE watch.pending, !.pending = None]

\* mark_applied(): a frame that came meanwhile stays, or becomes, pending.
Marked(s) ==
    LET pending == IF watch.pending = s THEN None ELSE watch.pending
    IN [watch EXCEPT !.applied = s,
                     !.pending = IF pending = None /\ watch.latest \notin {None, s}
                                 THEN watch.latest ELSE pending]

Mark ==
    /\ main.at = "mark"
    /\ watch' = Marked(main.of)
    /\ fails' = [fails EXCEPT !.of = None, !.n = 0, !.pump = None]
    /\ Goto("loop", None, 0)
    /\ UNCHANGED <<reported, line, force, seen, round, setUp, worldVars, cache, queued>>

\* HOT_APPLY_RETRY_S have passed.
RetryDue ==
    /\ Up /\ ~fails.due
    /\ fails' = [fails EXCEPT !.due = TRUE]
    /\ UNCHANGED <<reported, line, watch, force, main, seen, round, setUp, worldVars, cache, queued>>

-----------------------------------------------------------------------------
(* Envelopes.                                                              *)

\* Mutant: the hash of the envelope is not compared.
CapacityOnly(s) ==
    ~Blocked(CapacityOf(force)) /\ (force = None \/ force.cap = s.cap)

\* _capacity_mismatch, _settings_mismatch: without an applied hash there is
\* nothing to compare, and no capacity guard when nothing was ever known.
Admitted(s) ==
    /\ ~Blocked(CapacityOf(force))
    /\ force = None \/ force.cap = s.cap
    /\ watch.applied \in {None, s}

\* A poll that finds the envelope: it runs or it is refused.  A poll is a whole
\* stream with all its envelopes, and frames that come meanwhile wait for its end;
\* so Apply, which begins where one ends, may as well come first or last.
Poll ==
    /\ main.at = "loop" /\ queued # None
    /\ queued' = None
    /\ IF Admitted(queued) THEN Goto("job", queued, 1) ELSE UNCHANGED main
    /\ UNCHANGED <<reported, line, watch, force, fails, seen, round, setUp, worldVars, cache>>

\* _ensure_ready of a pump of the job, with the spec of the resolver.
JobPump ==
    LET p == main.next
    IN /\ main.at = "job" /\ p <= NPumps
       /\ setUp' = [setUp EXCEPT ![p] = IF @ = None /\ pump[p] = "ok" /\ ~stopped
                                        THEN CapacityOf(force) ELSE @]
       /\ Goto("job", main.of, p + 1)
       /\ UNCHANGED <<reported, line, watch, force, fails, seen, round, worldVars, cache, queued>>

\* A job ends.  Maintenance that succeeds lifts the limit of attempts.
JobEnds ==
    /\ main.at = "job" /\ main.next > NPumps
    /\ \/ UNCHANGED <<fails, spent>>
       \/ /\ spent.rests < MaxRests /\ fails.n > 0
          /\ \A p \in Pump : pump[p] = "ok"
          /\ spent' = [spent EXCEPT !.rests = @ + 1]
          /\ fails' = [fails EXCEPT !.n = 0]
    /\ Goto("loop", None, 0)
    /\ UNCHANGED <<reported, line, server, watch, force, seen, round, setUp, pump, stopped, cache, queued>>

-----------------------------------------------------------------------------
(* The heartbeat thread.                                                   *)

Beat ==
    /\ Up /\ reported # watch.applied
    /\ reported' = watch.applied
    /\ UNCHANGED <<line, daemonVars, worldVars, cache, queued>>

Applying == main.at \in {"home", "assign", "persist"}
Yields == main.at = "job" \/ Applying

\* _refresh_hw_health: pump by pump, given up as soon as the consuming thread
\* works; worth a step only while a pump keeps settings from being applied.
Probe ==
    /\ Up /\ fails.pump # None
    /\ IF Yields
       THEN round # None /\ round' = None
       ELSE LET n == IF round = None THEN 0 ELSE Len(round)
                read == IF round = None THEN <<>> ELSE round
            IN n < NPumps /\ round' = Append(read, IF pump[n + 1] = "mute" THEN "silent" ELSE "ok")
    /\ UNCHANGED <<reported, line, watch, force, main, fails, seen, setUp, worldVars, cache, queued>>

\* Mutant: only the first answer ever counts.
FirstAnswer(was, now) == was = None /\ now = "ok"

\* _note_hot_fail_pump_recovery: the pump that failed answers again.
Returns(was, now) == was # None /\ was # "ok" /\ now = "ok"

ProbeEnds ==
    /\ Up /\ round # None /\ Len(round) = NPumps
    /\ seen' = round /\ round' = None
    /\ fails' = IF fails.pump = None THEN fails
                ELSE LET now == round[fails.pump]
                         again == fails.n >= MaxAttempts /\ Returns(fails.was, now)
                     IN [fails EXCEPT !.was = now,
                                      !.n = IF again THEN MaxAttempts - 1 ELSE @,
                                      !.due = again \/ @]
    /\ UNCHANGED <<reported, line, watch, force, main, setUp, worldVars, cache, queued>>

-----------------------------------------------------------------------------
(* The server, the pumps, and what may go wrong.                           *)

Save(s) ==
    /\ spent.changes < MaxChanges /\ s # server
    /\ server' = s
    /\ line' = IF line = None THEN None ELSE Append(line, s)
    /\ spent' = [spent EXCEPT !.changes = @ + 1]
    /\ UNCHANGED <<reported, daemonVars, pump, stopped, cache, queued>>

\* The server issues an order only when the device has reported its settings.
Issue ==
    /\ queued = None /\ reported = server
    /\ queued' = server
    /\ UNCHANGED <<reported, line, daemonVars, worldVars, cache>>

Fault ==
    /\ spent.faults < MaxFaults
    /\ spent' = [spent EXCEPT !.faults = @ + 1]
    /\ UNCHANGED <<reported, server, cache, queued>>

PumpChanges ==
    /\ Fault
    /\ \E p \in Pump, st \in {"mute", "sick"} : pump' = [pump EXCEPT ![p] = st]
    /\ UNCHANGED <<line, daemonVars, stopped>>

PumpRecovers ==
    /\ \E p \in Pump : pump[p] # "ok" /\ pump' = [pump EXCEPT ![p] = "ok"]
    /\ UNCHANGED <<reported, line, daemonVars, server, stopped, spent, cache, queued>>

\* An emergency stop: its TR ends what the pumps do, and no pump is set up.
EmergencyStop ==
    /\ Fault
    /\ Up /\ ~stopped /\ stopped' = TRUE
    /\ setUp' = [p \in Pump |-> None]
    /\ UNCHANGED <<line, watch, force, main, fails, seen, round, pump>>

Release ==
    /\ stopped /\ stopped' = FALSE
    /\ UNCHANGED <<reported, line, daemonVars, server, pump, spent, cache, queued>>

LinkFalls ==
    /\ Fault
    /\ line # None /\ line' = None
    /\ UNCHANGED <<daemonVars, pump, stopped>>

Kill ==
    /\ Fault
    /\ Up /\ Gone
    /\ UNCHANGED <<pump, stopped>>

Next ==
    \/ BootOnline \/ BootOffline
    \/ Connect \/ Observe
    \/ Apply \/ Home \/ HomeFails \/ Assign \/ Persist \/ Mark \/ RetryDue
    \/ Poll \/ JobPump \/ JobEnds
    \/ Beat \/ Probe \/ ProbeEnds
    \/ \E s \in Settings : Save(s)
    \/ Issue
    \/ PumpChanges \/ PumpRecovers \/ EmergencyStop \/ Release \/ LinkFalls \/ Kill

Spec == Init /\ [][Next]_vars

\* Threads run and timers expire; the network comes back and the server stays
\* up; pumps and stops are up to the operator.
Fairness ==
    /\ WF_vars(BootOnline) /\ WF_vars(Connect) /\ WF_vars(Observe)
    /\ WF_vars(Apply) /\ WF_vars(Home \/ HomeFails)
    /\ WF_vars(Assign \/ Persist \/ Mark) /\ WF_vars(RetryDue)
    /\ WF_vars(Poll) /\ WF_vars(JobPump) /\ WF_vars(JobEnds)
    /\ WF_vars(Beat) /\ WF_vars(Probe) /\ WF_vars(ProbeEnds)

FairSpec == Spec /\ Fairness

-----------------------------------------------------------------------------
(* Properties.                                                             *)

Frame == Settings \cup {None}

\* Every variable has its type.
TypeOK ==
    /\ server \in Settings
    /\ {reported, force, cache, queued, watch.latest, watch.pending, watch.applied} \subseteq Frame
    /\ line = None \/ line \in Seq(Settings)
    /\ main.of \in Frame /\ main.next \in 0 .. NPumps + 1
    /\ fails.n \in 0 .. MaxAttempts
    /\ \A p \in Pump : seen[p] \in {"ok", "silent", None}
    /\ round = None \/ Len(round) <= NPumps

\* An envelope runs under the settings it was assembled for: the values in
\* force are those of its hash, whatever was saved, applied and reverted since
\* it was issued; without a snapshot at boot, at least the capacity is.
RunsUnderItsSettings ==
    main.at = "job" =>
        /\ force # None => force.cap = main.of.cap
        /\ watch.applied # None => force = main.of

\* Outside an application no pump counts as set up for a capacity other than
\* the one its strokes are computed with.
SetUpForCapacity ==
    (main.at \in {"loop", "job"} /\ ~Blocked(CapacityOf(force))) =>
        \A p \in Pump : setUp[p] \in {None, CapacityOf(force)}

\* The hash the daemon reports is that of the values in force, but for the
\* instant between taking them over and saying so.
ReportedIsInForce ==
    watch.applied # None => force = watch.applied \/ (main.at \in {"persist", "mark"} /\ force = main.of)

\* The last settings saved reach the daemon, or the pump that keeps them from
\* being applied has used up its attempts: no frame is lost between the
\* stream, the watcher and the consuming thread.
SettingsArrive == <>[](watch.applied = server \/ (fails.of = server /\ fails.n >= MaxAttempts))

\* No attempts are left for the pending frame.
GivenUp == fails.n >= MaxAttempts /\ fails.of # None /\ watch.pending = fails.of

\* A pump that was seen silent after the last attempt, and answers again for
\* good, gets another one, without anybody saving the settings again.
RecoveryRetries ==
    (GivenUp /\ fails.was = "silent")
        ~> (~GivenUp \/ (fails.pump # None /\ pump[fails.pump] = "mute"))
=============================================================================

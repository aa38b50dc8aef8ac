# TLA+ models of the dispenser daemon

`senlyt_pi` is the Python daemon on a perfume dispenser. It receives command
envelopes from a server over an event stream, drives syringe pumps on an RS485
bus, and reports what happened. A dispensed volume cannot be taken back, the
network and the power can go at any moment, and the server pushes an envelope
again until it is told that it has ended. So the code has to answer two
questions at once: never pour twice, and never leave an envelope open.

The modules here model the daemon part by part, TLC checks them on small
instances, and TLAPS proves the most important part for every size.

## The system

| component | state | operations | hard because |
|---|---|---|---|
| idempotency ledger (`persistence/file_idempotency_ledger.py`) | log file, in-memory index, file handle | open/replay, claim, running, settled, clear, compact, close | torn writes, buffered bytes of a failed write, compaction that fails half way |
| boot recovery (`pipeline/boot_recovery.py`, `app/daemon.py` `_recover`) | none of its own; reads the ledger | plan, report interrupted, clear | a crash between its report and its record |
| dispatcher (`app/dispatcher.py`) | none across envelopes | snapshot -> DELIVERED gate -> checks -> RUNNING -> submit -> terminal report; re-report of settled keys | every path, exceptions included, must end the envelope |
| pump sequencer (`pipeline/pump_sequencer.py`) | drain flag, job in hand, thread pool | submit, refuse, initialise, stage loop, threads of a stage, settle, publish | stop, emergency stop and failures between and during stages |
| envelope reports (`adapters/http_status_sink_adapter.py`) | retry deque of 64 | PATCH with four verdicts, retry flush | lost answers, deque overflow, flush racing append |
| order status (`persistence/offline_queue.py`, `pipeline/status_reporter.py`, sender thread) | send queue, offline queue, sent signatures | enqueue, flush, drain at shutdown | two flushers, overflow, order of reports |
| emergency stop (daemon watcher, sequencer, engine adapter) | one latch, last request time | trigger, clear, clear by initialise | the bus lock; who clears it |
| engine retries and pump adapters (`pipeline/engine_executor.py`, `adapters/sy01b_engine_adapter.py`) | set-up cache per pump, serial link | dispense with retries, homing, ready poll, reconnect | answers lost after the pump moved |
| pump discovery and watch (`pump_model_detect.py`, health watch of `daemon.py`, model gate) | fingerprints, gate, streak, process | detect, watch, restart | racks that change, noise, restart loops |
| settings (`adapters/settings_watcher.py`, hot apply) | latest, pending, applied settings; attempts | observe, apply between polls, mark, heartbeat | stale hash, partial apply, lost frames |
| snapshot stream (`adapters/sse_command_source_adapter.py`, poll loop) | connection, age, backoff | open, read, close, wait | streams that are half dead |
| trace spill (`persistence/trace_spill.py`) | file, counters | append, trim, drain | network outside the lock |
| valve adapter (`adapters/valve_adapter.py`) | open valve, timer | pour, latch, close all | timers racing the next open; kills |
| registration (`adapters/registration_client.py`, `device_identity_store.py`) | identity files, one per host and port | read serial, load, register, save | device moved to another server or board |
| recipe resolver, pump guard | none | gates, rounding, stage grouping, tuning | numeric boundaries |

Threads: one consuming thread runs boot, the stream, the dispatcher, the
sequencer and the hot apply; a job runs a thread per pump. Beside them run the
sender (order reports, retries, trace), the heartbeat with the pump watch, the
emergency-stop watcher, the settings watcher, the stream's watchdog, valve timers
and the signal handler. The ledger is only written by the consuming thread. The
server, the network, the power, the pumps and the disk are the environment.

## Modules

| module | models |
|---|---|
| `Ledger` | the ledger as a map with a possibly torn end: what replay finds after each call, each failed call, each crash |
| `LedgerFile` | the same log line by line, with the temporary file of `compact()`; implements `Ledger` |
| `Dispense` | the envelope path: server, dispatcher, sequencer over `Ledger`, retry deque, recovery, stop, emergency stop, crash |
| `DispenseOnce` | the promise: one command at a time, none begun twice, stages in order, an abandoned command is left for good |
| `OrderReports` | progress reports of orders: publication, send queue, `OfflineQueue` with up to three flushing threads, stop and shutdown, the server's order status |
| `RetryDeque` | terminal reports of envelopes whose PATCH failed: append, two flushes, an entry out of the deque while it is sent |
| `Motion` | a job on the bus: initialisation, the threads of a stage, engine retries, polling, pumps with motors and errors, emergency stop |
| `PumpWatch` | which pump model the daemon is assembled for: detection at boot, health and fingerprint watch, model gate, restarts |
| `HotApply` | settings: stream of frames, watcher, apply with homing, mark, heartbeat, and the dispatcher's gate |
| `CommandStream` | the life of an event stream in ticks of 15 s: reader, watchdog, age limit, poll loop with backoff, stop |
| `TraceSpill` | log records in buffer, batches and spill file; drain without the lock; torn appends, rewrites that fail, a count that drifts |
| `Valves` | pours, latches with timers, stop, kill and boot, over one lock |
| `Registration` | identity files, boards, servers, approval, tokens that expire |
| `PumpGuard`, `Recipe` | tuning, volumes and steps; from the steps of an envelope to stages, or the reason for a refusal |
| `Parts`, `Loops` | parts that share no state, side by side (see Runs), with the assumptions on their constants |
| `MCParts`, `MCLive`, `MCMotion`, `MCHotApply` | inputs for TLC |
| `DispenseProofs`, `OrderReportsProofs`, `MotionProofs`, `PumpWatchProofs`, `HotApplyProofs` | theorems about the module they are named for |
| `PartsProofs` | theorems about `Motion`, `LedgerFile`, `TraceSpill`, `Valves` and `PumpGuard` as `Parts` instantiates them |
| `LoopsProofs` | theorems about `RetryDeque` and, as an instance of `Loops`, `Registration` |
| `SequenceEntries` | lemmas on the entries of sequences and on folds |

### The envelope path

`Dispense` has one program counter, `pc`, for the consuming thread. Its values and
actions follow the calls:

| code | `pc` and actions |
|---|---|
| `open()`, `BootRecovery.plan` | `down` -> `Boot` -> `recover` |
| `_report_interrupted` | `RecoverReport` (order FAILED, envelope failed), `settle`, `RecoverSettle` |
| CLEAR_AND_FRESH | `RecoverClear`, after the interrupted ones as in `plan` |
| boot compaction | `compact`, `BootCompact` |
| a snapshot of the stream | `idle`, `Snapshot`: `offered` |
| `dispatch_commandset`: settled, stale, DELIVERED | `Take`, `deliver`, `Deliver(verdict)` |
| capacity and settings gate, steps, RUNNING | `check`, `Check` |
| `reject_before_motion` | `reject`, `Reject`, `refuse`, `Refuse` |
| `submit`, `check_and_claim`, resolver, valve preflight | `submit`, `Submit`, `refuse`, `Refuse` |
| `mark_running`, ACCEPTED | `start`, `Start` |
| stage loop | `stage`: `BeginStage`/`AbortStage`; `motion`: `StageDone`/`StageFails` |
| `mark_settled` and publication | `abort`/`finish`: `Abort`, `Finish` |
| the `except` of `_run_job` | `rescue`, `Rescue` |
| last report | `report`, `Report(verdict)` |
| sender: retries | `FlushRetry(verdict)` |
| watcher, signal, shutdown | `EstopChange`, `Stop`, `Exit` |
| environment | `Cancel`, `Reclaim`, `Crash` |

A step ends where another thread, the server or a crash can come between. The
appends are single actions because the consuming thread is the only writer, but
a crash may fall inside one (`Writing`, `Remains`): with `PowerCuts` any prefix
of its line may be on the disk, and a prefix that lacks only its newline reads as
the record until the next append is glued to it.

`_run_job` catches `RecipeValidationError` and nothing else of the resolver. An envelope of
`Malformed` has steps that make it raise something else: `RecipeStep.from_json` checks the
volume of an aspiration but takes that of a syringe step as it comes (`wire_messages.py:219`),
and `float(None)` raises a `TypeError` (`recipe_resolver.py:508`). Its claim stays RECEIVED and
the `except` of the dispatcher reports it failed (`Resolve`, `Submit`).

What is abstract: an envelope is a key; whether settings, capacity, recipe and
valves let it start is a free choice; a stage succeeds, fails or raises as a
whole; report contents other than status and phase are left out. The server is
modelled from what the code assumes of it: it applies forward transitions
(`can_transition` is the code's copy of its table), answers 2xx for what it applies
and for repeats, 404/422 for what it refuses, it may cancel an envelope that has
not run, and it requeues one that stays `running` (the code relies on this in the
comments at `dispatcher.py:348` and `command_set.py:258`). It pushes queued and
delivered envelopes; all of them in any order, which includes the order of
creation.

`OrderReports` is one process from the start of its threads to the end of
`shutdown()`. Each of the threads `main`, `sender` and `beat` has a place (`at`) and a
report in hand (`held`):

| code | actions |
|---|---|
| `_publish_progress`: look at the sender, then put | `Publish`, `Put` |
| `_sender_loop`: `get_nowait`, `Empty`, look at `_stop`, flush or sleep | `Get`, `Empty`, `Rest`, `SenderExits` |
| `_emit_heartbeat` | `Beat`, `BeatFlush` |
| `request_stop`, `shutdown` | `Stop`, `Shutdown`, `Drain`, `LastFlush` |
| `report_status`, `OfflineQueue.enqueue` | `Enqueue(t)` |
| `OfflineQueue.flush`: head, send, remove if still the head | `Peek(t)`, `Answered`/`Refused`/`Unanswered(t)`, `Pop(t)` |
| environment | `Late`: a request given up by its sender arrives after all |

The lock of the queue is free between two of these steps, so the flush of another
thread, or an overflow, comes between the look at the head and its removal. A
report is its order, phase and stage count, which is its signature. The server
knows a request it has seen by its requestId and moves the order by
`evaluate_transition`. A crash empties all of this and is not modelled here; nor
are maintenance keys, which publish no order reports, and the resync cursor,
which the daemon does not use.

`RetryDeque` numbers the reports in the order of their first failure. `Flush`
fixes the number of passes (`left`), `Take` is `popleft`, `Decided` and `Again` are
the verdicts; `Again` puts the entry back by `appendleft`, which on a full deque
drops the newest one. `Report` appends at any moment in between. In `shutdown()`
the consuming thread flushes too, beside a sender that may outlive its join.
`Dispense` keeps an entry in the deque while it is sent; this module has the
finer steps.

### The pumps

`Motion` is one job after another on `NPumps` pumps. `main` is the consuming thread
inside `_run_job` (`init` ... `judge` is `initialize_polled`, `stage` to `run` a stage),
`th[p]` the thread that drives pump `p`:

| code | actions |
|---|---|
| `PumpSequencer._run_job`, `_run_stage`: start and join threads | `Begin`, `Start`, `Judge`, in `Consume` |
| `initialize_polled`: TR and Z to each pump, then one loop over all, parking | the steps of `Consume` between `init` and `judge`, `AssumeHome` |
| `EngineExecutor._run_with_retry` | `Failed`, `Transient` |
| `_ensure_ready`, `_setup` | `EnsureReady`, `ClearError`, `Send`, `Enlist` |
| `_settle`: one command, its answer, the busy resend | `Send`, `Settle`, `Ready` |
| `_poll_until_ready` | `Check`, `Ask`, `Expire`, `Terminate` |
| `_txn` under the bus lock, with what can happen to it | `Outcomes`, `Exchange`, `Kept` |
| emergency-stop watcher: trigger, TR to each pump, release | `AskStop`, `LiftStop`, `Watch` |
| the pumps: motors, overload, lost home | `Mechanics`, `Break` |

A transaction is one step because it holds the bus lock; everything between two
of them is interleaved. `Noise` says what may go wrong: a command `lost` on the
way, its answer `cut` off, the serial link `gone`, a poll that comes too `late`, a pump
that `break`s, a `thread` that does not start; `MaxNoise` bounds how often. Each kind
of noise leaves the choice whether the pump performed the command. Broadcast
homing, the axis guard and the model gate are not in it (the gate is in
`PumpWatch`). `_stop`, which the polls test like the latch, is left out.

`PumpWatch` is the question which adapter is built. `Boot` detects (fingerprints of
the addresses that answer, the server's declaration, the cached one), `Watch` is
the heartbeat's pass over the addresses, one query a step, with `Forget`, `Scout` (the
rack moved to another port) and `Judge`; a restart asked for is `Exit` and `Boot`. `Job`
is the gate in front of the frames of `_setup`. The rack may change whenever no job
runs. The flags that keep a callback from firing twice are not modelled: firing
ends the process.

`HotApply` has the watcher's three frames (`watch`), the values in force and the
settings cache. `Apply` takes the pending frame between two polls; `Home`,
`Assign`, `Persist`, `Mark` are the steps of `_hot_apply` a kill, a frame, a heartbeat or
an emergency stop can come between. A hash is identified with its settings. A
poll is a whole stream: a frame may wait for its end, so `Poll` and `Apply` are in any order.

### The rest

| module | code and actions |
|---|---|
| `CommandStream` | `stream()` -> `Connect`; `_snapshots` -> `Event`; `dispatch_commandset` of the items -> `Item`; watchdog and read timeout -> `Tick`, `StreamEnds`; boot's loop with `_error_backoff_s` -> `AfterError`, `End`, `StartAgain` |
| `TraceSpill` | `_ship_log`, `_buffer_trace` -> `Log`, `Overflow`; `append` and its trim -> `Spilled`, `Written`, `NotWritten`; `_flush_traces` -> `TakeBuffer`; `drain` -> `Snapshot`, `DrainBatch`, `DrainFails`, `DrainEnds` with `Rewrite`; `ship_trace` -> `Tell`, `AppendHeld`, `Ship`; environment -> `Kill` |
| `Valves` | `dispense_volume` -> `Pour`, `Poured`; `open_latch` -> `Latch`; timer -> `Expire`, `TimerCloses`; `close_all` -> `Close`, `StopCloses`, `Boot` |
| `Registration` | `read_hardware_id`, `ensure_registered` -> `Boot`; `register` -> `RetryableError`, `PermanentError`, `Pending`, `Granted`; `save` -> `Granted`, `Saved`; environment -> `Kill`, `PowerCut`, `Reinstall`, `Approve`, `Tick` |
| `Recipe`, `PumpGuard` | `RecipeResolver.resolve` -> `Resolve`, a fold over the steps with one operator per kind; `resolve_pump_tuning` -> `Tuned` |

In `TraceSpill` a line is the number of its record, or `Broken`: half a line, or a line with another
glued to it. `end` says how the file ends. An append that fails (`NotWritten`) or is killed
(`Kill`) leaves any prefix of what it writes: whole lines, then a line without its newline
(`half`), the beginning of one (`half`), or one cut inside a character (`garbled`;
the lines are written with `ensure_ascii=False`, and the file cannot be read as UTF-8
afterwards). `count` is `_count` as the code keeps it, which after a rewrite that failed is not the
number of lines, and `Nobody` when the file must be counted and cannot be read.

`Registration` has a file for each `Host`: `_server_slug` keeps the host and port of a URL and
drops its scheme and path, so two servers of one host share a file (`Path`).

A tick of `CommandStream` is 15 s, the period of the server's comments and of the
watchdog. A stream is live, or brings comments only (zombie), or bytes that end no
line (trickle), or nothing (dead); `Spoil` changes it at any time. In `Recipe` volumes are
integers and steps are rounded as the code rounds; the sums of floats the code
forms can differ from them by the last place (0.1 + 0.2 > 0.3, so that a batch of
exactly the capacity may be refused).

## Runs

`Parts` and `Loops` put parts that share no state side by side: a behaviour is about
one of them, chosen in its first state, and the others keep their initial
state. This changes nothing about any of them (their sets of behaviours are
united, not multiplied), and one run checks the properties of them all.

| run | instance | shows |
|---|---|---|
| `crashes` | 2 maintenance envelopes (they do all that others do, and go stale), 1 of them malformed; deque of 2; 2 halts; power cuts | types, `AtMostOnce`, `SuccessIsReal`, `NothingUnsettled`, and that `Dispense` implements `DispenseOnce` |
| `live` | 2 well-formed envelopes, 1 of them maintenance, deque of 1, 2 halts, kills fall around appends instead of inside | `FinalPhaseStays`, `EveryEnvelopeSettles` |
| `order_reports` | 1 order of up to 3 reports, queue of 2, no stop | `ArrivesInOrder`, `OutcomeStands`, `EveryReportArrives` |
| `order_stop` | the same, with a stop, and joins that may time out | `NothingSkipped` |
| `motion` | 1 pump, a batch of two ports or a maintenance stroke, 1 retry, 1 noise of any kind, 1 emergency stop | `CompletedPoured`, `DrawnThroughItsPort`, `JobEnds` |
| `pump_watch` | 2 addresses, 2 ports, five kinds of devices, 2 changes of the rack, 1 noise, 1 job | `FramesFit`, `RestartsEnd`, `RackAdopted` |
| `hot_apply` | 2 pumps; settings that differ in rack, capacity (one unsupported) or the rest; 2 changes, 1 fault, 2 attempts | `RunsUnderItsSettings`, `SetUpForCapacity`, `ReportedIsInForce`, `SettingsArrive`, `RecoveryRetries` |
| `parts` | core: 1 envelope, 2 halts, power cuts, appends and compactions that raise | `MotionIsRecorded` |
| | pair: 2 pumps of a stage, 2 noises (commands lost, pumps that break, threads that do not start) | `NobodyLeftDriving` |
| | ledger: 2 keys, 3 lines | `LedgerFile` implements `Ledger` |
| | spill: 4 records, buffer of 2, file of 2 lines, 2 appends or rewrites that fail, or kills | `NothingLostInSilence` |
| | valves: 2 valves, 2 threads, 4 steps, 1 kill | `NoValveForgotten`, `PourIsWhole` |
| | recipe: jobs of up to three steps over the boundaries of each gate; tunings at the ends of each range | `RunsAsSent`, `BatchesKeepTheirVolume`, `TunedWithinBounds` |
| `live_parts` | deque: 5 reports in a deque of 3, a shutdown, joins that may time out | `NothingForgotten`, `SentByOne`, `OldestInFront`, `EveryRetryEnds` |
| | pairing: 2 boards, 2 servers on hosts of their own, tokens of one unit of time, 2 changes, 1 fault | `WorksUnderItsOwn`, `ReturnsWithoutAsking`, `PairsInTheEnd` |
| | stream: 1 envelope, 5 faults, age limit of 2 ticks, watchdog 3, job of up to 5 | `EveryEnvelopeIsHeard`, `StopIsHeeded` |
| `zombie_stream` | 2 envelopes | finding 1 |
| `long_outage` | backoff with a largest exponent of 4 instead of 1023 | finding 2 |
| `double_pour` | 1 pump, 1 answer cut off | finding 3 |

The runs of `Dispense` use two stages: one barrier to pass and one to complete.
`MaxHalts` bounds crashes plus stop requests. Deadlock is checked in `crashes`, `live`,
`order_reports`, `motion`, `pump_watch` and `double_pour`; the other instances end when
their bounds are used up or the process has stopped.

Why the bounds are enough to be of interest: two envelopes are what a queue, a
batch and a deque that overflows need; two halts are a crash and a crash during
the recovery from it; three lines are a torn one, one glued to it and one after;
a queue of two overflows with three reports and keeps, behind a head that is
being sent, one that must not be removed for it; a deque of three has a first, a
last and one between, and five reports overflow it twice. A batch of two ports is the
least in which a dose can be drawn through the wrong one; with a retry, one
noise of each kind reaches every `continue` of the executor, and one stop every
poll. Two pumps are what a rack needs to be mixed or half silent, and a homing to
fail half way. Two changes of the settings are A to B to A. A stream job of five
ticks outlives the age limit and the watchdog. Two faults of the
spill tear a line and then fail the trim or the drain that follows. The proofs below remove the
bounds for the main safety properties of the core.

Nine modules have a type invariant, `TypeOK`. All nine are proved, and `crashes` checks that
of `Dispense`. Of `Valves`, `LedgerFile` and `Recipe` the types are part of the invariants
of their proofs.

Fairness of `Dispense`: the consuming thread keeps going (`Consume`, `Recover`,
`Exit` are weakly fair: nothing in it waits for ever, the stream rotates and
systemd restarts the process); the server requeues a hanging envelope
(`Reclaim`); a report that is tried for ever is applied now and then (strong
fairness of `Deliver("applied")` and `Report("applied")`), which says only that
the network is not cut for ever. No fairness is assumed of the retry deque: an
envelope whose retry is lost is still redelivered. `live` has no disk
faults and no power cuts: see "Known not to hold". What power cuts do to open
claims is checked in `crashes` as `NothingUnsettled`.

`OrderReports` and `RetryDeque` assume that their threads keep going, that the
sender's flush interval elapses again and again (`Rest("peek")` strongly fair;
`Flush`), and that a request repeated for ever is answered now and then (`Answered`,
`Decided` strongly fair). Without a stop the sender runs as long as the process.

`Motion`: threads run, motors come to rest, and a poll that asks a pump without
its home again and again reaches its deadline (`Expire`, `AssumeHome` strongly fair for
that case, since the loop leaves by its clock). `PumpWatch`: the heartbeat, the refetch thread and
jobs go on and systemd starts the process. `HotApply`: threads run, timers expire
and the network comes back; nothing is assumed of pumps and of the operator.
`CommandStream`: the thread runs and time passes, nothing is assumed of streams.
`Registration`: the boot goes on and systemd restarts it; `PairsInTheEnd` is about
devices that are approved in the end.

## Findings

1. `zombie_stream`: `_snapshots` looks at the age of the stream and at the stop signal
   once per event (`sse_command_source_adapter.py:186`), but `SseStream.events()` keeps
   comments to itself (`http_client.py:113`). On a stream that brings only
   heartbeats, the case the age limit was made for, neither is ever looked at, until the
   server ends the stream.
2. `long_outage`: `2.0 ** consecutive_errors` (`daemon.py:113`) raises `OverflowError`
   from the 1024th error in a row before `min` can cap it; nothing catches it, and the
   daemon shuts down after about 17 hours without its server. systemd starts it
   again.
3. `double_pour`: the retry of a batch starts at the origin, so that it draws
   the right dose again, but what the first attempt pushed out before its answer was lost
   stays poured (`engine_executor.py:82`).

### Known not to hold

Statements a reader of the comments would expect, which TLC refutes. They are not among
the runs; the definitions are in the modules, and each can be seen with the
constants named here.

| statement | instance | what happens |
|---|---|---|
| `FinalPhaseStays` (`Dispense`) | 1 envelope, `PowerCuts = TRUE`, 2 halts | a power cut leaves the RUNNING record without its newline, recovery publishes FAILED and its record is glued to that line (`file_idempotency_ledger.py:167`); a second cut before the boot compaction reopens the order. `AtMostOnce` is not affected |
| `EveryEnvelopeSettles` (`Dispense`) for every envelope of `Cmd` | 1 envelope, `Malformed` too, no halts | the resolver raises what `_run_job` does not catch (`pump_sequencer.py:320`) and the key stays RECEIVED, against "종단 불변식: delivered 봉투는 반드시 terminal 로." (`dispatcher.py:467`): if the FAILED report is answered 400, 401 or 403, every later delivery is a silent duplicate until a restart |
| `EveryEnvelopeSettles` (`Dispense`) | 1 envelope, `DiskFaults = TRUE`, no halts | an append that raises after the claim leaves the key RECEIVED; if the FAILED report of the `except` branch (`dispatcher.py:467`) is answered 400, 401 or 403, no later delivery reports anything until a restart |
| `ArrivesInOrder` (`OrderReports`) | 1 order, `Stops = TRUE` | a sender that found its queue empty looks at `_stop` next and ends (`daemon.py:803`); a report put into the queue in between (`daemon.py:638`) is sent by `shutdown()`, after the later ones |
| `OldestDropped` (`RetryDeque`) | 3 reports, deque of 2 | "초과 시 가장 오래된 것부터 밀림" (`http_status_sink_adapter.py:54`): when the deque fills while the flush holds its oldest entry, putting that one back drops the newest |
| `StopHolds` (`Motion`) | 1 pump, no noise, `MaxStops = 1` | after a stop a thread that comes to `_ensure_ready`, or a later command of a cycle, still sends its frame and only the poll after it sees the latch; and a job's `initialize_polled` clears the latch (`sy01b_engine_adapter.py:1256`) although the server's stop is active, which the watcher ignores as seen (`daemon.py:887`) |
| `StrokeDrawsAir` (`Motion`) | `Kinds = {"plunger"}`, 1 noise | a maintenance stroke whose turn was refused, or answered and not performed, moves through the port of before |
| `RefusedForGood` (`PumpWatch`) | as in `pump_watch` | the gate remembers an address before it judges its fingerprint (`sy01b_engine_adapter.py:1776`): a foreign pump is refused once, and the next command goes through |
| `EveryLossIsCounted` (`TraceSpill`) | as in `parts`, 1 fault | "조용한 유실 금지" (`trace_spill.py:20`): the record appended behind a torn line is glued to it, and the drain skips both as one broken line that it counts as consumed (`:150`); a file cut inside a character raises `UnicodeDecodeError`, which is no `OSError`, in every later read, so that what a flush has in hand is lost and nothing is sent again until the file is removed; and what was counted but not yet told to the server dies with the process |
| `Len(file) <= MaxSpans + Slack` (`TraceSpill`) | as in `parts`, 1 fault | a trim whose rewrite fails, or an append that fails after some of its lines, leaves a longer file (`trace_spill.py:199`, `:101`) |
| `Len(buffer) <= BufferCap` (`TraceSpill`) | as in `parts`, no fault | `_buffer_trace` appends without a look at `_LOG_TRACE_BUFFER_CAP`, which only `_ship_log` keeps |
| `ReturnsWithoutAsking` (`Registration`) without `Alone` | 2 servers with one `Host` | the servers share an identity file (`bootstrap.py:390`), and a device that returns finds the identity of the other |
| `ReachableOpsRun` (`Recipe`) | as in `parts` | an operation for an address that is not there is skipped (`recipe_resolver.py:304`), and if it was alone in its stage the whole recipe is refused as a gap (`:584`) |

Not in any model, but met on the way: a stroke that a stop's TR ends half way passes for
a finished one when the stop is lifted before the thread's next poll (so
`CompletedPoured` excepts pumps a stop has reached); a pump that lost its power
keeps its place in `_initialized`; a read error while a drain removes what it sent
from the spill unlinks the file (`trace_spill.py:182`); `close_all` of a stop waits for the lock of a
pour, for up to its `max_open_sec` (`daemon.py:922`); the timer of an old latch that has
fired already closes a new latch early; a step that has begun opens its valve
after the stop closed all; a serial number that cannot be read at one boot registers
the board under its next best one (`registration_client.py:311`); `close()` of a
response that is not chunked may wait for the thread that reads it; a malformed envelope is
skipped for ever (`command_set.py:257`).

## Proofs

For every value of the constants, that is any number of keys, stages, pumps,
threads, slots and halts, and with all faults of the module unless said
otherwise:

| theorem | shows | invariant |
|---|---|---|
| `TypeCorrect` | `TypeOK` and `StageInv` of `Dispense` | themselves |
| `DispensedAtMostOnce` | `AtMostOnce` | `OnceInv` |
| `MotionAlwaysRecorded` | `MotionIsRecorded` | `OnceInv` |
| `ImplementsDispenseOnce` | `DispensesOnce`, step by step | `OnceInv`, `PourInv` |
| `SuccessWasPoured` | `SuccessIsReal` | `SuccessInv`, over `PourInv` |
| `LoopLeavesNothingUnsettled` | `NothingUnsettled`, if writes do not raise: only malformed envelopes are left claimed | `UnsettledInv` |
| `FinalPhasesAreFinal` | `FinalPhaseStays`, if writes do not raise and are not torn | `PhaseInv` |
| `LinesImplementTheLedger` | `ImplementsLedger`: `LedgerFile` implements `Ledger` | `LogInv` |
| `DequeTypeCorrect` | `TypeOK` of `RetryDeque` | `DequeInv` |
| `NothingIsForgotten`, `SentByOneThread` | `NothingForgotten`, `SentByOne` | `DequeInv` |
| `OldestStayInFront` | `OldestInFront` | `FrontInv`, over `DequeInv` |
| `ReportsTypeCorrect` | `TypeOK` of `OrderReports` | `ReportsInv` |
| `NoReportIsSkipped` | `NothingSkipped` | `ReportsInv` |
| `TheOutcomeStands` | `OutcomeStands` | `OutcomeInv`, over `ReportsInv` |
| `ReportsArriveInOrder` | `ArrivesInOrder` until a stop is asked for | `OrderInv`, over `ReportsInv` |
| `CompletedJobsPoured` | `CompletedPoured` | `MotionInv` |
| `DrawnThroughTheRightPort` | `DrawnThroughItsPort` | `MotionInv` |
| `MotionTypeCorrect` | `TypeOK` of `Motion` | `StrokeFits`, `StepsFit`, `HomingFits`, `RestFits`, over `MotionInv` |
| `NobodyIsLeftDriving` | `NobodyLeftDriving` | `DrivingInv` |
| `PumpWatchTypeCorrect`, `FramesFitTheRack` | `TypeOK` of `PumpWatch`, `FramesFit` | `WatchInv` |
| `PoursAreWhole`, `NoValveIsForgotten` | `PourIsWhole`, `NoValveForgotten` | `ValvesInv` |
| `NothingIsLostInSilence` | `NothingLostInSilence` | `SpillInv` |
| `SpillTypeCorrect` | `TypeOK` of `TraceSpill`: the bound of the file and its count while nothing fails | `SpillFits`, over `SpillInv` |
| `AcceptedJobsRunAsSent` | `RunsAsSent` | `ResolverInv` |
| `BatchesDrawTheirVolume` | `BatchesKeepTheirVolume` | `ResolverInv` |
| `TunedSpeedsFit` | `TunedWithinBounds` | `RecipeInv` |
| `WorksUnderItsOwnIdentity`, `ReturningAsksNobody` | `WorksUnderItsOwn`, `ReturnsWithoutAsking` | `PairingInv` |
| `RegistrationTypeCorrect` | `TypeOK` of `Registration` | `Bounded`, over `PairingInv` |
| `StreamTypeCorrect` | `TypeOK` of `CommandStream` | `StreamInv` |
| `HotApplyTypeCorrect` | `TypeOK` of `HotApply` | `HotTypes` |
| `ReportedHashIsInForce` | `ReportedIsInForce` | `HotInv` |
| `EnvelopeRunsUnderItsSettings` | `RunsUnderItsSettings` | `HotInv` |
| `PumpsAreSetUpForCapacity` | `SetUpForCapacity` | `HotInv` |

They assume only the named assumptions of the modules: what the constants are
(`ConstantsAssumption`, `DequeAssumption`, `ReportsAssumption`, `MotionAssumption`,
`PumpWatchAssumption`, `HotApplyAssumption`, `PartsAssumption`, `LoopsAssumption`);
`JunkAssumption`, that a line `json.loads` cannot parse is no record; and
`RecipeAssumption`, that the jobs are sequences of steps as `RecipeStep.from_json`
leaves them, the strokes and capacities of the pump map are positive, and no two
steps of a job have the same index. The last is the server's promise: the comment at
`recipe_resolver.py:286` relies on it ("idx(전역 유일)"), the code does not check it, and
without it the order of two steps of a stage would be that of arrival. TLC evaluates all
of them in the runs. Two theorems assume a constant in their own statement, which
is the case "Known not to hold" leaves.

`AtMostOnce` is not inductive: that a key
is claimed once follows from what the ledger says, and the ledger is rebuilt
from a file that may have lost its end. `OnceInv` adds what is needed:
every key that ever moved a pump is recorded as started in the index, in the
file and in what the file will be once the buffer is flushed, each also without
its last line (`Covered`); between claim and motion the key has not moved
and the file is not torn (`ClaimIsFirst`): the claim itself absorbs a torn line;
the job in hand is RUNNING everywhere (`JobIsRecorded`); recovery only clears
keys that were never started (`TodoIsUnfinished`). `WriteCovers` is the heart:
a write for a key that has not moved, or one that says it has started, keeps every
prefix of itself covered.

`PourInv` ties the stage counter of the job to what was poured for its key, which
needs `OnceInv`: a second job for a key would start counting from 0 again.
The refinement maps `active` to the job past its first `BeginStage`; the abstract
`Leave` is the end of the job or the crash. `SuccessInv` follows a success along
every path it may take to the server: a DONE record in the index, the file or
the buffer, readable now or when the last line is not; the result in hand;
an entry of the retry deque. `UnsettledInv` says whose the claimed keys are: of the
job in hand or of the recovery, or of a malformed envelope the resolver choked on; its
theorem assumes `~DiskFaults`; "Known not to hold" shows why. TLC checked each invariant of
`Dispense` before its proof.

`DequeInv` adds to the two properties of `RetryDeque` what makes them inductive: the
deque has no entry twice, a thread that holds an entry is in its loop, and the
consuming thread is not in it before `shutdown()`. Four lemmas of
`SequenceEntries` say what `append`, `popleft`, `appendleft` and an overflow do to the
entries of a sequence.

`FrontInv` adds that the entry the sender holds is older than all that wait, which is
what makes `appendleft` keep the order.

`ReportsInv` has two parts. No report is skipped because what is marked as sent, or
held by a thread about to remove it, has arrived or was refused
(`RemovedIsGone`), and `Pop` removes the head only if it is that report. The
outcome of an order stands because it is one report (`OneOutcome`, from the way the
consuming thread publishes), whatever reaches the server was published
(`Sourced`), and the server has an outcome only from a report (`OutcomeArrived`).
Each step but a publication is shown to be one of `Keeps`: nothing that waited is
gone without a reason. TLC checked `ReportsInv` before its proof as well.

`OrderInv` is about the time before a stop. Then only the consuming thread fills the send
queue and only the sender empties it (`Calm`), so the reports stand in one line:
`OfflineQueue`, the sender's hand, the send queue, the hand of the consuming thread
(`InLine`). What arrived precedes all that waits (`Ahead`), and a request can be new to the
server only for the head of the queue (`OnlyHead`), so that one that arrives late
repeats an older report. After a stop two threads flush and the statement is
false: the theorem says `~stop => ArrivesInOrder`, and "Known not to hold" has
the counterexample. The run checks the instance without a stop.

`MotionInv` follows a batch command by command. `Course` says, of a pump no stop has
reached, where its plunger and its valve are before the k-th command is sent
(`Before`), while it is performed (`During`) and after it (`After`); an accepted command
is under way, done, or ended in an error (`Accepted`). The heart of it is that a
command is sent only to a pump whose motor rests, which the poll before it has
seen, and that a poll which found an error never ends in `ok`.

`WatchInv`: an adapter is only built for a model every pump of its map shows, other
than those exchanged since (`MapFits`); a job runs only in a process that has one
(`JobHasEngine`).

`ValvesInv` adds to the two properties of `Valves` that a valve is open alone, and that
a dead process makes no calls, which is why its boot finds nobody pouring. Every
caller of `close_all` is one lemma: it has the lock, so nobody pours, and it
closes what is open.

`HotInv` follows an application of settings: what is homed so far is homed for the
capacity to come (`Prepared`), once the values are taken over they are those of the
frame in hand (`TakenIsInForce`), and only then is it marked. Between two applications
the three properties carry themselves; the gate of the dispatcher gives
`RunsUnderItsSettings` its beginning, and that a job and an application exclude
each other its end.

`PhaseInv` holds where a write is whole or not at all. Then the file is the index
(`LogIsIndex`), so that a published final phase is the phase the ledger holds, or
FAILED for a key whose report recovery has sent and whose record it is about to
write (`PublishedIsSettled`), and no job in hand has a final phase (`InHandIsOpen`).

`LogInv` ties the lines to the index: replaying them, with or without an unterminated
last one, gives what the refinement mapping says, and the file `compact()` is about
to put in place replays to the index. `Replay` is a fold over the lines. The library's
induction theorems cannot be used (they take an operator), but a fold is a
function, and that it has the value its loop computes follows from the least
number at which it would not. `SequenceEntries` proves the least-number
principle for a set (`LeastNumber`, from the well-foundedness of `<`), induction up
to n on a set (`UpTo`), and that the function of a fold exists (`FoldExists`);
`ReplayLoop`, `ReplayAppend` and `ReplayOfCompacted` are what they give here.

`SpillInv`: the lines a drain took are still the front of the file, but for those a
trim has removed meanwhile and one that was broken when another was glued to it, and what the
drain has gone through, the server has, or it was broken (`Draining`, `Follows`); so removing
them loses nothing. What a trim has counted may be more than it removed, when its rewrite
failed; then the drain leaves lines it has sent, and they are sent twice. Each fault
makes at most one torn line and so at most two unreadable records (`FileInv`), and what is
neither kept, sent, nor one of those was counted (`Accounted`). `PairingInv`: an identity in a file
or in memory names a device its server has approved (`AllVouched`), and in a
file that no other server shares what was saved last is still there (`Remembered`). `DrivingInv` and `RecipeInv` add
to their property what is needed to state it.

`ResolverInv` only says that the result is `None` or what `Resolve` makes of the job: the
work is in the loops of the resolver, which the lemmas take one by one. Each loop is a
fold, and each fold is shown to run through a sequence of states (`LoopRuns`, `Obeys` and
`RunsTo` of `SequenceEntries`), so that what holds before the first and is kept by
each step holds after the last.

- *The order.* `Sorted` puts a step where its `Place` says: one after the number of steps
  before it. `BeforeOrders` shows the order total, `OneBelow` that a step before another
  has a smaller place; so places are distinct, all of `1 .. n` are taken, and
  `Sorted` is a permutation in order (`SortedIs`, `SortedJob`).
- *The gates.* `OpIs`, `ValveIs`, `SyringeIs` and `BatchIs` give, for each kind, the record
  a step leaves when it passes, and `TakeIs` joins them. `KeptSoFar` is the
  invariant of the loop: as long as nothing is refused, each step taken so far that is not
  skipped has its record, each record its step, in the order of the steps,
  with one move for each pump and stage and one valve (`TakenIs`).
- *The stages.* `GroupIs` shows that a group holds the records of its stage in their
  order, `CutIs` that an accepted job has stages without a gap, and `AcceptedRuns` puts
  the three together.
- *The volumes.* `Rounded`, `RoundedGrows` and `RoundedWithin` are about
  `steps_for_volume_ul`, rounding a half up: it errs by half a step, never falls as the volume grows, and
  stays within the stroke for a volume within the capacity. `DrawnSoFar` is the
  invariant of the loop over the aspirations: when each is at least one step, the
  steps drawn are those of the volume drawn. `BatchFits` and `BatchesKeep` follow.

The type invariants say more than types where the code has a bound. `SpillFits`: as
long as no write has failed and nothing was killed, the count is that of the lines, and an
append trims the file before it is over `MaxSpans + Slack`; "Known not to hold" says what becomes
of the bound when a rewrite fails. `StrokeFits`:
no command goes beyond the stroke of the batch (`CommandMeant`), and a motor stops where
its command ends. `StepsFit`: no step is tried again more often than `Retries`, and no command
refused for a motor that moves is sent more than twice. `HotTypes`: no frame is
tried more often than `HOT_APPLY_MAX_ATTEMPTS`. `StreamInv`: unread snapshots are at most one
for each envelope issued and one more, a stream is open exactly while the loop is with it, and
no wait after an error exceeds the limit.

Every safety property of the passing runs is stated by a theorem, and so is the type
invariant of every module that has one. Only model-checked is liveness:
`EveryEnvelopeSettles`, `EveryReportArrives`, `EveryRetryEnds`, `JobEnds`, `RestartsEnd`,
`RackAdopted`, `SettingsArrive`, `RecoveryRetries`, `PairsInTheEnd`, `EveryEnvelopeIsHeard` and
`StopIsHeeded` rest on fairness, which the prover does not handle. The findings are
counterexamples and have no theorem.

## Not modelled, and why

- the legacy command axis (`dispatch_once`): the same `submit` under the same key,
  used when the server sends commands instead of envelopes;
- broadcast homing, the axis guard, read-outs and manual maintenance of
  `sy01b_engine_adapter.py`: variations of the same exchanges; the differences of
  the Tecan adapter are frames and constants;
- the choice of a serial port among several, the probe of a port;
- the flavour helpers of `recipe_resolver.py`, which the daemon does not call;
- wire formats, HTTP, logging, configuration: no state of their own (that a message lets a malformed
  recipe through is `Malformed` in `Dispense`);
- the fake engine, tests, and the earlier Dart version in `lib/`.

## Left to do

Broadcast homing and the model gate in `Motion`; an `OSError` while the spill is read.

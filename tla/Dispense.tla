------------------------------ MODULE Dispense ------------------------------
(***************************************************************************)
(* The command-set path of the daemon: the envelopes the server pushes,    *)
(* Dispatcher.dispatch_commandset, PumpSequencer.submit over the ledger,   *)
(* the PATCH reports with their retry deque, BootRecovery after a restart, *)
(* and the threads around the consuming one (emergency-stop watcher,       *)
(* sender, signal handler).  One action per step between two points where  *)
(* another thread, the server or a crash can intervene.                    *)
(***************************************************************************)
EXTENDS Ledger, Sequences

CONSTANTS
    Maint,      \* the keys that are maintenance envelopes
    Malformed,  \* the keys whose steps may make the resolver raise what _run_job does not expect
    NStages,    \* barrier stages of a recipe
    RetryMax,   \* capacity of the retry deque (64 in the code)
    MaxHalts,   \* bound: crashes and stop requests of a behaviour
    DiskFaults, \* may an append or a compaction raise?
    PowerCuts,  \* may a crash cut a write short, or only fall around it?
    NoCmd       \* cur when no envelope is being handled

ASSUME ConstantsAssumption ==
    /\ Maint \subseteq Cmd
    /\ Malformed \subseteq Cmd
    /\ NStages \in Nat \ {0}
    /\ RetryMax \in Nat \ {0}
    /\ MaxHalts \in Nat
    /\ DiskFaults \in BOOLEAN
    /\ PowerCuts \in BOOLEAN
    /\ NoCmd \notin Cmd

VARIABLES
    pc,       \* where the consuming thread is
    cur,      \* the envelope it handles
    stage,    \* stages of cur completed in this job
    res,      \* the terminal status to report for cur
    todo,     \* recovery decisions not carried out yet
    offered,  \* envelopes of the last snapshot not handled yet
    stopping, \* request_stop: _stop and _draining
    estop,    \* the emergency-stop latch
    retry,    \* _cs_retry
    halts,    \* crashes and stop requests so far
    env,      \* server: status of each envelope
    pub,      \* last order phase published for a key
    runs,     \* history: jobs that started motion for a key
    poured    \* history: stages completed for a key, over all jobs

jobVars == <<cur, stage, res, offered>>
history == <<pub, runs, poured>>
vars == <<ledgerVars, pc, jobVars, todo, stopping, estop, retry, halts, env, history>>

Terminal == {"done", "failed"}
Status == {"queued", "delivered", "running"} \cup Terminal
Final == {"COMPLETED", "FAILED"}
Phase == {"none", "ACCEPTED", "PROGRESS"} \cup Final

Booting == {"recover", "settle", "compact"}
\* Places with an envelope in hand.
Handling == {"deliver", "check", "submit", "reject", "refuse", "start",
             "stage", "motion", "abort", "finish", "rescue", "report"}
\* Places in a job whose key is marked RUNNING.
Working == {"stage", "motion", "abort", "finish", "rescue"}

-----------------------------------------------------------------------------
(* The server and the PATCH that reports a transition.                     *)

Rank == [s \in Status |->
            CASE s = "queued" -> 0 [] s = "delivered" -> 1 [] s = "running" -> 2 [] OTHER -> 3]

\* can_transition: forward only, no way out of a terminal status.
CanTransition(from, to) == from \notin Terminal /\ Rank[to] > Rank[from]

\* The server's gate: forward moves are applied, the same value is a no-op.
Accepts(c, s) == CanTransition(env[c], s) \/ env[c] = s
Gate(c, s) == env' = IF CanTransition(env[c], s) THEN [env EXCEPT ![c] = s] ELSE env

\* _send_commandset_transition_once: after "retry" (5xx, broken connection)
\* the server may or may not have applied the request.
Patch(c, s, verdict) ==
    \/ verdict = "applied" /\ Accepts(c, s) /\ Gate(c, s)
    \/ verdict = "rejected" /\ ~Accepts(c, s) /\ UNCHANGED env
    \/ verdict = "dropped" /\ UNCHANGED env
    \/ verdict = "retry" /\ (Gate(c, s) \/ UNCHANGED env)

Verdicts == {"applied", "rejected", "dropped", "retry"}

\* deque(maxlen): appending to a full deque drops the oldest entry.
Push(q, item) == Append(IF Len(q) = RetryMax THEN Tail(q) ELSE q, item)

\* report_command_set_transition for a terminal status.
ReportTerminal(c, s, verdict) ==
    /\ Patch(c, s, verdict)
    /\ retry' = IF verdict = "retry" THEN Push(retry, [cmd |-> c, to |-> s]) ELSE retry

Publish(c, phase) == pub' = [pub EXCEPT ![c] = phase]

-----------------------------------------------------------------------------
(* Start: nothing published yet has been delivered, the daemon is down.    *)

\* The consuming thread has no envelope in hand any more.
PutDown == cur' = NoCmd /\ stage' = 0 /\ res' = "none"

Init ==
    /\ LedgerInit
    /\ pc = "down" /\ cur = NoCmd /\ stage = 0 /\ res = "none"
    /\ todo = {} /\ offered = {} /\ retry = <<>>
    /\ stopping = FALSE /\ estop = FALSE /\ halts = 0
    /\ env = [c \in Cmd |-> "queued"]
    /\ pub = [c \in Cmd |-> "none"]
    /\ runs = [c \in Cmd |-> 0]
    /\ poured = [c \in Cmd |-> 0]

(* Boot: replay, BootRecovery, compaction.                                 *)

\* Mutant: RECEIVED keys are left alone, as before clear() existed.
OnlyRunning == {c \in Cmd : file.map[c] = "RUNNING"}

\* running_commands and received_commands, read once before recovery.
Unfinished == {c \in Cmd : file.map[c] \in {"RUNNING", "RECEIVED"}}

\* The daemon process starts: open() and BootRecovery.plan().
Boot ==
    /\ pc = "down"
    /\ Open
    /\ pc' = "recover"
    /\ todo' = Unfinished
    /\ stopping' = FALSE
    /\ estop' = FALSE
    /\ UNCHANGED <<jobVars, retry, halts, env, history>>

\* Mutant: every unfinished key is cleared for redelivery.
NoneInterrupted == {}

\* REPORT_INTERRUPTED decisions; the other ones are CLEAR_AND_FRESH.
Interrupted == {c \in todo : index[c] = "RUNNING"}

\* _report_interrupted, up to its last call: the order is published FAILED
\* and the envelope reported failed before the ledger is settled.
RecoverReport(c) ==
    /\ pc = "recover"
    /\ c \in Interrupted
    /\ Publish(c, "FAILED")
    /\ \E v \in Verdicts : ReportTerminal(c, "failed", v)
    /\ cur' = c
    /\ pc' = "settle"
    /\ UNCHANGED <<ledgerVars, stage, res, offered, todo, stopping, estop, halts, runs, poured>>

\* ... and its mark_settled, whose exception is swallowed.
RecoverSettle ==
    /\ pc = "settle"
    /\ Record(cur, "FAILED") \/ (DiskFaults /\ RecordRaises(cur, "FAILED"))
    /\ todo' = todo \ {cur}
    /\ pc' = "recover"
    /\ PutDown
    /\ UNCHANGED <<offered, stopping, estop, retry, halts, env, history>>

\* RECEIVED entries are cleared, after the interrupted ones.
RecoverClear(c) ==
    /\ pc = "recover"
    /\ Interrupted = {}
    /\ c \in todo
    /\ Record(c, "none") \/ (DiskFaults /\ RecordRaises(c, "none"))
    /\ todo' = todo \ {c}
    /\ UNCHANGED <<pc, jobVars, stopping, estop, retry, halts, env, history>>

RecoverDone ==
    /\ pc = "recover"
    /\ todo = {}
    /\ pc' = "compact"
    /\ UNCHANGED <<ledgerVars, jobVars, todo, stopping, estop, retry, halts, env, history>>

\* boot() compacts the log and swallows a failure; then the loop starts.
BootCompact ==
    /\ pc = "compact"
    /\ Compact \/ (DiskFaults /\ CompactRaises)
    /\ pc' = "idle"
    /\ UNCHANGED <<jobVars, todo, stopping, estop, retry, halts, env, history>>

-----------------------------------------------------------------------------
(* Dispatcher.                                                             *)

\* A snapshot of the stream: the queued and delivered envelopes.
Snapshot ==
    /\ pc = "idle" /\ offered = {} /\ ~stopping
    /\ offered' = {c \in Cmd : env[c] \in {"queued", "delivered"}}
    /\ offered' # {}
    /\ UNCHANGED <<ledgerVars, pc, cur, stage, res, todo, stopping, estop, retry, halts, env, history>>

\* Mutant: no look at the ledger before the envelope is handled.
NeverSettled(c) == FALSE

\* Mutant: whatever the ledger settled is reported as a success.
AlwaysDone(c) == "done"

\* is_settled: a redelivered envelope the ledger has settled is only
\* reported again, with the status the ledger remembers.
IsSettled(c) == index[c] \in Settled
TerminalOf(c) == IF index[c] = "DONE" THEN "done" ELSE "failed"

\* dispatch_commandset up to its first report: settled, stale, or neither.
Take(c) ==
    /\ pc = "idle"
    /\ c \in offered
    /\ offered' = offered \ {c}
    /\ cur' = c
    /\ \/ IsSettled(c) /\ pc' = "report" /\ res' = TerminalOf(c)
       \/ ~IsSettled(c) /\ c \in Maint /\ pc' = "report" /\ res' = "failed"
       \/ ~IsSettled(c) /\ pc' = "deliver" /\ res' = res
    /\ UNCHANGED <<ledgerVars, stage, todo, stopping, estop, retry, halts, env, history>>

\* The DELIVERED gate: an envelope the server refuses is not handled.
AfterDelivered(verdict) == IF verdict = "rejected" THEN "idle" ELSE "check"

Deliver(verdict) ==
    /\ pc = "deliver"
    /\ Patch(cur, "delivered", verdict)
    /\ pc' = AfterDelivered(verdict)
    /\ IF pc' = "idle" THEN PutDown ELSE UNCHANGED <<cur, stage, res>>
    /\ UNCHANGED <<ledgerVars, offered, todo, stopping, estop, retry, halts, history>>

\* The checks before RUNNING: capacity or settings differ, no steps can be
\* had from the envelope, or the job goes on.
Check ==
    /\ pc = "check"
    /\ \/ pc' = "reject" /\ UNCHANGED <<env, res>>
       \/ pc' = "report" /\ res' = "failed" /\ UNCHANGED env
       \/ pc' = "submit" /\ UNCHANGED res /\ \E v \in Verdicts : Patch(cur, "running", v)
    /\ UNCHANGED <<ledgerVars, cur, stage, offered, todo, stopping, estop, retry, halts, history>>

\* The last report of dispatch_commandset.
Report(verdict) ==
    /\ pc = "report"
    /\ ReportTerminal(cur, res, verdict)
    /\ pc' = "idle"
    /\ PutDown
    /\ UNCHANGED <<ledgerVars, offered, todo, stopping, estop, halts, history>>

-----------------------------------------------------------------------------
(* PumpSequencer.                                                          *)

\* A write that raises outside _run_job's guard reaches the dispatcher,
\* which reports the envelope failed.
FailedBy(raises) == DiskFaults /\ raises /\ pc' = "report" /\ res' = "failed"

\* check_and_claim: any recorded key is a duplicate.
Fresh(c) == index[c] = "none"

\* The resolver and the valve preflight decide whether a claimed job starts.
\* _run_job catches RecipeValidationError only: anything else the resolver
\* raises (a volume that is no number) leaves the claim as it is and reaches
\* the dispatcher, which reports the envelope failed.
Resolve ==
    \/ pc' \in {"refuse", "start"} /\ UNCHANGED res
    \/ cur \in Malformed /\ pc' = "report" /\ res' = "failed"

\* submit: a job that arrives while draining ends without a claim, a
\* duplicate ends without a report.
Submit ==
    /\ pc = "submit"
    /\ \/ stopping /\ pc' = "report" /\ res' = "failed" /\ UNCHANGED <<ledgerVars, cur, stage>>
       \/ ~stopping /\ ~Fresh(cur) /\ pc' = "idle" /\ PutDown /\ UNCHANGED ledgerVars
       \/ /\ ~stopping /\ Fresh(cur) /\ UNCHANGED <<cur, stage>>
          /\ \/ Record(cur, "RECEIVED") /\ Resolve
             \/ FailedBy(RecordRaises(cur, "RECEIVED"))
    /\ UNCHANGED <<offered, todo, stopping, estop, retry, halts, env, history>>

\* reject_before_motion claims the key too, draining or not.
Reject ==
    /\ pc = "reject"
    /\ \/ ~Fresh(cur) /\ pc' = "idle" /\ PutDown /\ UNCHANGED ledgerVars
       \/ /\ Fresh(cur) /\ UNCHANGED <<cur, stage>>
          /\ \/ Record(cur, "RECEIVED") /\ pc' = "refuse" /\ UNCHANGED res
             \/ FailedBy(RecordRaises(cur, "RECEIVED"))
    /\ UNCHANGED <<offered, todo, stopping, estop, retry, halts, env, history>>

\* A claimed job ends before any motion.
Refuse ==
    /\ pc = "refuse"
    /\ \/ Record(cur, "FAILED") /\ Publish(cur, "FAILED") /\ pc' = "report" /\ res' = "failed"
       \/ FailedBy(RecordRaises(cur, "FAILED")) /\ UNCHANGED pub
    /\ UNCHANGED <<cur, stage, offered, todo, stopping, estop, retry, halts, env, runs, poured>>

\* mark_running, then ACCEPTED.
Start ==
    /\ pc = "start"
    /\ \/ Record(cur, "RUNNING") /\ Publish(cur, "ACCEPTED") /\ pc' = "stage" /\ UNCHANGED res
       \/ FailedBy(RecordRaises(cur, "RUNNING")) /\ UNCHANGED pub
    /\ UNCHANGED <<cur, stage, offered, todo, stopping, estop, retry, halts, env, runs, poured>>

\* The head of the stage loop: the latch, the drain flag, then motion.  The
\* grace of the first stage is the time the job may wait here.
BeginStage ==
    /\ pc = "stage"
    /\ ~estop /\ ~stopping
    /\ runs' = IF stage = 0 THEN [runs EXCEPT ![cur] = @ + 1] ELSE runs
    /\ pc' = "motion"
    /\ UNCHANGED <<ledgerVars, jobVars, todo, stopping, estop, retry, halts, env, pub, poured>>

AbortStage ==
    /\ pc = "stage"
    /\ estop \/ stopping
    /\ pc' = "abort"
    /\ UNCHANGED <<ledgerVars, jobVars, todo, stopping, estop, retry, halts, env, history>>

\* Mutant: one stage too many.
PastLastStage == stage = NStages

LastStage == stage + 1 = NStages

\* Every step of the stage succeeded: PROGRESS, or the job is complete.
StageDone ==
    /\ pc = "motion"
    /\ poured' = [poured EXCEPT ![cur] = @ + 1]
    /\ stage' = stage + 1
    /\ IF LastStage THEN pc' = "finish" /\ UNCHANGED pub
                    ELSE pc' = "stage" /\ Publish(cur, "PROGRESS")
    /\ UNCHANGED <<ledgerVars, cur, res, offered, todo, stopping, estop, retry, halts, env, runs>>

\* A step failed, or the stage raised.
StageFails ==
    /\ pc = "motion"
    /\ pc' \in {"abort", "rescue"}
    /\ UNCHANGED <<ledgerVars, jobVars, todo, stopping, estop, retry, halts, env, history>>

\* Mutant: mark_settled is forgotten.
SettleForgotten(state, phase, status) ==
    UNCHANGED ledgerVars /\ Publish(cur, phase) /\ pc' = "report" /\ res' = status

\* The job settles before it is published; a write that raises is caught by
\* _run_job, which settles the job as failed.
Settle(state, phase, status) ==
    \/ Record(cur, state) /\ Publish(cur, phase) /\ pc' = "report" /\ res' = status
    \/ DiskFaults /\ RecordRaises(cur, state) /\ pc' = "rescue" /\ UNCHANGED <<pub, res>>

Abort ==
    /\ pc = "abort"
    /\ Settle("FAILED", "FAILED", "failed")
    /\ UNCHANGED <<cur, stage, offered, todo, stopping, estop, retry, halts, env, runs, poured>>

Finish ==
    /\ pc = "finish"
    /\ Settle("DONE", "COMPLETED", "done")
    /\ UNCHANGED <<cur, stage, offered, todo, stopping, estop, retry, halts, env, runs, poured>>

Rescue ==
    /\ pc = "rescue"
    /\ Record(cur, "FAILED") \/ (DiskFaults /\ RecordRaises(cur, "FAILED"))
    /\ Publish(cur, "FAILED")
    /\ pc' = "report" /\ res' = "failed"
    /\ UNCHANGED <<cur, stage, offered, todo, stopping, estop, retry, halts, env, runs, poured>>

-----------------------------------------------------------------------------
(* The other threads, the server, the end of the process.                  *)

Serving == pc \notin Booting \cup {"down"}

\* flush_commandset_retries, one entry: sent until the server has decided.
FlushRetry(verdict) ==
    /\ Serving
    /\ retry # <<>>
    /\ Patch(Head(retry).cmd, Head(retry).to, verdict)
    /\ retry' = IF verdict = "retry" THEN retry ELSE Tail(retry)
    /\ UNCHANGED <<ledgerVars, pc, jobVars, todo, stopping, estop, halts, history>>

\* The watcher thread; it ends with the daemon.
EstopChange ==
    /\ Serving
    /\ estop' = ~estop
    /\ UNCHANGED <<ledgerVars, pc, jobVars, todo, stopping, retry, halts, env, history>>

\* The server cancels an envelope that has not run, ...
Cancel(c) ==
    /\ env[c] \in {"queued", "delivered"}
    /\ env' = [env EXCEPT ![c] = "failed"]
    /\ UNCHANGED <<ledgerVars, pc, jobVars, todo, stopping, estop, retry, halts, history>>

\* ... and puts one that reported running and nothing since back in the queue.
Reclaim(c) ==
    /\ env[c] = "running"
    /\ env' = [env EXCEPT ![c] = "queued"]
    /\ UNCHANGED <<ledgerVars, pc, jobVars, todo, stopping, estop, retry, halts, history>>

\* request_stop (SIGTERM).
Stop ==
    /\ pc # "down" /\ ~stopping
    /\ halts < MaxHalts
    /\ halts' = halts + 1
    /\ stopping' = TRUE
    /\ UNCHANGED <<ledgerVars, pc, jobVars, todo, estop, retry, env, history>>

\* shutdown(), after the batch in hand; what is left in the deque is lost.
Exit ==
    /\ pc = "idle" /\ stopping /\ offered = {}
    /\ Close
    /\ pc' = "down"
    /\ retry' = <<>>
    /\ UNCHANGED <<jobVars, todo, stopping, estop, halts, env, history>>

\* The record that the consuming thread is writing when the process dies.
Writing == {w \in Cmd \X Entry :
    \/ pc \in {"settle", "refuse", "abort", "rescue"} /\ w = <<cur, "FAILED">>
    \/ pc = "finish" /\ w = <<cur, "DONE">>
    \/ pc = "start" /\ w = <<cur, "RUNNING">>
    \/ pc \in {"submit", "reject"} /\ Fresh(cur) /\ w = <<cur, "RECEIVED">>
    \/ pc = "recover" /\ Interrupted = {} /\ w[1] \in todo /\ w[2] = "none"}

\* What the log can be when the process dies.
Remains ==
    {file} \cup
    (IF handle = "open"
     THEN UNION {IF PowerCuts THEN Cut(buf, w[1], w[2]) ELSE {Written(buf, w[1], w[2])} : w \in Writing}
     ELSE {})

\* The process is killed or the power goes, between two steps or inside an
\* append: everything in memory is gone.
Crash ==
    /\ pc # "down"
    /\ halts < MaxHalts
    /\ halts' = halts + 1
    /\ \E log \in Remains : Die(log)
    /\ pc' = "down"
    /\ PutDown
    /\ offered' = {} /\ todo' = {} /\ retry' = <<>>
    /\ stopping' = FALSE /\ estop' = FALSE
    /\ UNCHANGED <<env, history>>

Consume ==
    \/ Snapshot \/ \E c \in Cmd : Take(c)
    \/ Check \/ Submit \/ Reject \/ Refuse \/ Start
    \/ BeginStage \/ AbortStage \/ StageDone \/ StageFails
    \/ Abort \/ Finish \/ Rescue
    \/ \E v \in Verdicts : Deliver(v) \/ Report(v)

Recover ==
    \/ Boot \/ RecoverSettle \/ RecoverDone \/ BootCompact
    \/ \E c \in Cmd : RecoverReport(c) \/ RecoverClear(c)

Next ==
    \/ Recover \/ Consume \/ Exit
    \/ \E v \in Verdicts : FlushRetry(v)
    \/ \E c \in Cmd : Cancel(c) \/ Reclaim(c)
    \/ EstopChange \/ Stop \/ Crash

Spec == Init /\ [][Next]_vars

\* The loop never stops by itself, the server requeues what hangs, and a report
\* that is tried again and again gets through now and then.
Fairness ==
    /\ WF_vars(Recover) /\ WF_vars(Consume) /\ WF_vars(Exit)
    /\ SF_vars(Deliver("applied")) /\ SF_vars(Report("applied"))
    /\ \A c \in Cmd : WF_vars(Reclaim(c))

FairSpec == Spec /\ Fairness

-----------------------------------------------------------------------------
(* Properties.                                                             *)

\* Every variable has its type, and pc says whether an envelope is in hand.
TypeOK ==
    /\ LedgerTypeOK
    /\ pc \in {"down", "idle"} \cup Booting \cup Handling
    /\ cur \in Cmd \cup {NoCmd}
    /\ pc \in Handling \cup {"settle"} => cur \in Cmd
    /\ stage \in 0 .. NStages
    /\ res \in Terminal \cup {"none"}
    /\ pc = "report" => res \in Terminal
    /\ todo \subseteq Cmd /\ offered \subseteq Cmd
    /\ stopping \in BOOLEAN /\ estop \in BOOLEAN
    /\ retry \in Seq([cmd : Cmd, to : Terminal])
    /\ halts \in 0 .. MaxHalts
    /\ env \in [Cmd -> Status]
    /\ pub \in [Cmd -> Phase]
    /\ runs \in [Cmd -> Nat]
    /\ poured \in [Cmd -> Nat]

\* A command never starts motion in two jobs: whatever is redelivered, lost,
\* retried or cut short, check_and_claim and BootRecovery never let a key that
\* has moved a pump through again.
AtMostOnce == \A c \in Cmd : runs[c] <= 1

\* While a pump moves, a restart will find the job RUNNING, even if the last
\* line of the log cannot be read: mark_running is on the disk first.
MotionIsRecorded ==
    pc = "motion" => file.map[cur] = "RUNNING" /\ file.rest[cur] = "RUNNING"

\* The server is told "done", or the order COMPLETED, only for a command all of
\* whose stages were completed, by whatever path the report went: the job, the
\* retry deque, or the re-report of a settled key after a restart.
SuccessIsReal ==
    \A c \in Cmd : env[c] = "done" \/ pub[c] = "COMPLETED" => poured[c] = NStages

\* When the loop waits for a snapshot, no key is claimed and unsettled, and
\* every key that started motion is settled: nothing would call it a duplicate
\* and leave its envelope open.  The exception is a malformed recipe,
\* for which the resolver raised: its key stays RECEIVED until the next boot.
NothingUnsettled ==
    pc = "idle" => \A c \in Cmd :
        /\ index[c] \in {"none"} \cup Settled \/ (c \in Malformed /\ index[c] = "RECEIVED")
        /\ runs[c] > 0 => index[c] \in Settled

\* An order published COMPLETED or FAILED is never published anything else for
\* the same attempt, across restarts included.
FinalPhaseStays ==
    [][\A c \in Cmd : pub[c] \in Final => pub'[c] = pub[c]]_vars

\* The command that is being dispensed: a job past its first BeginStage.
Active == IF pc \in Working /\ runs[cur] > 0 THEN cur ELSE NoCmd

Once == INSTANCE DispenseOnce WITH active <- Active, begun <- {c \in Cmd : runs[c] > 0}

\* The daemon dispenses every command at most once, one at a time, stage by
\* stage and without taking an abandoned one up again.
DispensesOnce == Once!Spec

\* Every envelope whose recipe is well-formed ends done or failed, through lost reports,
\* stops, crashes and the emergency stop.
EveryEnvelopeSettles == \A c \in Cmd \ Malformed : <>(env[c] \in Terminal)

-----------------------------------------------------------------------------
(* The inductive invariant behind AtMostOnce, MotionIsRecorded and         *)
(* DispensesOnce, part by part.                                            *)

\* The stage loop runs from 0 to NStages and nowhere else.
StageInv ==
    /\ pc \notin Working \cup {"report"} => stage = 0
    /\ pc \in {"stage", "motion"} => stage < NStages

\* A log from which a restart will see that every key that moved a pump was
\* started, whether or not its last line can be read.
Covers(log) ==
    \A c \in Cmd : runs[c] > 0 => log.map[c] \in Started /\ log.rest[c] \in Started

Covered ==
    /\ Covers(file) /\ Covers(buf)
    /\ pc # "down" => \A c \in Cmd : runs[c] > 0 => index[c] \in Started

\* Between the claim and the first motion, the key has never moved a pump and
\* no record is left that could glue to the next one.
ClaimIsFirst ==
    /\ pc \in {"refuse", "start"} => runs[cur] = 0
    /\ pc = "stage" /\ stage = 0 => runs[cur] = 0
    /\ pc = "start" => ~buf.torn

\* RUNNING is in place from the start of the job to its end.
JobIsRecorded ==
    pc \in {"stage", "motion"} =>
        /\ index[cur] = "RUNNING"
        /\ file.map[cur] = "RUNNING" /\ file.rest[cur] = "RUNNING"
        /\ buf.map[cur] = "RUNNING" /\ buf.rest[cur] = "RUNNING"

\* Recovery works on keys that the replay found unfinished.
TodoIsUnfinished ==
    pc \in {"recover", "settle"} => \A c \in todo : index[c] \in {"RUNNING", "RECEIVED"}

OnceInv == Covered /\ AtMostOnce /\ ClaimIsFirst /\ JobIsRecorded /\ TodoIsUnfinished

\* The stages of the job at hand are those poured for its key.
PourInv ==
    /\ \A c \in Cmd : runs[c] = 0 => poured[c] = 0
    /\ pc \in Working => poured[cur] = stage
    /\ pc = "motion" \/ (pc \in Working /\ stage > 0) => runs[cur] > 0

\* Whatever may become a success report stands for a command that was poured:
\* a DONE record that is read now or after a restart, a report on its way.
Full == {c \in Cmd : poured[c] = NStages}

DoneIn(log) == {c \in Cmd : log.map[c] = "DONE" \/ log.rest[c] = "DONE"}

DoneIsFull ==
    /\ DoneIn(file) \subseteq Full /\ DoneIn(buf) \subseteq Full
    /\ {c \in Cmd : index[c] = "DONE"} \subseteq Full

ReportsAreReal ==
    /\ pc = "finish" => stage = NStages
    /\ pc = "report" /\ res = "done" => cur \in Full
    /\ \A i \in 1 .. Len(retry) : retry[i].to = "done" => retry[i].cmd \in Full

SuccessInv == SuccessIsReal /\ DoneIsFull /\ ReportsAreReal

\* A key that is claimed and not settled is the one in hand, one that recovery
\* still has to deal with, or one the resolver raised for.
UnsettledInv ==
    \A c \in Cmd : index[c] \in {"RECEIVED", "RUNNING"} =>
        \/ c \in Malformed /\ index[c] = "RECEIVED"
        \/ pc \in {"recover", "settle"} /\ c \in todo
        \/ pc \in {"refuse", "start"} \cup Working /\ c = cur

\* What the ledger says of a key, now or after the restart.
Latest == IF pc = "down" THEN file.map ELSE index

\* Where no write raises and none is cut short, the log is the index.
LogIsIndex ==
    /\ buf = file
    /\ file = Whole(Latest)
    /\ handle = IF pc = "down" THEN "none" ELSE "open"

\* A published final phase is the one the ledger holds, or FAILED for a key
\* that recovery has reported and not settled yet.
PublishedIsSettled ==
    \A c \in Cmd : /\ pub[c] = "COMPLETED" => Latest[c] = "DONE"
                   /\ pub[c] = "FAILED" => Latest[c] \in {"FAILED", "RUNNING"}

\* The key in hand is claimed, or running with no final phase published.
InHandIsOpen ==
    /\ pc \in {"refuse", "start"} => Latest[cur] = "RECEIVED"
    /\ pc \in Working => Latest[cur] = "RUNNING" /\ pub[cur] \notin Final
    /\ pc = "settle" => Latest[cur] = "RUNNING"

PhaseInv == LogIsIndex /\ PublishedIsSettled /\ InHandIsOpen /\ TodoIsUnfinished
=============================================================================

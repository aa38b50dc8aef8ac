--------------------------- MODULE DispenseProofs ---------------------------
(***************************************************************************)
(* Type correctness of Dispense, that no command is dispensed twice, that  *)
(* Dispense implements DispenseOnce, that what it reports as a success was *)
(* poured and that the loop never waits with a claim it has not settled,   *)
(* for any number of keys, stages, crashes, power cuts and failing writes. *)
(***************************************************************************)
EXTENDS Dispense, SequenceTheorems, TLAPS

-----------------------------------------------------------------------------
(* Types.                                                                  *)

\* Every outcome of a write is a log.
LEMMA WriteType ==
    ASSUME file \in Log, buf \in Log, NEW c \in Cmd, NEW s \in Entry
    PROVE  Written(buf, c, s) \in Log /\ Cut(buf, c, s) \subseteq Log
<1>1. Replay(buf, c, s) \in [Cmd -> Entry] /\ Readable(buf) \in [Cmd -> Entry]
  BY DEF Replay, Readable, Log
<1>2. Written(buf, c, s) \in Log
  BY <1>1 DEF Written, Whole, Log
<1>3. QED
  BY <1>1, <1>2 DEF Cut, Log

\* A record that is written, or that raises, leaves a ledger.
LEMMA RecordType ==
    ASSUME LedgerTypeOK, NEW c \in Cmd, NEW s \in Entry,
           Record(c, s) \/ RecordRaises(c, s)
    PROVE  LedgerTypeOK'
<1>1. Written(buf, c, s) \in Log /\ Cut(buf, c, s) \subseteq Log
  BY WriteType DEF LedgerTypeOK
<1>2. CASE Record(c, s)
  BY <1>1, <1>2 DEF Record, LedgerTypeOK
<1>3. CASE RecordRaises(c, s)
  BY <1>1, <1>3 DEF RecordRaises, LedgerTypeOK
<1>4. QED
  BY <1>2, <1>3

\* The other calls of the ledger.
LEMMA LedgerCallType ==
    ASSUME LedgerTypeOK, Open \/ Compact \/ CompactRaises \/ Close
    PROVE  LedgerTypeOK'
<1>1. Whole(index) \in Log /\ Unseen \in [Cmd -> Entry] /\ file.map \in [Cmd -> Entry]
  BY DEF LedgerTypeOK, Whole, Log, Unseen, Entry
<1>2. QED
  BY <1>1 DEF LedgerTypeOK, Open, Compact, CompactRaises, Close

\* A PATCH moves an envelope to a status, or nothing.
LEMMA PatchType ==
    ASSUME env \in [Cmd -> Status], NEW c \in Cmd, NEW s \in Status, NEW v,
           Patch(c, s, v)
    PROVE  env' \in [Cmd -> Status]
BY DEF Patch, Gate

\* The retry deque holds terminal reports.
LEMMA RetryType ==
    ASSUME TypeOK, NEW c \in Cmd, NEW s \in Terminal, NEW v, ReportTerminal(c, s, v)
    PROVE  /\ env' \in [Cmd -> Status]
           /\ retry' \in Seq([cmd : Cmd, to : Terminal])
<1>1. env' \in [Cmd -> Status]
  BY PatchType DEF TypeOK, ReportTerminal, Status
<1>2. Push(retry, [cmd |-> c, to |-> s]) \in Seq([cmd : Cmd, to : Terminal])
  <2>1. retry \in Seq([cmd : Cmd, to : Terminal]) /\ [cmd |-> c, to |-> s] \in [cmd : Cmd, to : Terminal]
    BY DEF TypeOK
  <2>2. Len(retry) = RetryMax => Tail(retry) \in Seq([cmd : Cmd, to : Terminal])
    <3>1. Len(retry) = RetryMax => retry # <<>>
      BY ConstantsAssumption DEF ConstantsAssumption
    <3>2. QED
      BY <2>1, <3>1, HeadTailProperties
  <2>3. QED
    BY <2>1, <2>2, AppendProperties DEF Push
<1>3. QED
  BY <1>1, <1>2 DEF ReportTerminal, TypeOK

\* Publishing keeps the type of what was published.
LEMMA PublishType ==
    ASSUME pub \in [Cmd -> Phase], NEW c \in Cmd, NEW p \in Phase, Publish(c, p)
    PROVE  pub' \in [Cmd -> Phase]
BY DEF Publish


\* Every action keeps the types.
LEMMA TypeStep == ASSUME TypeOK, StageInv, [Next]_vars PROVE TypeOK'
<1> USE ConstantsAssumption DEF ConstantsAssumption, Booting, Handling, Terminal, Status, Phase, Final, Entry, Started, Settled, jobVars, history, PutDown
<1>1. ASSUME Boot PROVE TypeOK'
  BY <1>1, LedgerCallType DEF TypeOK, Boot, Unfinished
<1>2. ASSUME NEW c \in Cmd, RecoverReport(c) PROVE TypeOK'
  <2>1. env' \in [Cmd -> Status] /\ retry' \in Seq([cmd : Cmd, to : Terminal])
    BY <1>2, RetryType DEF RecoverReport
  <2>2. pub' \in [Cmd -> Phase]
    BY <1>2, PublishType DEF RecoverReport, TypeOK
  <2>3. QED
    BY <1>2, <2>1, <2>2 DEF TypeOK, RecoverReport, ledgerVars, LedgerTypeOK
<1>3. ASSUME RecoverSettle PROVE TypeOK'
  BY <1>3, RecordType DEF TypeOK, RecoverSettle
<1>4. ASSUME NEW c \in Cmd, RecoverClear(c) PROVE TypeOK'
  BY <1>4, RecordType DEF TypeOK, RecoverClear
<1>5. ASSUME RecoverDone PROVE TypeOK'
  BY <1>5 DEF TypeOK, RecoverDone, ledgerVars, LedgerTypeOK
<1>6. ASSUME BootCompact PROVE TypeOK'
  BY <1>6, LedgerCallType DEF TypeOK, BootCompact
<1>7. ASSUME Snapshot PROVE TypeOK'
  BY <1>7 DEF TypeOK, Snapshot, ledgerVars, LedgerTypeOK
<1>8. ASSUME NEW c \in Cmd, Take(c) PROVE TypeOK'
  BY <1>8 DEF TypeOK, Take, TerminalOf, ledgerVars, LedgerTypeOK
<1>9. ASSUME NEW v \in Verdicts, Deliver(v) PROVE TypeOK'
  BY <1>9, PatchType DEF TypeOK, Deliver, AfterDelivered, ledgerVars, LedgerTypeOK
<1>10. ASSUME Check PROVE TypeOK'
  BY <1>10, PatchType DEF TypeOK, Check, ledgerVars, LedgerTypeOK
<1>11. ASSUME Submit PROVE TypeOK'
  BY <1>11, RecordType DEF TypeOK, Submit, Resolve, FailedBy, ledgerVars, LedgerTypeOK
<1>12. ASSUME Reject PROVE TypeOK'
  BY <1>12, RecordType DEF TypeOK, Reject, FailedBy, ledgerVars, LedgerTypeOK
<1>13. ASSUME Refuse PROVE TypeOK'
  BY <1>13, RecordType, PublishType DEF TypeOK, Refuse, FailedBy
<1>14. ASSUME Start PROVE TypeOK'
  BY <1>14, RecordType, PublishType DEF TypeOK, Start, FailedBy
<1>15. ASSUME BeginStage PROVE TypeOK'
  BY <1>15 DEF TypeOK, BeginStage, ledgerVars, LedgerTypeOK
<1>16. ASSUME AbortStage PROVE TypeOK'
  BY <1>16 DEF TypeOK, AbortStage, ledgerVars, LedgerTypeOK
<1>17. ASSUME StageDone PROVE TypeOK'
  <2>1. stage + 1 \in 0 .. NStages
    BY <1>17 DEF StageDone, StageInv, TypeOK
  <2>2. pub' \in [Cmd -> Phase]
    BY <1>17, PublishType DEF StageDone, TypeOK
  <2>3. poured' \in [Cmd -> Nat] /\ stage' \in 0 .. NStages /\ pc' \in {"finish", "stage"}
    BY <1>17, <2>1 DEF StageDone, TypeOK
  <2>4. QED
    BY <1>17, <2>2, <2>3 DEF TypeOK, StageDone, ledgerVars, LedgerTypeOK
<1>18. ASSUME StageFails PROVE TypeOK'
  BY <1>18 DEF TypeOK, StageFails, ledgerVars, LedgerTypeOK
<1>19. ASSUME Abort PROVE TypeOK'
  BY <1>19, RecordType, PublishType DEF TypeOK, Abort, Settle
<1>20. ASSUME Finish PROVE TypeOK'
  BY <1>20, RecordType, PublishType DEF TypeOK, Finish, Settle
<1>21. ASSUME Rescue PROVE TypeOK'
  BY <1>21, RecordType, PublishType DEF TypeOK, Rescue
<1>22. ASSUME NEW v \in Verdicts, Report(v) PROVE TypeOK'
  <2>1. cur \in Cmd /\ res \in Terminal
    BY <1>22 DEF Report, TypeOK
  <2>2. env' \in [Cmd -> Status] /\ retry' \in Seq([cmd : Cmd, to : Terminal])
    BY <1>22, <2>1, RetryType DEF Report
  <2>3. QED
    BY <1>22, <2>2 DEF TypeOK, Report, ledgerVars, LedgerTypeOK
<1>23. ASSUME Exit PROVE TypeOK'
  BY <1>23, LedgerCallType DEF TypeOK, Exit
<1>24. ASSUME NEW v \in Verdicts, FlushRetry(v) PROVE TypeOK'
  <2>1. retry \in Seq([cmd : Cmd, to : Terminal]) /\ retry # <<>>
    BY <1>24 DEF FlushRetry, TypeOK
  <2>2. Head(retry) \in [cmd : Cmd, to : Terminal] /\ Tail(retry) \in Seq([cmd : Cmd, to : Terminal])
    BY <2>1, HeadTailProperties
  <2>3. env' \in [Cmd -> Status]
    <3>1. Head(retry).cmd \in Cmd /\ Head(retry).to \in Status
      BY <2>2
    <3>2. QED
      BY <1>24, <3>1, PatchType DEF FlushRetry, TypeOK
  <2>4. QED
    BY <1>24, <2>1, <2>2, <2>3 DEF TypeOK, FlushRetry, ledgerVars, LedgerTypeOK
<1>25. ASSUME NEW c \in Cmd, Cancel(c) PROVE TypeOK'
  BY <1>25 DEF TypeOK, Cancel, ledgerVars, LedgerTypeOK
<1>26. ASSUME NEW c \in Cmd, Reclaim(c) PROVE TypeOK'
  BY <1>26 DEF TypeOK, Reclaim, ledgerVars, LedgerTypeOK
<1>27. ASSUME EstopChange PROVE TypeOK'
  BY <1>27 DEF TypeOK, EstopChange, ledgerVars, LedgerTypeOK
<1>28. ASSUME Stop PROVE TypeOK'
  BY <1>28 DEF TypeOK, Stop, ledgerVars, LedgerTypeOK
<1>29. ASSUME Crash PROVE TypeOK'
  <2>1. LedgerTypeOK'
    <3>1. ASSUME NEW w \in Writing PROVE w[1] \in Cmd /\ w[2] \in Entry
      BY <3>1 DEF Writing, TypeOK
    <3>2. ASSUME NEW w \in Writing
          PROVE  Cut(buf, w[1], w[2]) \subseteq Log /\ Written(buf, w[1], w[2]) \in Log
      BY <3>1, WriteType DEF TypeOK, LedgerTypeOK
    <3>3. Remains \subseteq Log
      BY <3>2 DEF Remains, TypeOK, LedgerTypeOK
    <3>4. QED
      BY <1>29, <3>3 DEF Crash, Die, LedgerTypeOK, Unseen
  <2>2. /\ pc' = "down" /\ cur' = NoCmd /\ stage' = 0 /\ res' = "none"
        /\ offered' = {} /\ todo' = {}
        /\ stopping' = FALSE /\ estop' = FALSE
        /\ halts' \in 0 .. MaxHalts
        /\ UNCHANGED <<env, pub, runs, poured>>
    BY <1>29 DEF TypeOK, Crash
  <2>3. retry' \in Seq([cmd : Cmd, to : Terminal])
    BY <1>29, EmptySeq DEF Crash
  <2>4. stage' \in 0 .. NStages
    BY <2>2
  <2>5. pc' \notin Handling \cup {"settle"} /\ pc' # "report"
    BY <2>2
  <2>6. QED
    BY <2>1, <2>2, <2>3, <2>4, <2>5 DEF TypeOK
<1>30. CASE UNCHANGED vars
  BY <1>30 DEF TypeOK, LedgerTypeOK, vars, ledgerVars
<1>31. QED
  BY <1>1, <1>2, <1>3, <1>4, <1>5, <1>6, <1>7, <1>8, <1>9, <1>10, <1>11, <1>12, <1>13, <1>14, <1>15, <1>16, <1>17, <1>18, <1>19, <1>20, <1>21, <1>22, <1>23, <1>24, <1>25, <1>26, <1>27, <1>28, <1>29, <1>30 DEF Next, Recover, Consume

\* The stage counter stays in the loop that counts it.
LEMMA StageStep == ASSUME TypeOK, StageInv, [Next]_vars PROVE StageInv'
<1> USE DEF StageInv, Working, PutDown, jobVars
<1>1. CASE Recover
  BY <1>1 DEF Recover, Boot, RecoverReport, RecoverSettle, RecoverClear, RecoverDone, BootCompact
<1>2. CASE Snapshot \/ (\E c \in Cmd : Take(c)) \/ Check \/ \E v \in Verdicts : Deliver(v) \/ Report(v)
  BY <1>2 DEF Snapshot, Take, Check, Deliver, AfterDelivered, Report
<1>3. CASE Submit \/ Reject \/ Refuse
  BY <1>3 DEF Submit, Resolve, Reject, Refuse, FailedBy
<1>4. CASE Start
  BY <1>4, ConstantsAssumption DEF Start, FailedBy, ConstantsAssumption
<1>5. CASE BeginStage \/ AbortStage \/ StageFails
  BY <1>5 DEF BeginStage, AbortStage, StageFails
<1>6. CASE StageDone
  BY <1>6, ConstantsAssumption DEF StageDone, LastStage, ConstantsAssumption, TypeOK
<1>7. CASE Abort \/ Finish \/ Rescue
  BY <1>7 DEF Abort, Finish, Rescue, Settle
<1>8. CASE Exit \/ EstopChange \/ Stop \/ Crash
  BY <1>8 DEF Exit, EstopChange, Stop, Crash
<1>9. CASE (\E v \in Verdicts : FlushRetry(v)) \/ \E c \in Cmd : Cancel(c) \/ Reclaim(c)
  BY <1>9 DEF FlushRetry, Cancel, Reclaim
<1>10. CASE UNCHANGED vars
  BY <1>10 DEF vars
<1>11. QED
  BY <1>1, <1>2, <1>3, <1>4, <1>5, <1>6, <1>7, <1>8, <1>9, <1>10 DEF Next, Consume

\* Every reachable state is well typed.
THEOREM TypeCorrect == Spec => [](TypeOK /\ StageInv)
<1>1. Init => TypeOK /\ StageInv
  <2>1. Init => LedgerTypeOK
    BY DEF Init, LedgerInit, LedgerTypeOK, Unseen, Whole, Log, Entry
  <2>2. Init => retry \in Seq([cmd : Cmd, to : Terminal])
    BY EmptySeq DEF Init
  <2>3. Init => /\ pc = "down" /\ cur = NoCmd /\ stage = 0 /\ res = "none"
                /\ todo = {} /\ offered = {} /\ halts = 0
                /\ stopping = FALSE /\ estop = FALSE
    BY DEF Init
  <2>4. Init => /\ env \in [Cmd -> Status] /\ pub \in [Cmd -> Phase]
                /\ runs \in [Cmd -> Nat] /\ poured \in [Cmd -> Nat]
    BY DEF Init, Status, Phase
  <2>5. 0 \in 0 .. NStages /\ 0 \in 0 .. MaxHalts
    BY ConstantsAssumption DEF ConstantsAssumption
  <2>6. QED
    BY <2>1, <2>2, <2>3, <2>4, <2>5 DEF TypeOK, StageInv, Working, Booting, Handling, Terminal
<1>2. TypeOK /\ StageInv /\ [Next]_vars => (TypeOK /\ StageInv)'
  BY TypeStep, StageStep
<1>3. QED
  BY <1>1, <1>2, PTL DEF Spec

-----------------------------------------------------------------------------
(* No command is dispensed twice.                                          *)

\* A write for a key that has not moved a pump, or one that marks the key as
\* started, leaves every started key covered, however far it gets.
LEMMA WriteCovers ==
    ASSUME TypeOK, Covers(file), Covers(buf), NEW c \in Cmd, NEW s \in Entry,
           s \in Started \/ ~(runs[c] > 0)
    PROVE  Covers(Written(buf, c, s)) /\ \A log \in Cut(buf, c, s) : Covers(log)
<1>1. buf.map \in [Cmd -> Entry] /\ buf.rest \in [Cmd -> Entry]
  BY DEF TypeOK, LedgerTypeOK, Log
<1>2. ASSUME NEW d \in Cmd, runs[d] > 0
      PROVE  Replay(buf, c, s)[d] \in Started /\ Readable(buf)[d] \in Started
  BY <1>1, <1>2 DEF Replay, Readable, Covers
<1>3. Covers(Written(buf, c, s))
  BY <1>2 DEF Covers, Written, Whole
<1>4. \A log \in [map : {Readable(buf), Replay(buf, c, s)}, rest : {Readable(buf)}, torn : {TRUE}] : Covers(log)
  BY <1>2 DEF Covers
<1>5. QED
  BY <1>3, <1>4 DEF Cut

\* The same for the ledger after the append, whether it returns or raises.
LEMMA RecordCovers ==
    ASSUME TypeOK, Covered, pc # "down", NEW c \in Cmd, NEW s \in Entry,
           s \in Started \/ ~(runs[c] > 0),
           Record(c, s) \/ RecordRaises(c, s), UNCHANGED runs
    PROVE  Covered'
<1>1. Covers(Written(buf, c, s)) /\ \A log \in Cut(buf, c, s) : Covers(log)
  BY WriteCovers DEF Covered
<1>2. Covers(file') /\ Covers(buf')
  BY <1>1 DEF Record, RecordRaises, Covered
<1>3. \A d \in Cmd : runs[d] > 0 => index'[d] \in Started
  BY DEF Record, RecordRaises, Covered, TypeOK, LedgerTypeOK
<1>4. QED
  BY <1>2, <1>3 DEF Covered, Covers

\* What can be half written when the process dies is such a write.
LEMMA WritingIsSafe ==
    ASSUME TypeOK, OnceInv, pc # "down", NEW w \in Writing
    PROVE  w[1] \in Cmd /\ w[2] \in Entry /\ (w[2] \in Started \/ ~(runs[w[1]] > 0))
<1>1. w \in Cmd \X Entry
  BY DEF Writing
<1>2. CASE w[2] \in Started
  BY <1>1, <1>2
<1>3. CASE w[1] = cur /\ Fresh(cur)
  BY <1>1, <1>3 DEF Fresh, OnceInv, Covered, Started, Settled
<1>4. CASE pc = "recover" /\ Interrupted = {} /\ w[1] \in todo
  <2>1. index[w[1]] = "RECEIVED"
    BY <1>4 DEF Interrupted, OnceInv, TodoIsUnfinished
  <2>2. QED
    BY <1>1, <2>1 DEF OnceInv, Covered, Started, Settled
<1>5. QED
  BY <1>1, <1>2, <1>3, <1>4 DEF Writing, Started, Settled

\* The steps that touch neither the ledger nor the count of jobs.
LEMMA QuietStep ==
    ASSUME TypeOK, OnceInv, UNCHANGED <<ledgerVars, runs>>,
           pc = "down" <=> pc' = "down",
           pc' \in {"recover", "settle"} => pc \in {"recover", "settle"} /\ todo' = todo,
           pc' \in {"refuse", "start", "stage", "motion"} =>
               pc' = pc /\ cur' = cur /\ stage' = stage
    PROVE  OnceInv'
BY DEF OnceInv, Covered, Covers, AtMostOnce, ClaimIsFirst, JobIsRecorded, TodoIsUnfinished, ledgerVars

\* Every action keeps OnceInv.
LEMMA OnceStep == ASSUME TypeOK, StageInv, OnceInv, [Next]_vars PROVE OnceInv'
<1> USE DEF Entry, Started, Settled, jobVars, history
<1>1. CASE Boot
  <2>1. Covered'
    BY <1>1 DEF Boot, Open, OnceInv, Covered, Covers
  <2>2. TodoIsUnfinished'
    BY <1>1 DEF Boot, Open, Unfinished, TodoIsUnfinished
  <2>3. QED
    BY <1>1, <2>1, <2>2 DEF Boot, OnceInv, AtMostOnce, ClaimIsFirst, JobIsRecorded
<1>2. CASE \E c \in Cmd : RecoverReport(c)
  BY <1>2, QuietStep DEF RecoverReport
<1>3. CASE RecoverSettle
  <2>1. Covered'
    BY <1>3, RecordCovers DEF RecoverSettle, TypeOK, OnceInv
  <2>2. TodoIsUnfinished'
    BY <1>3 DEF RecoverSettle, Record, RecordRaises, TodoIsUnfinished, OnceInv, TypeOK, LedgerTypeOK
  <2>3. QED
    BY <1>3, <2>1, <2>2 DEF RecoverSettle, OnceInv, AtMostOnce, ClaimIsFirst, JobIsRecorded
<1>4. ASSUME NEW c \in Cmd, RecoverClear(c) PROVE OnceInv'
  <2>1. index[c] = "RECEIVED" /\ ~(runs[c] > 0)
    BY <1>4 DEF RecoverClear, Interrupted, OnceInv, TodoIsUnfinished, Covered
  <2>2. Covered'
    BY <1>4, <2>1, RecordCovers DEF RecoverClear, OnceInv
  <2>3. TodoIsUnfinished'
    BY <1>4 DEF RecoverClear, Record, RecordRaises, TodoIsUnfinished, OnceInv, TypeOK, LedgerTypeOK
  <2>4. QED
    BY <1>4, <2>2, <2>3 DEF RecoverClear, OnceInv, AtMostOnce, ClaimIsFirst, JobIsRecorded
<1>5. CASE BootCompact
  <2>1. Covers(Whole(index))
    BY <1>5 DEF BootCompact, Covers, Whole, OnceInv, Covered
  <2>2. Covered'
    BY <1>5, <2>1 DEF BootCompact, Compact, CompactRaises, OnceInv, Covered, Covers
  <2>3. QED
    BY <1>5, <2>2 DEF BootCompact, OnceInv, AtMostOnce, ClaimIsFirst, JobIsRecorded, TodoIsUnfinished
<1>6. CASE RecoverDone \/ Snapshot \/ Check \/ AbortStage \/ StageFails
  BY <1>6, QuietStep DEF RecoverDone, Snapshot, Check, AbortStage, StageFails
<1>7. CASE \E c \in Cmd : Take(c)
  BY <1>7, QuietStep DEF Take
<1>8. CASE \E v \in Verdicts : Deliver(v) \/ Report(v) \/ FlushRetry(v)
  BY <1>8, QuietStep DEF Deliver, AfterDelivered, Report, FlushRetry
<1>9. CASE EstopChange \/ Stop \/ (\E c \in Cmd : Cancel(c) \/ Reclaim(c)) \/ UNCHANGED vars
  BY <1>9, QuietStep DEF EstopChange, Stop, Cancel, Reclaim, vars
<1>10. CASE Submit \/ Reject
  <2>1. CASE UNCHANGED ledgerVars /\ pc' \in {"idle", "report"}
    BY <1>10, <2>1, QuietStep DEF Submit, Resolve, Reject
  <2>2. CASE Fresh(cur) /\ (Record(cur, "RECEIVED") \/ RecordRaises(cur, "RECEIVED"))
    <3>1. cur \in Cmd /\ Fresh(cur)
      BY <1>10, <2>2 DEF Submit, Resolve, Reject, TypeOK, Handling
    <3>2. ~(runs[cur] > 0)
      BY <1>10, <3>1 DEF Submit, Resolve, Reject, Fresh, OnceInv, Covered
    <3>3. Covered'
      BY <1>10, <2>2, <3>1, <3>2, RecordCovers DEF Submit, Resolve, Reject, FailedBy, OnceInv
    <3>4. ClaimIsFirst'
      BY <1>10, <2>2, <3>1, <3>2 DEF Submit, Resolve, Reject, FailedBy, ClaimIsFirst, Record, Written, Whole, TypeOK
    <3>5. QED
      BY <1>10, <2>2, <3>3, <3>4 DEF Submit, Resolve, Reject, FailedBy, OnceInv, AtMostOnce, JobIsRecorded, TodoIsUnfinished
  <2>3. QED
    BY <1>10, <2>1, <2>2 DEF Submit, Resolve, Reject, FailedBy
<1>11. CASE Refuse
  <2>1. Covered'
    BY <1>11, RecordCovers DEF Refuse, FailedBy, TypeOK, Handling, OnceInv
  <2>2. QED
    BY <1>11, <2>1 DEF Refuse, FailedBy, OnceInv, AtMostOnce, ClaimIsFirst, JobIsRecorded, TodoIsUnfinished
<1>12. CASE Start
  <2>1. cur \in Cmd /\ ~buf.torn /\ runs[cur] = 0
    BY <1>12 DEF Start, TypeOK, Handling, OnceInv, ClaimIsFirst
  <2>2. Covered'
    BY <1>12, <2>1, RecordCovers DEF Start, FailedBy, OnceInv
  <2>3. JobIsRecorded'
    BY <1>12, <2>1 DEF Start, FailedBy, JobIsRecorded, Record, Written, Whole, Replay, TypeOK, LedgerTypeOK, Log
  <2>4. QED
    BY <1>12, <2>1, <2>2, <2>3 DEF Start, FailedBy, OnceInv, AtMostOnce, ClaimIsFirst, TodoIsUnfinished
<1>13. CASE BeginStage
  <2>1. cur \in Cmd /\ JobIsRecorded
    BY <1>13 DEF BeginStage, TypeOK, Handling, OnceInv
  <2>2. Covered'
    BY <1>13, <2>1 DEF BeginStage, OnceInv, Covered, Covers, JobIsRecorded, ledgerVars, TypeOK
  <2>3. AtMostOnce'
    BY <1>13, <2>1 DEF BeginStage, OnceInv, AtMostOnce, ClaimIsFirst, TypeOK
  <2>4. QED
    BY <1>13, <2>1, <2>2, <2>3 DEF BeginStage, OnceInv, ClaimIsFirst, JobIsRecorded, TodoIsUnfinished, ledgerVars
<1>14. CASE StageDone
  <2>1. stage' # 0
    BY <1>14 DEF StageDone, TypeOK
  <2>2. QED
    BY <1>14, <2>1 DEF StageDone, OnceInv, Covered, Covers, AtMostOnce, ClaimIsFirst, JobIsRecorded, TodoIsUnfinished, ledgerVars
<1>15. CASE Abort \/ Finish \/ Rescue
  <2>1. Covered'
    BY <1>15, RecordCovers DEF Abort, Finish, Rescue, Settle, TypeOK, Handling, OnceInv
  <2>2. QED
    BY <1>15, <2>1
    DEF Abort, Finish, Rescue, Settle, OnceInv, AtMostOnce, ClaimIsFirst, JobIsRecorded, TodoIsUnfinished
<1>16. CASE Exit
  BY <1>16
  DEF Exit, Close, OnceInv, Covered, Covers, AtMostOnce, ClaimIsFirst, JobIsRecorded, TodoIsUnfinished
<1>17. CASE Crash
  <2>1. pc # "down" /\ Covers(file) /\ Covers(buf)
    BY <1>17 DEF Crash, OnceInv, Covered
  <2>2. ASSUME NEW w \in Writing
        PROVE  Covers(Written(buf, w[1], w[2])) /\ \A log \in Cut(buf, w[1], w[2]) : Covers(log)
    BY <2>1, WriteCovers, WritingIsSafe
  <2>3. \A log \in Remains : Covers(log)
    BY <2>1, <2>2 DEF Remains
  <2>4. Covers(file') /\ Covers(buf')
    BY <1>17, <2>3 DEF Crash, Die
  <2>5. QED
    BY <1>17, <2>4
    DEF Crash, OnceInv, Covered, Covers, AtMostOnce, ClaimIsFirst, JobIsRecorded, TodoIsUnfinished
<1>18. QED
  BY <1>1, <1>2, <1>3, <1>4, <1>5, <1>6, <1>7, <1>8, <1>9, <1>10, <1>11, <1>12, <1>13, <1>14, <1>15, <1>16, <1>17
  DEF Next, Recover, Consume

\* OnceInv holds in every reachable state.
LEMMA OnceInvariant == Spec => []OnceInv
<1>1. Init => OnceInv
  BY DEF Init, LedgerInit, OnceInv, Covered, Covers, Whole, AtMostOnce, ClaimIsFirst, JobIsRecorded, TodoIsUnfinished
<1>2. TypeOK /\ StageInv /\ OnceInv /\ [Next]_vars => OnceInv'
  BY OnceStep
<1>3. QED
  BY <1>1, <1>2, TypeCorrect, PTL DEF Spec

\* No key starts motion in two jobs, whatever is redelivered, reported late,
\* cut short by a crash or lost from the end of the log (check_and_claim,
\* mark_running and BootRecovery together).
THEOREM DispensedAtMostOnce == Spec => []AtMostOnce
<1>1. OnceInv => AtMostOnce
  BY DEF OnceInv
<1>2. QED
  BY <1>1, OnceInvariant, PTL

\* While a pump moves, the log on the disk says RUNNING for its key, and still
\* would if its last line were unreadable: a restart reports the interruption.
THEOREM MotionAlwaysRecorded == Spec => []MotionIsRecorded
<1>1. OnceInv => MotionIsRecorded
  BY DEF OnceInv, JobIsRecorded, MotionIsRecorded
<1>2. QED
  BY <1>1, OnceInvariant, PTL

-----------------------------------------------------------------------------
(* The job in hand and its stages.                                         *)

\* The steps that pour nothing and do not enter or move within a job.
LEMMA PourQuiet ==
    ASSUME TypeOK, PourInv, UNCHANGED <<runs, poured>>,
           pc' \in Working => pc \in Working /\ cur' = cur /\ stage' = stage,
           pc' = "motion" => pc = "motion"
    PROVE  PourInv'
BY DEF PourInv, Working

\* The steps of the consuming thread outside the stage loop.
LEMMA OutsideStages ==
    ASSUME TypeOK,
           \/ Recover \/ Snapshot \/ Check \/ Submit \/ Reject \/ Refuse \/ Exit
           \/ EstopChange \/ Stop \/ Crash \/ AbortStage \/ StageFails
           \/ Abort \/ Finish \/ Rescue \/ UNCHANGED vars
           \/ \E c \in Cmd : Take(c) \/ Cancel(c) \/ Reclaim(c)
           \/ \E v \in Verdicts : Deliver(v) \/ Report(v) \/ FlushRetry(v)
    PROVE  /\ UNCHANGED <<runs, poured>>
           /\ pc' \in Working => pc \in Working /\ cur' = cur /\ stage' = stage
           /\ pc' = "motion" => pc = "motion"
<1> USE DEF Working, jobVars, history
<1>1. CASE Recover
  BY <1>1 DEF Recover, Boot, RecoverReport, RecoverSettle, RecoverClear, RecoverDone, BootCompact
<1>2. CASE Snapshot \/ Check \/ (\E c \in Cmd : Take(c)) \/ \E v \in Verdicts : Deliver(v) \/ Report(v)
  BY <1>2 DEF Snapshot, Check, Take, Deliver, AfterDelivered, Report
<1>3. CASE Submit \/ Reject \/ Refuse
  BY <1>3 DEF Submit, Resolve, Reject, Refuse, FailedBy
<1>4. CASE AbortStage \/ StageFails \/ Abort \/ Finish \/ Rescue
  BY <1>4 DEF AbortStage, StageFails, Abort, Finish, Rescue, Settle
<1>5. CASE \/ EstopChange \/ Stop \/ (\E v \in Verdicts : FlushRetry(v))
           \/ \E c \in Cmd : Cancel(c) \/ Reclaim(c)
  BY <1>5 DEF EstopChange, Stop, FlushRetry, Cancel, Reclaim
<1>6. CASE Exit \/ Crash
  BY <1>6 DEF Exit, Crash
<1>7. CASE UNCHANGED vars
  BY <1>7 DEF vars
<1>8. QED
  BY <1>1, <1>2, <1>3, <1>4, <1>5, <1>6, <1>7

\* Every action keeps PourInv.
LEMMA PourStep == ASSUME TypeOK, StageInv, OnceInv, PourInv, [Next]_vars PROVE PourInv'
<1>1. CASE Start
  <2>1. cur \in Cmd /\ runs[cur] = 0 /\ stage = 0 /\ poured[cur] = 0
    BY <1>1 DEF Start, TypeOK, Handling, OnceInv, ClaimIsFirst, StageInv, Working, PourInv
  <2>2. QED
    BY <1>1, <2>1 DEF Start, FailedBy, PourInv, Working
<1>2. CASE BeginStage
  BY <1>2 DEF BeginStage, PourInv, Working, TypeOK, Handling, OnceInv, ClaimIsFirst, jobVars
<1>3. CASE StageDone
  BY <1>3 DEF StageDone, PourInv, Working, TypeOK, Handling
<1>4. CASE ~(Start \/ BeginStage \/ StageDone)
  BY <1>4, PourQuiet, OutsideStages DEF Next, Consume
<1>5. QED
  BY <1>1, <1>2, <1>3, <1>4

\* PourInv holds in every reachable state.
LEMMA PourInvariant == Spec => []PourInv
<1>1. Init => PourInv
  BY DEF Init, PourInv, Working
<1>2. TypeOK /\ StageInv /\ OnceInv /\ PourInv /\ [Next]_vars => PourInv'
  BY PourStep
<1>3. QED
  BY <1>1, <1>2, TypeCorrect, OnceInvariant, PTL DEF Spec

-----------------------------------------------------------------------------
(* The refinement.                                                         *)

\* Every step of Dispense is a step of DispenseOnce, or none.
LEMMA OnceNext ==
    ASSUME TypeOK, StageInv, OnceInv, PourInv, [Next]_vars
    PROVE  [Once!Next]_(Once!onceVars)
<1> USE DEF Once!Next, Once!onceVars
<1>1. CASE BeginStage
  <2>1. cur \in Cmd /\ pc = "stage" /\ pc' = "motion" /\ cur' = cur /\ poured' = poured
    BY <1>1 DEF BeginStage, TypeOK, Handling, jobVars
  <2>2. CASE stage = 0
    <3>0. runs[cur] = 0
      BY <2>1, <2>2 DEF OnceInv, ClaimIsFirst
    <3>1. runs[cur] = 0 /\ runs' = [runs EXCEPT ![cur] = 1]
      BY <1>1, <2>1, <2>2, <3>0 DEF BeginStage
    <3>2. Active = NoCmd /\ Active' = cur
      BY <2>1, <3>1 DEF Active, Working, TypeOK
    <3>3. {c \in Cmd : runs'[c] > 0} = {c \in Cmd : runs[c] > 0} \cup {cur} /\ cur \notin {c \in Cmd : runs[c] > 0}
      BY <2>1, <3>1 DEF TypeOK
    <3>4. PICK c \in Cmd : c = cur
      BY <2>1
    <3>5. Once!Begin(c)
      BY <2>1, <3>2, <3>3, <3>4 DEF Once!Begin
    <3>6. QED
      BY <3>5
  <2>3. CASE stage # 0
    <3>1. runs' = runs
      BY <1>1, <2>3 DEF BeginStage
    <3>2. QED
      BY <2>1, <3>1 DEF Active, Working
  <2>4. QED
    BY <2>2, <2>3
<1>2. CASE StageDone
  <2>1. cur \in Cmd /\ pc = "motion" /\ pc' \in {"finish", "stage"} /\ cur' = cur /\ runs' = runs
    BY <1>2 DEF StageDone, TypeOK, Handling
  <2>2. Active = cur /\ Active' = cur
    BY <2>1 DEF Active, Working, PourInv
  <2>3. poured[cur] < NStages /\ poured' = [poured EXCEPT ![cur] = @ + 1]
    BY <1>2, <2>1 DEF StageDone, StageInv, PourInv, Working
  <2>4. Once!Pour(cur)
    BY <2>1, <2>2, <2>3 DEF Once!Pour
  <2>5. QED
    BY <2>1, <2>4
<1>3. CASE Start
  <2>1. UNCHANGED <<runs, poured>> /\ Active = NoCmd /\ Active' = NoCmd
    BY <1>3, ConstantsAssumption
    DEF Start, FailedBy, Active, Working, TypeOK, Handling, OnceInv, ClaimIsFirst
  <2>2. QED
    BY <2>1
<1>4. CASE ~(Start \/ BeginStage \/ StageDone)
  <2>1. /\ UNCHANGED <<runs, poured>>
        /\ pc' \in Working => pc \in Working /\ cur' = cur
    BY <1>4, OutsideStages DEF Next, Consume
  <2>2. Active' \in {Active, NoCmd}
    BY <2>1 DEF Active
  <2>3. CASE Active' = Active
    BY <2>1, <2>3
  <2>4. CASE Active # NoCmd /\ Active' = NoCmd
    <3>1. Once!Leave
      BY <2>1, <2>4 DEF Once!Leave
    <3>2. QED
      BY <3>1
  <2>5. QED
    BY <2>2, <2>3, <2>4
<1>5. QED
  BY <1>1, <1>2, <1>3, <1>4

\* The daemon keeps the promise of DispenseOnce: one command at a time, none
\* begun twice, each stage once and in order, none taken up again after it was
\* left.
THEOREM ImplementsDispenseOnce == Spec => DispensesOnce
<1>1. Init => Once!Init
  BY DEF Init, Once!Init, Active, Working
<1>2. TypeOK /\ StageInv /\ OnceInv /\ PourInv /\ [Next]_vars => [Once!Next]_(Once!onceVars)
  BY OnceNext
<1>3. QED
  BY <1>1, <1>2, TypeCorrect, OnceInvariant, PourInvariant, PTL DEF Spec, DispensesOnce, Once!Spec

-----------------------------------------------------------------------------
(* The keys that recovery or the job in hand still has to settle.          *)

\* The steps that leave the ledger alone and do not drop the key in hand.
LEMMA UnsettledQuiet ==
    ASSUME UnsettledInv, UNCHANGED index,
           pc \in {"recover", "settle"} => pc' \in {"recover", "settle"} /\ todo' = todo,
           pc \in {"refuse", "start"} \cup Working =>
               pc' \in {"refuse", "start"} \cup Working /\ cur' = cur
    PROVE  UnsettledInv'
BY DEF UnsettledInv

\* Without failing writes, every action keeps UnsettledInv.
LEMMA UnsettledStep == ASSUME ~DiskFaults, TypeOK, UnsettledInv, [Next]_vars PROVE UnsettledInv'
<1> USE DEF Working, ledgerVars, jobVars, history, PutDown
<1>1. CASE Boot
  BY <1>1 DEF Boot, Open, Unfinished, UnsettledInv, TypeOK, LedgerTypeOK, Log
<1>2. CASE \E c \in Cmd : RecoverReport(c)
  BY <1>2, UnsettledQuiet DEF RecoverReport
<1>3. CASE RecoverSettle
  BY <1>3 DEF RecoverSettle, Record, UnsettledInv, TypeOK, LedgerTypeOK
<1>4. CASE \E c \in Cmd : RecoverClear(c)
  BY <1>4 DEF RecoverClear, Record, UnsettledInv, TypeOK, LedgerTypeOK
<1>5. CASE RecoverDone
  BY <1>5 DEF RecoverDone, UnsettledInv
<1>6. CASE BootCompact
  BY <1>6, UnsettledQuiet DEF BootCompact, Compact, CompactRaises
<1>7. CASE Snapshot \/ Check \/ (\E c \in Cmd : Take(c)) \/ \E v \in Verdicts : Deliver(v) \/ Report(v) \/ FlushRetry(v)
  BY <1>7, UnsettledQuiet DEF Snapshot, Check, Take, Deliver, AfterDelivered, Report, FlushRetry, Serving, Booting
<1>8. CASE Submit \/ Reject
  BY <1>8 DEF Submit, Resolve, Reject, FailedBy, Record, UnsettledInv, TypeOK, LedgerTypeOK
<1>9. CASE Refuse \/ Start
  BY <1>9 DEF Refuse, Start, FailedBy, Record, UnsettledInv, TypeOK, LedgerTypeOK
<1>10. CASE BeginStage \/ AbortStage \/ StageDone \/ StageFails
  BY <1>10, UnsettledQuiet DEF BeginStage, AbortStage, StageDone, StageFails
<1>11. CASE Abort \/ Finish \/ Rescue
  BY <1>11 DEF Abort, Finish, Rescue, Settle, Record, UnsettledInv, TypeOK, LedgerTypeOK
<1>12. CASE EstopChange \/ Stop \/ (\E c \in Cmd : Cancel(c) \/ Reclaim(c)) \/ UNCHANGED vars
  BY <1>12, UnsettledQuiet DEF EstopChange, Stop, Cancel, Reclaim, vars
<1>13. CASE Exit \/ Crash
  BY <1>13 DEF Exit, Close, Crash, Die, Unseen, UnsettledInv
<1>14. QED
  BY <1>1, <1>2, <1>3, <1>4, <1>5, <1>6, <1>7, <1>8, <1>9, <1>10, <1>11, <1>12, <1>13
  DEF Next, Recover, Consume

\* When no write of the ledger raises, the loop never waits for a snapshot with
\* a key that is claimed and not settled: no later delivery of it is dropped as
\* a duplicate whose envelope nobody ends.
THEOREM LoopLeavesNothingUnsettled == ASSUME ~DiskFaults PROVE Spec => []NothingUnsettled
<1>1. Init => UnsettledInv
  BY DEF Init, LedgerInit, Unseen, UnsettledInv
<1>2. TypeOK /\ UnsettledInv /\ [Next]_vars => UnsettledInv'
  BY UnsettledStep
<1>3. TypeOK /\ OnceInv /\ UnsettledInv => NothingUnsettled
  BY DEF TypeOK, LedgerTypeOK, OnceInv, Covered, UnsettledInv, NothingUnsettled, Working,
         Entry, Started, Settled
<1>4. QED
  BY <1>1, <1>2, <1>3, TypeCorrect, OnceInvariant, PTL DEF Spec

-----------------------------------------------------------------------------
(* A final phase stays, where writes neither raise nor are cut short.      *)

\* The log after one more record is the index after it.
LEMMA RecordKeepsLog ==
    ASSUME TypeOK, LogIsIndex, pc # "down", pc' # "down",
           NEW c \in Cmd, NEW s \in Entry, Record(c, s)
    PROVE  /\ LogIsIndex'
           /\ Latest = index /\ Latest' = index' /\ index' = [index EXCEPT ![c] = s]
<1>1. Latest = index /\ Latest' = index' /\ index' = [index EXCEPT ![c] = s]
  BY DEF Latest, Record
<1>2. Written(buf, c, s) = Whole([index EXCEPT ![c] = s])
  BY <1>1 DEF LogIsIndex, Written, Replay, Whole
<1>3. QED
  BY <1>1, <1>2 DEF LogIsIndex, Record

\* The steps that leave the ledger, the phases and the key in hand alone.
LEMMA PhaseQuiet ==
    ASSUME PhaseInv, UNCHANGED <<index, file, buf, handle, pub>>,
           pc = "down" <=> pc' = "down",
           pc' \in {"recover", "settle"} => pc \in {"recover", "settle"} /\ todo' \subseteq todo,
           pc' = "settle" => pc = "settle" /\ cur' = cur,
           pc' \in {"refuse", "start"} => pc = pc' /\ cur' = cur,
           pc' \in Working => pc \in Working /\ cur' = cur
    PROVE  PhaseInv' /\ \A c \in Cmd : pub[c] \in Final => pub'[c] = pub[c]
<1>1. Latest' = Latest
  BY DEF Latest
<1>2. QED
  BY <1>1 DEF PhaseInv, LogIsIndex, PublishedIsSettled, InHandIsOpen, TodoIsUnfinished

\* Every action keeps PhaseInv, and no final phase is published over.
LEMMA PhaseStep ==
    ASSUME ~DiskFaults, ~PowerCuts, TypeOK, PhaseInv, [Next]_vars
    PROVE  PhaseInv' /\ \A c \in Cmd : pub[c] \in Final => pub'[c] = pub[c]
<1> USE DEF ledgerVars, jobVars, history, PutDown
<1> DEFINE Goal == PhaseInv' /\ \A c \in Cmd : pub[c] \in Final => pub'[c] = pub[c]
<1>1. CASE Boot
  <2>1. Latest = file.map /\ Latest' = file.map /\ UNCHANGED pub /\ pc' = "recover"
    BY <1>1 DEF Boot, Open, Latest
  <2>2. LogIsIndex'
    BY <1>1, <2>1 DEF Boot, Open, PhaseInv, LogIsIndex
  <2>3. TodoIsUnfinished'
    BY <1>1, <2>1 DEF Boot, Open, Unfinished, TodoIsUnfinished
  <2>4. QED
    BY <2>1, <2>2, <2>3 DEF PhaseInv, PublishedIsSettled, InHandIsOpen, Working
<1>2. ASSUME NEW c \in Cmd, RecoverReport(c) PROVE Goal
  <2>1. /\ Latest = index /\ Latest' = index /\ index[c] = "RUNNING"
        /\ pc' = "settle" /\ cur' = c /\ pub' = [pub EXCEPT ![c] = "FAILED"]
    BY <1>2 DEF RecoverReport, Interrupted, Publish, Latest
  <2>2. LogIsIndex' /\ TodoIsUnfinished'
    BY <1>2, <2>1 DEF RecoverReport, PhaseInv, LogIsIndex, TodoIsUnfinished
  <2>3. pub[c] # "COMPLETED"
    BY <2>1 DEF PhaseInv, PublishedIsSettled
  <2>4. PublishedIsSettled' /\ InHandIsOpen'
    BY <2>1 DEF PhaseInv, PublishedIsSettled, InHandIsOpen, Working, TypeOK
  <2>5. \A d \in Cmd : pub[d] \in Final => pub'[d] = pub[d]
    BY <2>1, <2>3 DEF Final, TypeOK
  <2>6. QED
    BY <2>2, <2>4, <2>5 DEF PhaseInv
<1>3. CASE RecoverSettle
  <2>1. cur \in Cmd /\ pc = "settle" /\ pc' = "recover" /\ Record(cur, "FAILED")
        /\ todo' = todo \ {cur} /\ UNCHANGED pub
    BY <1>3 DEF RecoverSettle, TypeOK
  <2>2. "FAILED" \in Entry
    BY DEF Entry, Started, Settled
  <2>3. /\ LogIsIndex' /\ Latest = index /\ Latest' = index'
        /\ index' = [index EXCEPT ![cur] = "FAILED"]
    BY <2>1, <2>2, RecordKeepsLog DEF PhaseInv
  <2>4. QED
    BY <2>1, <2>3
    DEF PhaseInv, PublishedIsSettled, InHandIsOpen, TodoIsUnfinished, Working, TypeOK, LedgerTypeOK
<1>4. ASSUME NEW c \in Cmd, RecoverClear(c) PROVE Goal
  <2>1. /\ pc = "recover" /\ pc' = "recover" /\ Record(c, "none") /\ c \in todo
        /\ todo' = todo \ {c} /\ UNCHANGED pub /\ Interrupted = {}
    BY <1>4 DEF RecoverClear
  <2>2. "none" \in Entry
    BY DEF Entry
  <2>3. LogIsIndex' /\ Latest = index /\ Latest' = index' /\ index' = [index EXCEPT ![c] = "none"]
    BY <2>1, <2>2, RecordKeepsLog DEF PhaseInv
  <2>4. index[c] = "RECEIVED"
    BY <2>1 DEF PhaseInv, TodoIsUnfinished, Interrupted
  <2>5. QED
    BY <2>1, <2>3, <2>4
    DEF PhaseInv, PublishedIsSettled, InHandIsOpen, TodoIsUnfinished, Working, TypeOK, LedgerTypeOK
<1>5. CASE BootCompact
  <2>1. pc = "compact" /\ pc' = "idle" /\ UNCHANGED <<cur, pub, index, handle>>
        /\ file' = Whole(index) /\ buf' = Whole(index)
    BY <1>5 DEF BootCompact, Compact
  <2>2. Latest = index /\ Latest' = index
    BY <2>1 DEF Latest
  <2>3. QED
    BY <2>1, <2>2
    DEF PhaseInv, LogIsIndex, PublishedIsSettled, InHandIsOpen, TodoIsUnfinished, Working
<1>6. CASE Submit \/ Reject
  <2>1. CASE Record(cur, "RECEIVED") /\ pc' \in {"refuse", "start", "report"} /\ index[cur] = "none"
    <3>1. cur \in Cmd /\ pc # "down" /\ pc' # "down" /\ UNCHANGED <<cur, pub>>
      BY <1>6, <2>1 DEF Submit, Resolve, Reject, FailedBy, TypeOK, Handling
    <3>2. "RECEIVED" \in Entry
      BY DEF Entry
    <3>3. /\ LogIsIndex' /\ Latest = index /\ Latest' = index'
          /\ index' = [index EXCEPT ![cur] = "RECEIVED"]
      BY <2>1, <3>1, <3>2, RecordKeepsLog DEF PhaseInv
    <3>4. QED
      BY <2>1, <3>1, <3>3
      DEF PhaseInv, PublishedIsSettled, InHandIsOpen, TodoIsUnfinished, Working, TypeOK, LedgerTypeOK
  <2>2. CASE ~(Record(cur, "RECEIVED") /\ pc' \in {"refuse", "start", "report"} /\ index[cur] = "none")
    BY <1>6, <2>2, PhaseQuiet DEF Submit, Resolve, Reject, FailedBy, Fresh, Working
  <2>3. QED
    BY <2>1, <2>2
<1>7. CASE Refuse
  <2>1. /\ cur \in Cmd /\ pc = "refuse" /\ pc' = "report" /\ Record(cur, "FAILED")
        /\ pub' = [pub EXCEPT ![cur] = "FAILED"] /\ cur' = cur
    BY <1>7 DEF Refuse, FailedBy, Publish, TypeOK, Handling
  <2>2. "FAILED" \in Entry
    BY DEF Entry, Started, Settled
  <2>3. /\ LogIsIndex' /\ Latest = index /\ Latest' = index'
        /\ index' = [index EXCEPT ![cur] = "FAILED"]
    BY <2>1, <2>2, RecordKeepsLog DEF PhaseInv
  <2>4. index[cur] = "RECEIVED" /\ pub[cur] \notin Final
    BY <2>1, <2>3 DEF PhaseInv, InHandIsOpen, PublishedIsSettled, Final
  <2>5. QED
    BY <2>1, <2>3, <2>4
    DEF PhaseInv, PublishedIsSettled, InHandIsOpen, TodoIsUnfinished, Working, TypeOK, LedgerTypeOK
<1>8. CASE Start
  <2>1. /\ cur \in Cmd /\ pc = "start" /\ pc' = "stage" /\ Record(cur, "RUNNING")
        /\ pub' = [pub EXCEPT ![cur] = "ACCEPTED"] /\ cur' = cur
    BY <1>8 DEF Start, FailedBy, Publish, TypeOK, Handling
  <2>2. "RUNNING" \in Entry
    BY DEF Entry, Started
  <2>3. /\ LogIsIndex' /\ Latest = index /\ Latest' = index'
        /\ index' = [index EXCEPT ![cur] = "RUNNING"]
    BY <2>1, <2>2, RecordKeepsLog DEF PhaseInv
  <2>4. index[cur] = "RECEIVED" /\ pub[cur] \notin Final
    BY <2>1, <2>3 DEF PhaseInv, InHandIsOpen, PublishedIsSettled, Final
  <2>5. QED
    BY <2>1, <2>3, <2>4
    DEF PhaseInv, PublishedIsSettled, InHandIsOpen, TodoIsUnfinished, Working, Final, TypeOK, LedgerTypeOK
<1>9. CASE StageDone
  <2>1. /\ cur \in Cmd /\ pc = "motion" /\ pc' \in {"finish", "stage"} /\ cur' = cur
        /\ pub' \in {pub, [pub EXCEPT ![cur] = "PROGRESS"]}
        /\ UNCHANGED <<index, file, buf, handle>>
    BY <1>9 DEF StageDone, Publish, TypeOK, Handling
  <2>2. pub[cur] \notin Final /\ Latest = index /\ Latest' = index
    BY <2>1 DEF PhaseInv, InHandIsOpen, Working, Latest
  <2>3. QED
    BY <2>1, <2>2
    DEF PhaseInv, LogIsIndex, PublishedIsSettled, InHandIsOpen, TodoIsUnfinished, Working, Final, TypeOK
<1>10. ASSUME NEW s \in Settled, NEW phase \in Final,
              pc \in Working, pc' = "report", cur' = cur, Record(cur, s),
              Publish(cur, phase), s = "DONE" <=> phase = "COMPLETED"
       PROVE  Goal
  <2>1. cur \in Cmd /\ pc # "down" /\ s \in Entry /\ s \in {"DONE", "FAILED"} /\ phase \in {"COMPLETED", "FAILED"}
    BY <1>10 DEF TypeOK, Working, Handling, Entry, Started, Settled, Final
  <2>2. LogIsIndex' /\ Latest = index /\ Latest' = index' /\ index' = [index EXCEPT ![cur] = s]
    BY <1>10, <2>1, RecordKeepsLog DEF PhaseInv
  <2>3. pub[cur] \notin Final /\ pub' = [pub EXCEPT ![cur] = phase]
    BY <1>10 DEF PhaseInv, InHandIsOpen, Publish
  <2>4. QED
    BY <1>10, <2>1, <2>2, <2>3
    DEF PhaseInv, PublishedIsSettled, InHandIsOpen, TodoIsUnfinished, Working, TypeOK, LedgerTypeOK
<1>11. CASE Abort \/ Finish \/ Rescue
  BY <1>10, <1>11 DEF Abort, Finish, Rescue, Settle, Working, Settled, Final
<1>12. CASE Exit
  <2>1. /\ pc = "idle" /\ pc' = "down" /\ UNCHANGED <<cur, pub>> /\ handle' = "none"
        /\ file' = (IF handle = "open" THEN buf ELSE file) /\ buf' = file'
    BY <1>12 DEF Exit, Close
  <2>2. file' = file /\ Latest = index /\ Latest' = index /\ file = Whole(index)
    BY <2>1 DEF PhaseInv, LogIsIndex, Latest, Whole
  <2>3. QED
    BY <2>1, <2>2
    DEF PhaseInv, LogIsIndex, PublishedIsSettled, InHandIsOpen, TodoIsUnfinished, Working
<1>13. CASE Crash
  <2>1. PICK log \in Remains : Die(log)
    BY <1>13 DEF Crash
  <2>2. /\ pc # "down" /\ pc' = "down" /\ UNCHANGED pub
        /\ file' = log /\ buf' = log /\ handle' = "none"
        /\ Latest = index /\ Latest' = log.map /\ file = Whole(index) /\ buf = file
    BY <1>13, <2>1 DEF Crash, Die, PhaseInv, LogIsIndex, Latest
  <2>3. log = file \/ \E w \in Writing : log = Written(buf, w[1], w[2])
    BY <2>1 DEF Remains
  <2>4. CASE log = file
    BY <2>2, <2>4
    DEF PhaseInv, LogIsIndex, PublishedIsSettled, InHandIsOpen, TodoIsUnfinished, Working, Whole
  <2>5. ASSUME NEW w \in Writing, log = Written(buf, w[1], w[2]) PROVE Goal
    <3>1. w[1] \in Cmd /\ log = Whole([index EXCEPT ![w[1]] = w[2]])
      BY <2>2, <2>5 DEF Writing, Written, Replay, Whole
    <3>2. /\ pub[w[1]] = "COMPLETED" => w[2] = "DONE"
          /\ pub[w[1]] = "FAILED" => w[2] \in {"FAILED", "RUNNING"}
      <4>1. CASE pc \in {"abort", "rescue", "finish"} /\ w[1] = cur
        BY <4>1 DEF PhaseInv, InHandIsOpen, Working, Final
      <4>2. CASE pc \in {"settle", "refuse"} /\ w = <<cur, "FAILED">>
        BY <2>2, <3>1, <4>2 DEF PhaseInv, InHandIsOpen, PublishedIsSettled
      <4>3. CASE pc = "start" /\ w = <<cur, "RUNNING">>
        BY <2>2, <3>1, <4>3 DEF PhaseInv, InHandIsOpen, PublishedIsSettled
      <4>4. CASE pc \in {"submit", "reject"} /\ Fresh(cur) /\ w = <<cur, "RECEIVED">>
        BY <2>2, <3>1, <4>4 DEF PhaseInv, PublishedIsSettled, Fresh
      <4>5. CASE pc = "recover" /\ Interrupted = {} /\ w[1] \in todo /\ w[2] = "none"
        <5>1. index[w[1]] = "RECEIVED"
          BY <4>5 DEF PhaseInv, TodoIsUnfinished, Interrupted
        <5>2. QED
          BY <2>2, <3>1, <5>1 DEF PhaseInv, PublishedIsSettled
      <4>6. QED
        BY <2>5, <4>1, <4>2, <4>3, <4>4, <4>5 DEF Writing
    <3>3. Latest' = [index EXCEPT ![w[1]] = w[2]]
      BY <2>2, <3>1 DEF Whole
    <3>4. LogIsIndex'
      BY <2>2, <3>1, <3>3 DEF LogIsIndex
    <3>5. PublishedIsSettled'
      BY <2>2, <3>1, <3>2, <3>3 DEF PhaseInv, PublishedIsSettled, TypeOK, LedgerTypeOK
    <3>6. QED
      BY <2>2, <3>4, <3>5 DEF PhaseInv, InHandIsOpen, TodoIsUnfinished, Working
  <2>6. QED
    BY <2>3, <2>4, <2>5
<1>14. CASE Snapshot \/ Check \/ (\E c \in Cmd : Take(c)) \/ \E v \in Verdicts : Deliver(v) \/ Report(v) \/ FlushRetry(v)
  BY <1>14, PhaseQuiet DEF Snapshot, Check, Take, Deliver, AfterDelivered, Report, FlushRetry, Working
<1>15. CASE RecoverDone \/ BeginStage \/ AbortStage \/ StageFails
  BY <1>15, PhaseQuiet DEF RecoverDone, BeginStage, AbortStage, StageFails, Working
<1>16. CASE EstopChange \/ Stop \/ (\E c \in Cmd : Cancel(c) \/ Reclaim(c)) \/ UNCHANGED vars
  BY <1>16, PhaseQuiet DEF EstopChange, Stop, Cancel, Reclaim, vars
<1>17. QED
  BY <1>1, <1>2, <1>3, <1>4, <1>5, <1>6, <1>7, <1>8, <1>9, <1>11, <1>12, <1>13, <1>14, <1>15, <1>16
  DEF Next, Recover, Consume

\* Where the writes of the ledger neither raise nor are cut short, an order
\* once published COMPLETED or FAILED is never published anything else:
\* whatever is redelivered, re-reported by recovery or crashed between two
\* steps, the phase on record is the last word.
THEOREM FinalPhasesAreFinal == ASSUME ~DiskFaults, ~PowerCuts PROVE Spec => FinalPhaseStays
<1>1. Init => PhaseInv
  BY DEF Init, LedgerInit, Unseen, Whole, PhaseInv, LogIsIndex, Latest, PublishedIsSettled,
         InHandIsOpen, TodoIsUnfinished, Working
<1>2. TypeOK /\ PhaseInv /\ [Next]_vars => PhaseInv' /\ \A c \in Cmd : pub[c] \in Final => pub'[c] = pub[c]
  BY PhaseStep
<1>3. TypeOK /\ PhaseInv /\ [Next]_vars => [\A c \in Cmd : pub[c] \in Final => pub'[c] = pub[c]]_vars
  BY <1>2
<1>4. QED
  BY <1>1, <1>2, <1>3, TypeCorrect, PTL DEF Spec, FinalPhaseStays

-----------------------------------------------------------------------------
(* What is reported as a success was poured.                               *)

\* A PATCH makes an envelope done only if it says so.
LEMMA PatchTells ==
    ASSUME TypeOK, NEW c \in Cmd, NEW s \in Status, NEW v, Patch(c, s, v), NEW d \in Cmd
    PROVE  env'[d] = "done" => env[d] = "done" \/ (d = c /\ s = "done")
BY DEF TypeOK, Patch, Gate

\* A terminal report tells the truth if what it reports is true: to the
\* server now, and from the deque later.
LEMMA ReportTells ==
    ASSUME TypeOK, ReportsAreReal, NEW c \in Cmd, NEW s \in Terminal, NEW v,
           ReportTerminal(c, s, v), s = "done" => c \in Full
    PROVE  /\ \A d \in Cmd : env'[d] = "done" => env[d] = "done" \/ d \in Full
           /\ \A i \in 1 .. Len(retry') : retry'[i].to = "done" => retry'[i].cmd \in Full
<1>1. \A d \in Cmd : env'[d] = "done" => env[d] = "done" \/ d \in Full
  <2>1. s \in Status /\ Patch(c, s, v)
    BY DEF Status, ReportTerminal
  <2>2. QED
    BY <2>1, PatchTells
<1>2. retry \in Seq([cmd : Cmd, to : Terminal]) /\ [cmd |-> c, to |-> s] \in [cmd : Cmd, to : Terminal]
  BY DEF TypeOK
<1> DEFINE kept == IF Len(retry) = RetryMax THEN Tail(retry) ELSE retry
<1>3. /\ kept \in Seq([cmd : Cmd, to : Terminal])
      /\ \A i \in 1 .. Len(kept) : kept[i].to = "done" => kept[i].cmd \in Full
  <2>1. CASE Len(retry) = RetryMax
    <3>1. retry # <<>>
      BY <2>1, ConstantsAssumption DEF ConstantsAssumption
    <3>2. /\ Tail(retry) \in Seq([cmd : Cmd, to : Terminal])
          /\ Len(Tail(retry)) = Len(retry) - 1
          /\ \A i \in 1 .. Len(Tail(retry)) : Tail(retry)[i] = retry[i + 1]
      BY <1>2, <3>1, HeadTailProperties
    <3>3. Len(retry) \in Nat
      BY <1>2, LenProperties
    <3>4. QED
      BY <2>1, <3>2, <3>3 DEF ReportsAreReal
  <2>2. CASE Len(retry) # RetryMax
    BY <1>2, <2>2 DEF ReportsAreReal
  <2>3. QED
    BY <2>1, <2>2
<1>4. \A i \in 1 .. Len(Append(kept, [cmd |-> c, to |-> s])) :
          Append(kept, [cmd |-> c, to |-> s])[i].to = "done"
          => Append(kept, [cmd |-> c, to |-> s])[i].cmd \in Full
  <2>1. Len(kept) \in Nat
    BY <1>3, LenProperties
  <2>2. QED
    BY <1>2, <1>3, <2>1, AppendProperties
<1>5. QED
  BY <1>1, <1>4 DEF ReportTerminal, Push, ReportsAreReal

\* An append brings no DONE that is not real, whole or in part.
LEMMA WriteTells ==
    ASSUME TypeOK, DoneIsFull, NEW c \in Cmd, NEW s \in Entry, s = "DONE" => c \in Full
    PROVE  /\ DoneIn(Written(buf, c, s)) \subseteq Full
           /\ \A log \in Cut(buf, c, s) : DoneIn(log) \subseteq Full
<1>1. /\ \A d \in Cmd : Replay(buf, c, s)[d] = "DONE" => d \in Full
      /\ \A d \in Cmd : Readable(buf)[d] = "DONE" => d \in Full
  BY DEF Replay, Readable, DoneIsFull, DoneIn, TypeOK, LedgerTypeOK, Log
<1>2. DoneIn(Written(buf, c, s)) \subseteq Full
  BY <1>1 DEF DoneIn, Written, Whole
<1>3. \A log \in [map : {Readable(buf), Replay(buf, c, s)}, rest : {Readable(buf)}, torn : {TRUE}] : DoneIn(log) \subseteq Full
  BY <1>1 DEF DoneIn
<1>4. QED
  BY <1>2, <1>3 DEF Cut, DoneIsFull

LEMMA RecordTells ==
    ASSUME TypeOK, DoneIsFull, NEW c \in Cmd, NEW s \in Entry, s = "DONE" => c \in Full,
           Record(c, s) \/ RecordRaises(c, s), UNCHANGED poured
    PROVE  DoneIsFull'
<1>1. DoneIn(file') \subseteq Full /\ DoneIn(buf') \subseteq Full
  BY WriteTells DEF Record, RecordRaises, DoneIsFull
<1>2. \A d \in Cmd : index'[d] = "DONE" => d \in Full
  BY DEF Record, RecordRaises, DoneIsFull, TypeOK, LedgerTypeOK
<1>3. QED
  BY <1>1, <1>2 DEF DoneIsFull, DoneIn, Full

\* The steps after which no more is poured, recorded or reported than before.
LEMMA SuccessQuiet ==
    ASSUME SuccessInv, UNCHANGED <<ledgerVars, pub, poured>>,
           retry' \in {retry, <<>>},
           \A c \in Cmd : env'[c] = "done" => env[c] = "done" \/ c \in Full,
           pc' = "finish" => pc = "finish" /\ stage' = stage,
           pc' = "report" /\ res' = "done" =>
               cur' \in Full \/ (pc = "report" /\ res = "done" /\ cur' = cur)
    PROVE  SuccessInv'
BY EmptySeq DEF SuccessInv, SuccessIsReal, DoneIsFull, DoneIn, Full, ReportsAreReal, ledgerVars

\* Every action keeps SuccessInv.
LEMMA SuccessStep ==
    ASSUME TypeOK, StageInv, OnceInv, PourInv, SuccessInv, [Next]_vars
    PROVE  SuccessInv'
<1> USE DEF jobVars, history, PutDown
<1>1. CASE Boot
  BY <1>1 DEF Boot, Open, SuccessInv, SuccessIsReal, DoneIsFull, DoneIn, Full, ReportsAreReal
<1>2. ASSUME NEW c \in Cmd, RecoverReport(c) PROVE SuccessInv'
  <2>1. PICK v \in Verdicts : ReportTerminal(c, "failed", v)
    BY <1>2 DEF RecoverReport
  <2>2. /\ \A d \in Cmd : env'[d] = "done" => env[d] = "done" \/ d \in Full
        /\ \A i \in 1 .. Len(retry') : retry'[i].to = "done" => retry'[i].cmd \in Full
    BY <2>1, ReportTells DEF SuccessInv, Terminal
  <2>3. QED
    BY <1>2, <2>2
    DEF RecoverReport, Publish, SuccessInv, SuccessIsReal, DoneIsFull, DoneIn, Full, ReportsAreReal, ledgerVars, TypeOK
<1>3. CASE RecoverSettle
  <2>1. DoneIsFull'
    BY <1>3, RecordTells DEF RecoverSettle, SuccessInv, TypeOK, Entry, Started, Settled
  <2>2. QED
    BY <1>3, <2>1 DEF RecoverSettle, SuccessInv, SuccessIsReal, Full, ReportsAreReal
<1>4. ASSUME NEW c \in Cmd, RecoverClear(c) PROVE SuccessInv'
  <2>1. DoneIsFull'
    BY <1>4, RecordTells DEF RecoverClear, SuccessInv, Entry
  <2>2. QED
    BY <1>4, <2>1 DEF RecoverClear, SuccessInv, SuccessIsReal, Full, ReportsAreReal
<1>5. CASE BootCompact
  <2>1. DoneIsFull'
    BY <1>5 DEF BootCompact, Compact, CompactRaises, Whole, SuccessInv, DoneIsFull, DoneIn, Full
  <2>2. QED
    BY <1>5, <2>1 DEF BootCompact, SuccessInv, SuccessIsReal, Full, ReportsAreReal
<1>6. CASE RecoverDone \/ Snapshot \/ BeginStage \/ AbortStage \/ StageFails \/ EstopChange \/ Stop \/ UNCHANGED vars
  BY <1>6, SuccessQuiet DEF RecoverDone, Snapshot, BeginStage, AbortStage, StageFails, EstopChange, Stop, vars
<1>7. CASE \E c \in Cmd : Take(c)
  <2>1. PICK c \in Cmd : Take(c)
    BY <1>7
  <2>2. res' = "done" /\ pc' = "report" => cur' \in Full
    BY <2>1 DEF Take, TerminalOf, IsSettled, SuccessInv, DoneIsFull
  <2>3. QED
    BY <2>1, <2>2, SuccessQuiet DEF Take
<1>8. CASE \E v \in Verdicts : Deliver(v)
  <2>1. PICK v \in Verdicts : Deliver(v)
    BY <1>8
  <2>2. cur \in Cmd
    BY <2>1 DEF Deliver, TypeOK, Handling
  <2>3. \A d \in Cmd : env'[d] = "done" => env[d] = "done"
    BY <2>1, <2>2 DEF Deliver, Patch, Gate, TypeOK
  <2>4. QED
    BY <2>1, <2>3, SuccessQuiet DEF Deliver, AfterDelivered
<1>9. CASE Check
  <2>1. \A d \in Cmd : env'[d] = "done" => env[d] = "done"
    BY <1>9 DEF Check, Patch, Gate, TypeOK, Handling
  <2>2. QED
    BY <1>9, <2>1, SuccessQuiet DEF Check
<1>10. CASE Submit \/ Reject
  <2>1. CASE UNCHANGED ledgerVars
    BY <1>10, <2>1, SuccessQuiet DEF Submit, Resolve, Reject, FailedBy
  <2>2. CASE Record(cur, "RECEIVED") \/ RecordRaises(cur, "RECEIVED")
    <3>1. DoneIsFull'
      BY <1>10, <2>2, RecordTells DEF Submit, Resolve, Reject, SuccessInv, TypeOK, Handling, Entry
    <3>2. QED
      BY <1>10, <3>1 DEF Submit, Resolve, Reject, FailedBy, SuccessInv, SuccessIsReal, Full, ReportsAreReal
  <2>3. QED
    BY <1>10, <2>1, <2>2 DEF Submit, Resolve, Reject, FailedBy
<1>11. CASE Refuse \/ Start \/ Abort \/ Rescue
  <2>1. DoneIsFull'
    BY <1>11, RecordTells
    DEF Refuse, Start, Abort, Rescue, Settle, FailedBy, SuccessInv, TypeOK, Handling, Entry, Started, Settled
  <2>2. QED
    BY <1>11, <2>1
    DEF Refuse, Start, Abort, Rescue, Settle, FailedBy, Publish, SuccessInv, SuccessIsReal, Full, ReportsAreReal, TypeOK
<1>12. CASE StageDone
  <2>1. cur \in Cmd /\ poured[cur] = stage /\ stage < NStages /\ poured' = [poured EXCEPT ![cur] = stage + 1]
    BY <1>12 DEF StageDone, TypeOK, Handling, StageInv, PourInv, Working
  <2>2. Full \subseteq Full' /\ \A c \in Full : pub'[c] = pub[c]
    BY <1>12, <2>1 DEF StageDone, Publish, Full, TypeOK
  <2>3. QED
    BY <1>12, <2>1, <2>2
    DEF StageDone, LastStage, Publish, SuccessInv, SuccessIsReal, DoneIsFull, DoneIn, Full, ReportsAreReal, ledgerVars, TypeOK
<1>13. CASE Finish
  <2>1. cur \in Full
    BY <1>13 DEF Finish, SuccessInv, ReportsAreReal, PourInv, Working, TypeOK, Handling, Full
  <2>2. DoneIsFull'
    BY <1>13, <2>1, RecordTells DEF Finish, Settle, SuccessInv, TypeOK, Handling, Entry, Started, Settled
  <2>3. QED
    BY <1>13, <2>1, <2>2 DEF Finish, Settle, Publish, SuccessInv, SuccessIsReal, Full, ReportsAreReal, TypeOK
<1>14. ASSUME NEW v \in Verdicts, Report(v) PROVE SuccessInv'
  <2>1. PICK c \in Cmd, s \in Terminal : c = cur /\ s = res
    BY <1>14 DEF Report, TypeOK, Handling
  <2>2. s = "done" => c \in Full
    BY <1>14, <2>1 DEF Report, SuccessInv, ReportsAreReal
  <2>3. ReportTerminal(c, s, v)
    BY <1>14, <2>1 DEF Report, ReportTerminal, Patch, Gate, Accepts
  <2>4. /\ \A d \in Cmd : env'[d] = "done" => env[d] = "done" \/ d \in Full
        /\ \A i \in 1 .. Len(retry') : retry'[i].to = "done" => retry'[i].cmd \in Full
    BY <2>2, <2>3, ReportTells DEF SuccessInv
  <2>5. QED
    BY <1>14, <2>4
    DEF Report, SuccessInv, SuccessIsReal, DoneIsFull, DoneIn, Full, ReportsAreReal, ledgerVars
<1>15. ASSUME NEW v \in Verdicts, FlushRetry(v) PROVE SuccessInv'
  <2>1. retry \in Seq([cmd : Cmd, to : Terminal]) /\ retry # <<>>
    BY <1>15 DEF FlushRetry, TypeOK
  <2>2. PICK c \in Cmd, s \in Status : c = Head(retry).cmd /\ s = Head(retry).to
    <3>1. Head(retry) \in [cmd : Cmd, to : Terminal]
      BY <2>1, HeadTailProperties
    <3>2. QED
      BY <3>1 DEF Status
  <2>3. s = "done" => c \in Full
    BY <2>1, <2>2, LenProperties, HeadTailProperties DEF SuccessInv, ReportsAreReal
  <2>4. Patch(c, s, v)
    BY <1>15, <2>2 DEF FlushRetry, Patch, Gate, Accepts
  <2>5. \A d \in Cmd : env'[d] = "done" => env[d] = "done" \/ d \in Full
    BY <2>3, <2>4, PatchTells
  <2>6. \A i \in 1 .. Len(retry') : retry'[i].to = "done" => retry'[i].cmd \in Full
    <3>1. /\ Len(Tail(retry)) = Len(retry) - 1
          /\ \A i \in 1 .. Len(Tail(retry)) : Tail(retry)[i] = retry[i + 1]
          /\ Len(retry) \in Nat
      BY <2>1, HeadTailProperties, LenProperties
    <3>2. QED
      BY <1>15, <3>1 DEF FlushRetry, SuccessInv, ReportsAreReal
  <2>7. QED
    BY <1>15, <2>5, <2>6
    DEF FlushRetry, SuccessInv, SuccessIsReal, DoneIsFull, DoneIn, Full, ReportsAreReal, ledgerVars
<1>16. CASE \E c \in Cmd : Cancel(c) \/ Reclaim(c)
  <2>1. \A d \in Cmd : env'[d] = "done" => env[d] = "done"
    BY <1>16 DEF Cancel, Reclaim, TypeOK
  <2>2. QED
    BY <1>16, <2>1, SuccessQuiet DEF Cancel, Reclaim
<1>17. CASE Exit
  <2>1. DoneIsFull'
    BY <1>17 DEF Exit, Close, Unseen, SuccessInv, DoneIsFull, DoneIn, Full
  <2>2. QED
    BY <1>17, <2>1, EmptySeq DEF Exit, SuccessInv, SuccessIsReal, Full, ReportsAreReal
<1>18. CASE Crash
  <2>1. pc # "down" /\ DoneIsFull /\ DoneIn(file) \subseteq Full
    BY <1>18 DEF Crash, SuccessInv, DoneIsFull
  <2>2. ASSUME NEW w \in Writing
        PROVE  w[1] \in Cmd /\ w[2] \in Entry /\ (w[2] = "DONE" => w[1] \in Full)
    <3>1. w \in Cmd \X Entry /\ (w[2] = "DONE" => pc = "finish" /\ w[1] = cur)
      BY <2>2 DEF Writing
    <3>2. pc = "finish" => cur \in Full
      BY DEF SuccessInv, ReportsAreReal, PourInv, Working, TypeOK, Handling, Full
    <3>3. QED
      BY <3>1, <3>2
  <2>3. ASSUME NEW w \in Writing
        PROVE  /\ DoneIn(Written(buf, w[1], w[2])) \subseteq Full
               /\ \A log \in Cut(buf, w[1], w[2]) : DoneIn(log) \subseteq Full
    BY <2>1, <2>2, WriteTells
  <2>4. \A log \in Remains : DoneIn(log) \subseteq Full
    BY <2>1, <2>3 DEF Remains
  <2>5. DoneIn(file') \subseteq Full /\ DoneIn(buf') \subseteq Full
    BY <1>18, <2>4 DEF Crash, Die
  <2>6. QED
    BY <1>18, <2>5, EmptySeq
    DEF Crash, Die, Unseen, SuccessInv, SuccessIsReal, DoneIsFull, DoneIn, Full, ReportsAreReal
<1>19. QED
  BY <1>1, <1>2, <1>3, <1>4, <1>5, <1>6, <1>7, <1>8, <1>9, <1>10, <1>11, <1>12, <1>13, <1>14, <1>15, <1>16, <1>17, <1>18
  DEF Next, Recover, Consume

\* No report, retry or re-report after a restart tells the server "done", or
\* the order COMPLETED, for a command that was not poured to its last stage.
THEOREM SuccessWasPoured == Spec => []SuccessIsReal
<1>1. Init => SuccessInv
  BY ConstantsAssumption, EmptySeq
  DEF Init, LedgerInit, Whole, Unseen, SuccessInv, SuccessIsReal, DoneIsFull, DoneIn, ReportsAreReal
<1>2. TypeOK /\ StageInv /\ OnceInv /\ PourInv /\ SuccessInv /\ [Next]_vars => SuccessInv'
  BY SuccessStep
<1>3. SuccessInv => SuccessIsReal
  BY DEF SuccessInv
<1>4. QED
  BY <1>1, <1>2, <1>3, TypeCorrect, OnceInvariant, PourInvariant, PTL DEF Spec
=============================================================================

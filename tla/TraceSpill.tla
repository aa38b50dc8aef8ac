----------------------------- MODULE TraceSpill -----------------------------
(***************************************************************************)
(* Log records on their way to the server: a bounded buffer in memory, the *)
(* batches a flush takes out of it, and the spill file for what could not  *)
(* be sent.  A drain reads the file, sends without the lock, and removes   *)
(* what it sent from a file that others have appended to and trimmed.      *)
(*                                                                         *)
(* Records are numbered as they are logged.  A batch is one record.  An    *)
(* append may be cut short at any byte, by the disk or by a kill: its last *)
(* line may lack its end, and what is appended next is glued to it.  Left  *)
(* out are an OSError while the file is read, and a rename that a power    *)
(* cut undoes.                                                             *)
(***************************************************************************)
EXTENDS Naturals, SequencesExt, FiniteSetsExt

CONSTANTS
    MaxRecords, \* bound: records that are logged
    BufferCap,  \* _LOG_TRACE_BUFFER_CAP
    MaxSpans,   \* max_spans of the file
    Slack,      \* _TRIM_SLACK
    ShipMax,    \* max_batches of the drain in front of a shipment
    MaxBad,     \* bound: writes and rewrites that fail, and kills
    Nobody

VARIABLES
    logged,  \* records logged so far
    buffer,  \* _trace_buffer
    carry,   \* overflow of the buffer, on its way to the file (bound: one)
    file,    \* the lines of the spill: the number of a record, or Broken
    end,     \* of the file: its last line is whole, lacks its newline, or was
             \* cut inside a character, and the file no longer decodes
    count,   \* _count, read again before its first use; Nobody: not readable
    lost,    \* _dropped, and what the server has been told of it
    trimmed, \* _front_trimmed
    flusher, \* per thread: where it is, and the records it holds
    drain,   \* the drain: its thread, snapshot, lines consumed, batches left
    sent,    \* records the server has
    cut,     \* history: records trimmed off the file or refused by the disk
    glued,   \* history: records that share a line with another, both unreadable
    died,    \* history: records that a process which was killed took along
    bad      \* bound used up

spillVars == <<file, end, count, lost, trimmed, cut, glued, bad>>
vars == <<logged, buffer, carry, spillVars, flusher, drain, sent, died>>

Threads == {"sender", "main"}
Records == 1 .. MaxRecords
Half == BufferCap \div 2
Broken == 0
Ends == {"whole", "half", "garbled"}
At(t, at, held) == flusher' = [flusher EXCEPT ![t] = [at |-> at, held |-> held]]
Idle == [by |-> Nobody, lines |-> <<>>, consumed |-> 0, left |-> 0]

Init ==
    /\ logged = 0 /\ buffer = <<>> /\ carry = <<>>
    /\ file = <<>> /\ end = "whole" /\ count = 0 /\ glued = {}
    /\ lost = [dropped |-> 0, told |-> 0] /\ trimmed = 0
    /\ flusher = [t \in Threads |-> [at |-> "rest", held |-> <<>>]]
    /\ drain = Idle
    /\ sent = {} /\ cut = {} /\ died = {} /\ bad = 0

-----------------------------------------------------------------------------
(* The file.                                                               *)

\* A fault of the disk, of those the bound allows.
Fault == bad < MaxBad /\ bad' = bad + 1

\* Lines after the last one of the file, which swallows the first of them if it
\* lacks its end: json.loads can read neither.
Glues(more) == end = "half" /\ more # <<>>
Joined(more) ==
    IF Glues(more) THEN [file EXCEPT ![Len(file)] = Broken] \o Tail(more) ELSE file \o more
Swallowed(more) == IF Glues(more) THEN {Last(file), Head(more)} \ {Broken} ELSE {}

\* A write that is cut short: some of the lines, the last one perhaps without
\* its newline, or the beginning of one more.
Put(more, last) ==
    /\ file' = Joined(more)
    /\ end' = IF end = "garbled" \/ more = <<>> THEN end ELSE last
    /\ glued' = glued \cup Swallowed(more)
CutShort(records) ==
    \/ \E k \in 0 .. Len(records), last \in {"whole", "half"} : Put(SubSeq(records, 1, k), last)
    \/ \E k \in 0 .. Len(records) - 1, last \in {"half", "garbled"} :
            Put(Append(SubSeq(records, 1, k), Broken), last)

\* _trim_locked, if the count is over the bound and the file can be read: how
\* many of the lines at its front are too many.
Trims(records) == count + Len(records) > MaxSpans + Slack /\ end # "garbled"
TooMany(lines) == IF Len(lines) > MaxSpans THEN Len(lines) - MaxSpans ELSE 0

\* append(): all records are written, then the front is trimmed.  What is
\* trimmed has been counted when the rewrite fails.
Written(records) ==
    LET lines == Joined(records)
        n == IF Trims(records) THEN TooMany(lines) ELSE 0
    IN /\ \/ file' = SubSeq(lines, n + 1, Len(lines)) /\ UNCHANGED bad
          \/ n > 0 /\ file' = lines /\ Fault
       /\ end' = IF end = "garbled" THEN end ELSE "whole"
       /\ glued' = glued \cup Swallowed(records)
       /\ count' = IF Trims(records) THEN Len(file') ELSE count + Len(records)
       /\ trimmed' = trimmed + n
       /\ lost' = [lost EXCEPT !.dropped = @ + n]
       /\ cut' = cut \cup ToSet(SubSeq(lines, 1, n))

\* append(), when the disk is full or read-only: the batch is counted, whatever
\* part of it was written.
NotWritten(records) ==
    /\ Fault /\ CutShort(records)
    /\ lost' = [lost EXCEPT !.dropped = @ + Len(records)]
    /\ cut' = cut \cup ToSet(records)
    /\ UNCHANGED <<count, trimmed>>

\* A count that cannot be read raises, and what _ship_log then counts itself goes
\* the same way.
Spilled(records) ==
    IF records = <<>> \/ count = Nobody THEN UNCHANGED spillVars
    ELSE Written(records) \/ NotWritten(records)

-----------------------------------------------------------------------------
(* Loggers.                                                                *)

\* _buffer_trace, and _ship_log while there is room, only append; in _ship_log
\* the older half of a full buffer goes to the file, outside the lock of the
\* buffer.
Log ==
    /\ logged < MaxRecords
    /\ logged' = logged + 1
    /\ \/ buffer' = Append(buffer, logged') /\ UNCHANGED carry
       \/ /\ Len(buffer) >= BufferCap /\ carry = <<>>
          /\ carry' = SubSeq(buffer, 1, Half)
          /\ buffer' = SubSeq(buffer, Half + 1, Len(buffer)) \o <<logged'>>
    /\ UNCHANGED <<spillVars, flusher, drain, sent, died>>

\* spill_traces.
Overflow ==
    /\ carry # <<>> /\ carry' = <<>>
    /\ Spilled(carry)
    /\ UNCHANGED <<logged, buffer, flusher, drain, sent, died>>

-----------------------------------------------------------------------------
(* Flushes: the sender, and shutdown() on the consuming thread.            *)

\* _flush_traces takes the buffer; ship_trace drains a file that is not empty
\* first.  A count that cannot be read raises, and what was taken is lost.
TakeBuffer(t) ==
    /\ flusher[t].at = "rest" /\ buffer # <<>>
    /\ buffer' = <<>>
    /\ IF count = Nobody THEN UNCHANGED flusher
       ELSE At(t, IF count > 0 THEN "drain" ELSE "ship", buffer)
    /\ UNCHANGED <<logged, carry, spillVars, drain, sent, died>>

\* _flush_trace_spill, by the clock of the sender.
Tick ==
    /\ flusher["sender"].at = "rest"
    /\ At("sender", "flush", <<>>)
    /\ UNCHANGED <<logged, buffer, carry, spillVars, drain, sent, died>>

\* drain(), its snapshot: one drain at a time; an empty file ends it.  A file
\* that does not decode raises, here and in every later read.
Snapshot(t) ==
    /\ flusher[t].at \in {"drain", "flush"} /\ drain.by = Nobody
    /\ IF end = "garbled" THEN At(t, "rest", <<>>) /\ UNCHANGED <<count, trimmed, drain>>
       ELSE /\ trimmed' = 0 /\ count' = Len(file)
            /\ IF file = <<>>
               THEN At(t, "tell", flusher[t].held) /\ UNCHANGED drain
               ELSE /\ drain' = [by |-> t, lines |-> file, consumed |-> 0,
                                 left |-> IF flusher[t].at = "drain" THEN ShipMax ELSE Len(file)]
                    /\ UNCHANGED flusher
    /\ UNCHANGED <<logged, buffer, carry, file, end, lost, cut, glued, bad, sent, died>>

More == drain.consumed < Len(drain.lines) /\ drain.left > 0

ThisLine == drain.lines[drain.consumed + 1]

\* A batch of the drain, sent without the lock; a broken line is skipped.
DrainBatch ==
    /\ drain.by # Nobody /\ More
    /\ sent' = sent \cup ({ThisLine} \ {Broken})
    /\ drain' = [drain EXCEPT !.consumed = @ + 1, !.left = @ - 1]
    /\ UNCHANGED <<logged, buffer, carry, spillVars, flusher, died>>

\* A batch that fails ends the sending.
DrainFails ==
    /\ drain.by # Nobody /\ More /\ ThisLine # Broken
    /\ drain' = [drain EXCEPT !.left = 0]
    /\ UNCHANGED <<logged, buffer, carry, spillVars, flusher, sent, died>>

\* Mutant: what was trimmed meanwhile is removed a second time.
AsManyAsSent == Min({drain.consumed, Len(file)})

\* The lines to remove: those sent, less those a trim has removed since.
ToRemove ==
    Min({IF drain.consumed > trimmed THEN drain.consumed - trimmed ELSE 0, Len(file)})

\* The file is rewritten without them, if there are any; a rewrite that fails
\* leaves it, and the count is lowered all the same.
Rewrite ==
    /\ count' = Len(file) - ToRemove
    /\ \/ file' = SubSeq(file, ToRemove + 1, Len(file)) /\ end' = "whole" /\ UNCHANGED bad
       \/ Fault /\ UNCHANGED <<file, end>>

DrainEnds ==
    /\ drain.by # Nobody /\ ~More
    /\ drain' = Idle
    /\ IF drain.consumed > 0 /\ end # "garbled" THEN Rewrite ELSE UNCHANGED <<file, end, count, bad>>
    /\ IF drain.consumed > 0 /\ end = "garbled" THEN At(drain.by, "rest", <<>>)
       ELSE At(drain.by, "tell", flusher[drain.by].held)
    /\ UNCHANGED <<logged, buffer, carry, lost, trimmed, cut, glued, sent, died>>

\* pop_dropped and the warning to the server; restore_dropped when it fails.
\* ship_trace goes on only if the file is empty now, by its count.
Tell(t) ==
    /\ flusher[t].at = "tell"
    /\ \/ lost' = [dropped |-> 0, told |-> lost.told + lost.dropped]
       \/ lost.dropped > 0 /\ UNCHANGED lost
    /\ At(t, IF flusher[t].held = <<>> THEN "rest"
             ELSE IF count > 0 THEN "append" ELSE "ship", flusher[t].held)
    /\ UNCHANGED <<logged, buffer, carry, file, end, count, trimmed, cut, glued, bad, drain, sent, died>>

\* The file is still not empty.
AppendHeld(t) ==
    /\ flusher[t].at = "append"
    /\ Spilled(flusher[t].held)
    /\ At(t, "rest", <<>>)
    /\ UNCHANGED <<logged, buffer, carry, drain, sent, died>>

\* A chunk is sent, or it and all that follow go to the file.
Ship(t) ==
    /\ flusher[t].at = "ship"
    /\ \/ /\ sent' = sent \cup {Head(flusher[t].held)}
          /\ At(t, IF Len(flusher[t].held) = 1 THEN "rest" ELSE "ship", Tail(flusher[t].held))
          /\ UNCHANGED spillVars
       \/ Spilled(flusher[t].held) /\ At(t, "rest", <<>>) /\ UNCHANGED sent
    /\ UNCHANGED <<logged, buffer, carry, drain, died>>

-----------------------------------------------------------------------------
\* The records a thread may be appending.
InAppend == {carry} \cup {flusher[t].held : t \in {u \in Threads : flusher[u].at \in {"append", "ship"}}}

\* A kill or a power cut, perhaps inside an append: memory is gone, the file
\* stays, and what was counted but not told is forgotten.
Kill ==
    /\ Fault
    /\ \E records \in InAppend : CutShort(records)
    /\ count' = IF end' = "garbled" THEN Nobody ELSE Len(file')
    /\ died' = (1 .. logged) \ (sent \cup ToSet(file'))
    /\ buffer' = <<>> /\ carry' = <<>>
    /\ lost' = [lost EXCEPT !.dropped = 0] /\ trimmed' = 0
    /\ flusher' = [t \in Threads |-> [at |-> "rest", held |-> <<>>]]
    /\ drain' = Idle
    /\ UNCHANGED <<logged, sent, cut>>

Next ==
    \/ Log \/ Overflow \/ Tick
    \/ \E t \in Threads : TakeBuffer(t) \/ Snapshot(t) \/ Tell(t) \/ AppendHeld(t) \/ Ship(t)
    \/ DrainBatch \/ DrainFails \/ DrainEnds
    \/ Kill

Spec == Init /\ [][Next]_vars

-----------------------------------------------------------------------------
(* Properties.                                                             *)

\* While nothing has failed the file keeps its bound and its count is right.  (The
\* buffer has none: _buffer_trace does not look at the cap.)
TypeOK ==
    /\ logged \in 0 .. MaxRecords /\ sent \cup glued \subseteq Records
    /\ cut \subseteq Records \cup {Broken}
    /\ end \in Ends /\ count \in Nat \cup {Nobody} /\ drain.by \in Threads \cup {Nobody}
    /\ bad = 0 => end = "whole" /\ count = Len(file) /\ Len(file) <= MaxSpans + Slack

Somewhere == ToSet(buffer) \cup ToSet(carry) \cup ToSet(file)
         \cup UNION {ToSet(flusher[t].held) : t \in Threads}
Gone == (1 .. logged) \ (Somewhere \cup sent \cup died)

\* No record disappears unless a trim or the disk took it and counted it, or
\* the process died with it: a drain never removes a line it has not sent,
\* whatever was appended, trimmed or left by a failed rewrite while it was
\* sending.  The exceptions are two records for each write that was cut short,
\* glued together by the next one, and a file that no longer decodes.
NothingLostInSilence ==
    /\ end # "garbled" =>
         /\ Gone \ glued \subseteq cut
         /\ Cardinality(Gone \ glued) <= lost.dropped + lost.told
    /\ Cardinality(glued) <= 2 * bad

\* What trace_spill.py promises, "no silent loss"; a line that is glued to a torn one
\* and a file that does not decode refute it.
EveryLossIsCounted == Gone \subseteq cut /\ Cardinality(Gone) <= lost.dropped + lost.told
=============================================================================

------------------------------- MODULE Ledger -------------------------------
(***************************************************************************)
(* FileIdempotencyLedger (persistence/file_idempotency_ledger.py): the     *)
(* append-only JSON-lines log that decides whether a command has been seen *)
(* and what a restart finds.                                               *)
(*                                                                         *)
(* A log is represented by what open() would replay from it.  "torn" says  *)
(* that its last line has no newline (the power went during a write), and  *)
(* "rest" is what replay returns once that line is unreadable: the code    *)
(* never ends such a line, so the next record is glued to it and one       *)
(* json.loads fails for both.                                              *)
(*                                                                         *)
(* "buf" is the log as it will be once the write buffer of the handle is   *)
(* flushed: a record whose append raised stays in the buffer and reaches   *)
(* the disk with a later one.                                              *)
(***************************************************************************)
EXTENDS Naturals

CONSTANT Cmd      \* the idempotency keys "{orderId}:{attempt}"

VARIABLES index,  \* _index: the state of each key in memory
          file,   \* the log on the disk
          buf,    \* the log once the buffered bytes are flushed
          handle  \* _fh

ledgerVars == <<index, file, buf, handle>>

Settled == {"DONE", "FAILED"}
Started == {"RUNNING"} \cup Settled
Entry == {"none", "RECEIVED"} \cup Started

Unseen == [c \in Cmd |-> "none"]
Log == [map : [Cmd -> Entry], rest : [Cmd -> Entry], torn : BOOLEAN]

\* A log whose lines are all ended: nothing of it can become unreadable.
Whole(m) == [map |-> m, rest |-> m, torn |-> FALSE]

\* Mutant: the first record of a key wins.
FirstWins(log, c, s) ==
    IF log.torn THEN log.rest ELSE [log.map EXCEPT ![c] = IF @ = "none" THEN s ELSE @]

\* What replay returns after one more line for key c; "none" is the CLEARED
\* marker.  Glued to a torn line, the new record is lost along with it.
Replay(log, c, s) == IF log.torn THEN log.rest ELSE [log.map EXCEPT ![c] = s]

\* The log after a complete line.
Written(log, c, s) == Whole(Replay(log, c, s))

\* What a write that is cut short can leave: nothing, a fragment, the record
\* without its newline, or all of it.
Readable(log) == IF log.torn THEN log.rest ELSE log.map
Cut(log, c, s) ==
    {file, log, Written(log, c, s)} \cup
    [map : {Readable(log), Replay(log, c, s)}, rest : {Readable(log)}, torn : {TRUE}]

-----------------------------------------------------------------------------
LedgerTypeOK ==
    /\ index \in [Cmd -> Entry]
    /\ file \in Log
    /\ buf \in Log
    /\ handle \in {"none", "open", "broken"}

\* The daemon is down and the log is empty.
LedgerInit ==
    /\ index = Unseen
    /\ file = Whole(Unseen)
    /\ buf = Whole(Unseen)
    /\ handle = "none"

\* open(): replay the log, then append to it.
Open ==
    /\ handle = "none"
    /\ index' = file.map
    /\ buf' = file
    /\ handle' = "open"
    /\ UNCHANGED file

\* write, flush, fsync, then the index (check_and_claim, mark_running,
\* mark_settled; clear with s = "none").
Record(c, s) ==
    /\ handle = "open"
    /\ file' = Written(buf, c, s)
    /\ buf' = Written(buf, c, s)
    /\ index' = [index EXCEPT ![c] = s]
    /\ UNCHANGED handle

\* The write, the flush or the fsync raises: the index does not move, the
\* record is in the buffer and any part of it may be on the disk.
RecordRaises(c, s) ==
    /\ \/ /\ handle = "open"
          /\ file' \in Cut(buf, c, s)
          /\ buf' = Written(buf, c, s)
       \/ /\ handle = "broken"
          /\ UNCHANGED <<file, buf>>
    /\ UNCHANGED <<index, handle>>

\* compact(): the index goes to a temporary file that replaces the log.
Compact ==
    /\ handle = "open"
    /\ file' = Whole(index)
    /\ buf' = Whole(index)
    /\ UNCHANGED <<index, handle>>

\* compact() raises: before the handle is closed nothing has happened; from
\* there on the handle stays closed, whichever log is in place.
CompactRaises ==
    /\ handle = "open"
    /\ \/ UNCHANGED <<file, handle>>
       \/ /\ file' \in {file, buf, Whole(index)}
          /\ handle' = "broken"
    /\ UNCHANGED <<index, buf>>

\* close() at a shutdown flushes the buffer; the process ends.
Close ==
    /\ handle # "none"
    /\ file' = IF handle = "open" THEN buf ELSE file
    /\ handle' = "none"
    /\ index' = Unseen
    /\ buf' = file'

\* The process dies and leaves the given log.
Die(log) ==
    /\ file' = log
    /\ buf' = log
    /\ index' = Unseen
    /\ handle' = "none"

-----------------------------------------------------------------------------
\* The ledger under any client: every call in any order, and the process dies
\* at any time, inside an append included.
LedgerNext ==
    \/ Open \/ Compact \/ CompactRaises \/ Close
    \/ handle # "none" /\ Die(file)
    \/ \E c \in Cmd, s \in Entry :
          \/ Record(c, s)
          \/ RecordRaises(c, s)
          \/ handle = "open" /\ \E log \in Cut(buf, c, s) : Die(log)

LedgerSpec == LedgerInit /\ [][LedgerNext]_ledgerVars
=============================================================================

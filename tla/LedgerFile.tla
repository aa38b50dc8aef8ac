----------------------------- MODULE LedgerFile -----------------------------
(***************************************************************************)
(* The ledger's log line by line: append, replay, compaction through a     *)
(* temporary file, and a power cut at any point of them.  Writes do not    *)
(* raise here (Ledger has those).                                          *)
(***************************************************************************)
EXTENDS Naturals, SequencesExt

CONSTANTS Cmd,
          Junk,      \* a line json.loads cannot parse
          MaxLines   \* bound on the length of the log

VARIABLES lines,   \* the lines of the file
          open,    \* the last line has no newline
          tmp,     \* the temporary file of compact()
          index,   \* _index
          handle   \* "none", "open", or "compacting" up to the replace

vars == <<lines, open, tmp, index, handle>>

Entry == {"none", "RECEIVED", "RUNNING", "DONE", "FAILED"}
Line == [cmd : Cmd, st : Entry]
Unseen == [c \in Cmd |-> "none"]

\* Mutant: an unreadable line ends the replay.
StopAtJunk(seq) ==
    LET upto == {i \in 0 .. Len(seq) : \A j \in 1 .. i : seq[j] # Junk}
        n == CHOOSE i \in upto : \A j \in upto : j <= i
    IN FoldLeft(LAMBDA m, l : [m EXCEPT ![l.cmd] = l.st], Unseen, SubSeq(seq, 1, n))

\* The replay loop of open(): the last readable record of a key wins, the
\* CLEARED marker ("none") removes it.
Replay(seq) == FoldLeft(LAMBDA m, l : IF l = Junk THEN m ELSE [m EXCEPT ![l.cmd] = l.st], Unseen, seq)

\* The bytes of a line, or the first part of them, written in append mode: an
\* unterminated line is continued and can no longer be parsed.
Extend(seq, line) == IF open THEN Front(seq) \o <<Junk>> ELSE Append(seq, line)

\* The lines compact() writes: every key the index holds, in some order.
Compacted ==
    LET known == {c \in Cmd : index[c] # "none"}
        seq == SetToSeq(known)
    IN [i \in 1 .. Len(seq) |-> [cmd |-> seq[i], st |-> index[seq[i]]]]

Init ==
    /\ lines = <<>> /\ tmp = <<>> /\ open = FALSE
    /\ index = Unseen /\ handle = "none"

Open ==
    /\ handle = "none"
    /\ index' = Replay(lines)
    /\ handle' = "open"
    /\ UNCHANGED <<lines, open, tmp>>

\* _append and clear.
Record(c, s) ==
    /\ handle = "open"
    /\ Len(lines) < MaxLines
    /\ lines' = Extend(lines, [cmd |-> c, st |-> s])
    /\ open' = FALSE
    /\ index' = [index EXCEPT ![c] = s]
    /\ UNCHANGED <<tmp, handle>>

\* compact(): the temporary file is complete before it replaces the log.
CompactWrite ==
    /\ handle = "open"
    /\ tmp' = Compacted
    /\ handle' = "compacting"
    /\ UNCHANGED <<lines, open, index>>

CompactSwap ==
    /\ handle = "compacting"
    /\ lines' = tmp
    /\ open' = FALSE
    /\ tmp' = <<>>
    /\ handle' = "open"
    /\ UNCHANGED index

Gone ==
    /\ index' = Unseen /\ tmp' = <<>>
    /\ handle' = "none"

\* The process ends or dies between two writes.
Die ==
    /\ handle # "none"
    /\ Gone
    /\ UNCHANGED <<lines, open>>

\* The power goes inside an append: a fragment, a record without its newline,
\* or the whole line is left.
DieWriting(c, s) ==
    /\ handle = "open"
    /\ Len(lines) < MaxLines
    /\ \/ lines' = Extend(lines, Junk) /\ open' = TRUE
       \/ lines' = Extend(lines, [cmd |-> c, st |-> s]) /\ open' \in BOOLEAN
    /\ Gone

Next ==
    \/ Open \/ CompactWrite \/ CompactSwap \/ Die
    \/ \E c \in Cmd, s \in Entry : Record(c, s) \/ DieWriting(c, s)

Spec == Init /\ [][Next]_vars

-----------------------------------------------------------------------------
\* The log as Ledger sees it.
Abstract ==
    [map |-> Replay(lines),
     rest |-> Replay(IF open THEN Front(lines) ELSE lines),
     torn |-> open]

L == INSTANCE Ledger WITH
        file <- Abstract, buf <- Abstract,
        handle <- IF handle = "compacting" THEN "open" ELSE handle

\* Replaying the lines gives what Ledger says a restart finds, after every
\* append, torn write and compaction, with a crash at any point of them.
ImplementsLedger == L!LedgerSpec
=============================================================================

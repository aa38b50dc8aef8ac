---------------------------- MODULE CommandStream ----------------------------
(***************************************************************************)
(* How long the daemon can be deaf.  One thread opens the SSE stream,      *)
(* reads snapshots and works on their items; a watchdog thread closes a    *)
(* stream that brings no line, the reader leaves one that is too old, and  *)
(* the loop opens the next, later after an error.                          *)
(*                                                                         *)
(* Time goes in ticks of 15 s, the period of the server's heartbeat (a     *)
(* comment line) and of the watchdog.  What a stream is worth is the       *)
(* environment's choice:                                                   *)
(*   live     every change is pushed, a comment comes each tick            *)
(*   zombie   comments only                                                *)
(*   trickle  bytes, but never a whole line                                *)
(*   dead     nothing                                                      *)
(***************************************************************************)
EXTENDS Naturals, Sequences, FiniteSets

CONSTANTS
    Envelopes,   \* what the server may issue
    AgeLimit,    \* MAX_STREAM_AGE_S
    ReadTimeout, \* DEFAULT_SSE_TIMEOUT_SECONDS
    StaleLimit,  \* WATCHDOG_STALE_LIMIT_S
    ServerLife,  \* external: the server ends a stream of this age
    MaxWait,     \* the limit of the backoff
    MaxExponent, \* external: the last power of two a float holds (1023)
    MaxJob,      \* bound: ticks one item takes
    MaxFaults    \* bound: streams that go bad, connections that fail

VARIABLES
    issued,  \* envelopes the server has queued or delivered
    handled, \* envelopes the dispatcher has dealt with
    stream,  \* the open stream: see NoStream
    loop,    \* the consuming loop
    stop,    \* _stop
    faults   \* faults so far

vars == <<issued, handled, stream, loop, stop, faults>>

\* age, and ticks since the reader took a line and since a byte came.
NoStream == [kind |-> "none", age |-> 0, quiet |-> 0, silent |-> 0,
             inbox |-> <<>>, closed |-> FALSE]
Kinds == {"live", "zombie", "trickle", "dead"}
Idle == [pc |-> "idle", wait |-> 0, errors |-> 0, batch |-> {}, busy |-> 0]
Faulty == faults < MaxFaults

\* Mutant: the watchdog watches nothing.
NeverStale(quiet) == FALSE

\* _is_stale
Stale(quiet) == quiet > StaleLimit

-----------------------------------------------------------------------------
(* The consuming loop.                                                     *)

Ticks(seconds) == (seconds + 14) \div 15

\* _error_backoff_s: seconds doubled by every error in a row, and limited.
Backoff(errors) == IF Ticks(2 ^ errors) \in 0 .. MaxWait THEN Ticks(2 ^ errors) ELSE MaxWait

\* The generator is closed; an error makes the loop wait, whatever was handled
\* before it, and a normal end lets it go on (the poll interval is no tick).
\* The power is taken before it is compared with the limit: one error too many
\* raises OverflowError, which nothing catches; boot's finally shuts down.
AfterError ==
    LET errors == loop.errors + 1
    IN  IF errors > MaxExponent THEN [Idle EXCEPT !.pc = "died"]
        ELSE [Idle EXCEPT !.errors = errors, !.wait = Backoff(errors)]
Ended(error) == IF error THEN AfterError ELSE Idle

Due == loop.pc = "idle" /\ (loop.wait = 0 \/ stop)

\* poll_batches opens the stream; the server sends a snapshot at once.
Connect ==
    /\ Due /\ ~stop
    /\ \/ \E kind \in IF Faulty THEN Kinds ELSE {"live"} :
            /\ stream' = [NoStream EXCEPT !.kind = kind,
                            !.inbox = IF kind = "live" THEN <<issued>> ELSE <<>>]
            /\ faults' = IF kind = "live" THEN faults ELSE faults + 1
            /\ loop' = [loop EXCEPT !.pc = "reading", !.wait = 0]
       \/ /\ Faulty /\ faults' = faults + 1
          /\ loop' = AfterError
          /\ UNCHANGED stream
    /\ UNCHANGED <<issued, handled, stop>>

\* The loop ends, and the daemon shuts down.
End ==
    /\ Due /\ stop
    /\ loop' = [Idle EXCEPT !.pc = "ended"]
    /\ UNCHANGED <<issued, handled, stream, stop, faults>>

\* systemd starts a process that died again; a stop is the end of both.
StartAgain ==
    /\ loop.pc = "died"
    /\ loop' = [Idle EXCEPT !.pc = IF stop THEN "ended" ELSE "idle"]
    /\ UNCHANGED <<issued, handled, stream, stop, faults>>

\* _snapshots: on an event, and only then, stop and the age are looked at; the
\* event that ends the stream is not worked on.
Event ==
    /\ loop.pc = "reading" /\ ~stream.closed /\ stream.inbox # <<>>
    /\ IF stop \/ stream.age > AgeLimit
       THEN stream' = NoStream /\ loop' = Ended(FALSE)
       ELSE /\ stream' = [stream EXCEPT !.inbox = Tail(@), !.quiet = 0, !.silent = 0]
            /\ loop' = [loop EXCEPT !.pc = "items", !.batch = Head(stream.inbox), !.busy = 0]
    /\ UNCHANGED <<issued, handled, stop, faults>>

\* poll_stream: one item of the batch, or the batch is through.  An exception
\* of an item is swallowed.
Item ==
    /\ loop.pc = "items"
    /\ IF loop.batch = {}
       THEN loop' = [loop EXCEPT !.pc = "reading", !.busy = 0] /\ UNCHANGED handled
       ELSE \E e \in loop.batch :
              /\ handled' = handled \cup {e}
              /\ loop' = [loop EXCEPT !.batch = @ \ {e}, !.busy = 0]
    /\ UNCHANGED <<issued, stream, stop, faults>>

\* Reading raises when no byte came in time and when the watchdog closes the
\* stream under it; a stream closed while an item was worked on may also just
\* end, like one the server ends.  (close() gets through to a blocked read of a
\* chunked response, which the server's are; else it waits for the read.)
Broken == stream.closed \/ (stream.inbox = <<>> /\ stream.silent >= ReadTimeout)
OverAtServer == stream.kind \in {"live", "zombie"} /\ stream.age >= ServerLife
StreamEnds ==
    /\ loop.pc = "reading"
    /\ Broken \/ (stream.inbox = <<>> /\ OverAtServer)
    /\ stream' = NoStream
    /\ loop' \in {Ended(error) : error \in IF stream.closed THEN BOOLEAN ELSE {Broken}}
    /\ UNCHANGED <<issued, handled, stop, faults>>

-----------------------------------------------------------------------------
(* The server, the line and the clock.                                     *)

\* A new envelope is pushed on a live stream.
Issue ==
    /\ \E e \in Envelopes \ issued : issued' = issued \cup {e}
    /\ stream' = IF stream.kind = "live"
                 THEN [stream EXCEPT !.inbox = Append(@, issued')] ELSE stream
    /\ UNCHANGED <<handled, loop, stop, faults>>

Spoil ==
    /\ stream.kind = "live" /\ Faulty
    /\ \E kind \in Kinds \ {"live"} : stream' = [stream EXCEPT !.kind = kind]
    /\ faults' = faults + 1
    /\ UNCHANGED <<issued, handled, loop, stop>>

RequestStop ==
    /\ ~stop /\ loop.pc # "ended"
    /\ stop' = TRUE
    /\ UNCHANGED <<issued, handled, stream, loop, faults>>

\* The loop acts before the next tick, unless an item keeps it.
Urgent ==
    \/ Due \/ loop.pc = "died"
    \/ loop.pc = "reading" /\ (stream.inbox # <<>> \/ Broken \/ OverAtServer)
    \/ loop.pc = "items" /\ (loop.batch = {} \/ loop.busy = MaxJob)

\* A tick: comments count as lines if the loop reads, bytes as signs of life,
\* and the watchdog looks at what it sees now.
Tick ==
    /\ ~Urgent /\ loop.pc # "ended"
    /\ LET comment == loop.pc = "reading" /\ stream.kind \in {"live", "zombie"}
           bytes == loop.pc # "reading" \/ stream.kind # "dead"
           quiet == IF comment THEN 0 ELSE IF stream.quiet > StaleLimit THEN stream.quiet
                    ELSE stream.quiet + 1
       IN  stream' = IF stream.kind = "none" THEN stream
                     ELSE [stream EXCEPT !.quiet = quiet,
                             !.age = IF @ < ServerLife THEN @ + 1 ELSE @,
                             !.silent = IF bytes THEN 0 ELSE @ + 1,
                             !.closed = @ \/ Stale(quiet)]
    /\ loop' = [loop EXCEPT !.wait = IF @ > 0 THEN @ - 1 ELSE 0,
                            !.busy = IF loop.pc = "items" THEN @ + 1 ELSE @]
    /\ UNCHANGED <<issued, handled, stop, faults>>

Init ==
    /\ issued = {} /\ handled = {}
    /\ stream = NoStream /\ loop = Idle
    /\ stop = FALSE /\ faults = 0

Loop == Connect \/ End \/ StartAgain \/ Event \/ Item \/ StreamEnds
Next == Loop \/ Issue \/ Spoil \/ RequestStop \/ Tick

Spec == Init /\ [][Next]_vars
\* The thread runs and the clock does not stop.
FairSpec == Spec /\ WF_vars(Loop) /\ WF_vars(Tick)

-----------------------------------------------------------------------------
\* The model is well typed.
TypeOK ==
    /\ issued \subseteq Envelopes /\ handled \subseteq issued
    /\ stream \in [kind : Kinds \cup {"none"}, age : 0 .. ServerLife, quiet : 0 .. StaleLimit + 1,
                   silent : 0 .. ReadTimeout, inbox : Seq(SUBSET Envelopes), closed : BOOLEAN]
    /\ Len(stream.inbox) <= Cardinality(Envelopes) + 1
    /\ loop \in [pc : {"idle", "reading", "items", "died", "ended"}, wait : 0 .. MaxWait,
                 errors : 0 .. MaxExponent, batch : SUBSET Envelopes, busy : 0 .. MaxJob]
    /\ (loop.pc \in {"reading", "items"}) = (stream.kind # "none")
    /\ stop \in BOOLEAN /\ faults \in 0 .. MaxFaults

\* Whatever goes wrong with streams and connections, an envelope the server has
\* issued is dealt with in the end, unless the daemon is stopped.
EveryEnvelopeIsHeard ==
    \A e \in Envelopes : (e \in issued) ~> (e \in handled \/ stop)

\* SIGTERM ends the loop even when it waits in a read or behind an error.
StopIsHeeded == stop ~> (loop.pc = "ended")

\* "유휴 스트림도 상한+15s 안에 로테이션된다" (sse_command_source_adapter.py): no
\* stream is read for longer than the age limit and one heartbeat.
RotatesInTime == loop.pc = "reading" => stream.age <= AgeLimit + 1

\* "큰 지수도 상한 고정(오버플로 아님)" (test_hardening_20260715.py, of the wait
\* after errors) and "오류는 삼켜 루프 지속" (poll_once): errors do not end the
\* loop, however many.
ErrorsEndNothing == loop.pc # "died"
=============================================================================

---------------------------- MODULE OrderReports ----------------------------
(***************************************************************************)
(* The progress reports of orders on their way to the server: the          *)
(* consuming thread publishes them (_publish_progress), the sender thread  *)
(* takes them from the send queue and puts them in the OfflineQueue, which *)
(* up to three threads flush at a time, and the server's order status      *)
(* moves with what arrives.  One process, from the start of its threads to *)
(* the end of shutdown().                                                  *)
(***************************************************************************)
EXTENDS Naturals, Sequences, SequencesExt

CONSTANTS
    MaxOrders,   \* bound: orders handled, one after another
    MaxProgress, \* PROGRESS reports of an order
    MaxDepth,    \* max_depth of the OfflineQueue (1000 in the code)
    Stops,       \* may the daemon be stopped?
    SlowLink,    \* may the sender outlive its join in shutdown()?
    None         \* held when a thread has no report in hand

ASSUME ReportsAssumption ==
    /\ MaxOrders \in Nat \ {0}
    /\ MaxProgress \in Nat
    /\ MaxDepth \in Nat \ {0}
    /\ Stops \in BOOLEAN
    /\ SlowLink \in BOOLEAN

VARIABLES
    at,        \* where each thread is
    held,      \* the report each thread has in hand
    closing,   \* how far shutdown() is: "no", "draining", "ending"
    stop,      \* _stop
    sendq,     \* _send_queue
    oq,        \* OfflineQueue._queue
    sent,      \* OfflineQueue._sent_signatures
    net,       \* requests given up by their sender that may still arrive
    order,     \* server: status of each order
    arrived,   \* server: reports in the order of their first arrival
    published, \* history: reports in the order they were published
    lost       \* history: dropped by a full queue, or refused and removed

vars == <<at, held, closing, stop, sendq, oq, sent, net, order, arrived, published, lost>>
serverVars == <<order, arrived>>

Threads == {"main", "sender", "beat"}
Orders == 1 .. MaxOrders
Phase == {"ACCEPTED", "PROGRESS", "COMPLETED", "FAILED"}
Final == {"COMPLETED", "FAILED"}

\* The signature id|phase|stepK says all there is to say about a report.
Report == [order : Orders, phase : Phase, k : 0 .. MaxProgress + 1]
WireStatus == {"PENDING", "PROCESSING", "COMPLETED", "FAILED"}

Items(q) == {q[i] : i \in 1 .. Len(q)}

-----------------------------------------------------------------------------
(* The server.                                                             *)

\* phase_to_wire_status.
Wire(phase) == IF phase \in Final THEN phase ELSE "PROCESSING"

\* Mutant: a finished order can be put back to work.
AnyForward(from, to) == to # "PENDING" /\ to # from

\* evaluate_transition = APPLY; the operator's retry of a FAILED order is the
\* one move that no report asks for.
Applies(from, to) ==
    \/ from = "PENDING" /\ to # "PENDING"
    \/ from = "PROCESSING" /\ to \in Final
    \/ from = "FAILED" /\ to = "PENDING"

\* A PATCH reaches the server, which knows its requestId if it came before.
Arrive(r) ==
    IF r \in Items(arrived) THEN UNCHANGED serverVars
    ELSE /\ arrived' = Append(arrived, r)
         /\ order' = IF Applies(order[r.order], Wire(r.phase))
                     THEN [order EXCEPT ![r.order] = Wire(r.phase)] ELSE order

-----------------------------------------------------------------------------
Init ==
    /\ at = [t \in Threads |-> CASE t = "main" -> "run" [] t = "sender" -> "poll" [] OTHER -> "wait"]
    /\ held = [t \in Threads |-> None]
    /\ closing = "no" /\ stop = FALSE
    /\ sendq = <<>> /\ oq = <<>> /\ sent = {} /\ net = {}
    /\ order = [o \in Orders |-> "PENDING"]
    /\ arrived = <<>> /\ published = <<>> /\ lost = {}

\* A thread moves from one place to another with a report in hand, or none.
Go(t, from, to, r) ==
    /\ at[t] = from
    /\ at' = [at EXCEPT ![t] = to]
    /\ held' = [held EXCEPT ![t] = r]

(* The consuming thread.                                                   *)

\* The orders are handled one at a time: ACCEPTED, PROGRESS after each stage
\* but the last, COMPLETED; FAILED at any point, or right away.
Between == published # <<>> => Last(published).phase \in Final

Following(r) ==
    IF Between
    THEN /\ r.order = IF published = <<>> THEN 1 ELSE Last(published).order + 1
         /\ r.phase \in {"ACCEPTED", "FAILED"} /\ r.k = 0
    ELSE LET last == Last(published) IN
         /\ r.order = last.order
         /\ \/ r.phase = "PROGRESS" /\ r.k = last.k + 1 /\ r.k <= MaxProgress
            \/ r.phase = "COMPLETED" /\ last.k = MaxProgress /\ r.k = last.k + 1
            \/ r.phase = "FAILED" /\ r.k = last.k

SenderAlive == at["sender"] # "gone"

\* _publish_progress: to the sender if it is alive, else report_status here.
Publish(r) ==
    /\ Following(r)
    /\ Go("main", "run", IF SenderAlive THEN "put" ELSE "enqueue", r)
    /\ published' = Append(published, r)
    /\ UNCHANGED <<closing, stop, sendq, oq, sent, net, serverVars, lost>>

Put ==
    /\ Go("main", "put", "run", None)
    /\ sendq' = Append(sendq, held["main"])
    /\ UNCHANGED <<closing, stop, oq, sent, net, serverVars, published, lost>>

\* request_stop.
Stop ==
    /\ Stops /\ ~stop
    /\ stop' = TRUE
    /\ UNCHANGED <<at, held, closing, sendq, oq, sent, net, serverVars, published, lost>>

\* shutdown() after the job in hand: the joins return, the heartbeat's and the
\* sender's possibly by their timeouts.
Shutdown ==
    /\ stop /\ Between
    /\ ~SenderAlive \/ SlowLink
    /\ Go("main", "run", "drain", None)
    /\ closing' = "draining"
    /\ UNCHANGED <<stop, sendq, oq, sent, net, serverVars, published, lost>>

\* What the sender left in the queue is reported here ...
Drain ==
    /\ sendq # <<>>
    /\ Go("main", "drain", "enqueue", Head(sendq))
    /\ sendq' = Tail(sendq)
    /\ UNCHANGED <<closing, stop, oq, sent, net, serverVars, published, lost>>

\* ... and the OfflineQueue is flushed a last time.
LastFlush ==
    /\ sendq = <<>>
    /\ Go("main", "drain", "peek", None)
    /\ closing' = "ending"
    /\ UNCHANGED <<stop, sendq, oq, sent, net, serverVars, published, lost>>

-----------------------------------------------------------------------------
(* The sender and the heartbeat.                                           *)

Get ==
    /\ sendq # <<>>
    /\ Go("sender", "poll", "enqueue", Head(sendq))
    /\ sendq' = Tail(sendq)
    /\ UNCHANGED <<closing, stop, oq, sent, net, serverVars, published, lost>>

\* get_nowait raises Empty; what follows looks at _stop, not at the queue.
Empty ==
    /\ sendq = <<>>
    /\ Go("sender", "poll", "empty", None)
    /\ UNCHANGED <<closing, stop, sendq, oq, sent, net, serverVars, published, lost>>

\* Mutant: the interval never elapses.
NeverDue == {"poll"}

\* An idle sender polls again, or flushes the OfflineQueue first when its
\* interval has elapsed.
Idle == {"poll", "peek"}

Rest(to) ==
    /\ ~stop /\ to \in Idle
    /\ Go("sender", "empty", to, None)
    /\ UNCHANGED <<closing, stop, sendq, oq, sent, net, serverVars, published, lost>>

SenderExits ==
    /\ stop
    /\ Go("sender", "empty", "gone", None)
    /\ UNCHANGED <<closing, stop, sendq, oq, sent, net, serverVars, published, lost>>

\* _emit_heartbeat, up to its look at the sender.
Beat ==
    /\ Go("beat", "wait", IF stop THEN "gone" ELSE "emit", None)
    /\ UNCHANGED <<closing, stop, sendq, oq, sent, net, serverVars, published, lost>>

\* Without a sender the heartbeat flushes the OfflineQueue itself.
BeatFlush ==
    /\ Go("beat", "emit", IF SenderAlive THEN "wait" ELSE "peek", None)
    /\ UNCHANGED <<closing, stop, sendq, oq, sent, net, serverVars, published, lost>>

-----------------------------------------------------------------------------
(* OfflineQueue; between two steps the lock is free.                       *)

\* Where a thread goes after a flush.
After(t) ==
    CASE t = "sender" -> "poll"
      [] t = "beat"   -> "wait"
      [] OTHER -> CASE closing = "no" -> "run" [] closing = "draining" -> "drain" [] OTHER -> "done"

Over(q) == Len(q) > MaxDepth

\* enqueue: sent before, it is left out; a full queue drops its oldest.
Enqueue(t) ==
    LET r == held[t]
        q == IF r \in sent THEN oq ELSE Append(oq, r)
    IN  /\ Go(t, "enqueue", "peek", None)
        /\ oq' = IF Over(q) THEN Tail(q) ELSE q
        /\ lost' = IF Over(q) THEN lost \cup ({Head(q)} \ Items(arrived)) ELSE lost
        /\ UNCHANGED <<closing, stop, sendq, sent, net, serverVars, published>>

\* The head of the queue is looked at, not taken.
Peek(t) ==
    /\ IF oq = <<>> THEN Go(t, "peek", After(t), None) ELSE Go(t, "peek", "send", Head(oq))
    /\ UNCHANGED <<closing, stop, sendq, oq, sent, net, serverVars, published, lost>>

\* _send_status_once: 2xx, or 409/422 from the server's own gate.
Answered(t) ==
    /\ Go(t, "send", "pop", held[t])
    /\ Arrive(held[t])
    /\ UNCHANGED <<closing, stop, sendq, oq, sent, net, published, lost>>

\* Any other 4xx (401, 404, 429): nothing applied, and the entry is removed.
Refused(t) ==
    /\ Go(t, "send", "pop", held[t])
    /\ lost' = lost \cup ({held[t]} \ Items(arrived))
    /\ UNCHANGED <<closing, stop, sendq, oq, sent, net, serverVars, published>>

\* Mutant: a failed report is passed over.
NextOne(t) == "pop"

\* 5xx or no answer: the flush ends, the entry stays.
Stopped(t) == After(t)

\* The request was lost, was applied, or is still on its way.
Unanswered(t) ==
    /\ Go(t, "send", Stopped(t), IF Stopped(t) = "pop" THEN held[t] ELSE None)
    /\ \/ UNCHANGED <<serverVars, net>>
       \/ Arrive(held[t]) /\ UNCHANGED net
       \/ net' = net \cup {held[t]} /\ UNCHANGED serverVars
    /\ UNCHANGED <<closing, stop, sendq, oq, sent, published, lost>>

Late(r) ==
    /\ net' = net \ {r}
    /\ Arrive(r)
    /\ UNCHANGED <<at, held, closing, stop, sendq, oq, sent, published, lost>>

\* Mutant: whatever is at the head is popped.
PopAny(r) == IF oq = <<>> THEN oq ELSE Tail(oq)

\* The entry is removed only if it is still the head: another flush, or a full
\* queue, may have taken it out.
PopIfHead(r) == IF oq # <<>> /\ Head(oq) = r THEN Tail(oq) ELSE oq

Pop(t) ==
    /\ Go(t, "pop", "peek", None)
    /\ oq' = PopIfHead(held[t])
    /\ sent' = sent \cup {held[t]}
    /\ UNCHANGED <<closing, stop, sendq, net, serverVars, published, lost>>

Flush(t) == Enqueue(t) \/ Peek(t) \/ Answered(t) \/ Refused(t) \/ Unanswered(t) \/ Pop(t)

Next ==
    \/ \E r \in Report : Publish(r)
    \/ Put \/ Stop \/ Shutdown \/ Drain \/ LastFlush
    \/ Get \/ Empty \/ SenderExits \/ (\E to \in Idle : Rest(to))
    \/ Beat \/ BeatFlush
    \/ \E t \in Threads : Flush(t)
    \/ \E r \in net : Late(r)

Spec == Init /\ [][Next]_vars

\* The threads keep going, the flush interval elapses again and again, and a
\* request that is repeated for ever is answered now and then.
Fairness ==
    /\ WF_vars(Put) /\ WF_vars(Get) /\ WF_vars(Empty)
    /\ WF_vars(\E to \in Idle : Rest(to)) /\ SF_vars(Rest("peek"))
    /\ \A t \in Threads :
          /\ WF_vars(Enqueue(t) \/ Peek(t) \/ Pop(t))
          /\ WF_vars(Answered(t) \/ Refused(t) \/ Unanswered(t)) /\ SF_vars(Answered(t))

FairSpec == Spec /\ Fairness

-----------------------------------------------------------------------------
(* Properties.                                                             *)

Waiting == Items(sendq) \cup Items(oq) \cup
           {held[t] : t \in {u \in Threads : at[u] \in {"put", "enqueue"}}}

\* Every variable has its type, and the OfflineQueue keeps its bound.
TypeOK ==
    /\ at \in [Threads -> {"run", "put", "drain", "done", "poll", "empty", "gone", "wait",
                           "emit", "enqueue", "peek", "send", "pop"}]
    /\ held \in [Threads -> Report \cup {None}]
    /\ \A t \in Threads : IF at[t] \in {"put", "enqueue", "send", "pop"}
                          THEN held[t] \in Report ELSE held[t] = None
    /\ closing \in {"no", "draining", "ending"} /\ stop \in BOOLEAN
    /\ sendq \in Seq(Report) /\ oq \in Seq(Report) /\ Len(oq) <= MaxDepth
    /\ sent \subseteq Report /\ net \subseteq Report /\ lost \subseteq Report
    /\ order \in [Orders -> WireStatus]
    /\ arrived \in Seq(Report) /\ published \in Seq(Report)

\* A published report is still waiting, or has reached the server, or was
\* dropped by a full queue or refused: no flush removes what another one has
\* not sent, also while the daemon shuts down.
NothingSkipped ==
    \A r \in Items(published) : r \in Waiting \cup Items(arrived) \cup lost

\* The outcome of an order stands once its report has arrived, whatever
\* earlier reports of it are repeated, overtaken or late.
OutcomeStands ==
    \A r \in Items(arrived) : r.phase \in Final => order[r.order] = r.phase

\* Reports arrive in the order they were published, except for one that was
\* already lost to the daemon when its last request came through.
ArrivesInOrder ==
    \A m, n \in 1 .. Len(arrived) :
        m < n /\ {arrived[m], arrived[n]} \cap lost = {} =>
            \E i, j \in 1 .. Len(published) :
                i < j /\ published[i] = arrived[m] /\ published[j] = arrived[n]

\* Every report reaches the server, or falls out of a full queue, or is
\* refused.
EveryReportArrives ==
    \A r \in Report : r \in Items(published) ~> r \in Items(arrived) \cup lost
=============================================================================

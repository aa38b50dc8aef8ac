------------------------ MODULE OrderReportsProofs ------------------------
(***************************************************************************)
(* For any number of orders and reports, any depth of the queue, with and  *)
(* without a stop: no flush removes what was not sent, the outcome of an   *)
(* order stands, and until a stop reports arrive in their order.           *)
(***************************************************************************)
EXTENDS OrderReports, SequenceEntries

\* The server has it, or the daemon has lost it.
Gone == Items(arrived) \cup lost

Places == {"run", "put", "drain", "done", "poll", "empty", "gone", "wait",
           "emit", "enqueue", "peek", "send", "pop"}
Holding == {"put", "enqueue", "send", "pop"}

\* The reports held at one of the places.
Hands(places) == {held[t] : t \in {u \in Threads : at[u] \in places}}
WaitingHands == Hands({"put", "enqueue"})
SendingHands == Hands({"send", "pop"})
DoneHands == Hands({"pop"})

\* A report is marked sent, or about to be removed, only when it is gone.
RemovedIsGone == sent \cup DoneHands \subseteq Gone

\* Whatever is under way has been published.
InFlight == Waiting \cup net \cup SendingHands

Sourced == InFlight \cup Items(arrived) \subseteq Items(published)

\* Orders are published one after another, and nothing of an order after its
\* outcome.
OneOutcome ==
    \A i, j \in 1 .. Len(published) : i < j =>
        /\ published[i].order <= published[j].order
        /\ published[i].order = published[j].order => published[i].phase \notin Final

\* An order has an outcome because a report of it arrived.
OutcomeArrived ==
    \A o \in Orders : order[o] \in Final =>
        \E r \in Items(arrived) : r.order = o /\ r.phase = order[o]

ReportsInv ==
    /\ TypeOK /\ NothingSkipped /\ RemovedIsGone /\ Sourced
    /\ OneOutcome /\ OutcomeArrived /\ OutcomeStands

-----------------------------------------------------------------------------
(* What a step does to the reports in the hands of the threads and to the  *)
(* server.                                                                 *)

\* A thread that moves takes its old report out of these hands and brings in
\* the new one.
LEMMA HandsMove ==
    ASSUME TypeOK, NEW t \in Threads, NEW from, NEW to, NEW r, Go(t, from, to, r), NEW places
    PROVE  /\ Hands(places)' \subseteq Hands(places) \cup (IF to \in places THEN {r} ELSE {})
           /\ Hands(places) \subseteq Hands(places)' \cup (IF from \in places THEN {held[t]} ELSE {})
<1>1. /\ at[t] = from /\ at'[t] = to /\ held'[t] = r
      /\ \A u \in Threads : u # t => at'[u] = at[u] /\ held'[u] = held[u]
  BY DEF Go, TypeOK
<1> QED
  BY <1>1 DEF Hands

\* The same for the hands the invariants speak of.
LEMMA GoMoves ==
    ASSUME TypeOK, NEW t \in Threads, NEW from, NEW to, NEW r, Go(t, from, to, r)
    PROVE  /\ WaitingHands' \subseteq WaitingHands \cup (IF to \in {"put", "enqueue"} THEN {r} ELSE {})
           /\ WaitingHands \subseteq WaitingHands' \cup (IF from \in {"put", "enqueue"} THEN {held[t]} ELSE {})
           /\ SendingHands' \subseteq SendingHands \cup (IF to \in {"send", "pop"} THEN {r} ELSE {})
           /\ DoneHands' \subseteq DoneHands \cup (IF to \in {"pop"} THEN {r} ELSE {})
           /\ to \in {"put", "enqueue"} => r \in WaitingHands'
           /\ from \in {"put", "enqueue"} => held[t] \in WaitingHands
           /\ from \in {"send", "pop"} => held[t] \in SendingHands
           /\ from \in {"pop"} => held[t] \in DoneHands
<1>1. /\ WaitingHands' \subseteq WaitingHands \cup (IF to \in {"put", "enqueue"} THEN {r} ELSE {})
      /\ WaitingHands \subseteq WaitingHands' \cup (IF from \in {"put", "enqueue"} THEN {held[t]} ELSE {})
  BY HandsMove DEF WaitingHands
<1>2. SendingHands' \subseteq SendingHands \cup (IF to \in {"send", "pop"} THEN {r} ELSE {})
  BY HandsMove DEF SendingHands
<1>3. DoneHands' \subseteq DoneHands \cup (IF to \in {"pop"} THEN {r} ELSE {})
  BY HandsMove DEF DoneHands
<1>4. at[t] = from /\ at'[t] = to /\ held'[t] = r
  BY DEF Go, TypeOK
<1> QED
  BY <1>1, <1>2, <1>3, <1>4 DEF WaitingHands, SendingHands, DoneHands, Hands

LEMMA HandsType ==
    ASSUME TypeOK, NEW t \in Threads, NEW from, NEW to \in Places, NEW r, Go(t, from, to, r),
           IF to \in Holding THEN r \in Report ELSE r = None
    PROVE  /\ at' \in [Threads -> Places] /\ held' \in [Threads -> Report \cup {None}]
           /\ \A u \in Threads : IF at'[u] \in Holding THEN held'[u] \in Report ELSE held'[u] = None
  BY DEF Go, TypeOK, Places, Holding

\* The entries of a queue, in the names of SequenceEntries.
LEMMA ItemsAreElems == \A q : Items(q) = Elems(q)
  BY DEF Items, Elems

\* A request that reaches the server is known to it from then on.
LEMMA ArriveFacts ==
    ASSUME TypeOK, NEW r \in Report, Arrive(r)
    PROVE  /\ order' \in [Orders -> WireStatus] /\ arrived' \in Seq(Report)
           /\ Items(arrived)' = Items(arrived) \cup {r}
<1>1. arrived \in Seq(Report) /\ order \in [Orders -> WireStatus] /\ r.order \in Orders /\ r.phase \in Phase
  BY DEF TypeOK, Report
<1>2. CASE r \in Items(arrived)
  BY <1>1, <1>2 DEF Arrive, serverVars, Items
<1>3. CASE r \notin Items(arrived)
  <2>1. /\ arrived' = Append(arrived, r)
        /\ order' \in {order, [order EXCEPT ![r.order] = Wire(r.phase)]}
    BY <1>3 DEF Arrive
  <2>2. Items(arrived') = Items(arrived) \cup {r}
    BY <1>1, <2>1, AppendElems, ItemsAreElems
  <2>3. Wire(r.phase) \in WireStatus
    BY <1>1 DEF Wire, WireStatus, Phase, Final
  <2> QED
    BY <1>1, <2>1, <2>2, <2>3 DEF Items
<1> QED
  BY <1>2, <1>3

\* The report of a thread at one of these places is one.
LEMMA HeldIsReport ==
    ASSUME TypeOK, NEW t \in Threads, at[t] \in Holding
    PROVE  held[t] \in Report
  BY DEF TypeOK, Holding

\* After a flush no report is held.
LEMMA AfterIsIdle == \A t \in Threads : After(t) \in Places \ Holding
  BY DEF After, Places, Holding

-----------------------------------------------------------------------------
(* Types.                                                                  *)

\* A thread that goes from one place to another with a report or none in hand
\* keeps TypeOK if what else it changes has its type.
LEMMA GoKeepsType ==
    ASSUME TypeOK, NEW t \in Threads, NEW from, NEW to \in Places, NEW r, Go(t, from, to, r),
           IF to \in Holding THEN r \in Report ELSE r = None,
           closing' \in {"no", "draining", "ending"}, stop' = stop,
           sendq' \in Seq(Report), oq' \in Seq(Report), Len(oq') <= MaxDepth,
           sent' \subseteq Report, net' \subseteq Report, lost' \subseteq Report,
           order' \in [Orders -> WireStatus], arrived' \in Seq(Report), published' \in Seq(Report)
    PROVE  TypeOK'
<1>1. /\ at' \in [Threads -> Places] /\ held' \in [Threads -> Report \cup {None}]
      /\ \A u \in Threads : IF at'[u] \in Holding THEN held'[u] \in Report ELSE held'[u] = None
  BY HandsType
<1>2. stop' \in BOOLEAN
  BY DEF TypeOK
<1> QED
  BY <1>1, <1>2 DEF TypeOK, Places, Holding

\* The types a step may rely on.
LEMMA Types ==
    ASSUME TypeOK
    PROVE  /\ closing \in {"no", "draining", "ending"}
           /\ sendq \in Seq(Report) /\ oq \in Seq(Report) /\ Len(oq) <= MaxDepth
           /\ sent \subseteq Report /\ net \subseteq Report /\ lost \subseteq Report
           /\ order \in [Orders -> WireStatus] /\ arrived \in Seq(Report) /\ published \in Seq(Report)
  BY DEF TypeOK

\* The actions that move a thread and neither publish nor report.
Walk == Shutdown \/ LastFlush \/ Empty \/ SenderExits \/ (\E to \in Idle : Rest(to)) \/ Beat \/ BeatFlush

LEMMA WalkGoes ==
    ASSUME Walk
    PROVE  /\ \E t \in Threads : \E from, to \in Places \ Holding : Go(t, from, to, None)
           /\ closing' \in {closing, "draining", "ending"}
           /\ UNCHANGED <<stop, sendq, oq, sent, net, serverVars, published, lost>>
<1>1. CASE Shutdown
  BY <1>1 DEF Shutdown, Threads, Places, Holding
<1>2. CASE LastFlush
  BY <1>2 DEF LastFlush, Threads, Places, Holding
<1>3. CASE Empty \/ SenderExits
  BY <1>3 DEF Empty, SenderExits, Threads, Places, Holding
<1>4. CASE \E to \in Idle : Rest(to)
  BY <1>4 DEF Rest, Idle, Threads, Places, Holding
<1>5. CASE Beat \/ BeatFlush
  BY <1>5 DEF Beat, BeatFlush, Threads, Places, Holding
<1> QED
  BY <1>1, <1>2, <1>3, <1>4, <1>5 DEF Walk

-----------------------------------------------------------------------------
(* No step loses a report.                                                 *)

LEMMA WaitingIs ==
    /\ Waiting = Items(sendq) \cup Items(oq) \cup WaitingHands
    /\ Waiting' = Items(sendq') \cup Items(oq') \cup WaitingHands'
  BY DEF Waiting, WaitingHands, Hands, Items

\* The step neither publishes nor invents a report, what was gone stays so,
\* and what no longer waits, or is marked as done with, is gone.
Keeps ==
    /\ published' = published
    /\ Gone \subseteq Gone'
    /\ Waiting \subseteq Waiting' \cup Gone'
    /\ InFlight' \cup Items(arrived') \subseteq InFlight \cup Items(arrived)
    /\ RemovedIsGone'

LEMMA WalkStep == ASSUME TypeOK, RemovedIsGone, Walk PROVE TypeOK' /\ Keeps
<1>1. PICK t \in Threads, from \in Places \ Holding, to \in Places \ Holding : Go(t, from, to, None)
  BY WalkGoes
<1>2. /\ closing' \in {closing, "draining", "ending"}
      /\ UNCHANGED <<stop, sendq, oq, sent, net, serverVars, published, lost>>
  BY WalkGoes
<1>3. TypeOK'
  BY <1>1, <1>2, GoKeepsType, Types DEF serverVars
<1>4. /\ WaitingHands' \subseteq WaitingHands /\ WaitingHands \subseteq WaitingHands'
      /\ SendingHands' \subseteq SendingHands /\ DoneHands' \subseteq DoneHands
  BY <1>1, GoMoves DEF Holding
<1>5. Items(sendq') = Items(sendq) /\ Items(oq') = Items(oq) /\ Items(arrived') = Items(arrived) /\ Gone' = Gone
  BY <1>2 DEF serverVars, Gone
<1>6. Waiting' = Waiting
  BY <1>4, <1>5, WaitingIs
<1> QED
  BY <1>2, <1>3, <1>4, <1>5, <1>6 DEF Keeps, InFlight, RemovedIsGone

LEMMA StillStep ==
    ASSUME TypeOK, RemovedIsGone, Stop \/ UNCHANGED vars
    PROVE  TypeOK' /\ Keeps
<1>1. /\ UNCHANGED <<at, held, closing, sendq, oq, sent, net, order, arrived, published, lost>>
      /\ stop' \in {stop, TRUE}
  BY DEF Stop, vars, serverVars
<1>2. TypeOK'
  BY <1>1 DEF TypeOK
<1>3. Gone' = Gone /\ DoneHands' = DoneHands /\ SendingHands' = SendingHands /\ Waiting' = Waiting
  BY <1>1 DEF Gone, Items, DoneHands, SendingHands, Hands, Waiting
<1> QED
  BY <1>1, <1>2, <1>3 DEF Keeps, InFlight, RemovedIsGone

LEMMA PutStep == ASSUME TypeOK, RemovedIsGone, Put PROVE TypeOK' /\ Keeps
<1> DEFINE r == held["main"]
<1>1. /\ "main" \in Threads /\ Go("main", "put", "run", None) /\ sendq' = Append(sendq, r)
      /\ UNCHANGED <<closing, stop, oq, sent, net, serverVars, published, lost>>
  BY DEF Put, Threads
<1>2. at["main"] = "put"
  BY <1>1 DEF Go
<1>3. r \in Report
  BY <1>1, <1>2, HeldIsReport DEF Holding
<1> HIDE DEF r
<1>4. sendq' \in Seq(Report) /\ Items(sendq') = Items(sendq) \cup {r}
  BY <1>1, <1>3, Types, AppendElems, ItemsAreElems
<1>5. TypeOK'
  BY <1>1, <1>4, GoKeepsType, Types DEF serverVars, Places, Holding
<1>6. /\ WaitingHands' \subseteq WaitingHands /\ WaitingHands \subseteq WaitingHands' \cup {r}
      /\ SendingHands' \subseteq SendingHands /\ DoneHands' \subseteq DoneHands
      /\ r \in WaitingHands
  BY <1>1, GoMoves DEF r
<1>7. Items(oq') = Items(oq) /\ Items(arrived') = Items(arrived) /\ Gone' = Gone
  BY <1>1 DEF serverVars, Gone
<1>8. Waiting' = Waiting
  BY <1>4, <1>6, <1>7, WaitingIs
<1> QED
  BY <1>1, <1>5, <1>6, <1>7, <1>8 DEF Keeps, InFlight, RemovedIsGone

\* The sender's get_nowait and the drain of shutdown().
LEMMA TakeStep == ASSUME TypeOK, RemovedIsGone, Get \/ Drain PROVE TypeOK' /\ Keeps
<1> DEFINE r == Head(sendq)
<1>1. PICK t \in Threads, from \in {"poll", "drain"} : Go(t, from, "enqueue", r)
  BY DEF Get, Drain, Threads
<1>2. /\ sendq # <<>> /\ sendq' = Tail(sendq)
      /\ UNCHANGED <<closing, stop, oq, sent, net, serverVars, published, lost>>
  BY DEF Get, Drain
<1>3. sendq' \in Seq(Report) /\ r \in Report /\ Items(sendq) = Items(sendq') \cup {r}
  BY <1>2, Types, TailElems, ItemsAreElems
<1> HIDE DEF r
<1>4. TypeOK'
  BY <1>1, <1>2, <1>3, GoKeepsType, Types DEF serverVars, Places, Holding
<1>5. /\ WaitingHands' \subseteq WaitingHands \cup {r} /\ WaitingHands \subseteq WaitingHands'
      /\ SendingHands' \subseteq SendingHands /\ DoneHands' \subseteq DoneHands
      /\ r \in WaitingHands'
  BY <1>1, GoMoves
<1>6. Items(oq') = Items(oq) /\ Items(arrived') = Items(arrived) /\ Gone' = Gone
  BY <1>2 DEF serverVars, Gone
<1>7. Waiting' = Waiting
  BY <1>3, <1>5, <1>6, WaitingIs
<1> QED
  BY <1>2, <1>4, <1>5, <1>6, <1>7 DEF Keeps, InFlight, RemovedIsGone

LEMMA PeekStep == ASSUME TypeOK, RemovedIsGone, NEW t \in Threads, Peek(t) PROVE TypeOK' /\ Keeps
<1>1. UNCHANGED <<closing, stop, sendq, oq, sent, net, serverVars, published, lost>>
  BY DEF Peek
<1>2. PICK to \in Places, r \in Items(oq) \cup {None} :
          /\ Go(t, "peek", to, r)
          /\ (to \notin Holding /\ r = None) \/ (to = "send" /\ r \in Items(oq))
  <2>1. CASE oq = <<>>
    BY <2>1, AfterIsIdle DEF Peek
  <2>2. CASE oq # <<>>
    <3>1. Head(oq) \in Items(oq)
      BY <2>2, Types, TailElems, ItemsAreElems
    <3> QED
      BY <2>2, <3>1 DEF Peek, Places
  <2> QED
    BY <2>1, <2>2
<1>3. Items(oq) \subseteq Report
  BY Types DEF Items
<1>4. TypeOK'
  BY <1>1, <1>2, <1>3, GoKeepsType, Types DEF serverVars, Holding
<1>5. /\ WaitingHands' \subseteq WaitingHands /\ WaitingHands \subseteq WaitingHands'
      /\ SendingHands' \subseteq SendingHands \cup Items(oq) /\ DoneHands' \subseteq DoneHands
  BY <1>2, GoMoves DEF Holding
<1>6. Items(sendq') = Items(sendq) /\ Items(oq') = Items(oq) /\ Items(arrived') = Items(arrived) /\ Gone' = Gone
  BY <1>1 DEF serverVars, Gone
<1>7. Waiting' = Waiting /\ Items(oq) \subseteq Waiting
  BY <1>5, <1>6, WaitingIs
<1> QED
  BY <1>1, <1>4, <1>5, <1>6, <1>7 DEF Keeps, InFlight, RemovedIsGone

\* The report is in the queue, or was sent before; a full queue loses its head.
LEMMA EnqueueStep == ASSUME TypeOK, RemovedIsGone, NEW t \in Threads, Enqueue(t) PROVE TypeOK' /\ Keeps
<1> DEFINE r == held[t]
           q == IF r \in sent THEN oq ELSE Append(oq, r)
<1>1. /\ Go(t, "enqueue", "peek", None)
      /\ oq' = IF Over(q) THEN Tail(q) ELSE q
      /\ lost' = IF Over(q) THEN lost \cup ({Head(q)} \ Items(arrived)) ELSE lost
      /\ UNCHANGED <<closing, stop, sendq, sent, net, serverVars, published>>
  BY DEF Enqueue
<1>2. r \in Report
  BY <1>1, HeldIsReport DEF Go, Holding
<1>3. /\ q \in Seq(Report) /\ Len(q) <= MaxDepth + 1
      /\ Items(q) \subseteq Items(oq) \cup {r} /\ Items(oq) \subseteq Items(q)
      /\ r \in sent \/ r \in Items(q)
  <2>1. CASE r \in sent
    <3>1. q = oq
      BY <2>1
    <3> QED
      BY <2>1, <3>1, Types, ReportsAssumption
  <2>2. CASE r \notin sent
    <3>1. q = Append(oq, r)
      BY <2>2
    <3>2. q \in Seq(Report) /\ Len(q) <= MaxDepth + 1
      BY <1>2, <3>1, Types, ReportsAssumption
    <3> QED
      BY <1>2, <3>1, <3>2, Types, AppendElems, ItemsAreElems
  <2> QED
    BY <2>1, <2>2
<1> HIDE DEF q, r
<1>4. /\ oq' \in Seq(Report) /\ Len(oq') <= MaxDepth
      /\ Items(oq') \subseteq Items(q) /\ Items(q) \subseteq Items(oq') \cup Gone'
      /\ Gone \subseteq Gone' /\ lost' \subseteq Report
  <2>1. Items(arrived') = Items(arrived)
    BY <1>1 DEF serverVars
  <2>2. CASE Over(q)
    <3>1. q # <<>>
      BY <1>3, <2>2, ReportsAssumption DEF Over
    <3>2. oq' = Tail(q) /\ lost' = lost \cup ({Head(q)} \ Items(arrived))
      BY <1>1, <2>2
    <3>3. /\ oq' \in Seq(Report) /\ Len(oq') = Len(q) - 1 /\ Head(q) \in Report
          /\ Items(q) = Items(oq') \cup {Head(q)}
      BY <1>3, <3>1, <3>2, TailElems, ItemsAreElems
    <3>4. Len(oq') <= MaxDepth
      BY <1>3, <3>3, ReportsAssumption
    <3>5. Gone' = Gone \cup {Head(q)}
      BY <2>1, <3>2 DEF Gone
    <3> QED
      BY <3>2, <3>3, <3>4, <3>5, Types
  <2>3. CASE ~Over(q)
    <3>1. oq' = q /\ lost' = lost
      BY <1>1, <2>3
    <3>2. Len(q) <= MaxDepth
      BY <1>3, <2>3, ReportsAssumption DEF Over
    <3>3. Gone' = Gone
      BY <2>1, <3>1 DEF Gone
    <3> QED
      BY <1>3, <3>1, <3>2, <3>3, Types
  <2> QED
    BY <2>2, <2>3
<1>5. TypeOK'
  BY <1>1, <1>4, GoKeepsType, Types DEF serverVars, Places, Holding
<1>6. /\ WaitingHands' \subseteq WaitingHands /\ WaitingHands \subseteq WaitingHands' \cup {r}
      /\ SendingHands' \subseteq SendingHands /\ DoneHands' \subseteq DoneHands
      /\ r \in WaitingHands
  BY <1>1, GoMoves DEF r
<1>7. Items(sendq') = Items(sendq) /\ Items(arrived') = Items(arrived) /\ sent' = sent /\ net' = net
  BY <1>1 DEF serverVars
<1>8. Waiting' \subseteq Waiting
  BY <1>3, <1>4, <1>6, <1>7, WaitingIs
<1>9. Waiting \subseteq Waiting' \cup Gone'
  BY <1>3, <1>4, <1>6, <1>7, WaitingIs DEF RemovedIsGone
<1> QED
  BY <1>1, <1>4, <1>5, <1>6, <1>7, <1>8, <1>9 DEF Keeps, InFlight, RemovedIsGone

\* A report that was being sent ends up as done with.
LEMMA SentStep ==
    ASSUME TypeOK, RemovedIsGone, NEW t \in Threads, Answered(t) \/ Refused(t)
    PROVE  TypeOK' /\ Keeps
<1> DEFINE r == held[t]
<1>1. /\ Go(t, "send", "pop", r) /\ UNCHANGED <<closing, stop, sendq, oq, sent, net, published>>
  BY DEF Answered, Refused
<1>2. r \in Report
  BY <1>1, HeldIsReport DEF Go, Holding
<1>3. /\ lost' \subseteq Report /\ order' \in [Orders -> WireStatus] /\ arrived' \in Seq(Report)
      /\ Items(arrived') \subseteq Items(arrived) \cup {r} /\ Gone' = Gone \cup {r}
  <2>1. CASE Answered(t)
    <3>1. Arrive(r) /\ lost' = lost
      BY <2>1 DEF Answered
    <3>2. /\ order' \in [Orders -> WireStatus] /\ arrived' \in Seq(Report)
          /\ Items(arrived') = Items(arrived) \cup {r}
      BY <1>2, <3>1, ArriveFacts DEF Items
    <3> QED
      BY <3>1, <3>2, Types DEF Gone
  <2>2. CASE Refused(t)
    BY <1>2, <2>2, Types DEF Refused, serverVars, Gone
  <2> QED
    BY <2>1, <2>2
<1> HIDE DEF r
<1>4. TypeOK'
  BY <1>1, <1>2, <1>3, GoKeepsType, Types DEF Places, Holding
<1>5. /\ WaitingHands' \subseteq WaitingHands /\ WaitingHands \subseteq WaitingHands'
      /\ SendingHands' \subseteq SendingHands \cup {r} /\ DoneHands' \subseteq DoneHands \cup {r}
      /\ r \in SendingHands
  BY <1>1, GoMoves DEF r
<1>6. Waiting' = Waiting
  BY <1>1, <1>5, WaitingIs
<1> QED
  BY <1>1, <1>3, <1>4, <1>5, <1>6 DEF Keeps, InFlight, RemovedIsGone

\* A request without an answer may still come to the server.
LEMMA UnansweredStep ==
    ASSUME TypeOK, RemovedIsGone, NEW t \in Threads, Unanswered(t)
    PROVE  TypeOK' /\ Keeps
<1> DEFINE r == held[t]
<1>1. /\ Go(t, "send", After(t), None)
      /\ UNCHANGED <<closing, stop, sendq, oq, sent, published, lost>>
  BY AfterIsIdle DEF Unanswered, Stopped, Holding
<1>2. r \in Report
  BY <1>1, HeldIsReport DEF Go, Holding
<1>3. /\ net' \subseteq net \cup {r}
      /\ order' \in [Orders -> WireStatus] /\ arrived' \in Seq(Report)
      /\ Items(arrived) \subseteq Items(arrived') /\ Items(arrived') \subseteq Items(arrived) \cup {r}
  <2>1. CASE Arrive(r) /\ net' = net
    BY <1>2, <2>1, ArriveFacts DEF Items
  <2>2. CASE UNCHANGED serverVars /\ net' \subseteq net \cup {r}
    BY <2>2, Types DEF serverVars
  <2> QED
    BY <2>1, <2>2 DEF Unanswered
<1> HIDE DEF r
<1>4. TypeOK'
  BY <1>1, <1>2, <1>3, AfterIsIdle, GoKeepsType, Types
<1>5. /\ WaitingHands' \subseteq WaitingHands /\ WaitingHands \subseteq WaitingHands'
      /\ SendingHands' \subseteq SendingHands /\ DoneHands' \subseteq DoneHands
      /\ r \in SendingHands
  BY <1>1, AfterIsIdle, GoMoves DEF r, Holding
<1>6. Waiting' = Waiting /\ Gone \subseteq Gone'
  BY <1>1, <1>3, <1>5, WaitingIs DEF Gone
<1> QED
  BY <1>1, <1>3, <1>4, <1>5, <1>6 DEF Keeps, InFlight, RemovedIsGone

LEMMA LateStep ==
    ASSUME TypeOK, RemovedIsGone, NEW r \in net, Late(r)
    PROVE  TypeOK' /\ Keeps
<1>1. /\ net' = net \ {r} /\ Arrive(r)
      /\ UNCHANGED <<at, held, closing, stop, sendq, oq, sent, published, lost>>
  BY DEF Late
<1>2. /\ order' \in [Orders -> WireStatus] /\ arrived' \in Seq(Report)
      /\ Items(arrived') = Items(arrived) \cup {r}
  <2>1. r \in Report
    BY Types
  <2> QED
    BY <1>1, <2>1, ArriveFacts DEF Items
<1>3. TypeOK'
  BY <1>1, <1>2 DEF TypeOK
<1>4. WaitingHands' = WaitingHands /\ SendingHands' = SendingHands /\ DoneHands' = DoneHands
  BY <1>1 DEF WaitingHands, SendingHands, DoneHands, Hands
<1>5. Waiting' = Waiting /\ Gone \subseteq Gone'
  BY <1>1, <1>2, <1>4, WaitingIs DEF Gone
<1> QED
  BY <1>1, <1>2, <1>3, <1>4, <1>5 DEF Keeps, InFlight, RemovedIsGone

\* What is removed is what was done with, whoever changed the queue meanwhile.
LEMMA PopStep == ASSUME TypeOK, RemovedIsGone, NEW t \in Threads, Pop(t) PROVE TypeOK' /\ Keeps
<1> DEFINE r == held[t]
<1>1. /\ Go(t, "pop", "peek", None) /\ oq' = PopIfHead(r) /\ sent' = sent \cup {r}
      /\ UNCHANGED <<closing, stop, sendq, net, serverVars, published, lost>>
  BY DEF Pop
<1>2. r \in Report
  BY <1>1, HeldIsReport DEF Go, Holding
<1> HIDE DEF r
<1>3. /\ oq' \in Seq(Report) /\ Len(oq') <= MaxDepth
      /\ Items(oq') \subseteq Items(oq) /\ Items(oq) \subseteq Items(oq') \cup {r}
  <2>1. CASE oq # <<>> /\ Head(oq) = r
    <3>1. oq' = Tail(oq)
      BY <1>1, <2>1 DEF PopIfHead
    <3>2. /\ oq' \in Seq(Report) /\ Len(oq') = Len(oq) - 1 /\ Len(oq) \in Nat
          /\ Items(oq) = Items(oq') \cup {r}
      BY <2>1, <3>1, Types, TailElems, ItemsAreElems
    <3> QED
      BY <3>2, Types, ReportsAssumption
  <2>2. CASE ~(oq # <<>> /\ Head(oq) = r)
    <3>1. oq' = oq
      BY <1>1, <2>2 DEF PopIfHead
    <3> QED
      BY <3>1, Types
  <2> QED
    BY <2>1, <2>2
<1>4. TypeOK'
  BY <1>1, <1>2, <1>3, GoKeepsType, Types DEF serverVars, Places, Holding
<1>5. /\ WaitingHands' \subseteq WaitingHands /\ WaitingHands \subseteq WaitingHands'
      /\ SendingHands' \subseteq SendingHands /\ DoneHands' \subseteq DoneHands
      /\ r \in DoneHands
  BY <1>1, GoMoves DEF r
<1>6. Items(sendq') = Items(sendq) /\ Items(arrived') = Items(arrived) /\ Gone' = Gone
  BY <1>1 DEF serverVars, Gone
<1>7. r \in Gone
  BY <1>5 DEF RemovedIsGone
<1>8. Waiting' \subseteq Waiting /\ Waiting \subseteq Waiting' \cup Gone'
  BY <1>3, <1>5, <1>6, <1>7, WaitingIs
<1> QED
  BY <1>1, <1>4, <1>5, <1>6, <1>7, <1>8 DEF Keeps, InFlight, RemovedIsGone

\* Every step but a publication.
LEMMA QuietStep ==
    ASSUME TypeOK, RemovedIsGone, [Next]_vars, ~ \E r \in Report : Publish(r)
    PROVE  TypeOK' /\ Keeps
<1>1. CASE Walk
  BY <1>1, WalkStep
<1>2. CASE Stop \/ UNCHANGED vars
  BY <1>2, StillStep
<1>3. CASE Put
  BY <1>3, PutStep
<1>4. CASE Get \/ Drain
  BY <1>4, TakeStep
<1>5. ASSUME NEW t \in Threads, Flush(t) PROVE TypeOK' /\ Keeps
  BY <1>5, EnqueueStep, PeekStep, SentStep, UnansweredStep, PopStep DEF Flush
<1>6. ASSUME NEW r \in net, Late(r) PROVE TypeOK' /\ Keeps
  BY <1>6, LateStep
<1> QED
  BY <1>1, <1>2, <1>3, <1>4, <1>5, <1>6 DEF Next, Walk

\* A publication adds its report to what is published and to what waits.
LEMMA PublishStep ==
    ASSUME TypeOK, RemovedIsGone, NEW r \in Report, Publish(r)
    PROVE  /\ TypeOK' /\ RemovedIsGone'
           /\ published' = Append(published, r) /\ Following(r)
           /\ UNCHANGED <<net, order, arrived, lost>> /\ Gone' = Gone
           /\ Waiting' = Waiting \cup {r} /\ SendingHands' \subseteq SendingHands
<1>1. PICK to \in {"put", "enqueue"} : Go("main", "run", to, r)
  BY DEF Publish
<1>2. /\ published' = Append(published, r) /\ Following(r) /\ "main" \in Threads
      /\ UNCHANGED <<closing, stop, sendq, oq, sent, net, order, arrived, lost>>
  BY DEF Publish, serverVars, Threads
<1>3. published' \in Seq(Report)
  BY <1>2, Types
<1>4. TypeOK'
  BY <1>1, <1>2, <1>3, GoKeepsType, Types DEF Places, Holding
<1>5. /\ WaitingHands' \subseteq WaitingHands \cup {r} /\ WaitingHands \subseteq WaitingHands'
      /\ SendingHands' \subseteq SendingHands /\ DoneHands' \subseteq DoneHands
      /\ r \in WaitingHands'
  BY <1>1, <1>2, GoMoves
<1>6. Items(sendq') = Items(sendq) /\ Items(oq') = Items(oq) /\ Gone' = Gone
  BY <1>2 DEF Gone, Items
<1>7. Waiting' = Waiting \cup {r}
  BY <1>5, <1>6, WaitingIs
<1> QED
  BY <1>2, <1>4, <1>5, <1>6, <1>7 DEF RemovedIsGone

\* Nothing is skipped by any step.
LEMMA SkipStep ==
    ASSUME TypeOK, RemovedIsGone, Sourced, NothingSkipped, [Next]_vars
    PROVE  TypeOK' /\ RemovedIsGone' /\ Sourced' /\ NothingSkipped'
<1>0. NothingSkipped = (Items(published) \subseteq Waiting \cup Gone) /\
      NothingSkipped' = (Items(published') \subseteq Waiting' \cup Gone')
  BY DEF NothingSkipped, Gone, Items, Waiting
<1>1. ASSUME NEW r \in Report, Publish(r)
      PROVE  TypeOK' /\ RemovedIsGone' /\ Sourced' /\ NothingSkipped'
  <2>1. Items(published') = Items(published) \cup {r}
    <3>1. published' = Append(published, r) /\ published \in Seq(Report)
      BY <1>1, PublishStep, Types
    <3> QED
      BY <3>1, AppendElems, ItemsAreElems
  <2>2. /\ TypeOK' /\ RemovedIsGone' /\ net' = net /\ arrived' = arrived /\ Gone' = Gone
        /\ Waiting' = Waiting \cup {r} /\ SendingHands' \subseteq SendingHands
    BY <1>1, PublishStep
  <2>3. InFlight' \subseteq InFlight \cup {r}
    BY <2>2 DEF InFlight
  <2>4. Items(arrived') = Items(arrived)
    BY <2>2
  <2>5. Sourced'
    <3>1. Sourced' = (InFlight' \cup Items(arrived') \subseteq Items(published'))
      BY DEF Sourced, Items
    <3> QED
      BY <2>1, <2>3, <2>4, <3>1 DEF Sourced
  <2> QED
    BY <1>0, <2>1, <2>2, <2>5
<1>2. CASE ~ \E r \in Report : Publish(r)
  <2>1. TypeOK' /\ Keeps
    BY <1>2, QuietStep
  <2>2. Items(published') = Items(published)
    BY <2>1 DEF Keeps
  <2>3. Sourced'
    <3>1. Sourced' = (InFlight' \cup Items(arrived') \subseteq Items(published'))
      BY DEF Sourced, Items
    <3> QED
      BY <2>1, <2>2, <3>1 DEF Keeps, Sourced
  <2> QED
    BY <1>0, <2>1, <2>2, <2>3 DEF Keeps
<1> QED
  BY <1>1, <1>2

-----------------------------------------------------------------------------
(* The outcome of an order.                                                *)

\* What follows a published report is of the same order, or of the next one
\* after an outcome.
LEMMA OneOutcomeStep ==
    ASSUME TypeOK, RemovedIsGone, OneOutcome, [Next]_vars
    PROVE  OneOutcome'
<1>1. CASE ~ \E r \in Report : Publish(r)
  <2>1. published' = published
    BY <1>1, QuietStep DEF Keeps
  <2> QED
    BY <2>1 DEF OneOutcome
<1>2. ASSUME NEW r \in Report, Publish(r) PROVE OneOutcome'
  <2> DEFINE n == Len(published)
  <2>1. /\ published \in Seq(Report) /\ n \in Nat
        /\ published' = Append(published, r) /\ Following(r)
    BY <1>2, Types, PublishStep
  <2>2. /\ Len(published') = n + 1 /\ published'[n + 1] = r
        /\ \A i \in 1 .. n : published'[i] = published[i] /\ published[i] \in Report
    BY <2>1
  <2>3. ASSUME n # 0
        PROVE  /\ published[n] \in Report
               /\ \/ published[n].phase \in Final /\ r.order = published[n].order + 1
                  \/ published[n].phase \notin Final /\ r.order = published[n].order
    <3>1. published # <<>> /\ Last(published) = published[n] /\ published[n] \in Report
      BY <2>1, <2>2, <2>3 DEF Last
    <3> QED
      BY <2>1, <3>1 DEF Following, Between
  <2> HIDE DEF n
  <2>4. ASSUME NEW i \in 1 .. n
        PROVE  /\ published[i].order <= r.order
               /\ published[i].order = r.order => published[i].phase \notin Final
    <3>1. /\ published[n] \in Report /\ published[i] \in Report /\ n # 0
          /\ published[i].order \in Nat /\ published[n].order \in Nat
      BY <2>1, <2>2, <2>4 DEF Report, Orders
    <3>2. CASE i = n
      BY <2>3, <3>1, <3>2
    <3>3. CASE i # n
      <4>1. /\ published[i].order <= published[n].order
            /\ published[i].order = published[n].order => published[i].phase \notin Final
        BY <2>1, <2>4, <3>3 DEF OneOutcome, n
      <4> QED
        BY <2>3, <3>1, <4>1
    <3> QED
      BY <3>2, <3>3
  <2>5. ASSUME NEW i \in 1 .. n + 1, NEW j \in 1 .. n + 1, i < j
        PROVE  /\ published'[i].order <= published'[j].order
               /\ published'[i].order = published'[j].order => published'[i].phase \notin Final
    <3>1. i \in 1 .. n
      BY <2>1, <2>5
    <3>2. CASE j = n + 1
      BY <2>2, <2>4, <3>1, <3>2
    <3>3. CASE j # n + 1
      <4>1. j \in 1 .. n
        BY <2>1, <2>5, <3>3
      <4> QED
        BY <2>2, <2>5, <3>1, <4>1 DEF OneOutcome, n
    <3> QED
      BY <3>2, <3>3
  <2> QED
    BY <2>2, <2>5 DEF OneOutcome
<1> QED
  BY <1>1, <1>2

\* Two outcomes of an order are one report.
LEMMA OutcomeIsOne ==
    ASSUME TypeOK, OneOutcome, NEW r \in Items(published), NEW s \in Items(published),
           r.order = s.order, r.phase \in Final, s.phase \in Final
    PROVE  r = s
<1>1. PICK i \in 1 .. Len(published), j \in 1 .. Len(published) : published[i] = r /\ published[j] = s
  BY DEF Items
<1>2. Len(published) \in Nat
  BY Types
<1>3. ~ i < j /\ ~ j < i
  BY <1>1 DEF OneOutcome
<1> QED
  BY <1>1, <1>2, <1>3

OutcomeInv == OutcomeArrived /\ OutcomeStands

\* A request that reaches the server sets an outcome once and for all.
LEMMA ArriveStep ==
    ASSUME TypeOK, OneOutcome, OutcomeInv, Items(arrived) \subseteq Items(published),
           NEW r \in Items(published), Arrive(r)
    PROVE  OutcomeInv'
<1>1. r \in Report /\ r.order \in Orders /\ r.phase \in Phase /\ Items(arrived) \subseteq Report
  <2>1. Items(arrived) \subseteq Report /\ Items(published) \subseteq Report
    BY Types DEF Items
  <2> QED
    BY <2>1 DEF Report
<1>2. CASE r \in Items(arrived)
  <2>1. arrived' = arrived /\ order' = order
    BY <1>2 DEF Arrive, serverVars
  <2> QED
    BY <2>1 DEF OutcomeInv, OutcomeArrived, OutcomeStands, Items
<1>3. CASE r \notin Items(arrived)
  <2>1. /\ Items(arrived)' = Items(arrived) \cup {r} /\ order \in [Orders -> WireStatus]
        /\ order' = IF Applies(order[r.order], Wire(r.phase))
                    THEN [order EXCEPT ![r.order] = Wire(r.phase)] ELSE order
    BY <1>1, <1>3, ArriveFacts, Types DEF Arrive
  <2>2. ASSUME order[r.order] \in Final PROVE order' = order /\ r.phase \notin Final
    <3>1. PICK s \in Items(arrived) : s.order = r.order /\ s.phase = order[r.order]
      BY <1>1, <2>2 DEF OutcomeInv, OutcomeArrived
    <3>2. r.phase \notin Final
      BY <1>3, <2>2, <3>1, OutcomeIsOne
    <3>3. Wire(r.phase) = "PROCESSING"
      BY <3>2 DEF Wire
    <3>4. ~Applies(order[r.order], Wire(r.phase))
      BY <2>2, <3>3 DEF Applies, Final
    <3> QED
      BY <2>1, <3>2, <3>4
  <2>3. ASSUME order[r.order] \notin Final, r.phase \in Final
        PROVE  order' = [order EXCEPT ![r.order] = r.phase]
    <3>1. order[r.order] \in {"PENDING", "PROCESSING"} /\ Wire(r.phase) = r.phase
      BY <1>1, <2>1, <2>3 DEF WireStatus, Final, Wire
    <3> QED
      BY <2>1, <2>3, <3>1 DEF Applies, Final
  <2>4. ASSUME order[r.order] \notin Final, r.phase \notin Final
        PROVE  order'[r.order] \notin Final /\ \A o \in Orders \ {r.order} : order'[o] = order[o]
    <3>1. Wire(r.phase) = "PROCESSING"
      BY <2>4 DEF Wire
    <3> QED
      BY <1>1, <2>1, <2>4, <3>1 DEF Final
  <2>5. ASSUME NEW o \in Orders, order'[o] \in Final
        PROVE  \E s \in Items(arrived)' : s.order = o /\ s.phase = order'[o]
    <3>1. CASE order'[o] = order[o]
      BY <2>1, <2>5, <3>1 DEF OutcomeInv, OutcomeArrived
    <3>2. CASE order'[o] # order[o]
      BY <1>1, <2>1, <2>2, <2>3, <2>4, <2>5, <3>2
    <3> QED
      BY <3>1, <3>2
  <2>6. ASSUME NEW s \in Items(arrived)', s.phase \in Final
        PROVE  order'[s.order] = s.phase
    <3>1. CASE s = r
      BY <1>1, <2>1, <2>2, <2>3, <2>6, <3>1
    <3>2. CASE s \in Items(arrived)
      <4>1. s.order \in Orders /\ order[s.order] = s.phase
        BY <1>1, <2>6, <3>2 DEF OutcomeInv, OutcomeStands, Report
      <4>2. CASE s.order = r.order
        BY <2>2, <2>6, <4>1, <4>2
      <4>3. CASE s.order # r.order
        BY <2>1, <4>1, <4>3
      <4> QED
        BY <4>2, <4>3
    <3> QED
      BY <2>1, <3>1, <3>2
  <2> QED
    BY <2>5, <2>6 DEF OutcomeInv, OutcomeArrived, OutcomeStands
<1> QED
  BY <1>2, <1>3

\* The server moves only when a request reaches it.
LEMMA OutcomeStep ==
    ASSUME TypeOK, Sourced, OneOutcome, OutcomeInv, [Next]_vars
    PROVE  OutcomeInv'
<1>1. CASE UNCHANGED serverVars
  BY <1>1 DEF serverVars, OutcomeInv, OutcomeArrived, OutcomeStands, Items
<1>2. ASSUME NEW t \in Threads, Answered(t) \/ Unanswered(t), ~UNCHANGED serverVars PROVE OutcomeInv'
  <2>1. at[t] = "send" /\ Arrive(held[t])
    BY <1>2 DEF Answered, Unanswered, Go
  <2>2. held[t] \in InFlight
    BY <2>1 DEF InFlight, SendingHands, Hands
  <2> QED
    BY <2>1, <2>2, ArriveStep DEF Sourced
<1>3. ASSUME NEW r \in net, Late(r) PROVE OutcomeInv'
  BY <1>3, ArriveStep DEF Late, Sourced, InFlight
<1>4. UNCHANGED serverVars \/ (\E t \in Threads : Answered(t) \/ Unanswered(t)) \/ (\E r \in net : Late(r))
  BY DEF Next, vars, serverVars, Publish, Put, Stop, Shutdown, Drain, LastFlush, Get, Empty,
         SenderExits, Rest, Beat, BeatFlush, Flush, Enqueue, Peek, Refused, Pop
<1> QED
  BY <1>1, <1>2, <1>3, <1>4

-----------------------------------------------------------------------------
(* The order of arrival.  Until a stop is requested only the consuming     *)
(* thread fills the send queue and only the sender empties it, so the      *)
(* reports stand in one line: the OfflineQueue, the sender's hand, the     *)
(* send queue, the hand of the consuming thread.                           *)

\* Pairs of reports in the order of their publication.
Earlier == {p \in Report \X Report : \E i, j \in 1 .. Len(published) :
                i < j /\ published[i] = p[1] /\ published[j] = p[2]}

Calm ==
    /\ ~stop
    /\ at["main"] \in {"run", "put"} /\ at["beat"] \in {"wait", "emit"}
    /\ at["sender"] \in {"poll", "empty", "enqueue", "peek", "send", "pop"}

InHand(t, place) == IF at[t] = place THEN {held[t]} ELSE {}
Putting == InHand("main", "put")
Taken == InHand("sender", "enqueue")
UnderWay == net \cup InHand("sender", "send")
Line == Items(oq) \cup Taken \cup Items(sendq) \cup Putting

InLine ==
    /\ SortedBy(oq, Earlier) /\ SortedBy(sendq, Earlier)
    /\ Items(oq) \X (Taken \cup Items(sendq) \cup Putting) \subseteq Earlier
    /\ Taken \X (Items(sendq) \cup Putting) \subseteq Earlier
    /\ Items(sendq) \X Putting \subseteq Earlier

\* What arrived, unless it was given up before, precedes all that waits.
Ahead == (Items(arrived) \ lost) \X (Line \ Items(arrived)) \subseteq Earlier

\* A request may still be new to the server only for the head of the queue.
OnlyHead == \A r \in UnderWay \ Gone : oq # <<>> /\ Head(oq) = r

OrderInv == Calm /\ InLine /\ Ahead /\ OnlyHead /\ ArrivesInOrder

\* The property in terms of the pairs.
ArrivedSorted ==
    \A m, n \in 1 .. Len(arrived) :
        m < n /\ arrived[m] \notin lost /\ arrived[n] \notin lost
            => <<arrived[m], arrived[n]>> \in Earlier

LEMMA InOrderIs == TypeOK => (ArrivesInOrder <=> ArrivedSorted)
<1> SUFFICES ASSUME TypeOK PROVE ArrivesInOrder <=> ArrivedSorted
  OBVIOUS
<1>1. ASSUME NEW m \in 1 .. Len(arrived), NEW n \in 1 .. Len(arrived)
      PROVE  /\ <<arrived[m], arrived[n]>> \in Earlier <=>
                   \E i, j \in 1 .. Len(published) :
                       i < j /\ published[i] = arrived[m] /\ published[j] = arrived[n]
             /\ {arrived[m], arrived[n]} \cap lost = {} <=>
                   arrived[m] \notin lost /\ arrived[n] \notin lost
  <2>1. arrived[m] \in Report /\ arrived[n] \in Report
    BY Types
  <2> QED
    BY <2>1 DEF Earlier
<1> HIDE DEF Earlier
<1>2. ASSUME ArrivesInOrder PROVE ArrivedSorted
  BY <1>1, <1>2 DEF ArrivesInOrder, ArrivedSorted
<1>3. ASSUME ArrivedSorted PROVE ArrivesInOrder
  BY <1>1, <1>3 DEF ArrivesInOrder, ArrivedSorted
<1> QED
  BY <1>2, <1>3

\* The pairs of what is published already stay, and a new report comes last.
LEMMA EarlierGrows ==
    ASSUME TypeOK, NEW r \in Report, published' = Append(published, r)
    PROVE  Earlier \subseteq Earlier' /\ Items(published) \X {r} \subseteq Earlier'
<1> DEFINE n == Len(published)
<1>1. published \in Seq(Report)
  BY Types
<1>2. /\ n \in Nat /\ Len(published') = n + 1 /\ published'[n + 1] = r
      /\ \A i \in 1 .. n : published'[i] = published[i] /\ published[i] \in Report
  BY <1>1
<1> HIDE DEF n
<1>3. 1 .. n \subseteq 1 .. n + 1 /\ n + 1 \in 1 .. n + 1 /\ \A i \in 1 .. n : i < n + 1
  BY <1>2
<1>4. Earlier \subseteq Earlier'
  BY <1>2, <1>3 DEF Earlier, n
<1>5. ASSUME NEW i \in 1 .. n PROVE <<published[i], r>> \in Earlier'
  <2>1. published'[i] = published[i] /\ published[i] \in Report /\ i \in 1 .. Len(published')
        /\ n + 1 \in 1 .. Len(published') /\ i < n + 1 /\ published'[n + 1] = r
    BY <1>2, <1>3
  <2> QED
    BY <2>1 DEF Earlier
<1> QED
  BY <1>4, <1>5 DEF Items, n

LEMMA GoIs ==
    ASSUME TypeOK, NEW t \in Threads, NEW from, NEW to, NEW r, Go(t, from, to, r)
    PROVE  /\ at[t] = from /\ at'[t] = to /\ held'[t] = r
           /\ \A u \in Threads \ {t} : at'[u] = at[u] /\ held'[u] = held[u]
  BY DEF Go, TypeOK

\* What a move of one thread leaves of the other two.
LEMMA SenderGoes ==
    ASSUME TypeOK, NEW from, NEW to, NEW r, Go("sender", from, to, r)
    PROVE  /\ at["sender"] = from /\ at'["sender"] = to /\ held'["sender"] = r
           /\ at'["main"] = at["main"] /\ held'["main"] = held["main"] /\ at'["beat"] = at["beat"]
  BY GoIs DEF Threads

LEMMA MainGoes ==
    ASSUME TypeOK, NEW from, NEW to, NEW r, Go("main", from, to, r)
    PROVE  /\ at["main"] = from /\ at'["main"] = to /\ held'["main"] = r
           /\ at'["sender"] = at["sender"] /\ held'["sender"] = held["sender"] /\ at'["beat"] = at["beat"]
  BY GoIs DEF Threads

LEMMA BeatGoes ==
    ASSUME TypeOK, NEW from, NEW to, NEW r, Go("beat", from, to, r)
    PROVE  /\ at'["beat"] = to
           /\ at'["sender"] = at["sender"] /\ held'["sender"] = held["sender"]
           /\ at'["main"] = at["main"] /\ held'["main"] = held["main"]
  BY GoIs DEF Threads

\* Nothing new has arrived, and the line has only become shorter.
LEMMA QuietServer ==
    ASSUME TypeOK, TypeOK', OrderInv, published' = published, arrived' = arrived,
           lost \subseteq lost', Line' \subseteq Line
    PROVE  Ahead' /\ ArrivesInOrder'
<1>1. Earlier' = Earlier
  BY DEF Earlier
<1>2. Items(arrived)' = Items(arrived)
  BY DEF Items
<1>3. Ahead'
  BY <1>1, <1>2 DEF OrderInv, Ahead
<1>4. ArrivesInOrder'
  <2>1. ArrivedSorted
    BY InOrderIs DEF OrderInv
  <2>2. ArrivedSorted'
    BY <1>1, <2>1 DEF ArrivedSorted
  <2>3. TypeOK' => (ArrivesInOrder' <=> ArrivedSorted')
    BY InOrderIs, PTL
  <2> QED
    BY <2>2, <2>3
<1> QED
  BY <1>3, <1>4

\* A request reaches the server: its report is the head of the line, known to
\* the server already, or given up.
LEMMA ArrivalInOrder ==
    ASSUME TypeOK, TypeOK', OrderInv, NEW r \in UnderWay, r \in Report, Arrive(r),
           published' = published, lost' = lost, Line' = Line
    PROVE  Ahead' /\ ArrivesInOrder'
<1>1. Earlier' = Earlier
  BY DEF Earlier
<1>2. CASE r \in Items(arrived)
  <2>1. arrived' = arrived
    BY <1>2 DEF Arrive, serverVars
  <2> QED
    BY <2>1, QuietServer
<1>3. CASE r \notin Items(arrived)
  <2> DEFINE n == Len(arrived)
  <2>1. arrived' = Append(arrived, r) /\ arrived \in Seq(Report)
    BY <1>3, Types DEF Arrive
  <2>2. Items(arrived)' = Items(arrived) \cup {r}
    BY <1>3, ArriveFacts
  <2>3. /\ n \in Nat /\ Len(arrived') = n + 1 /\ arrived'[n + 1] = r
        /\ \A m \in 1 .. n : arrived'[m] = arrived[m] /\ arrived[m] \in Items(arrived)
    BY <2>1 DEF Items
  <2> HIDE DEF n
  <2>4. r \in lost \/ (oq # <<>> /\ Head(oq) = r)
    BY <1>3 DEF OrderInv, OnlyHead, Gone
  <2>5. ASSUME r \notin lost PROVE r \in Line
    <3>1. Head(oq) \in Items(oq)
      BY <2>4, <2>5, Types, TailElems, ItemsAreElems
    <3> QED
      BY <2>4, <2>5, <3>1 DEF Line
  <2>6. ASSUME r \notin lost, NEW x \in Line, x # r PROVE <<r, x>> \in Earlier
    <3>1. /\ oq \in Seq(Report) /\ oq # <<>> /\ Head(oq) = r
          /\ Items(oq) = Items(Tail(oq)) \cup {r}
          /\ \A y \in Items(Tail(oq)) : <<r, y>> \in Earlier
      BY <2>4, <2>6, Types, TailElems, TailSorted, ItemsAreElems DEF OrderInv, InLine
    <3>2. CASE x \in Items(oq)
      BY <2>6, <3>1, <3>2
    <3>3. CASE x \notin Items(oq)
      <4>1. r \in Items(oq)
        BY <3>1
      <4> QED
        BY <2>6, <3>3, <4>1 DEF Line, OrderInv, InLine
    <3> QED
      BY <3>2, <3>3
  <2>7. Ahead'
    <3>1. ASSUME NEW a \in Items(arrived)' \ lost', NEW x \in Line' \ Items(arrived)'
          PROVE  <<a, x>> \in Earlier'
      <4>1. x \in Line \ Items(arrived) /\ x # r /\ a \notin lost /\ (a = r \/ a \in Items(arrived))
        BY <2>2, <3>1
      <4>2. CASE a = r
        BY <1>1, <2>6, <4>1, <4>2
      <4>3. CASE a \in Items(arrived)
        BY <1>1, <4>1, <4>3 DEF OrderInv, Ahead
      <4> QED
        BY <4>1, <4>2, <4>3
    <3> QED
      BY <3>1 DEF Ahead
  <2>8. ASSUME NEW k \in 1 .. Len(arrived'), NEW m \in 1 .. Len(arrived'), k < m,
               arrived'[k] \notin lost', arrived'[m] \notin lost'
        PROVE  <<arrived'[k], arrived'[m]>> \in Earlier'
    <3>1. k \in 1 .. n /\ (m \in 1 .. n \/ m = n + 1)
      BY <2>3, <2>8
    <3>2. CASE m \in 1 .. n
      <4>1. <<arrived[k], arrived[m]>> \in Earlier
        BY <2>3, <2>8, <3>1, <3>2, InOrderIs DEF OrderInv, ArrivedSorted, n
      <4> QED
        BY <1>1, <2>3, <3>1, <3>2, <4>1
    <3>3. CASE m = n + 1
      <4>1. r \notin lost /\ r \in Line \ Items(arrived) /\ arrived[k] \in Items(arrived) \ lost
        BY <1>3, <2>3, <2>5, <2>8, <3>1, <3>3
      <4>2. <<arrived[k], r>> \in Earlier
        BY <4>1 DEF OrderInv, Ahead
      <4> QED
        BY <1>1, <2>3, <3>1, <3>3, <4>2
    <3> QED
      BY <3>1, <3>2, <3>3
  <2>9. ArrivesInOrder'
    <3>1. ArrivedSorted'
      BY <2>8 DEF ArrivedSorted
    <3>2. TypeOK' => (ArrivesInOrder' <=> ArrivedSorted')
      BY InOrderIs, PTL
    <3> QED
      BY <3>1, <3>2
  <2> QED
    BY <2>7, <2>9
<1> QED
  BY <1>2, <1>3

-----------------------------------------------------------------------------
(* The steps.                                                              *)

\* A step that leaves the line, the requests and the server alone.
LEMMA StillOrder ==
    ASSUME TypeOK, TypeOK', OrderInv, Calm', Taken' = Taken, Putting' = Putting,
           InHand("sender", "send")' \subseteq InHand("sender", "send"),
           UNCHANGED <<sendq, oq, net, arrived, published, lost>>
    PROVE  OrderInv'
<1>1. Earlier' = Earlier /\ Gone' = Gone /\ Items(oq)' = Items(oq) /\ Items(sendq)' = Items(sendq)
  BY DEF Earlier, Gone, Items
<1>2. Line' = Line /\ UnderWay' \subseteq UnderWay
  BY <1>1 DEF Line, UnderWay
<1>3. InLine' /\ OnlyHead'
  BY <1>1, <1>2 DEF OrderInv, InLine, OnlyHead
<1>4. Ahead' /\ ArrivesInOrder'
  BY <1>2, QuietServer
<1> QED
  BY <1>3, <1>4 DEF OrderInv

\* The new report comes after all that was published before.
LEMMA PublishOrder ==
    ASSUME TypeOK, TypeOK', Sourced, OrderInv, NEW r \in Report, Publish(r)
    PROVE  OrderInv'
<1>1. /\ Go("main", "run", "put", r) /\ published' = Append(published, r)
      /\ UNCHANGED <<closing, stop, sendq, oq, sent, net, arrived, lost>>
  BY DEF Publish, SenderAlive, OrderInv, Calm, serverVars
<1>2. /\ Calm' /\ Taken' = Taken /\ InHand("sender", "send")' = InHand("sender", "send")
      /\ Putting' = {r} /\ Putting = {}
  <2>1. /\ at["main"] = "run" /\ at'["main"] = "put" /\ held'["main"] = r
        /\ at'["sender"] = at["sender"] /\ held'["sender"] = held["sender"] /\ at'["beat"] = at["beat"]
    BY <1>1, MainGoes
  <2> QED
    BY <1>1, <2>1 DEF OrderInv, Calm, Putting, Taken, InHand
<1>3. Earlier \subseteq Earlier' /\ Items(published) \X {r} \subseteq Earlier'
  BY <1>1, EarlierGrows
<1>4. /\ Items(oq)' = Items(oq) /\ Items(sendq)' = Items(sendq) /\ Items(arrived)' = Items(arrived)
      /\ Gone' = Gone
  BY <1>1 DEF Gone, Items
<1>5. Items(oq) \cup Items(sendq) \cup Taken \cup Items(arrived) \subseteq Items(published)
  BY WaitingIs DEF Sourced, InFlight, Taken, InHand, WaitingHands, Hands, Threads
<1>6. InLine'
  BY <1>1, <1>2, <1>3, <1>4, <1>5 DEF OrderInv, InLine, SortedBy
<1>7. Ahead'
  BY <1>1, <1>2, <1>3, <1>4, <1>5 DEF OrderInv, Ahead, Line
<1>8. OnlyHead'
  BY <1>1, <1>2, <1>4 DEF OrderInv, OnlyHead, UnderWay
<1>9. ArrivesInOrder'
  <2>1. ArrivedSorted
    BY InOrderIs DEF OrderInv
  <2>2. ArrivedSorted'
    BY <1>1, <1>3, <2>1 DEF ArrivedSorted
  <2>3. TypeOK' => (ArrivesInOrder' <=> ArrivedSorted')
    BY InOrderIs, PTL
  <2> QED
    BY <2>2, <2>3
<1> QED
  BY <1>2, <1>6, <1>7, <1>8, <1>9 DEF OrderInv

LEMMA PutOrder == ASSUME TypeOK, TypeOK', OrderInv, Put PROVE OrderInv'
<1> DEFINE r == held["main"]
<1>1. /\ Go("main", "put", "run", None) /\ sendq' = Append(sendq, r)
      /\ UNCHANGED <<closing, stop, oq, sent, net, arrived, order, published, lost>>
  BY DEF Put, serverVars
<1>2. /\ Calm' /\ Taken' = Taken /\ InHand("sender", "send")' = InHand("sender", "send")
      /\ Putting' = {} /\ Putting = {r}
  <2>1. /\ at["main"] = "put" /\ at'["main"] = "run" /\ held'["main"] = None
        /\ at'["sender"] = at["sender"] /\ held'["sender"] = held["sender"] /\ at'["beat"] = at["beat"]
    BY <1>1, MainGoes
  <2> QED
    BY <1>1, <2>1 DEF OrderInv, Calm, Putting, Taken, InHand
<1>3. r \in Report
  <2>1. at["main"] = "put" /\ "main" \in Threads
    BY <1>1 DEF Go, Threads
  <2> QED
    BY <2>1, HeldIsReport DEF Holding
<1> HIDE DEF r
<1>4. /\ Earlier' = Earlier /\ Items(oq)' = Items(oq) /\ Items(arrived)' = Items(arrived) /\ Gone' = Gone
  BY <1>1 DEF Gone, Items, Earlier
<1>5. Items(sendq)' = Items(sendq) \cup {r}
  BY <1>1, <1>3, Types, AppendElems, ItemsAreElems
<1>6. SortedBy(sendq', Earlier)
  <2>1. sendq \in Seq(Report) /\ SortedBy(sendq, Earlier) /\ \A x \in Elems(sendq) : <<x, r>> \in Earlier
    BY <1>2, Types, ItemsAreElems DEF OrderInv, InLine
  <2> QED
    BY <1>1, <1>3, <2>1, AppendSorted
<1>7. Line' = Line /\ UnderWay' = UnderWay
  BY <1>1, <1>2, <1>4, <1>5 DEF Line, UnderWay
<1>8. InLine'
  BY <1>1, <1>2, <1>4, <1>5, <1>6 DEF OrderInv, InLine
<1>9. OnlyHead'
  BY <1>1, <1>4, <1>7 DEF OrderInv, OnlyHead
<1>10. Ahead' /\ ArrivesInOrder'
  BY <1>1, <1>7, QuietServer
<1> QED
  BY <1>2, <1>8, <1>9, <1>10 DEF OrderInv

LEMMA GetOrder == ASSUME TypeOK, TypeOK', OrderInv, Get PROVE OrderInv'
<1> DEFINE r == Head(sendq)
<1>1. /\ Go("sender", "poll", "enqueue", r) /\ sendq # <<>> /\ sendq' = Tail(sendq)
      /\ UNCHANGED <<closing, stop, oq, sent, net, arrived, order, published, lost>>
  BY DEF Get, serverVars
<1>2. /\ Calm' /\ Putting' = Putting /\ Taken' = {r} /\ Taken = {}
      /\ InHand("sender", "send")' = {} /\ InHand("sender", "send") = {}
  <2>1. /\ at["sender"] = "poll" /\ at'["sender"] = "enqueue" /\ held'["sender"] = r
        /\ at'["main"] = at["main"] /\ held'["main"] = held["main"] /\ at'["beat"] = at["beat"]
    BY <1>1, SenderGoes
  <2> QED
    BY <1>1, <2>1 DEF OrderInv, Calm, Putting, Taken, InHand
<1>3. Items(sendq) = Items(sendq') \cup {r}
  BY <1>1, Types, TailElems, ItemsAreElems
<1>4. SortedBy(sendq', Earlier) /\ \A x \in Items(sendq') : <<r, x>> \in Earlier
  <2>1. sendq \in Seq(Report) /\ SortedBy(sendq, Earlier)
    BY Types DEF OrderInv, InLine
  <2> QED
    BY <1>1, <2>1, TailSorted, ItemsAreElems
<1> HIDE DEF r
<1>5. /\ Earlier' = Earlier /\ Items(oq)' = Items(oq) /\ Items(arrived)' = Items(arrived) /\ Gone' = Gone
      /\ Items(sendq)' = Items(sendq')
  BY <1>1 DEF Gone, Items, Earlier
<1>6. Line' = Line /\ UnderWay' = UnderWay
  BY <1>1, <1>2, <1>3, <1>5 DEF Line, UnderWay
<1>7. InLine'
  BY <1>1, <1>2, <1>3, <1>4, <1>5 DEF OrderInv, InLine
<1>8. OnlyHead'
  BY <1>1, <1>5, <1>6 DEF OrderInv, OnlyHead
<1>9. Ahead' /\ ArrivesInOrder'
  BY <1>1, <1>6, QuietServer
<1> QED
  BY <1>2, <1>7, <1>8, <1>9 DEF OrderInv

\* A report that waits for its turn goes to the end of the queue; a full queue
\* loses its head, and with it the claim that a request for it is new.
LEMMA EnqueueOrder == ASSUME TypeOK, TypeOK', OrderInv, Enqueue("sender") PROVE OrderInv'
<1> DEFINE r == held["sender"]
           q == IF r \in sent THEN oq ELSE Append(oq, r)
<1>1. /\ Go("sender", "enqueue", "peek", None)
      /\ oq' = IF Over(q) THEN Tail(q) ELSE q
      /\ lost' = IF Over(q) THEN lost \cup ({Head(q)} \ Items(arrived)) ELSE lost
      /\ UNCHANGED <<closing, stop, sendq, sent, net, arrived, order, published>>
  BY DEF Enqueue, serverVars
<1>2. /\ Calm' /\ Putting' = Putting /\ Taken' = {} /\ Taken = {r}
      /\ InHand("sender", "send")' = {} /\ InHand("sender", "send") = {}
  <2>1. /\ at["sender"] = "enqueue" /\ at'["sender"] = "peek" /\ held'["sender"] = None
        /\ at'["main"] = at["main"] /\ held'["main"] = held["main"] /\ at'["beat"] = at["beat"]
    BY <1>1, SenderGoes
  <2> QED
    BY <1>1, <2>1 DEF OrderInv, Calm, Putting, Taken, InHand
<1>3. r \in Report
  <2>1. at["sender"] = "enqueue" /\ "sender" \in Threads
    BY <1>1 DEF Go, Threads
  <2> QED
    BY <2>1, HeldIsReport DEF Holding
<1>4. /\ oq \in Seq(Report) /\ SortedBy(oq, Earlier)
      /\ \A x \in Elems(oq) : <<x, r>> \in Earlier
  BY <1>2, Types, ItemsAreElems DEF OrderInv, InLine
<1>5. /\ q \in Seq(Report) /\ SortedBy(q, Earlier) /\ Items(q) \subseteq Items(oq) \cup {r}
      /\ oq # <<>> => q # <<>> /\ Head(q) = Head(oq)
  <2>1. CASE r \in sent
    BY <1>4, <2>1
  <2>2. CASE r \notin sent
    <3>1. q = Append(oq, r)
      BY <2>2
    <3>2. /\ Append(oq, r) \in Seq(Report)
          /\ oq # <<>> => Append(oq, r) # <<>> /\ Head(Append(oq, r)) = Head(oq)
      BY <1>3, <1>4
    <3> QED
      BY <1>3, <1>4, <3>1, <3>2, AppendSorted, AppendElems, ItemsAreElems
  <2> QED
    BY <2>1, <2>2
<1> HIDE DEF q, r
<1>6. /\ oq' \in Seq(Report) /\ SortedBy(oq', Earlier) /\ Items(oq') \subseteq Items(q)
      /\ lost \subseteq lost'
      /\ q # <<>> => \/ Head(q) \in Items(arrived) \cup lost'
                     \/ oq' # <<>> /\ Head(oq') = Head(q)
  <2>1. CASE Over(q)
    <3>1. oq' = Tail(q) /\ lost' = lost \cup ({Head(q)} \ Items(arrived))
      BY <1>1, <2>1
    <3>2. q # <<>>
      BY <2>1, ReportsAssumption DEF Over
    <3> QED
      BY <1>5, <3>1, <3>2, TailSorted, TailElems, ItemsAreElems
  <2>2. CASE ~Over(q)
    BY <1>1, <1>5, <2>2
  <2> QED
    BY <2>1, <2>2
<1>7. /\ Earlier' = Earlier /\ Items(arrived)' = Items(arrived) /\ Items(sendq)' = Items(sendq)
      /\ Items(oq)' \subseteq Items(oq) \cup {r} /\ Gone' = Items(arrived) \cup lost'
  BY <1>1, <1>5, <1>6 DEF Gone, Items, Earlier
<1>8. Line' \subseteq Line /\ UnderWay' = UnderWay
  BY <1>1, <1>2, <1>7 DEF Line, UnderWay
<1>9. InLine'
  BY <1>1, <1>2, <1>6, <1>7 DEF OrderInv, InLine
<1>10. OnlyHead'
  <2>1. ASSUME NEW x \in UnderWay \ Gone' PROVE oq' # <<>> /\ Head(oq') = x
    <3>1. x \notin Gone
      BY <1>6, <1>7, <2>1 DEF Gone
    <3>2. oq # <<>> /\ Head(oq) = x
      BY <2>1, <3>1 DEF OrderInv, OnlyHead
    <3> QED
      BY <1>5, <1>6, <1>7, <2>1, <3>2
  <2> QED
    BY <1>8, <2>1 DEF OnlyHead
<1>11. Ahead' /\ ArrivesInOrder'
  BY <1>1, <1>6, <1>8, QuietServer
<1> QED
  BY <1>2, <1>9, <1>10, <1>11 DEF OrderInv

\* The head is what a new request is for.
LEMMA PeekOrder == ASSUME TypeOK, TypeOK', OrderInv, Peek("sender") PROVE OrderInv'
<1>1. UNCHANGED <<closing, stop, sendq, oq, sent, net, arrived, order, published, lost>>
  BY DEF Peek, serverVars
<1>2. CASE oq = <<>>
  <2>1. Go("sender", "peek", "poll", None)
    BY <1>2 DEF Peek, After
  <2>2. /\ Calm' /\ Putting' = Putting /\ Taken' = {} /\ Taken = {}
        /\ InHand("sender", "send")' = {} /\ InHand("sender", "send") = {}
    <3>1. /\ at["sender"] = "peek" /\ at'["sender"] = "poll" /\ held'["sender"] = None
          /\ at'["main"] = at["main"] /\ held'["main"] = held["main"] /\ at'["beat"] = at["beat"]
      BY <1>1, <2>1, SenderGoes
    <3> QED
      BY <1>1, <2>1, <3>1 DEF OrderInv, Calm, Putting, Taken, InHand
  <2> QED
    BY <1>1, <2>2, StillOrder
<1>3. CASE oq # <<>>
  <2>1. Go("sender", "peek", "send", Head(oq))
    BY <1>3 DEF Peek
  <2>2. /\ Calm' /\ Putting' = Putting /\ Taken' = {} /\ Taken = {}
        /\ InHand("sender", "send")' = {Head(oq)}
    <3>1. /\ at["sender"] = "peek" /\ at'["sender"] = "send" /\ held'["sender"] = Head(oq)
          /\ at'["main"] = at["main"] /\ held'["main"] = held["main"] /\ at'["beat"] = at["beat"]
      BY <1>1, <2>1, SenderGoes
    <3> QED
      BY <1>1, <2>1, <3>1 DEF OrderInv, Calm, Putting, Taken, InHand
  <2>3. Earlier' = Earlier /\ Gone' = Gone /\ Items(oq)' = Items(oq) /\ Items(sendq)' = Items(sendq)
    BY <1>1 DEF Earlier, Gone, Items
  <2>4. Line' = Line /\ UnderWay' = UnderWay' /\ UnderWay' \subseteq UnderWay \cup {Head(oq)}
    BY <1>1, <2>2, <2>3 DEF Line, UnderWay
  <2>5. InLine'
    BY <1>1, <2>2, <2>3 DEF OrderInv, InLine
  <2>6. OnlyHead'
    BY <1>1, <1>3, <2>3, <2>4 DEF OrderInv, OnlyHead
  <2>7. Ahead' /\ ArrivesInOrder'
    BY <1>1, <2>4, QuietServer
  <2> QED
    BY <2>2, <2>5, <2>6, <2>7 DEF OrderInv
<1> QED
  BY <1>2, <1>3

\* The answer to the request, or the end of the flush without one.
LEMMA SentOrder ==
    ASSUME TypeOK, TypeOK', OrderInv, Answered("sender") \/ Refused("sender") \/ Unanswered("sender")
    PROVE  OrderInv'
<1> DEFINE r == held["sender"]
<1>1. PICK to \in {"pop", "poll"}, h \in {r, None} :
          /\ Go("sender", "send", to, h)
          /\ UNCHANGED <<closing, stop, sendq, oq, sent, published>>
  BY DEF Answered, Refused, Unanswered, Stopped, After
<1>2. /\ Calm' /\ Putting' = Putting /\ Taken' = {} /\ Taken = {}
      /\ InHand("sender", "send")' = {} /\ InHand("sender", "send") = {r}
  <2>1. /\ at["sender"] = "send" /\ at'["sender"] = to /\ held'["sender"] = h
        /\ at'["main"] = at["main"] /\ held'["main"] = held["main"] /\ at'["beat"] = at["beat"]
    BY <1>1, SenderGoes
  <2> QED
    BY <1>1, <2>1 DEF OrderInv, Calm, Putting, Taken, InHand
<1>3. r \in Report
  <2>1. at["sender"] = "send" /\ "sender" \in Threads
    BY <1>1 DEF Go, Threads
  <2> QED
    BY <2>1, HeldIsReport DEF Holding
<1>4. \/ Arrive(r) /\ UNCHANGED <<net, lost>>
      \/ UNCHANGED serverVars /\ lost \subseteq lost' /\ net' \subseteq net \cup {r}
  BY DEF Answered, Refused, Unanswered
<1> HIDE DEF r
<1>5. /\ Earlier' = Earlier /\ Items(oq)' = Items(oq) /\ Items(sendq)' = Items(sendq)
  BY <1>1 DEF Items, Earlier
<1>6. Line' = Line /\ UnderWay' \subseteq UnderWay /\ r \in UnderWay
  BY <1>1, <1>2, <1>4, <1>5 DEF Line, UnderWay
<1>7. Ahead' /\ ArrivesInOrder' /\ Gone \subseteq Gone'
  <2>1. CASE Arrive(r) /\ UNCHANGED <<net, lost>>
    <3>1. Gone \subseteq Gone'
      BY <1>3, <2>1, ArriveFacts DEF Gone
    <3> QED
      BY <1>1, <1>3, <1>6, <2>1, <3>1, ArrivalInOrder
  <2>2. CASE UNCHANGED serverVars /\ lost \subseteq lost'
    <3>1. arrived' = arrived /\ Gone \subseteq Gone'
      BY <2>2 DEF serverVars, Gone, Items
    <3> QED
      BY <1>1, <1>6, <2>2, <3>1, QuietServer
  <2> QED
    BY <1>4, <2>1, <2>2
<1>8. InLine'
  BY <1>1, <1>2, <1>5 DEF OrderInv, InLine
<1>9. OnlyHead'
  BY <1>1, <1>6, <1>7 DEF OrderInv, OnlyHead
<1> QED
  BY <1>2, <1>7, <1>8, <1>9 DEF OrderInv

LEMMA LateOrder == ASSUME TypeOK, TypeOK', OrderInv, NEW r \in net, Late(r) PROVE OrderInv'
<1>1. /\ net' = net \ {r} /\ Arrive(r)
      /\ UNCHANGED <<at, held, closing, stop, sendq, oq, sent, published, lost>>
  BY DEF Late
<1>2. r \in Report
  BY Types
<1>3. /\ Earlier' = Earlier /\ Items(oq)' = Items(oq) /\ Items(sendq)' = Items(sendq)
      /\ Taken' = Taken /\ Putting' = Putting /\ Calm' = Calm
      /\ InHand("sender", "send")' = InHand("sender", "send")
  BY <1>1 DEF Items, Earlier, Taken, Putting, InHand, Calm
<1>4. Line' = Line /\ UnderWay' \subseteq UnderWay /\ r \in UnderWay
  BY <1>1, <1>3 DEF Line, UnderWay
<1>5. Ahead' /\ ArrivesInOrder'
  BY <1>1, <1>2, <1>4, ArrivalInOrder
<1>6. Gone \subseteq Gone'
  BY <1>1, <1>2, ArriveFacts DEF Gone
<1>7. InLine' /\ OnlyHead'
  BY <1>1, <1>3, <1>4, <1>6 DEF OrderInv, InLine, OnlyHead
<1> QED
  BY <1>3, <1>5, <1>7 DEF OrderInv

\* Only what is gone is removed.
LEMMA PopOrder == ASSUME TypeOK, TypeOK', RemovedIsGone, OrderInv, Pop("sender") PROVE OrderInv'
<1> DEFINE r == held["sender"]
<1>1. /\ Go("sender", "pop", "peek", None) /\ oq' = PopIfHead(r)
      /\ UNCHANGED <<closing, stop, sendq, net, arrived, order, published, lost>>
  BY DEF Pop, serverVars
<1>2. /\ Calm' /\ Putting' = Putting /\ Taken' = {} /\ Taken = {}
      /\ InHand("sender", "send")' = {} /\ InHand("sender", "send") = {}
  <2>1. /\ at["sender"] = "pop" /\ at'["sender"] = "peek" /\ held'["sender"] = None
        /\ at'["main"] = at["main"] /\ held'["main"] = held["main"] /\ at'["beat"] = at["beat"]
    BY <1>1, SenderGoes
  <2> QED
    BY <1>1, <2>1 DEF OrderInv, Calm, Putting, Taken, InHand
<1>3. r \in Gone
  <2>1. at["sender"] = "pop" /\ "sender" \in Threads
    BY <1>1 DEF Go, Threads
  <2> QED
    BY <2>1 DEF RemovedIsGone, DoneHands, Hands
<1> HIDE DEF r
<1>4. /\ Earlier' = Earlier /\ Items(sendq)' = Items(sendq) /\ Gone' = Gone
  BY <1>1 DEF Gone, Items, Earlier
<1>5. /\ SortedBy(oq', Earlier) /\ Items(oq') \subseteq Items(oq)
      /\ oq # <<>> /\ Head(oq) # r => oq' = oq
  <2>1. oq \in Seq(Report) /\ SortedBy(oq, Earlier)
    BY Types DEF OrderInv, InLine
  <2>2. CASE oq # <<>> /\ Head(oq) = r
    <3>1. oq' = Tail(oq)
      BY <1>1, <2>2 DEF PopIfHead
    <3> QED
      BY <2>1, <2>2, <3>1, TailSorted, TailElems, ItemsAreElems
  <2>3. CASE ~(oq # <<>> /\ Head(oq) = r)
    <3>1. oq' = oq
      BY <1>1, <2>3 DEF PopIfHead
    <3> QED
      BY <2>1, <2>3, <3>1
  <2> QED
    BY <2>2, <2>3
<1>6. Items(oq)' = Items(oq')
  BY DEF Items
<1>7. Line' \subseteq Line /\ UnderWay' = UnderWay
  BY <1>1, <1>2, <1>4, <1>5, <1>6 DEF Line, UnderWay
<1>8. InLine'
  BY <1>1, <1>2, <1>4, <1>5, <1>6 DEF OrderInv, InLine
<1>9. OnlyHead'
  BY <1>3, <1>4, <1>5, <1>7 DEF OrderInv, OnlyHead
<1>10. Ahead' /\ ArrivesInOrder'
  BY <1>1, <1>7, QuietServer
<1> QED
  BY <1>2, <1>8, <1>9, <1>10 DEF OrderInv

\* Nobody but the sender flushes, and shutdown() has not begun.
LEMMA CalmNext ==
    ASSUME Calm, Next, ~stop'
    PROVE  \/ (\E r \in Report : Publish(r)) \/ Put \/ Get \/ Empty \/ (\E to \in Idle : Rest(to))
           \/ Beat \/ BeatFlush \/ Flush("sender") \/ (\E r \in net : Late(r))
<1>1. ASSUME NEW t \in Threads, Flush(t) PROVE t = "sender"
  <2>1. at[t] \in {"enqueue", "peek", "send", "pop"}
    BY <1>1 DEF Flush, Enqueue, Peek, Answered, Refused, Unanswered, Pop, Go
  <2> QED
    BY <2>1 DEF Calm, Threads
<1>2. ~Stop /\ ~Shutdown /\ ~Drain /\ ~LastFlush /\ ~SenderExits
  BY DEF Calm, Stop, Shutdown, Drain, LastFlush, SenderExits, Go
<1> QED
  BY <1>1, <1>2 DEF Next

LEMMA OrderStep ==
    ASSUME ReportsInv, ReportsInv', OrderInv, [Next]_vars, ~stop'
    PROVE  OrderInv'
<1>0. TypeOK /\ TypeOK' /\ Sourced /\ RemovedIsGone /\ Calm
  BY DEF ReportsInv, OrderInv
<1>1. CASE UNCHANGED vars
  BY <1>0, <1>1, StillOrder DEF vars, serverVars, Calm, Taken, Putting, InHand
<1>2. CASE \E r \in Report : Publish(r)
  BY <1>0, <1>2, PublishOrder
<1>3. CASE Put
  BY <1>0, <1>3, PutOrder
<1>4. CASE Get
  BY <1>0, <1>4, GetOrder
<1>5. CASE Empty \/ (\E to \in Idle : Rest(to))
  <2>1. PICK from \in {"poll", "empty"}, to \in {"empty", "poll", "peek"} :
            /\ Go("sender", from, to, None)
            /\ UNCHANGED <<closing, stop, sendq, oq, sent, net, serverVars, published, lost>>
    BY <1>5 DEF Empty, Rest, Idle
  <2>2. /\ Calm' /\ Putting' = Putting /\ Taken' = {} /\ Taken = {}
        /\ InHand("sender", "send")' = {} /\ InHand("sender", "send") = {}
    <3>1. /\ at["sender"] = from /\ at'["sender"] = to /\ held'["sender"] = None
          /\ at'["main"] = at["main"] /\ held'["main"] = held["main"] /\ at'["beat"] = at["beat"]
      BY <1>0, <2>1, SenderGoes
    <3> QED
      BY <1>0, <2>1, <3>1 DEF OrderInv, Calm, Putting, Taken, InHand
  <2> QED
    BY <1>0, <2>1, <2>2, StillOrder DEF serverVars
<1>6. CASE Beat \/ BeatFlush
  <2>1. PICK from \in {"wait", "emit"}, to \in {"wait", "emit"} :
            /\ Go("beat", from, to, None)
            /\ UNCHANGED <<closing, stop, sendq, oq, sent, net, serverVars, published, lost>>
    BY <1>0, <1>6 DEF Beat, BeatFlush, Calm, SenderAlive
  <2>2. /\ Calm' /\ Putting' = Putting /\ Taken' = Taken
        /\ InHand("sender", "send")' = InHand("sender", "send")
    <3>1. /\ at'["beat"] = to
          /\ at'["sender"] = at["sender"] /\ held'["sender"] = held["sender"]
          /\ at'["main"] = at["main"] /\ held'["main"] = held["main"]
      BY <1>0, <2>1, BeatGoes
    <3> QED
      BY <1>0, <2>1, <3>1 DEF OrderInv, Calm, Putting, Taken, InHand
  <2> QED
    BY <1>0, <2>1, <2>2, StillOrder DEF serverVars
<1>7. CASE Flush("sender")
  BY <1>0, <1>7, EnqueueOrder, PeekOrder, SentOrder, PopOrder DEF Flush
<1>8. CASE \E r \in net : Late(r)
  BY <1>0, <1>8, LateOrder
<1> QED
  BY <1>0, <1>1, <1>2, <1>3, <1>4, <1>5, <1>6, <1>7, <1>8, CalmNext

LEMMA OrderInit == Init => OrderInv
<1> SUFFICES ASSUME Init PROVE OrderInv
  OBVIOUS
<1>1. Items(<<>>) = {} /\ \A R : SortedBy(<<>>, R)
  BY DEF Items, SortedBy
<1>2. at["main"] = "run" /\ at["sender"] = "poll" /\ at["beat"] = "wait" /\ ~stop
  BY DEF Init, Threads
<1>3. Taken = {} /\ Putting = {} /\ UnderWay = {}
  BY <1>2 DEF Init, Taken, Putting, UnderWay, InHand
<1>4. ArrivesInOrder
  BY DEF Init, ArrivesInOrder
<1> QED
  BY <1>1, <1>2, <1>3, <1>4 DEF Init, OrderInv, Calm, InLine, Ahead, Line, OnlyHead

-----------------------------------------------------------------------------
LEMMA ReportsInit == Init => ReportsInv
<1> SUFFICES ASSUME Init PROVE ReportsInv
  OBVIOUS
<1>1. Items(<<>>) = {}
  BY DEF Items
<1>2. TypeOK
  <2>1. /\ at = [t \in Threads |-> IF t = "main" THEN "run" ELSE IF t = "sender" THEN "poll" ELSE "wait"]
        /\ held = [t \in Threads |-> None]
    BY DEF Init, Threads
  <2>2. /\ at \in [Threads -> Places] /\ held \in [Threads -> Report \cup {None}]
        /\ \A t \in Threads : at[t] \notin Holding /\ held[t] = None
    BY <2>1 DEF Threads, Places, Holding
  <2>3. /\ sendq \in Seq(Report) /\ oq \in Seq(Report) /\ Len(oq) <= MaxDepth
        /\ arrived \in Seq(Report) /\ published \in Seq(Report)
    BY ReportsAssumption DEF Init
  <2> QED
    BY <2>2, <2>3 DEF Init, TypeOK, Places, Holding, WireStatus
<1>3. WaitingHands = {} /\ SendingHands = {} /\ DoneHands = {}
  BY DEF Init, Threads, WaitingHands, SendingHands, DoneHands, Hands
<1>4. Waiting = {}
  BY <1>1, <1>3, WaitingIs DEF Init
<1>5. RemovedIsGone /\ Sourced /\ NothingSkipped
  BY <1>1, <1>3, <1>4 DEF Init, RemovedIsGone, Sourced, InFlight, NothingSkipped
<1>6. OneOutcome /\ OutcomeArrived /\ OutcomeStands
  BY <1>1 DEF Init, OneOutcome, OutcomeArrived, OutcomeStands, Final
<1> QED
  BY <1>2, <1>5, <1>6 DEF ReportsInv

LEMMA ReportsStep == ReportsInv /\ [Next]_vars => ReportsInv'
<1> SUFFICES ASSUME ReportsInv, [Next]_vars PROVE ReportsInv'
  OBVIOUS
<1>1. TypeOK' /\ RemovedIsGone' /\ Sourced' /\ NothingSkipped'
  BY SkipStep DEF ReportsInv
<1>2. OneOutcome'
  BY OneOutcomeStep DEF ReportsInv
<1>3. OutcomeInv'
  BY OutcomeStep DEF ReportsInv, OutcomeInv
<1> QED
  BY <1>1, <1>2, <1>3 DEF ReportsInv, OutcomeInv

LEMMA ReportsInvariant == Spec => []ReportsInv
  BY ReportsInit, ReportsStep, PTL DEF Spec

\* Every variable keeps its type, and the OfflineQueue its bound.
THEOREM ReportsTypeCorrect == Spec => []TypeOK
<1>1. ReportsInv => TypeOK
  BY DEF ReportsInv
<1> QED
  BY <1>1, ReportsInvariant, PTL

\* Between flush's look at the head and its removal the lock is free; still no
\* report leaves the OfflineQueue or the send queue that was not sent, refused
\* or pushed out by overflow, with a stop or without.
THEOREM NoReportIsSkipped == Spec => []NothingSkipped
<1>1. ReportsInv => NothingSkipped
  BY DEF ReportsInv
<1> QED
  BY <1>1, ReportsInvariant, PTL

\* Once COMPLETED or FAILED has arrived it stays the status of its order:
\* evaluate_transition refuses what is late, and nothing is published after it.
THEOREM TheOutcomeStands == Spec => []OutcomeStands
<1>1. ReportsInv => OutcomeStands
  BY DEF ReportsInv
<1> QED
  BY <1>1, ReportsInvariant, PTL

\* A stop, once requested, is not taken back.
LEMMA StopStays == [Next]_vars /\ ~stop' => ~stop
  BY DEF Next, vars, Publish, Put, Stop, Shutdown, Drain, LastFlush, Get, Empty, SenderExits, Rest,
         Beat, BeatFlush, Flush, Enqueue, Peek, Answered, Refused, Unanswered, Pop, Late

LEMMA OrderInvariant == Spec => [](ReportsInv /\ (~stop => OrderInv))
<1>1. Init => ReportsInv /\ (~stop => OrderInv)
  BY ReportsInit, OrderInit
<1>2. ReportsInv /\ (~stop => OrderInv) /\ [Next]_vars => (ReportsInv /\ (~stop => OrderInv))'
  BY ReportsStep, OrderStep, StopStays
<1> QED
  BY <1>1, <1>2, PTL DEF Spec

\* As long as no stop is requested, reports arrive in the order they were
\* published, lost and late requests notwithstanding, except for one the daemon
\* had given up before its last request came through.  (After a stop the drain
\* of shutdown() can be overtaken by what is reported directly.)
THEOREM ReportsArriveInOrder == Spec => [](~stop => ArrivesInOrder)
<1>1. ReportsInv /\ (~stop => OrderInv) => (~stop => ArrivesInOrder)
  BY DEF OrderInv
<1> QED
  BY <1>1, OrderInvariant, PTL
=============================================================================

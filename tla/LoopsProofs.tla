---------------------------- MODULE LoopsProofs ----------------------------
(***************************************************************************)
(* For a deque of any size and any number of reports: nothing is lost but  *)
(* by overflow, nothing is sent by two threads, and the oldest stay in     *)
(* front.  For any boards and servers: the daemon works under an identity  *)
(* that is its own, and does not ask for one it has.                       *)
(***************************************************************************)
EXTENDS Loops, SequenceEntries, FiniteSetTheorems, TLAPS

\* A thread that holds an entry is in its loop, and the consuming thread is
\* not in it before shutdown().
HeldInLoop ==
    /\ \A t \in Threads : held[t] # None => left[t] > 0
    /\ serving => left["main"] = 0

DequeInv == TypeOK /\ HeldInLoop /\ NothingForgotten /\ SentByOne /\ Distinct(deque)

-----------------------------------------------------------------------------
(* Each step keeps DequeInv.                                               *)

LEMMA InitHolds == Init => DequeInv
  BY DequeAssumption
  DEF Init, DequeInv, TypeOK, HeldInLoop, NothingForgotten, SentByOne, Distinct, Items, Held, Threads, Reports

\* A new report, appended by the consuming thread.
LEMMA ReportStep == DequeInv /\ Report => DequeInv'
<1> SUFFICES ASSUME DequeInv, Report PROVE DequeInv'
  OBVIOUS
<1> USE DequeAssumption
<1>1. /\ deque \in Seq(Reports) /\ count' = count + 1 /\ count' \in Reports
      /\ Items = Elems(deque) /\ Items' = Elems(deque')
      /\ 1 .. count' = (1 .. count) \cup {count'}
      /\ UNCHANGED <<held, left, serving, decided>>
  BY DEF DequeInv, TypeOK, Report, Items, Elems, Reports
<1>2. count' \notin Items \cup Held \cup decided \cup dropped
  BY <1>1 DEF DequeInv, TypeOK, NothingForgotten
<1>3. /\ deque' \in Seq(Reports) /\ Len(deque') <= MaxLen /\ Distinct(deque')
      /\ dropped' \subseteq dropped \cup Items
      /\ Items' \cup dropped' = Items \cup dropped \cup {count'}
      /\ Items' \subseteq Items \cup {count'}
  <2>1. CASE Len(deque) = MaxLen
    <3> DEFINE b == Tail(deque)
    <3>1. deque # <<>>
      BY <2>1
    <3>2. deque' = Append(b, count') /\ dropped' = dropped \cup {Head(deque)}
      BY <2>1 DEF Report
    <3>3. /\ b \in Seq(Reports) /\ Len(b) = MaxLen - 1
          /\ Items = Elems(b) \cup {Head(deque)} /\ Distinct(b)
      BY <1>1, <2>1, <3>1, TailElems DEF DequeInv
    <3> HIDE DEF b
    <3>4. /\ deque' \in Seq(Reports) /\ Len(deque') = MaxLen
      BY <1>1, <3>2, <3>3
    <3>5. /\ Items' = Elems(b) \cup {count'} /\ Distinct(deque')
      BY <1>1, <1>2, <3>2, <3>3, AppendElems
    <3> QED
      BY <3>2, <3>3, <3>4, <3>5
  <2>2. CASE Len(deque) # MaxLen
    <3>1. deque' = Append(deque, count') /\ dropped' = dropped
      BY <2>2 DEF Report
    <3>2. deque' \in Seq(Reports) /\ Len(deque') <= MaxLen
      BY <1>1, <2>2, <3>1 DEF DequeInv, TypeOK
    <3>3. Items' = Items \cup {count'} /\ Distinct(deque')
      BY <1>1, <1>2, <3>1, AppendElems DEF DequeInv
    <3> QED
      BY <3>1, <3>2, <3>3
  <2> QED
    BY <2>1, <2>2
<1>4. Held' = Held /\ Held \subseteq Reports
  BY <1>1 DEF Held, DequeInv, TypeOK
<1>5. TypeOK'
  <2>1. Items \subseteq Reports /\ dropped' \subseteq Reports
    BY <1>1, <1>3 DEF Elems, DequeInv, TypeOK
  <2>2. count' \in 0 .. MaxReports
    BY <1>1 DEF Reports
  <2> QED
    BY <1>1, <1>3, <2>1, <2>2 DEF DequeInv, TypeOK
<1>6. HeldInLoop'
  BY <1>1 DEF DequeInv, HeldInLoop
<1>7. NothingForgotten'
  BY <1>1, <1>3, <1>4 DEF DequeInv, NothingForgotten
<1>8. SentByOne'
  BY <1>1, <1>2, <1>3, <1>4 DEF DequeInv, SentByOne
<1> QED
  BY <1>3, <1>5, <1>6, <1>7, <1>8 DEF DequeInv

\* popleft, by either thread.
LEMMA TakeStep == ASSUME DequeInv, NEW t \in Threads, Take(t) PROVE DequeInv'
<1>1. CASE deque = <<>>
  <2>1. /\ left' = [left EXCEPT ![t] = 0] /\ held[t] = None
        /\ UNCHANGED <<deque, held, count, serving, decided, dropped>>
    BY <1>1 DEF Take
  <2>2. TypeOK'
    BY <2>1, DequeAssumption DEF DequeInv, TypeOK
  <2>3. HeldInLoop'
    BY <2>1 DEF DequeInv, TypeOK, HeldInLoop
  <2>4. Items' = Items /\ Held' = Held
    BY <2>1 DEF Items, Held
  <2> QED
    BY <2>1, <2>2, <2>3, <2>4 DEF DequeInv, NothingForgotten, SentByOne
<1>2. CASE deque # <<>>
  <2>1. /\ held' = [held EXCEPT ![t] = Head(deque)] /\ deque' = Tail(deque)
        /\ UNCHANGED <<left, count, serving, decided, dropped>>
        /\ held[t] = None /\ left[t] > 0
        /\ Items = Elems(deque) /\ Items' = Elems(deque')
        /\ deque \in Seq(Reports) /\ Len(deque) \in Nat /\ Len(deque) <= MaxLen
    BY <1>2 DEF Take, DequeInv, TypeOK, Items, Elems
  <2>2. /\ deque' \in Seq(Reports) /\ Len(deque') = Len(deque) - 1 /\ Head(deque) \in Reports
        /\ Items = Items' \cup {Head(deque)} /\ Head(deque) \notin Items' /\ Distinct(deque')
    BY <1>2, <2>1, TailElems DEF DequeInv
  <2>3. Head(deque) # None /\ Head(deque) \notin Held \cup decided
    BY <2>2, DequeAssumption DEF Reports, DequeInv, SentByOne
  <2>4. Held' = Held \cup {Head(deque)}
    BY <2>1, <2>3 DEF Held, DequeInv, TypeOK
  <2>5. TypeOK'
    BY <2>1, <2>2, DequeAssumption DEF DequeInv, TypeOK
  <2>6. HeldInLoop'
    BY <2>1 DEF DequeInv, TypeOK, HeldInLoop
  <2>7. NothingForgotten'
    BY <2>1, <2>2, <2>4 DEF DequeInv, NothingForgotten
  <2>8. held'["main"] = held'["sender"] => held'["main"] = None
    BY <2>1, <2>3 DEF Held, Threads, DequeInv, TypeOK, SentByOne
  <2>9. SentByOne'
    BY <2>1, <2>2, <2>3, <2>4, <2>8 DEF DequeInv, SentByOne
  <2> QED
    BY <2>2, <2>5, <2>6, <2>7, <2>9 DEF DequeInv
<1> QED
  BY <1>1, <1>2

\* What a thread lets go of is no longer held by any.
LEMMA LetGo ==
    ASSUME DequeInv, NEW t \in Threads, held[t] # None, held' = [held EXCEPT ![t] = None]
    PROVE  /\ Held = Held' \cup {held[t]} /\ held[t] \notin Held'
           /\ held[t] \in Reports /\ held' \in [Threads -> Reports \cup {None}]
           /\ held'["main"] = held'["sender"] => held'["main"] = None
  BY DEF DequeInv, TypeOK, SentByOne, Held, Threads

\* The server decides.
LEMMA DecidedStep == ASSUME DequeInv, NEW t \in Threads, Decided(t) PROVE DequeInv'
<1>1. /\ held[t] # None /\ held' = [held EXCEPT ![t] = None]
      /\ decided' = decided \cup {held[t]} /\ left' = [left EXCEPT ![t] = @ - 1]
      /\ UNCHANGED <<deque, count, serving, dropped>> /\ Items' = Items
  BY DEF Decided, Items
<1>2. /\ Held = Held' \cup {held[t]} /\ held[t] \notin Held' /\ held[t] \in Reports
      /\ held' \in [Threads -> Reports \cup {None}]
      /\ held'["main"] = held'["sender"] => held'["main"] = None
  BY <1>1, LetGo
<1>3. left[t] \in 0 .. MaxLen /\ left[t] > 0
  BY <1>1 DEF DequeInv, TypeOK, HeldInLoop
<1>4. TypeOK'
  BY <1>1, <1>2, <1>3, DequeAssumption DEF DequeInv, TypeOK
<1>5. HeldInLoop'
  BY <1>1, <1>2, <1>3 DEF DequeInv, TypeOK, HeldInLoop
<1>6. NothingForgotten'
  BY <1>1, <1>2 DEF DequeInv, NothingForgotten
<1>7. SentByOne'
  BY <1>1, <1>2 DEF DequeInv, SentByOne
<1> QED
  BY <1>1, <1>4, <1>5, <1>6, <1>7 DEF DequeInv

\* The entry goes back in front, and may push the last one out.
LEMMA AgainStep == ASSUME DequeInv, NEW t \in Threads, Again(t) PROVE DequeInv'
<1> DEFINE r == held[t]
<1> USE DequeAssumption
<1>1. /\ r # None /\ PutBack(r) /\ held' = [held EXCEPT ![t] = None]
      /\ left' = [left EXCEPT ![t] = 0] /\ UNCHANGED <<count, serving, decided>>
      /\ deque \in Seq(Reports) /\ Len(deque) \in Nat /\ Len(deque) <= MaxLen
      /\ Items = Elems(deque) /\ Items' = Elems(deque')
  BY DEF Again, DequeInv, TypeOK, Items, Elems
<1>2. /\ Held = Held' \cup {r} /\ r \notin Held' /\ r \in Reports
      /\ held' \in [Threads -> Reports \cup {None}]
      /\ held'["main"] = held'["sender"] => held'["main"] = None
  BY <1>1, LetGo
<1>3. r \notin Items \cup decided
  BY <1>2 DEF DequeInv, SentByOne
<1> HIDE DEF r
<1>4. /\ deque' \in Seq(Reports) /\ Len(deque') <= MaxLen /\ Distinct(deque')
      /\ Items' \subseteq Items \cup {r}
      /\ dropped' \subseteq dropped \cup Items
      /\ Items' \cup dropped' = Items \cup dropped \cup {r}
  <2>1. CASE Len(deque) = MaxLen
    <3> DEFINE d == SubSeq(deque, 1, Len(deque) - 1)
    <3>1. /\ d \in Seq(Reports) /\ Len(d) = Len(deque) - 1 /\ Distinct(d)
          /\ Elems(deque) = Elems(d) \cup {deque[Len(deque)]}
      BY <1>1, <2>1, ButLastElems DEF DequeInv
    <3>2. deque' = <<r>> \o d /\ dropped' = dropped \cup {deque[Len(deque)]}
      BY <1>1, <2>1 DEF PutBack
    <3> HIDE DEF d
    <3>3. /\ deque' \in Seq(Reports) /\ Len(deque') = Len(d) + 1
          /\ Elems(deque') = Elems(d) \cup {r} /\ Distinct(deque')
      BY <1>1, <1>2, <1>3, <3>1, <3>2, ConsElems
    <3> QED
      BY <1>1, <2>1, <3>1, <3>2, <3>3
  <2>2. CASE Len(deque) # MaxLen
    <3>1. deque' = <<r>> \o deque /\ dropped' = dropped
      BY <1>1, <2>2 DEF PutBack
    <3>2. /\ deque' \in Seq(Reports) /\ Len(deque') = Len(deque) + 1
          /\ Elems(deque') = Elems(deque) \cup {r} /\ Distinct(deque')
      BY <1>1, <1>2, <1>3, <3>1, ConsElems DEF DequeInv
    <3> QED
      BY <1>1, <2>2, <3>1, <3>2, Z3
  <2> QED
    BY <2>1, <2>2
<1>5. Items \subseteq Reports
  BY <1>1 DEF Elems
<1>6. TypeOK'
  BY <1>1, <1>2, <1>4, <1>5 DEF DequeInv, TypeOK
<1>7. HeldInLoop'
  BY <1>1, <1>2 DEF DequeInv, TypeOK, HeldInLoop
<1>8. NothingForgotten'
  BY <1>1, <1>2, <1>4 DEF DequeInv, NothingForgotten
<1>9. SentByOne'
  BY <1>1, <1>2, <1>3, <1>4 DEF DequeInv, SentByOne
<1> QED
  BY <1>4, <1>6, <1>7, <1>8, <1>9 DEF DequeInv

\* Every step.
LEMMA DequeStep == DequeInv /\ [Next]_vars => DequeInv'
<1> SUFFICES ASSUME DequeInv, [Next]_vars PROVE DequeInv'
  OBVIOUS
<1>1. CASE Report
  BY <1>1, ReportStep
<1>2. CASE Shutdown \/ Flush
  <2>1. Len(deque) \in 0 .. MaxLen
    BY DequeAssumption DEF DequeInv, TypeOK
  <2>2. UNCHANGED <<deque, held, count, decided, dropped>> /\ serving' \in BOOLEAN
    BY <1>2 DEF Shutdown, Flush, DequeInv, TypeOK
  <2>3. left' \in [Threads -> 0 .. MaxLen]
    BY <1>2, <2>1 DEF Shutdown, Flush, DequeInv, TypeOK
  <2>4. HeldInLoop'
    <3>1. CASE Shutdown
      BY <2>2, <3>1 DEF Shutdown, DequeInv, TypeOK, HeldInLoop, Threads
    <3>2. CASE Flush
      BY <2>2, <3>2 DEF Flush, DequeInv, TypeOK, HeldInLoop, Threads
    <3> QED
      BY <1>2, <3>1, <3>2
  <2>5. TypeOK'
    BY <2>2, <2>3 DEF DequeInv, TypeOK
  <2>6. Items' = Items /\ Held' = Held
    BY <2>2 DEF Items, Held
  <2> QED
    BY <2>2, <2>4, <2>5, <2>6 DEF DequeInv, NothingForgotten, SentByOne
<1>3. ASSUME NEW t \in Threads, Take(t) PROVE DequeInv'
  BY <1>3, TakeStep
<1>4. ASSUME NEW t \in Threads, Decided(t) PROVE DequeInv'
  BY <1>4, DecidedStep
<1>5. ASSUME NEW t \in Threads, Again(t) PROVE DequeInv'
  BY <1>5, AgainStep
<1>6. CASE UNCHANGED vars
  <2>1. TypeOK' /\ HeldInLoop'
    BY <1>6 DEF vars, DequeInv, TypeOK, HeldInLoop
  <2> QED
    BY <1>6, <2>1 DEF vars, DequeInv, NothingForgotten, SentByOne, Items, Held
<1> QED
  BY <1>1, <1>2, <1>3, <1>4, <1>5, <1>6 DEF Next

LEMMA DequeInvariant == Spec => []DequeInv
  BY InitHolds, DequeStep, PTL DEF Spec

\* Every variable keeps its type, and _cs_retry its bound.
THEOREM DequeTypeCorrect == Spec => []TypeOK
<1>1. DequeInv => TypeOK
  BY DEF DequeInv
<1> QED
  BY <1>1, DequeInvariant, PTL

\* Whatever the interleaving of appends and of the two flushes, a terminal
\* report that failed is in _cs_retry, or being sent, or decided on, or was
\* pushed out of the full deque.
THEOREM NothingIsForgotten == Spec => []NothingForgotten
<1>1. DequeInv => NothingForgotten
  BY DEF DequeInv
<1> QED
  BY <1>1, DequeInvariant, PTL

\* The popleft of an entry before it is sent is enough of a lock: no report is
\* in the hands of two threads, or still kept once the server decided.
THEOREM SentByOneThread == Spec => []SentByOne
<1>1. DequeInv => SentByOne
  BY DEF DequeInv
<1> QED
  BY <1>1, DequeInvariant, PTL

-----------------------------------------------------------------------------
(* The order of the deque while the daemon runs.                           *)

\* Until shutdown() only the sender takes entries out, and the one it has in
\* hand is older than all that wait.
SenderHasOldest ==
    serving /\ held["sender"] # None => \A i \in 1 .. Len(deque) : held["sender"] < deque[i]

FrontInv == OldestInFront /\ SenderHasOldest

Increasing(s) == \A i, j \in 1 .. Len(s) : i < j => s[i] < s[j]
Below(r, s) == \A i \in 1 .. Len(s) : r < s[i]

\* The newest report at the end keeps the order.
LEMMA AppendNewest ==
    ASSUME NEW s \in Seq(Nat), NEW n \in Nat, \A i \in 1 .. Len(s) : s[i] <= n, Increasing(s)
    PROVE  /\ Increasing(Append(s, n + 1))
           /\ \A r \in Nat : r <= n /\ Below(r, s) => Below(r, Append(s, n + 1))
<1> DEFINE t == Append(s, n + 1)
<1>1. Len(t) = Len(s) + 1 /\ Len(s) \in Nat
  OBVIOUS
<1>2. \A i \in 1 .. Len(s) : t[i] = s[i] /\ s[i] \in Nat
  OBVIOUS
<1>3. t[Len(s) + 1] = n + 1
  OBVIOUS
<1> HIDE DEF t
<1>4. Increasing(t)
  <2> SUFFICES ASSUME NEW i \in 1 .. Len(t), NEW j \in 1 .. Len(t), i < j PROVE t[i] < t[j]
    BY DEF Increasing
  <2>1. i \in 1 .. Len(s)
    BY <1>1
  <2>2. CASE j \in 1 .. Len(s)
    BY <1>2, <2>1, <2>2 DEF Increasing
  <2>3. CASE j = Len(s) + 1
    BY <1>2, <1>3, <2>1, <2>3
  <2> QED
    BY <1>1, <2>2, <2>3
<1>5. ASSUME NEW r \in Nat, r <= n, Below(r, s), NEW i \in 1 .. Len(t) PROVE r < t[i]
  <2>1. CASE i \in 1 .. Len(s)
    BY <1>2, <1>5, <2>1 DEF Below
  <2>2. CASE i = Len(s) + 1
    BY <1>3, <1>5, <2>2
  <2> QED
    BY <1>1, <2>1, <2>2
<1> QED
  BY <1>4, <1>5 DEF Below, t

LEMMA FrontReport == ASSUME DequeInv, FrontInv, Report PROVE FrontInv'
<1> USE DequeAssumption
<1>1. /\ deque \in Seq(Reports) /\ count \in Nat /\ count' = count + 1 /\ serving
      /\ UNCHANGED <<held, serving>>
  BY DEF Report, DequeInv, TypeOK
<1>2. Items \cup Held \subseteq 1 .. count
  BY DEF DequeInv, NothingForgotten
<1>3. \A i \in 1 .. Len(deque) : deque[i] <= count /\ deque[i] \in Nat
  <2>1. \A i \in 1 .. Len(deque) : deque[i] \in Items
    BY DEF Items
  <2> QED
    BY <1>1, <1>2, <2>1
<1>4. held["sender"] # None => held["sender"] <= count /\ held["sender"] \in Nat
  <2>1. held["sender"] # None => held["sender"] \in Held
    BY DEF Held, Threads
  <2> QED
    BY <1>1, <1>2, <2>1
<1>5. PICK b \in Seq(Nat) :
         /\ deque' = Append(b, count + 1)
         /\ Increasing(b) /\ \A i \in 1 .. Len(b) : b[i] <= count
         /\ held["sender"] # None => Below(held["sender"], b)
  <2>0. deque \in Seq(Nat)
    BY <1>1 DEF Reports
  <2>1. CASE Len(deque) # MaxLen
    <3>1. deque' = Append(deque, count + 1)
      BY <1>1, <2>1 DEF Report
    <3> QED
      BY <1>1, <1>3, <2>0, <3>1 DEF FrontInv, OldestInFront, SenderHasOldest, Increasing, Below
  <2>2. CASE Len(deque) = MaxLen
    <3> DEFINE b == Tail(deque)
    <3>1. b \in Seq(Nat) /\ Len(b) = Len(deque) - 1 /\ Len(b) \in Nat
      BY <2>0, <2>2
    <3>2. \A i \in 1 .. Len(b) : b[i] = deque[i + 1] /\ i + 1 \in 1 .. Len(deque)
      BY <2>0, <2>2
    <3>3. deque' = Append(b, count + 1)
      BY <1>1, <2>2 DEF Report
    <3> HIDE DEF b
    <3>4. Increasing(b) /\ \A i \in 1 .. Len(b) : b[i] <= count
      <4>1. ASSUME NEW i \in 1 .. Len(b), NEW j \in 1 .. Len(b), i < j PROVE b[i] < b[j]
        <5>1. i + 1 < j + 1 /\ i + 1 \in 1 .. Len(deque) /\ j + 1 \in 1 .. Len(deque)
          BY <3>2, <4>1
        <5>2. deque[i + 1] < deque[j + 1]
          BY <1>1, <5>1 DEF FrontInv, OldestInFront
        <5> QED
          BY <3>2, <5>2
      <4>2. \A i \in 1 .. Len(b) : b[i] <= count
        BY <1>3, <3>2
      <4> QED
        BY <4>1, <4>2 DEF Increasing
    <3>5. held["sender"] # None => Below(held["sender"], b)
      BY <1>1, <3>2 DEF FrontInv, SenderHasOldest, Below
    <3> QED
      BY <3>1, <3>3, <3>4, <3>5
  <2> QED
    BY <2>1, <2>2
<1>6. Increasing(deque')
  BY <1>1, <1>5, AppendNewest
<1>7. held["sender"] # None => Below(held["sender"], deque')
  BY <1>1, <1>4, <1>5, AppendNewest
<1> QED
  BY <1>1, <1>6, <1>7 DEF FrontInv, OldestInFront, SenderHasOldest, Increasing, Below

LEMMA FrontTake == ASSUME DequeInv, FrontInv, serving, Take("sender") PROVE FrontInv'
<1>1. deque \in Seq(Reports) /\ UNCHANGED serving /\ held \in [Threads -> Reports \cup {None}]
  BY DEF Take, DequeInv, TypeOK
<1>2. CASE deque = <<>>
  BY <1>2 DEF Take, FrontInv, OldestInFront, SenderHasOldest
<1>3. CASE deque # <<>>
  <2>1. deque' = Tail(deque) /\ held'["sender"] = deque[1]
    BY <1>1, <1>3 DEF Take, Threads
  <2>2. Len(deque') = Len(deque) - 1 /\ Len(deque) \in Nat \ {0}
    BY <1>1, <1>3, <2>1
  <2>3. \A i \in 1 .. Len(deque') : deque'[i] = deque[i + 1] /\ i + 1 \in 1 .. Len(deque)
    BY <1>1, <1>3, <2>1, <2>2
  <2> QED
    BY <1>1, <2>1, <2>2, <2>3 DEF FrontInv, OldestInFront, SenderHasOldest
<1> QED
  BY <1>2, <1>3

LEMMA FrontAgain == ASSUME DequeInv, FrontInv, serving, Again("sender") PROVE FrontInv'
<1> DEFINE r == held["sender"]
<1> USE DequeAssumption
<1>1. /\ deque \in Seq(Reports) /\ r # None /\ r \in Reports
      /\ UNCHANGED serving /\ held'["sender"] = None
  BY DEF Again, DequeInv, TypeOK, Threads
<1>2. /\ \A i, j \in 1 .. Len(deque) : i < j => deque[i] < deque[j]
      /\ \A i \in 1 .. Len(deque) : r < deque[i]
  BY <1>1 DEF FrontInv, OldestInFront, SenderHasOldest
<1>3. PICK d \in Seq(Reports) :
         /\ deque' = <<r>> \o d /\ Len(d) <= Len(deque)
         /\ \A i \in 1 .. Len(d) : d[i] = deque[i]
  <2>1. CASE Len(deque) = MaxLen
    <3> DEFINE d == SubSeq(deque, 1, MaxLen - 1)
    <3>1. d \in Seq(Reports) /\ Len(d) = MaxLen - 1 /\ \A i \in 1 .. Len(d) : d[i] = deque[i]
      BY <1>1, <2>1
    <3>2. deque' = <<r>> \o d
      BY <2>1 DEF Again, PutBack
    <3>3. Len(d) <= Len(deque)
      BY <2>1, <3>1
    <3> HIDE DEF d
    <3> QED
      BY <3>1, <3>2, <3>3
  <2>2. CASE Len(deque) # MaxLen
    BY <1>1, <2>2 DEF Again, PutBack
  <2> QED
    BY <2>1, <2>2
<1> HIDE DEF r
<1>4. /\ Len(deque') = Len(d) + 1 /\ Len(d) \in Nat /\ Len(deque) \in Nat
      /\ \A i \in 1 .. Len(deque') : deque'[i] = IF i = 1 THEN r ELSE d[i - 1]
  BY <1>1, <1>3
<1>5. \A i, j \in 1 .. Len(deque') : i < j => deque'[i] < deque'[j]
  <2> SUFFICES ASSUME NEW i \in 1 .. Len(deque'), NEW j \in 1 .. Len(deque'), i < j
               PROVE  deque'[i] < deque'[j]
    OBVIOUS
  <2>1. j - 1 \in 1 .. Len(d) /\ j - 1 \in 1 .. Len(deque) /\ deque'[j] = deque[j - 1]
    BY <1>3, <1>4
  <2>2. CASE i = 1
    BY <1>2, <1>4, <2>1, <2>2
  <2>3. CASE i # 1
    <3>1. i - 1 \in 1 .. Len(d) /\ i - 1 \in 1 .. Len(deque) /\ deque'[i] = deque[i - 1] /\ i - 1 < j - 1
      BY <1>3, <1>4, <2>3
    <3> QED
      BY <1>2, <2>1, <3>1
  <2> QED
    BY <2>2, <2>3
<1> QED
  BY <1>1, <1>5 DEF FrontInv, OldestInFront, SenderHasOldest

LEMMA FrontStep == ASSUME DequeInv, FrontInv, [Next]_vars PROVE FrontInv'
<1>1. ASSUME serving PROVE held["main"] = None /\ left["main"] = 0
  BY <1>1 DEF DequeInv, TypeOK, HeldInLoop, Threads
<1>2. CASE Report
  BY <1>2, FrontReport
<1>3. CASE Shutdown
  BY <1>3 DEF Shutdown, FrontInv, OldestInFront, SenderHasOldest
<1>4. CASE Flush
  BY <1>4 DEF Flush, FrontInv, OldestInFront, SenderHasOldest
<1>5. ASSUME NEW t \in Threads, Take(t) \/ Decided(t) \/ Again(t) PROVE FrontInv'
  <2>1. CASE ~serving
    BY <1>5, <2>1 DEF Take, Decided, Again, FrontInv, OldestInFront, SenderHasOldest
  <2>2. CASE serving
    <3>1. t = "sender"
      <4>1. left[t] > 0 \/ held[t] # None
        BY <1>5 DEF Take, Decided, Again
      <4>2. t # "main"
        BY <1>1, <2>2, <4>1
      <4> QED
        BY <4>2 DEF Threads
    <3>2. CASE Take("sender")
      BY <2>2, <3>2, FrontTake
    <3>3. CASE Decided("sender")
      BY <3>3 DEF Decided, FrontInv, OldestInFront, SenderHasOldest, DequeInv, TypeOK, Threads
    <3>4. CASE Again("sender")
      BY <2>2, <3>4, FrontAgain
    <3> QED
      BY <1>5, <3>1, <3>2, <3>3, <3>4
  <2> QED
    BY <2>1, <2>2
<1>6. CASE UNCHANGED vars
  BY <1>6 DEF vars, FrontInv, OldestInFront, SenderHasOldest
<1> QED
  BY <1>2, <1>3, <1>4, <1>5, <1>6 DEF Next

\* popleft and appendleft keep the line: until shutdown() the retries are in the
\* order in which their reports failed.
THEOREM OldestStayInFront == Spec => []OldestInFront
<1>1. Init => FrontInv
  BY DEF Init, FrontInv, OldestInFront, SenderHasOldest, Threads
<1>2. DequeInv /\ FrontInv /\ [Next]_vars => FrontInv'
  BY FrontStep
<1>3. FrontInv => OldestInFront
  BY DEF FrontInv
<1> QED
  BY <1>1, <1>2, <1>3, DequeInvariant, PTL DEF Spec

-----------------------------------------------------------------------------
(* Registration: whose identity the daemon works under.                    *)

Papers == [dev : Serials \cup {"none"}, server : Urls \cup {"none"}, exp : Nat]
Process == [pc : {"off", "calling", "saving", "up"}, id : Serials \cup {"none"},
            attempt : Nat, poll : Nat, held : Papers, was : Papers]
Registry == [Urls -> [Serials -> {"unknown", "pending", "approved"}]]

PairingTypes ==
    /\ board \in Boards /\ url \in Urls /\ clock \in Nat
    /\ files \in [G!Places -> Papers] /\ last \in [Urls -> Papers]
    /\ registry \in Registry
    /\ proc \in Process /\ (proc.pc # "off" => proc.id \in Serials)

\* An identity that names a server is of a device this server has approved.
Vouched(f) == f.server # "none" => f.dev \in Serials /\ registry[f.server][f.dev] = "approved"
AllVouched == Vouched(proc.was) /\ \A p \in G!Places : Vouched(files[p])

HasItsOwn ==
    proc.pc \in {"saving", "up"} =>
        proc.held.dev = proc.id /\ proc.held.server = url /\ registry[url][proc.id] = "approved"

\* While it is saved, the identity is in the file, and nothing counts as saved.
Saving == proc.pc = "saving" => files[G!Path(url)] = proc.held /\ last[url] = G!NoIdentity

\* In a file of its own, what was saved last for a server is still there.
Remembered ==
    ~single => \A u \in Urls :
        G!Alone(u) => last[u] = G!NoIdentity \/ (last[u] = files[Host[u]] /\ last[u].server = u)

PairingInv == PairingTypes /\ AllVouched /\ HasItsOwn /\ Saving /\ Remembered /\ G!ReturnsWithoutAsking

LEMMA NoPapers == G!NoIdentity \in Papers /\ G!NoIdentity.dev = "none" /\ G!NoIdentity.server = "none"
  BY DEF G!NoIdentity, Papers

LEMMA OffIs == /\ G!Off \in Process /\ G!Off.pc = "off" /\ G!Off.was = G!NoIdentity
               /\ G!Off.attempt = 0 /\ G!Off.poll = 0
  BY NoPapers DEF G!Off, Process

\* read_hardware_id gives a serial, or none.
LEMMA SerialRead ==
    ASSUME board \in Boards, NEW unread
    PROVE  G!ReadHardwareId(unread) \in Serials \cup {"none"}
<1> DEFINE found == {i \in 1 .. Len(G!Sources) : G!Sources[i] \notin unread /\ board[G!Sources[i]] # "none"}
           first == CHOOSE i \in found : \A j \in found : i <= j
<1>1. CASE found = {}
  BY <1>1 DEF G!ReadHardwareId
<1>2. CASE found # {}
  <2>1. Len(G!Sources) = 4 /\ \A i \in 1 .. 4 : G!Sources[i] \in {"env", "cpu", "tree", "machine"}
    BY DEF G!Sources
  <2>2. found \subseteq {1, 2, 3, 4}
    BY <2>1
  <2>3. \A i \in found : board[G!Sources[i]] \in Serials \cup {"none"}
    <3>1. board \in [{"env", "cpu", "tree", "machine"} -> Serials \cup {"none"}]
      BY LoopsAssumption
    <3>2. \A i \in found : G!Sources[i] \in {"env", "cpu", "tree", "machine"}
      BY <2>1
    <3> QED
      BY <3>1, <3>2
  <2>4. G!ReadHardwareId(unread) = board[G!Sources[first]]
    BY <1>2 DEF G!ReadHardwareId
  <2> HIDE DEF found
  <2>5. \E i \in found : \A j \in found : i <= j
    <3>1. CASE 1 \in found
      BY <2>2, <3>1
    <3>2. CASE 1 \notin found /\ 2 \in found
      BY <2>2, <3>2
    <3>3. CASE 1 \notin found /\ 2 \notin found /\ 3 \in found
      BY <2>2, <3>3
    <3>4. CASE found = {4}
      BY <3>4
    <3> QED
      BY <1>2, <2>2, <3>1, <3>2, <3>3, <3>4
  <2>6. first \in found
    BY <2>5
  <2> QED
    BY <2>3, <2>4, <2>6
<1> QED
  BY <1>1, <1>2

LEMMA PairingInit == ASSUME G!Init PROVE PairingInv
<1>1. /\ board \in Boards /\ url \in Urls /\ clock = 0 /\ proc = G!Off
      /\ registry = [u \in Urls |-> [s \in Serials |-> "unknown"]]
      /\ last = [u \in Urls |-> G!NoIdentity]
  BY DEF G!Init
<1>2. PICK old \in {G!NoIdentity} \cup [dev : Serials, server : {"none"}, exp : {Life}] :
        files = [p \in G!Places |-> old]
  BY DEF G!Init, G!Places
<1>3. old \in Papers /\ old.server = "none"
  BY NoPapers, LoopsAssumption DEF Papers
<1>4. PairingTypes
  BY <1>1, <1>2, <1>3, OffIs, NoPapers DEF PairingTypes, Registry
<1>5. AllVouched
  BY <1>1, <1>2, <1>3, OffIs, NoPapers DEF AllVouched, Vouched
<1> QED
  BY <1>1, <1>4, <1>5, OffIs DEF PairingInv, HasItsOwn, Saving, Remembered, G!ReturnsWithoutAsking

\* build_components: a file that fits is used, the device asks otherwise.
LEMMA BootKeeps == ASSUME PairingInv, G!Boot PROVE PairingInv'
<1>1. PICK unread \in {{}} \cup (IF G!Faulty THEN {{"cpu"}, {"cpu", "tree", "machine"}} ELSE {}) :
        proc' = IF G!ReadHardwareId(unread) = "none" THEN G!GivenUp
                ELSE IF G!Fits(files[G!Path(url)], G!ReadHardwareId(unread))
                     THEN [G!Off EXCEPT !.pc = "up", !.id = G!ReadHardwareId(unread), !.held = files[G!Path(url)]]
                ELSE [G!Off EXCEPT !.pc = "calling", !.id = G!ReadHardwareId(unread)]
  BY DEF G!Boot
<1>2. UNCHANGED <<board, url, single, files, registry, clock, last>>
  BY DEF G!Boot
<1> DEFINE id == G!ReadHardwareId(unread)
           file == files[G!Path(url)]
<1>3. id \in Serials \cup {"none"}
  BY SerialRead DEF PairingInv, PairingTypes
<1>4. /\ proc' = IF id = "none" THEN G!GivenUp
                 ELSE IF G!Fits(file, id) THEN [G!Off EXCEPT !.pc = "up", !.id = id, !.held = file]
                 ELSE [G!Off EXCEPT !.pc = "calling", !.id = id]
      /\ file = files[G!Path(url)] /\ G!Path(url) \in G!Places
  BY <1>1 DEF G!Path, G!Places, PairingInv, PairingTypes
<1> HIDE DEF id, file
<1>5. file \in Papers /\ Vouched(file) /\ "none" \notin Urls \cup Serials /\ url \in Urls /\ clock \in Nat
  BY <1>4, LoopsAssumption DEF PairingInv, PairingTypes, AllVouched
<1>6. CASE id = "none"
  BY <1>2, <1>4, <1>6, OffIs, NoPapers
  DEF G!GivenUp, PairingInv, PairingTypes, AllVouched, Vouched, HasItsOwn, Saving, Remembered, G!ReturnsWithoutAsking
<1>7. CASE id # "none" /\ G!Fits(file, id)
  <2>1. /\ proc' \in Process /\ proc'.pc = "up" /\ proc'.id = id /\ proc'.held = file
        /\ proc'.was = G!NoIdentity /\ id \in Serials
    BY <1>3, <1>4, <1>5, <1>7, OffIs DEF Process
  <2>2. file.dev = id /\ file.server = url /\ registry[url][id] = "approved"
    BY <1>5, <1>7 DEF G!Fits, Vouched
  <2> QED
    BY <1>2, <2>1, <2>2, NoPapers
    DEF PairingInv, PairingTypes, AllVouched, Vouched, HasItsOwn, Saving, Remembered, G!ReturnsWithoutAsking
<1>8. CASE id # "none" /\ ~G!Fits(file, id)
  <2>1. /\ proc' \in Process /\ proc'.pc = "calling" /\ proc'.id = id
        /\ proc'.was = G!NoIdentity /\ id \in Serials
    BY <1>3, <1>4, <1>8, OffIs DEF Process
  <2>2. ASSUME ~single, G!Alone(url), last[url].dev = id, clock < last[url].exp PROVE FALSE
    <3>1. last[url] # G!NoIdentity
      BY <1>5, <2>1, <2>2, NoPapers
    <3>2. last[url] = file /\ file.server = url
      BY <1>4, <1>5, <2>2, <3>1 DEF PairingInv, Remembered, G!Path
    <3> QED
      BY <1>8, <2>2, <3>2 DEF G!Fits
  <2>3. G!ReturnsWithoutAsking'
    BY <1>2, <2>1, <2>2 DEF G!ReturnsWithoutAsking
  <2> QED
    BY <1>2, <2>1, <2>3, NoPapers
    DEF PairingInv, PairingTypes, AllVouched, Vouched, HasItsOwn, Saving, Remembered
<1> QED
  BY <1>6, <1>7, <1>8

\* The server does not take an approval back.
StaysApproved ==
    /\ registry' \in Registry
    /\ \A u \in Urls, s \in Serials : registry[u][s] = "approved" => registry'[u][s] = "approved"

LEMMA ListedStays ==
    ASSUME PairingInv, proc.pc = "calling", registry' \in {registry, G!Listed}
    PROVE  StaysApproved
<1>1. url \in Urls /\ proc.id \in Serials /\ registry \in Registry
  BY DEF PairingInv, PairingTypes
<1> QED
  BY <1>1 DEF G!Listed, StaysApproved, Registry

\* What is vouched for stays so.
LEMMA VouchedStays ==
    ASSUME PairingTypes, StaysApproved, NEW f \in Papers, Vouched(f)
    PROVE  f.server # "none" => f.dev \in Serials /\ registry'[f.server][f.dev] = "approved"
  BY DEF StaysApproved, Vouched, Papers

\* A process that goes on asking, or gives up.
LEMMA AskingKeeps ==
    ASSUME PairingInv, proc.pc = "calling", StaysApproved, UNCHANGED <<board, url, single, files, clock, last>>,
           NEW attempt \in Nat, NEW poll \in Nat,
           proc' = [proc EXCEPT !.attempt = attempt, !.poll = poll] \/ proc' = G!Off
    PROVE  PairingInv'
<1>0. proc.was \in Papers /\ files \in [G!Places -> Papers] /\ proc \in Process /\ PairingTypes /\ AllVouched
  BY DEF PairingInv, PairingTypes, Process
<1>1. /\ proc' \in Process /\ proc'.pc \in {"calling", "off"}
      /\ proc'.pc = "calling" => proc'.id = proc.id
      /\ proc'.was \in {proc.was, G!NoIdentity}
  BY <1>0, OffIs DEF Process
<1>2. PairingTypes'
  BY <1>1 DEF PairingInv, PairingTypes, StaysApproved
<1>3. AllVouched'
  <2>1. \A p \in G!Places : Vouched(files[p])'
    BY <1>0, VouchedStays DEF AllVouched, Vouched
  <2>2. Vouched(proc.was)'
    BY <1>0, <1>1, VouchedStays, NoPapers DEF AllVouched, Vouched
  <2> QED
    BY <2>1, <2>2 DEF AllVouched
<1> QED
  BY <1>1, <1>2, <1>3 DEF PairingInv, HasItsOwn, Saving, Remembered, G!ReturnsWithoutAsking

\* register: errors, and an answer that asks for patience.
LEMMA CallKeeps ==
    ASSUME PairingInv, G!RetryableError \/ G!PermanentError \/ G!Pending
    PROVE  PairingInv'
<1>1. proc.pc = "calling" /\ UNCHANGED <<board, url, single, files, clock, last>> /\ registry' \in {registry, G!Listed}
  BY DEF G!RetryableError, G!PermanentError, G!Pending
<1>2. StaysApproved
  BY <1>1, ListedStays
<1>3. proc.attempt \in Nat /\ proc.poll \in Nat /\ 0 \in Nat /\ proc \in Process
  BY DEF PairingInv, PairingTypes, Process
<1>4. \E attempt \in Nat, poll \in Nat :
        proc' = [proc EXCEPT !.attempt = attempt, !.poll = poll] \/ proc' = G!Off
  <2>1. CASE proc' = G!Off
    BY <1>3, <2>1
  <2>2. CASE proc' = [proc EXCEPT !.attempt = @ + 1]
    <3>1. PICK a \in Nat : a = proc.attempt + 1
      BY <1>3
    <3>2. proc' = [proc EXCEPT !.attempt = a, !.poll = proc.poll]
      BY <1>3, <2>2, <3>1 DEF Process
    <3> QED
      BY <1>3, <3>2
  <2>3. CASE proc' = [proc EXCEPT !.attempt = 0, !.poll = @ + 1]
    <3>1. PICK n \in Nat : n = proc.poll + 1
      BY <1>3
    <3>2. proc' = [proc EXCEPT !.attempt = 0, !.poll = n]
      BY <2>3, <3>1
    <3> QED
      BY <1>3, <3>2
  <2> QED
    BY <2>1, <2>2, <2>3 DEF G!RetryableError, G!PermanentError, G!Pending, G!GivenUp
<1> QED
  BY <1>1, <1>2, <1>4, AskingKeeps

\* register answered 200, and the file is replaced.
LEMMA GrantedKeeps == ASSUME PairingInv, G!Granted PROVE PairingInv'
<1> DEFINE granted == [dev |-> proc.id, server |-> url, exp |-> clock + Life]
           path == G!Path(url)
<1>1. /\ proc.pc = "calling" /\ registry[url][proc.id] = "approved"
      /\ files' = [files EXCEPT ![path] = granted]
      /\ proc' = [proc EXCEPT !.pc = "saving", !.held = granted, !.was = files[path]]
      /\ last' = [last EXCEPT ![url] = G!NoIdentity]
      /\ UNCHANGED <<board, url, single, registry, clock>>
  BY DEF G!Granted
<1>2. /\ proc.id \in Serials /\ url \in Urls /\ clock \in Nat /\ path \in G!Places /\ proc \in Process
      /\ files \in [G!Places -> Papers] /\ last \in [Urls -> Papers] /\ "none" \notin Urls /\ Life \in Nat
  BY <1>1, LoopsAssumption DEF PairingInv, PairingTypes, G!Path, G!Places
<1>3. granted \in Papers /\ granted.dev = proc.id /\ granted.server = url
  BY <1>2 DEF Papers
<1> HIDE DEF granted, path
<1>4. /\ proc' \in Process /\ proc'.pc = "saving" /\ proc'.id = proc.id /\ proc'.held = granted
      /\ proc'.was = files[path] /\ files[path] \in Papers
  BY <1>1, <1>2, <1>3 DEF Process
<1>5. /\ files' \in [G!Places -> Papers] /\ files'[path] = granted /\ \A p \in G!Places \ {path} : files'[p] = files[p]
      /\ last' \in [Urls -> Papers] /\ last'[url] = G!NoIdentity /\ \A u \in Urls \ {url} : last'[u] = last[u]
  BY <1>1, <1>2, <1>3, NoPapers
<1>6. PairingTypes'
  BY <1>1, <1>2, <1>4, <1>5 DEF PairingInv, PairingTypes
<1>7. AllVouched'
  BY <1>1, <1>2, <1>3, <1>4, <1>5 DEF PairingInv, AllVouched, Vouched
<1>8. HasItsOwn' /\ Saving' /\ G!ReturnsWithoutAsking'
  BY <1>1, <1>3, <1>4, <1>5 DEF HasItsOwn, Saving, G!ReturnsWithoutAsking, path, G!Path
<1>9. Remembered'
  <2>1. ASSUME ~single', NEW u \in Urls, G!Alone(u)
        PROVE  last'[u] = G!NoIdentity \/ (last'[u] = files'[Host[u]] /\ last'[u].server = u)
    <3>1. CASE u = url
      BY <1>5, <3>1
    <3>2. CASE u # url
      <4>1. Host[u] \in G!Places /\ Host[u] # path
        BY <1>1, <1>2, <2>1, <3>2 DEF path, G!Path, G!Places, G!Alone
      <4>2. files'[Host[u]] = files[Host[u]] /\ last'[u] = last[u]
        BY <1>5, <3>2, <4>1
      <4> QED
        BY <1>1, <2>1, <4>2 DEF PairingInv, Remembered
    <3> QED
      BY <3>1, <3>2
  <2> QED
    BY <2>1 DEF Remembered, G!Alone
<1> QED
  BY <1>6, <1>7, <1>8, <1>9 DEF PairingInv

\* The file outlives a power cut.
LEMMA SavedKeeps == ASSUME PairingInv, G!Saved PROVE PairingInv'
<1>1. /\ proc.pc = "saving" /\ proc' = [proc EXCEPT !.pc = "up", !.was = G!NoIdentity]
      /\ last' = [last EXCEPT ![url] = proc.held]
      /\ UNCHANGED <<board, url, single, files, registry, clock>>
  BY DEF G!Saved
<1>2. proc \in Process /\ proc.held \in Papers /\ last \in [Urls -> Papers] /\ url \in Urls
  BY DEF PairingInv, PairingTypes, Process
<1>3. /\ proc' \in Process /\ proc'.pc = "up" /\ proc'.id = proc.id /\ proc'.held = proc.held
      /\ proc'.was = G!NoIdentity
  BY <1>1, <1>2, NoPapers DEF Process
<1>4. /\ last' \in [Urls -> Papers] /\ last'[url] = proc.held /\ \A u \in Urls \ {url} : last'[u] = last[u]
  BY <1>1, <1>2
<1>5. PairingTypes'
  BY <1>1, <1>3, <1>4 DEF PairingInv, PairingTypes
<1>6. Remembered'
  BY <1>1, <1>4 DEF PairingInv, Remembered, Saving, HasItsOwn, G!Path
<1> QED
  BY <1>1, <1>3, <1>5, <1>6, NoPapers
  DEF PairingInv, AllVouched, Vouched, HasItsOwn, Saving, G!ReturnsWithoutAsking

\* The process ends, and board, server or the file being saved may change.
LEMMA EndKeeps == ASSUME PairingInv, G!Kill \/ G!PowerCut \/ G!Reinstall PROVE PairingInv'
<1>1. /\ proc' = G!Off /\ board' \in Boards /\ url' \in Urls
      /\ UNCHANGED <<single, registry, clock, last>>
  BY DEF G!Kill, G!PowerCut, G!Reinstall, PairingInv, PairingTypes
<1>2. files' = files \/ (proc.pc = "saving" /\ files' = [files EXCEPT ![G!Path(url)] = proc.was])
  BY DEF G!Kill, G!PowerCut, G!Reinstall
<1>3. proc.was \in Papers /\ files \in [G!Places -> Papers] /\ url \in Urls /\ G!Path(url) \in G!Places
  BY DEF PairingInv, PairingTypes, Process, G!Path, G!Places
<1>4. files' \in [G!Places -> Papers]
      /\ \A p \in G!Places : files'[p] = files[p] \/ (proc.pc = "saving" /\ p = G!Path(url) /\ files'[p] = proc.was)
  BY <1>2, <1>3
<1>5. PairingTypes'
  BY <1>1, <1>4, OffIs DEF PairingInv, PairingTypes
<1>6. AllVouched'
  BY <1>1, <1>4, OffIs, NoPapers DEF PairingInv, AllVouched, Vouched
<1>7. Remembered'
  <2>1. ASSUME ~single', NEW u \in Urls, G!Alone(u)
        PROVE  last'[u] = G!NoIdentity \/ (last'[u] = files'[Host[u]] /\ last'[u].server = u)
    <3>1. CASE u = url
      <4>1. proc.pc = "saving" => last[u] = G!NoIdentity
        BY <3>1 DEF PairingInv, Saving
      <4>2. Host[u] \in G!Places
        BY <3>1, <1>3 DEF G!Places
      <4>3. proc.pc # "saving" => files'[Host[u]] = files[Host[u]]
        BY <1>4, <4>2
      <4> QED
        BY <1>1, <2>1, <4>1, <4>3 DEF PairingInv, Remembered
    <3>2. CASE u # url
      <4>1. Host[u] \in G!Places /\ Host[u] # G!Path(url)
        BY <1>1, <1>3, <2>1, <3>2 DEF G!Path, G!Places, G!Alone
      <4>2. files'[Host[u]] = files[Host[u]]
        BY <1>4, <4>1
      <4> QED
        BY <1>1, <2>1, <4>2 DEF PairingInv, Remembered
    <3> QED
      BY <3>1, <3>2
  <2> QED
    BY <2>1 DEF Remembered, G!Alone
<1> QED
  BY <1>1, <1>5, <1>6, <1>7, OffIs DEF PairingInv, HasItsOwn, Saving, G!ReturnsWithoutAsking

\* The operator approves, time passes.
LEMMA OutsideKeeps == ASSUME PairingInv, G!Approve \/ G!Tick PROVE PairingInv'
<1>1. UNCHANGED <<board, url, single, files, proc, last>> /\ clock' \in Nat /\ clock <= clock'
  BY DEF G!Approve, G!Tick, PairingInv, PairingTypes
<1>2. StaysApproved
  <2>1. registry \in Registry
    BY DEF PairingInv, PairingTypes
  <2> QED
    BY <2>1 DEF G!Approve, G!Tick, StaysApproved, Registry
<1>3. PairingTypes /\ AllVouched /\ proc.was \in Papers /\ files \in [G!Places -> Papers] /\ last \in [Urls -> Papers]
  BY DEF PairingInv, PairingTypes, Process
<1>4. PairingTypes'
  BY <1>1, <1>2 DEF PairingInv, PairingTypes, StaysApproved
<1>5. AllVouched'
  <2>1. \A p \in G!Places : Vouched(files[p])'
    BY <1>1, <1>2, <1>3, VouchedStays DEF AllVouched, Vouched
  <2>2. Vouched(proc.was)'
    BY <1>1, <1>2, <1>3, VouchedStays DEF AllVouched, Vouched
  <2> QED
    BY <2>1, <2>2 DEF AllVouched
<1>6. HasItsOwn'
  BY <1>1, <1>2, <1>3 DEF PairingInv, HasItsOwn, PairingTypes, StaysApproved
<1>7. G!ReturnsWithoutAsking'
  <2>1. clock \in Nat /\ last[url].exp \in Nat
    BY <1>3 DEF PairingTypes, Papers
  <2> QED
    BY <1>1, <2>1 DEF PairingInv, G!ReturnsWithoutAsking
<1> QED
  BY <1>1, <1>4, <1>5, <1>6, <1>7 DEF PairingInv, Saving, Remembered, G!Path

LEMMA PairingStep == ASSUME PairingInv, [G!Next]_pairingVars PROVE PairingInv'
<1>1. CASE UNCHANGED pairingVars
  BY <1>1 DEF pairingVars, PairingInv, PairingTypes, AllVouched, Vouched, HasItsOwn, Saving, Remembered,
              G!ReturnsWithoutAsking, G!Path
<1> QED
  BY <1>1, BootKeeps, CallKeeps, GrantedKeeps, SavedKeeps, EndKeeps, OutsideKeeps DEF G!Next, G!Step

LEMMA PairingInvariant == PartsSpec => []PairingInv
<1>1. PartsInit => PairingInv
  BY PairingInit DEF PartsInit
<1>2. [PartsNext]_partsVars => [G!Next]_pairingVars
  BY DEF PartsNext, partsVars
<1>3. PairingInv /\ [PartsNext]_partsVars => PairingInv'
  BY <1>2, PairingStep
<1> QED
  BY <1>1, <1>3, PTL DEF PartsSpec

\* ensure_registered and what the files hold: whatever board, installation and
\* files earlier boots left, and whichever power cut took a save back, the
\* daemon works under an identity of the serial it read and of the server it
\* talks to, which has approved it.
THEOREM WorksUnderItsOwnIdentity == PartsSpec => []WorksUnderItsOwn
<1>1. PairingInv => WorksUnderItsOwn
  BY DEF PairingInv, HasItsOwn, WorksUnderItsOwn, G!WorksUnderItsOwn
<1> QED
  BY <1>1, PairingInvariant, PTL

\* _identity_path: with a file for each server, a device asks a server only if
\* the token saved last there is another board's or has expired, wherever it was
\* installed in between.
THEOREM ReturningAsksNobody == PartsSpec => []ReturnsWithoutAsking
<1>1. PairingInv => ReturnsWithoutAsking
  BY DEF PairingInv, ReturnsWithoutAsking
<1> QED
  BY <1>1, PairingInvariant, PTL
-----------------------------------------------------------------------------
(* The types, and how often the registration tries.                        *)

Within == [changes : 0 .. MaxChanges, faults : 0 .. PairingFaults]

\* Attempts, polls, tokens and the time are bounded.
Bounded ==
    /\ single \in BOOLEAN /\ clock \in 0 .. MaxTime
    /\ files \in [G!Places -> G!Identity] /\ last \in [Urls -> G!Identity]
    /\ proc.held \in G!Identity /\ proc.was \in G!Identity
    /\ proc.attempt \in 0 .. MaxRetries /\ proc.poll \in 0 .. MaxPolls
    /\ spent \in Within

LEMMA PairingNumbers ==
    /\ Life \in Nat /\ MaxRetries \in Nat /\ MaxPolls \in Nat /\ MaxTime \in Nat
    /\ MaxChanges \in Nat /\ PairingFaults \in Nat
    /\ G!NoIdentity \in G!Identity
    /\ G!Off.held = G!NoIdentity
  BY LoopsAssumption DEF G!NoIdentity, G!Identity, G!Off

LEMMA BoundedInit == ASSUME G!Init PROVE Bounded
<1>1. PICK old \in {G!NoIdentity} \cup [dev : Serials, server : {"none"}, exp : {Life}] :
        files = [p \in G!Places |-> old]
  BY DEF G!Init, G!Places
<1>2. old \in G!Identity
  BY PairingNumbers DEF G!Identity
<1>3. /\ single \in BOOLEAN /\ clock = 0 /\ proc = G!Off
      /\ last = [u \in Urls |-> G!NoIdentity] /\ spent = [changes |-> 0, faults |-> 0]
  BY DEF G!Init
<1> QED
  BY <1>1, <1>2, <1>3, OffIs, PairingNumbers DEF Bounded, Within

\* What a step may spend.
LEMMA SpentWithin ==
    ASSUME Bounded, (G!Faulty /\ G!Fault) \/ G!Change(1) \/ UNCHANGED spent
    PROVE  spent' \in Within
<1>1. spent \in Within /\ MaxChanges \in Nat /\ PairingFaults \in Nat
  BY PairingNumbers DEF Bounded
<1>2. CASE G!Faulty /\ G!Fault
  BY <1>1, <1>2 DEF G!Faulty, G!Fault, Within
<1>3. CASE G!Change(1)
  BY <1>1, <1>3 DEF G!Change, Within
<1> QED
  BY <1>1, <1>2, <1>3

LEMMA BoundedStep == ASSUME PairingInv, Bounded, [G!Next]_pairingVars PROVE Bounded'
<1>0. /\ proc \in Process /\ url \in Urls /\ G!Path(url) \in G!Places
      /\ files \in [G!Places -> G!Identity] /\ files[G!Path(url)] \in G!Identity
  BY DEF PairingInv, PairingTypes, Bounded, G!Path, G!Places
<1>1. CASE G!Boot
  <2>1. PICK unread \in {{}} \cup (IF G!Faulty THEN {{"cpu"}, {"cpu", "tree", "machine"}} ELSE {}) :
          /\ IF unread = {} THEN spent' = spent ELSE G!Fault
          /\ \/ proc' = G!Off
             \/ \E id : proc' = [G!Off EXCEPT !.pc = "up", !.id = id, !.held = files[G!Path(url)]]
             \/ \E id : proc' = [G!Off EXCEPT !.pc = "calling", !.id = id]
    BY <1>1 DEF G!Boot, G!GivenUp
  <2>2. spent' \in Within
    <3>1. CASE unread = {}
      BY <2>1, <3>1, SpentWithin
    <3>2. CASE unread # {}
      BY <2>1, <3>2, SpentWithin
    <3> QED
      BY <3>1, <3>2
  <2>3. /\ proc'.attempt = 0 /\ proc'.poll = 0 /\ proc'.was = G!NoIdentity
        /\ proc'.held \in {G!NoIdentity, files[G!Path(url)]}
    <3>1. CASE proc' = G!Off
      BY <3>1 DEF G!Off
    <3>2. ASSUME NEW id, proc' = [G!Off EXCEPT !.pc = "up", !.id = id, !.held = files[G!Path(url)]]
          PROVE  /\ proc'.attempt = 0 /\ proc'.poll = 0 /\ proc'.was = G!NoIdentity
                 /\ proc'.held = files[G!Path(url)]
      BY <3>2 DEF G!Off
    <3>3. ASSUME NEW id, proc' = [G!Off EXCEPT !.pc = "calling", !.id = id]
          PROVE  /\ proc'.attempt = 0 /\ proc'.poll = 0 /\ proc'.was = G!NoIdentity
                 /\ proc'.held = G!NoIdentity
      BY <3>3 DEF G!Off
    <3> QED
      BY <2>1, <3>1, <3>2, <3>3
  <2> QED
    BY <1>0, <1>1, <2>2, <2>3, PairingNumbers DEF G!Boot, Bounded
<1>2. CASE G!RetryableError \/ G!PermanentError \/ G!Pending
  <2>1. spent' \in Within
    BY <1>2, SpentWithin DEF G!RetryableError, G!PermanentError, G!Pending
  <2>2. UNCHANGED <<single, files, clock, last>>
    BY <1>2 DEF G!RetryableError, G!PermanentError, G!Pending
  <2>3. \/ proc' = G!Off
        \/ proc.attempt < MaxRetries /\ proc' = [proc EXCEPT !.attempt = @ + 1]
        \/ proc.poll < MaxPolls /\ proc' = [proc EXCEPT !.attempt = 0, !.poll = @ + 1]
    BY <1>2 DEF G!RetryableError, G!PermanentError, G!Pending, G!GivenUp
  <2>4. /\ proc'.attempt \in 0 .. MaxRetries /\ proc'.poll \in 0 .. MaxPolls
        /\ proc'.held \in {proc.held, G!NoIdentity} /\ proc'.was \in {proc.was, G!NoIdentity}
    <3>1. CASE proc' = G!Off
      BY <3>1, OffIs, PairingNumbers
    <3>2. CASE proc.attempt < MaxRetries /\ proc' = [proc EXCEPT !.attempt = @ + 1]
      BY <1>0, <3>2, PairingNumbers DEF Process, Bounded
    <3>3. CASE proc.poll < MaxPolls /\ proc' = [proc EXCEPT !.attempt = 0, !.poll = @ + 1]
      BY <1>0, <3>3, PairingNumbers DEF Process, Bounded
    <3> QED
      BY <2>3, <3>1, <3>2, <3>3
  <2> QED
    BY <2>1, <2>2, <2>4, PairingNumbers DEF Bounded
<1>3. CASE G!Granted
  <2> DEFINE granted == [dev |-> proc.id, server |-> url, exp |-> clock + Life]
  <2>1. granted \in G!Identity
    BY <1>0, PairingNumbers DEF G!Identity, Bounded, Process
  <2>2. /\ files' = [files EXCEPT ![G!Path(url)] = granted] /\ last' = [last EXCEPT ![url] = G!NoIdentity]
        /\ proc' = [proc EXCEPT !.pc = "saving", !.held = granted, !.was = files[G!Path(url)]]
        /\ UNCHANGED <<single, clock, spent>>
    BY <1>3 DEF G!Granted
  <2> HIDE DEF granted
  <2>3. files' \in [G!Places -> G!Identity] /\ last' \in [Urls -> G!Identity]
    BY <1>0, <2>1, <2>2, PairingNumbers DEF Bounded
  <2>4. /\ proc'.held = granted /\ proc'.was = files[G!Path(url)]
        /\ proc'.attempt = proc.attempt /\ proc'.poll = proc.poll
    BY <1>0, <2>2 DEF Process
  <2> QED
    BY <1>0, <2>1, <2>2, <2>3, <2>4 DEF Bounded
<1>4. CASE G!Saved
  <2>1. /\ proc' = [proc EXCEPT !.pc = "up", !.was = G!NoIdentity] /\ last' = [last EXCEPT ![url] = proc.held]
        /\ UNCHANGED <<single, files, clock, spent>>
    BY <1>4 DEF G!Saved
  <2>2. last' \in [Urls -> G!Identity]
    BY <1>0, <2>1 DEF Bounded
  <2>3. /\ proc'.held = proc.held /\ proc'.was = G!NoIdentity
        /\ proc'.attempt = proc.attempt /\ proc'.poll = proc.poll
    BY <1>0, <2>1 DEF Process
  <2> QED
    BY <2>1, <2>2, <2>3, PairingNumbers DEF Bounded
<1>5. CASE G!Kill \/ G!PowerCut \/ G!Reinstall
  <2>1. spent' \in Within
    BY <1>5, SpentWithin DEF G!Kill, G!PowerCut, G!Reinstall
  <2>2. proc' = G!Off /\ UNCHANGED <<single, clock, last>>
    BY <1>5 DEF G!Kill, G!PowerCut, G!Reinstall
  <2>3. files' = files \/ files' = [files EXCEPT ![G!Path(url)] = proc.was]
    BY <1>5 DEF G!Kill, G!PowerCut, G!Reinstall
  <2>4. files' \in [G!Places -> G!Identity]
    BY <1>0, <2>3 DEF Bounded
  <2> QED
    BY <2>1, <2>2, <2>4, OffIs, PairingNumbers DEF Bounded
<1>6. CASE G!Approve \/ G!Tick
  BY <1>6, PairingNumbers DEF G!Approve, G!Tick, Bounded
<1>7. CASE UNCHANGED pairingVars
  BY <1>7 DEF pairingVars, Bounded
<1> QED
  BY <1>1, <1>2, <1>3, <1>4, <1>5, <1>6, <1>7 DEF G!Next, G!Step

\* register, ensure_registered: the state is well typed; no call is repeated
\* more often than the retries allow, and the approval not polled more often
\* than the polls do, over any number of boots.
THEOREM RegistrationTypeCorrect == PartsSpec => []G!TypeOK
<1>1. PartsInit => Bounded
  BY BoundedInit DEF PartsInit
<1>2. PairingInv /\ Bounded /\ [PartsNext]_partsVars => Bounded'
  <2>1. [PartsNext]_partsVars => [G!Next]_pairingVars
    BY DEF PartsNext, partsVars
  <2> QED
    BY <2>1, BoundedStep
<1>3. PairingInv /\ Bounded => G!TypeOK
  BY DEF PairingInv, PairingTypes, Bounded, Process, G!Places, Within, Registry, G!TypeOK
<1> QED
  BY <1>1, <1>2, <1>3, PairingInvariant, PTL DEF PartsSpec
-----------------------------------------------------------------------------
(* The snapshot stream: how much may wait, and for how long.               *)

Sorts == C!Kinds \cup {"none"}
Ages == 0 .. ServerLife
Quiets == 0 .. StaleLimit + 1
Silences == 0 .. ReadTimeout
Snapshots == SUBSET Envelopes
Inboxes == Seq(Snapshots)
Streams == [kind : Sorts, age : Ages, quiet : Quiets, silent : Silences, inbox : Inboxes, closed : BOOLEAN]

Where == {"idle", "reading", "items", "died", "ended"}
Waits == 0 .. MaxWait
Errors == 0 .. MaxExponent
Efforts == 0 .. MaxJob
Reader == [pc : Where, wait : Waits, errors : Errors, batch : Snapshots, busy : Efforts]

\* Snapshots name what was issued, one when the stream opened and one for each
\* envelope since, and a stream is open while the loop is with it.
StreamInv ==
    /\ issued \subseteq Envelopes /\ handled \subseteq issued
    /\ stream \in Streams /\ loop \in Reader
    /\ stop \in BOOLEAN /\ faults \in 0 .. MaxFaults
    /\ Len(stream.inbox) <= Cardinality(issued) + 1
    /\ loop.batch \subseteq issued /\ \A i \in DOMAIN stream.inbox : stream.inbox[i] \subseteq issued
    /\ (loop.pc \in {"reading", "items"}) = (stream.kind # "none")

LEMMA StreamNumbers ==
    /\ ReadTimeout \in Nat /\ StaleLimit \in Nat /\ ServerLife \in Nat /\ MaxWait \in Nat
    /\ MaxExponent \in Nat /\ MaxJob \in Nat /\ MaxFaults \in Nat
  BY LoopsAssumption

\* What the steps put there.
LEMMA StreamValues ==
    /\ C!Kinds \subseteq Sorts /\ "none" \in Sorts /\ "none" \notin C!Kinds /\ "live" \in C!Kinds
    /\ 0 \in Ages /\ 0 \in Quiets /\ 0 \in Silences /\ 0 \in Waits /\ 0 \in Errors /\ 0 \in Efforts
    /\ {"idle", "reading", "items", "died", "ended"} \subseteq Where
    /\ {} \in Snapshots /\ <<>> \in Inboxes
  BY StreamNumbers DEF Sorts, C!Kinds, Ages, Quiets, Silences, Waits, Errors, Efforts, Where, Snapshots, Inboxes

LEMMA IssuedFinite ==
    ASSUME NEW S \in SUBSET Envelopes
    PROVE  /\ IsFiniteSet(S) /\ Cardinality(S) \in Nat
           /\ \A e \in Envelopes \ S : Cardinality(S \cup {e}) = Cardinality(S) + 1
<1>1. IsFiniteSet(S)
  BY LoopsAssumption, FS_Subset
<1> QED
  BY <1>1, FS_CardinalityType, FS_AddElement

LEMMA NoStreamIs ==
    /\ C!NoStream \in Streams /\ C!NoStream.kind = "none" /\ C!NoStream.inbox = <<>>
    /\ C!Idle \in Reader /\ C!Idle.pc = "idle" /\ C!Idle.batch = {}
  BY StreamValues DEF C!NoStream, C!Idle, Streams, Reader

\* However a stream ends, the loop waits no longer than the limit.
LEMMA EndedIs ==
    ASSUME StreamInv, NEW next, next = C!AfterError \/ next = C!Idle
    PROVE  next \in Reader /\ next.pc \in {"idle", "died"} /\ next.batch = {}
<1>1. CASE next = C!Idle
  BY <1>1, NoStreamIs
<1>2. CASE next = C!AfterError
  <2> DEFINE errors == loop.errors + 1
  <2>1. C!Backoff(errors) \in Waits
    BY StreamNumbers DEF C!Backoff, Waits
  <2>2. errors \in Nat
    BY DEF StreamInv, Reader, Errors
  <2>3. next = IF errors > MaxExponent THEN [C!Idle EXCEPT !.pc = "died"]
               ELSE [C!Idle EXCEPT !.errors = errors, !.wait = C!Backoff(errors)]
    BY <1>2 DEF C!AfterError
  <2> HIDE DEF errors
  <2>4. CASE errors > MaxExponent
    BY <2>3, <2>4, NoStreamIs, StreamValues DEF Reader
  <2>5. CASE ~(errors > MaxExponent)
    <3>1. errors \in Errors
      BY <2>2, <2>5, StreamNumbers DEF Errors
    <3> QED
      BY <2>1, <2>3, <2>5, <3>1, NoStreamIs DEF Reader
  <2> QED
    BY <2>4, <2>5
<1> QED
  BY <1>1, <1>2

\* The stream is left, and the loop goes on without one.
LEMMA LeavesStream ==
    ASSUME StreamInv, stream' = C!NoStream, loop' = C!AfterError \/ loop' = C!Idle,
           UNCHANGED <<issued, handled, stop, faults>>
    PROVE  StreamInv'
<1>1. Cardinality(issued) \in Nat
  BY IssuedFinite DEF StreamInv
<1>2. loop' \in Reader /\ loop'.pc \in {"idle", "died"} /\ loop'.batch = {}
  BY EndedIs
<1> QED
  BY <1>1, <1>2, NoStreamIs DEF StreamInv

LEMMA ConnectKeeps == ASSUME StreamInv, C!Connect PROVE StreamInv'
<1>1. loop.pc = "idle" /\ stream.kind = "none" /\ UNCHANGED <<issued, handled, stop>>
  BY DEF C!Connect, C!Due, StreamInv
<1>2. Cardinality(issued) \in Nat /\ issued \in Snapshots
  BY IssuedFinite DEF StreamInv, Snapshots
<1>3. ASSUME NEW kind \in IF C!Faulty THEN C!Kinds ELSE {"live"},
             stream' = [C!NoStream EXCEPT !.kind = kind,
                          !.inbox = IF kind = "live" THEN <<issued>> ELSE <<>>],
             faults' = IF kind = "live" THEN faults ELSE faults + 1,
             loop' = [loop EXCEPT !.pc = "reading", !.wait = 0]
      PROVE  StreamInv'
  <2>1. kind \in C!Kinds /\ kind # "none"
    BY <1>3 DEF C!Kinds
  <2>2. faults' \in 0 .. MaxFaults
    BY <1>3, StreamNumbers DEF C!Faulty, StreamInv
  <2> DEFINE inbox == IF kind = "live" THEN <<issued>> ELSE <<>>
  <2>3. inbox \in Inboxes /\ Len(inbox) <= 1 /\ \A i \in DOMAIN inbox : inbox[i] = issued
    <3>1. /\ <<issued>> \in Seq(Snapshots) /\ Len(<<issued>>) = 1 /\ DOMAIN <<issued>> = {1}
          /\ <<issued>>[1] = issued
      BY <1>2
    <3>2. <<>> \in Seq(Snapshots) /\ Len(<<>>) = 0 /\ DOMAIN <<>> = {}
      OBVIOUS
    <3>3. CASE kind = "live"
      <4>1. inbox = <<issued>>
        BY <3>3
      <4> QED
        BY <3>1, <4>1 DEF Inboxes
    <3>4. CASE kind # "live"
      <4>1. inbox = <<>>
        BY <3>4
      <4> QED
        BY <3>2, <4>1 DEF Inboxes
    <3> QED
      BY <3>3, <3>4
  <2> HIDE DEF inbox
  <2>4. stream' \in Streams /\ stream'.inbox = inbox /\ stream'.kind = kind
    BY <1>3, <2>1, <2>3, NoStreamIs, StreamValues DEF Streams, inbox
  <2>5. loop' \in Reader /\ loop'.pc = "reading" /\ loop'.batch = loop.batch
    BY <1>3, StreamValues DEF StreamInv, Reader
  <2>6. Len(stream'.inbox) <= Cardinality(issued') + 1
    BY <1>1, <1>2, <2>3, <2>4
  <2> QED
    BY <1>1, <1>3, <2>1, <2>2, <2>3, <2>4, <2>5, <2>6 DEF StreamInv
<1>4. CASE C!Faulty /\ faults' = faults + 1 /\ loop' = C!AfterError /\ UNCHANGED stream
  <2>1. faults' \in 0 .. MaxFaults
    BY <1>4, StreamNumbers DEF C!Faulty, StreamInv
  <2> QED
    BY <1>1, <1>4, <2>1, EndedIs DEF StreamInv
<1> QED
  BY <1>3, <1>4 DEF C!Connect

LEMMA EventKeeps == ASSUME StreamInv, C!Event PROVE StreamInv'
<1>1. loop.pc = "reading" /\ stream.inbox # <<>> /\ UNCHANGED <<issued, handled, stop, faults>>
  BY DEF C!Event
<1>2. CASE stop \/ stream.age > AgeLimit
  BY <1>1, <1>2, LeavesStream DEF C!Event, C!Ended
<1>3. CASE ~(stop \/ stream.age > AgeLimit)
  <2>1. /\ stream' = [stream EXCEPT !.inbox = Tail(@), !.quiet = 0, !.silent = 0]
        /\ loop' = [loop EXCEPT !.pc = "items", !.batch = Head(stream.inbox), !.busy = 0]
    BY <1>3 DEF C!Event
  <2> DEFINE inbox == stream.inbox
  <2>2. inbox \in Inboxes /\ inbox # <<>> /\ stream \in Streams
    BY <1>1 DEF StreamInv, Streams
  <2>3. /\ Head(inbox) = inbox[1] /\ 1 \in DOMAIN inbox /\ inbox[1] \in Snapshots
        /\ Tail(inbox) \in Inboxes /\ Len(Tail(inbox)) = Len(inbox) - 1
        /\ \A i \in DOMAIN Tail(inbox) : i + 1 \in DOMAIN inbox /\ Tail(inbox)[i] = inbox[i + 1]
    BY <2>2 DEF Inboxes
  <2> HIDE DEF inbox
  <2>4. stream' \in Streams /\ stream'.inbox = Tail(inbox) /\ stream'.kind = stream.kind
    BY <2>1, <2>2, <2>3, StreamValues DEF Streams, inbox
  <2>5. loop' \in Reader /\ loop'.pc = "items" /\ loop'.batch = inbox[1]
    BY <2>1, <2>3, StreamValues DEF StreamInv, Reader, inbox
  <2>6. Len(Tail(inbox)) <= Cardinality(issued) + 1 /\ inbox[1] \subseteq issued
        /\ \A i \in DOMAIN Tail(inbox) : Tail(inbox)[i] \subseteq issued
    <3>1. Len(inbox) <= Cardinality(issued) + 1 /\ \A i \in DOMAIN inbox : inbox[i] \subseteq issued
      BY DEF StreamInv, inbox
    <3>2. Cardinality(issued) \in Nat /\ Len(inbox) \in Nat
      BY <2>2, IssuedFinite DEF StreamInv, Inboxes
    <3> QED
      BY <2>3, <3>1, <3>2
  <2> QED
    BY <1>1, <2>4, <2>5, <2>6 DEF StreamInv
<1> QED
  BY <1>2, <1>3

LEMMA ItemKeeps == ASSUME StreamInv, C!Item PROVE StreamInv'
<1>1. loop.pc = "items" /\ UNCHANGED <<issued, stream, stop, faults>>
  BY DEF C!Item
<1>2. CASE loop.batch = {}
  <2>1. loop' = [loop EXCEPT !.pc = "reading", !.busy = 0] /\ UNCHANGED handled
    BY <1>2 DEF C!Item
  <2>2. loop' \in Reader /\ loop'.pc = "reading" /\ loop'.batch = loop.batch
    BY <2>1, StreamValues DEF StreamInv, Reader
  <2> QED
    BY <1>1, <2>1, <2>2 DEF StreamInv
<1>3. CASE loop.batch # {}
  <2>1. PICK e \in loop.batch : /\ handled' = handled \cup {e}
                                /\ loop' = [loop EXCEPT !.batch = @ \ {e}, !.busy = 0]
    BY <1>3 DEF C!Item
  <2>2. loop.batch \in Snapshots /\ loop.batch \ {e} \in Snapshots
    BY DEF StreamInv, Reader, Snapshots
  <2>3. loop' \in Reader /\ loop'.pc = loop.pc /\ loop'.batch = loop.batch \ {e}
    BY <2>1, <2>2, StreamValues DEF StreamInv, Reader
  <2> QED
    BY <1>1, <2>1, <2>3 DEF StreamInv
<1> QED
  BY <1>2, <1>3

LEMMA IssueKeeps == ASSUME StreamInv, C!Issue PROVE StreamInv'
<1>1. PICK e \in Envelopes \ issued : issued' = issued \cup {e}
  BY DEF C!Issue
<1>2. /\ stream' = IF stream.kind = "live" THEN [stream EXCEPT !.inbox = Append(@, issued')] ELSE stream
      /\ UNCHANGED <<handled, loop, stop, faults>>
  BY DEF C!Issue
<1>3. Cardinality(issued) \in Nat /\ Cardinality(issued') = Cardinality(issued) + 1
  BY <1>1, IssuedFinite DEF StreamInv
<1> DEFINE inbox == stream.inbox
<1>4. inbox \in Inboxes /\ stream \in Streams /\ issued' \in Snapshots
  BY <1>1 DEF StreamInv, Streams, Snapshots
<1>5. /\ Append(inbox, issued') \in Inboxes /\ Len(inbox) \in Nat
      /\ Len(Append(inbox, issued')) = Len(inbox) + 1
      /\ \A i \in DOMAIN Append(inbox, issued') :
            (i \in DOMAIN inbox /\ Append(inbox, issued')[i] = inbox[i]) \/ Append(inbox, issued')[i] = issued'
  BY <1>4 DEF Inboxes
<1>6. /\ stream' \in Streams /\ stream'.kind = stream.kind
      /\ stream'.inbox = inbox \/ stream'.inbox = Append(inbox, issued')
  BY <1>2, <1>4, <1>5 DEF Streams
<1>7. Len(inbox) <= Cardinality(issued) + 1 /\ \A i \in DOMAIN inbox : inbox[i] \subseteq issued
  BY DEF StreamInv
<1> HIDE DEF inbox
<1>8. Len(stream'.inbox) <= Cardinality(issued') + 1
  BY <1>3, <1>5, <1>6, <1>7
<1>9. \A i \in DOMAIN stream'.inbox : stream'.inbox[i] \subseteq issued'
  BY <1>1, <1>5, <1>6, <1>7
<1> QED
  BY <1>1, <1>2, <1>4, <1>6, <1>8, <1>9 DEF StreamInv

\* The loop acts before a clock passes its limit.
LEMMA StreamTick == ASSUME StreamInv, C!Tick PROVE StreamInv'
<1> DEFINE comment == loop.pc = "reading" /\ stream.kind \in {"live", "zombie"}
           bytes == loop.pc # "reading" \/ stream.kind # "dead"
           quiet == IF comment THEN 0 ELSE IF stream.quiet > StaleLimit THEN stream.quiet
                    ELSE stream.quiet + 1
           age == IF stream.age < ServerLife THEN stream.age + 1 ELSE stream.age
           silent == IF bytes THEN 0 ELSE stream.silent + 1
           closed == stream.closed \/ C!Stale(quiet)
           wait == IF loop.wait > 0 THEN loop.wait - 1 ELSE 0
           busy == IF loop.pc = "items" THEN loop.busy + 1 ELSE loop.busy
<1>1. /\ ~C!Urgent
      /\ stream' = IF stream.kind = "none" THEN stream
                   ELSE [stream EXCEPT !.quiet = quiet, !.age = age, !.silent = silent, !.closed = closed]
      /\ loop' = [loop EXCEPT !.wait = wait, !.busy = busy]
      /\ UNCHANGED <<issued, handled, stop, faults>>
  BY DEF C!Tick
<1>2. stream \in Streams /\ loop \in Reader
  BY DEF StreamInv
<1>3. /\ stream.quiet \in 0 .. StaleLimit + 1 /\ stream.age \in 0 .. ServerLife
      /\ stream.silent \in 0 .. ReadTimeout /\ stream.closed \in BOOLEAN
      /\ loop.wait \in 0 .. MaxWait /\ loop.busy \in 0 .. MaxJob
  BY <1>2 DEF Streams, Reader, Quiets, Ages, Silences, Waits, Efforts
<1>9. quiet \in Quiets /\ age \in Ages /\ wait \in Waits
  <2>1. quiet \in Quiets
    BY <1>3, StreamNumbers DEF Quiets
  <2>2. age \in Ages
    BY <1>3, StreamNumbers DEF Ages
  <2>3. wait \in Waits
    BY <1>3, StreamNumbers DEF Waits
  <2> QED
    BY <2>1, <2>2, <2>3
<1>4. silent \in Silences
  <2>1. CASE bytes
    BY <2>1, StreamValues
  <2>2. CASE ~bytes
    <3>1. ~(stream.silent >= ReadTimeout)
      BY <1>1, <2>2 DEF C!Urgent, C!Broken
    <3> QED
      BY <1>3, <2>2, <3>1, StreamNumbers DEF Silences
  <2> QED
    BY <2>1, <2>2
<1>5. busy \in Efforts
  BY <1>1, <1>3, StreamNumbers DEF C!Urgent, Efforts
<1>6. closed \in BOOLEAN
  BY <1>3 DEF C!Stale
<1> HIDE DEF comment, bytes, quiet, age, silent, closed, wait, busy
<1>7. stream' \in Streams /\ stream'.kind = stream.kind /\ stream'.inbox = stream.inbox
  BY <1>1, <1>2, <1>4, <1>6, <1>9 DEF Streams
<1>8. loop' \in Reader /\ loop'.pc = loop.pc /\ loop'.batch = loop.batch
  BY <1>1, <1>2, <1>5, <1>9 DEF Reader
<1> QED
  BY <1>1, <1>7, <1>8 DEF StreamInv

LEMMA StreamStep == ASSUME StreamInv, [C!Next]_streamVars PROVE StreamInv'
<1>1. CASE C!Connect
  BY <1>1, ConnectKeeps
<1>2. CASE C!End \/ C!StartAgain
  <2>1. /\ \E pc \in {"idle", "ended"} : loop' = [C!Idle EXCEPT !.pc = pc]
        /\ loop.pc \in {"idle", "died"} /\ UNCHANGED <<issued, handled, stream, stop, faults>>
    BY <1>2 DEF C!End, C!StartAgain, C!Due
  <2>2. loop' \in Reader /\ loop'.pc \in {"idle", "ended"} /\ loop'.batch = {}
    BY <2>1, NoStreamIs, StreamValues DEF Reader
  <2> QED
    BY <2>1, <2>2 DEF StreamInv
<1>3. CASE C!Event
  BY <1>3, EventKeeps
<1>4. CASE C!Item
  BY <1>4, ItemKeeps
<1>5. CASE C!StreamEnds
  BY <1>5, LeavesStream DEF C!StreamEnds, C!Ended
<1>6. CASE C!Issue
  BY <1>6, IssueKeeps
<1>7. CASE C!Spoil
  <2>1. PICK kind \in C!Kinds : stream' = [stream EXCEPT !.kind = kind]
    BY <1>7 DEF C!Spoil
  <2>2. stream' \in Streams /\ stream'.kind # "none" /\ stream'.inbox = stream.inbox
    BY <2>1, StreamValues DEF StreamInv, Streams
  <2>3. faults' \in 0 .. MaxFaults
    BY <1>7, StreamNumbers DEF C!Spoil, C!Faulty, StreamInv
  <2> QED
    BY <1>7, <2>2, <2>3 DEF C!Spoil, StreamInv
<1>8. CASE C!RequestStop
  BY <1>8 DEF C!RequestStop, StreamInv
<1>9. CASE C!Tick
  BY <1>9, StreamTick
<1>10. CASE UNCHANGED streamVars
  BY <1>10 DEF streamVars, StreamInv
<1> QED
  BY <1>1, <1>2, <1>3, <1>4, <1>5, <1>6, <1>7, <1>8, <1>9, <1>10 DEF C!Next, C!Loop

\* What may wait on a stream, and for how long: at most a snapshot for each
\* envelope and one more is unread, what is worked on was issued, no read goes
\* on past the read timeout, and no wait after an error past its limit.
THEOREM StreamTypeCorrect == PartsSpec => []C!TypeOK
<1>1. PartsInit => StreamInv
  <2>1. ASSUME C!Init PROVE StreamInv
    <3>1. Cardinality(issued) \in Nat
      BY <2>1, FS_EmptySet DEF C!Init
    <3>3. Len(<<>>) = 0 /\ DOMAIN <<>> = {}
      OBVIOUS
    <3>2. /\ issued = {} /\ handled = {} /\ stream = C!NoStream /\ loop = C!Idle /\ stop = FALSE /\ faults = 0
      BY <2>1 DEF C!Init
    <3>4. /\ stream \in Streams /\ stream.kind = "none" /\ stream.inbox = <<>>
          /\ loop \in Reader /\ loop.pc = "idle" /\ loop.batch = {}
      BY <3>2, NoStreamIs
    <3>5. Len(stream.inbox) <= Cardinality(issued) + 1
      BY <3>1, <3>3, <3>4
    <3>6. \A i \in DOMAIN stream.inbox : stream.inbox[i] \subseteq issued
      BY <3>3, <3>4
    <3>7. faults \in 0 .. MaxFaults
      BY <3>2, StreamNumbers
    <3>8. stop \in BOOLEAN
      BY <3>2, Zenon
    <3> QED
      BY <3>2, <3>4, <3>5, <3>6, <3>7, <3>8 DEF StreamInv
  <2> QED
    BY <2>1 DEF PartsInit
<1>2. StreamInv /\ [PartsNext]_partsVars => StreamInv'
  <2>1. [PartsNext]_partsVars => [C!Next]_streamVars
    BY DEF PartsNext, partsVars
  <2> QED
    BY <2>1, StreamStep
<1>3. StreamInv => C!TypeOK
  <2> SUFFICES ASSUME StreamInv PROVE C!TypeOK
    OBVIOUS
  <2>1. issued \subseteq Envelopes /\ Len(stream.inbox) \in Nat
    BY DEF StreamInv, Streams
  <2>2. Cardinality(issued) \in Nat /\ Cardinality(Envelopes) \in Nat /\ Cardinality(issued) <= Cardinality(Envelopes)
    BY <2>1, IssuedFinite, LoopsAssumption, FS_Subset
  <2>3. C!Cardinality(Envelopes) = Cardinality(Envelopes)
    BY DEF C!Cardinality, Cardinality
  <2>4. Len(stream.inbox) <= C!Cardinality(Envelopes) + 1
    <3> DEFINE unread == Len(stream.inbox) all == Cardinality(Envelopes) now == Cardinality(issued)
    <3>1. unread \in Nat /\ all \in Nat /\ now \in Nat /\ now <= all /\ unread <= now + 1
      BY <2>1, <2>2 DEF StreamInv
    <3> HIDE DEF unread, all, now
    <3>2. unread <= all + 1
      BY <3>1
    <3> QED
      BY <2>3, <3>2 DEF unread, all
  <2>5. stream \in [kind : C!Kinds \cup {"none"}, age : 0 .. ServerLife, quiet : 0 .. StaleLimit + 1,
                    silent : 0 .. ReadTimeout, inbox : Seq(SUBSET Envelopes), closed : BOOLEAN]
    BY Zenon DEF StreamInv, Streams, Sorts, Ages, Quiets, Silences, Inboxes, Snapshots
  <2>6. loop \in [pc : {"idle", "reading", "items", "died", "ended"}, wait : 0 .. MaxWait,
                  errors : 0 .. MaxExponent, batch : SUBSET Envelopes, busy : 0 .. MaxJob]
    BY Zenon DEF StreamInv, Reader, Where, Waits, Errors, Efforts, Snapshots
  <2>7. issued \subseteq Envelopes /\ handled \subseteq issued /\ stop \in BOOLEAN /\ faults \in 0 .. MaxFaults
        /\ (loop.pc \in {"reading", "items"}) = (stream.kind # "none")
    BY DEF StreamInv
  <2> QED
    BY <2>4, <2>5, <2>6, <2>7, Zenon DEF C!TypeOK
<1> QED
  BY <1>1, <1>2, <1>3, PTL DEF PartsSpec
=============================================================================

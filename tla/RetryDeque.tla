----------------------------- MODULE RetryDeque -----------------------------
(***************************************************************************)
(* _cs_retry of HttpStatusSinkAdapter: terminal reports of envelopes whose *)
(* PATCH failed, appended by the consuming thread and sent again by the    *)
(* sender, and by shutdown() on the consuming thread.  An entry is out of  *)
(* the deque while it is sent, and the deque has no lock around the two.   *)
(***************************************************************************)
EXTENDS Naturals, Sequences

CONSTANTS
    MaxReports, \* bound: reports that fail at first
    MaxLen,     \* COMMANDSET_RETRY_MAX (64 in the code)
    Stops,      \* may the daemon be stopped?
    SlowLink,   \* may the sender outlive its join in shutdown()?
    None        \* nothing held

ASSUME DequeAssumption ==
    /\ MaxReports \in Nat
    /\ MaxLen \in Nat \ {0}
    /\ Stops \in BOOLEAN /\ SlowLink \in BOOLEAN
    /\ None \notin 1 .. MaxReports

VARIABLES
    deque,   \* _cs_retry
    held,    \* the entry each thread has taken out
    left,    \* passes left of each thread's loop; 0 when it does not flush
    count,   \* reports appended so far; they are numbered in this order
    serving, \* is the consuming thread in its loop, not in shutdown()?
    decided, \* reports the server has decided on
    dropped  \* reports that fell out of the full deque

vars == <<deque, held, left, count, serving, decided, dropped>>

Threads == {"sender", "main"}
Reports == 1 .. MaxReports
Items == {deque[i] : i \in 1 .. Len(deque)}
Held == {held[t] : t \in Threads} \ {None}

Init ==
    /\ deque = <<>>
    /\ held = [t \in Threads |-> None]
    /\ left = [t \in Threads |-> 0]
    /\ count = 0
    /\ serving = TRUE
    /\ decided = {} /\ dropped = {}

\* report_command_set_transition after "retry"; deque(maxlen) drops its oldest
\* entry when one is appended to it full.
Report ==
    /\ serving
    /\ count < MaxReports
    /\ count' = count + 1
    /\ IF Len(deque) = MaxLen
       THEN deque' = Append(Tail(deque), count') /\ dropped' = dropped \cup {Head(deque)}
       ELSE deque' = Append(deque, count') /\ UNCHANGED dropped
    /\ UNCHANGED <<held, left, serving, decided>>

\* The consuming thread leaves its loop and, in shutdown(), flushes: when the
\* sender has ended, or its join has timed out.
Shutdown ==
    /\ Stops /\ serving
    /\ left["sender"] = 0 \/ SlowLink
    /\ serving' = FALSE
    /\ left' = [left EXCEPT !["main"] = Len(deque)]
    /\ UNCHANGED <<deque, held, count, decided, dropped>>

\* flush_commandset_retries: as many passes as there are entries now.  In
\* shutdown the sender is in its last flush or none.
Flush ==
    /\ serving
    /\ left["sender"] = 0
    /\ deque # <<>>
    /\ left' = [left EXCEPT !["sender"] = Len(deque)]
    /\ UNCHANGED <<deque, held, count, serving, decided, dropped>>

\* Mutant: the entry stays in the deque while it is sent.
LookOnly(t) ==
    /\ left[t] > 0 /\ held[t] = None /\ deque # <<>>
    /\ held' = [held EXCEPT ![t] = Head(deque)]
    /\ UNCHANGED <<deque, left, count, serving, decided, dropped>>

\* popleft; on a deque that the other flush has emptied it raises, and the
\* caller swallows the exception.
Take(t) ==
    /\ left[t] > 0 /\ held[t] = None
    /\ IF deque = <<>>
       THEN left' = [left EXCEPT ![t] = 0] /\ UNCHANGED <<deque, held>>
       ELSE /\ held' = [held EXCEPT ![t] = Head(deque)]
            /\ deque' = Tail(deque)
            /\ UNCHANGED left
    /\ UNCHANGED <<count, serving, decided, dropped>>

\* "applied", "rejected" or "dropped": the entry is done with.
Decided(t) ==
    /\ held[t] # None
    /\ decided' = decided \cup {held[t]}
    /\ held' = [held EXCEPT ![t] = None]
    /\ left' = [left EXCEPT ![t] = @ - 1]
    /\ UNCHANGED <<deque, count, serving, dropped>>

\* Mutant: the entry is not put back.
NotPutBack(r) == UNCHANGED <<deque, dropped>>

\* Mutant: the entry goes to the end of the line.
BackOfTheLine(r) == deque' = Append(deque, r) /\ UNCHANGED dropped

\* appendleft: on a full deque the newest entry falls out.
PutBack(r) ==
    IF Len(deque) = MaxLen
    THEN /\ deque' = <<r>> \o SubSeq(deque, 1, MaxLen - 1)
         /\ dropped' = dropped \cup {deque[MaxLen]}
    ELSE deque' = <<r>> \o deque /\ UNCHANGED dropped

\* "retry" again: back in front, and the flush ends.
Again(t) ==
    /\ held[t] # None
    /\ PutBack(held[t])
    /\ held' = [held EXCEPT ![t] = None]
    /\ left' = [left EXCEPT ![t] = 0]
    /\ UNCHANGED <<count, serving, decided>>

Next ==
    \/ Report \/ Shutdown \/ Flush
    \/ \E t \in Threads : Take(t) \/ Decided(t) \/ Again(t)

Spec == Init /\ [][Next]_vars

\* The sender flushes again and again, and the server answers now and then.
Fairness ==
    /\ WF_vars(Flush)
    /\ \A t \in Threads :
          /\ WF_vars(Take(t)) /\ WF_vars(Decided(t) \/ Again(t))
          /\ SF_vars(Decided(t))

FairSpec == Spec /\ Fairness

-----------------------------------------------------------------------------
(* Properties.                                                             *)

\* Every variable has its type, and the deque keeps its bound.
TypeOK ==
    /\ deque \in Seq(Reports) /\ Len(deque) <= MaxLen
    /\ held \in [Threads -> Reports \cup {None}]
    /\ left \in [Threads -> 0 .. MaxLen]
    /\ count \in 0 .. MaxReports
    /\ serving \in BOOLEAN
    /\ decided \subseteq Reports /\ dropped \subseteq Reports

\* A report that failed is in the deque, or being sent, or decided on, or fell
\* out of a full deque: two flushes and an append lose nothing between them.
NothingForgotten == 1 .. count = Items \cup Held \cup decided \cup dropped

\* No report is sent by two threads, or kept when it was decided on.
SentByOne ==
    /\ Items \cap decided = {} /\ Held \cap (Items \cup decided) = {}
    /\ held["main"] = held["sender"] => held["main"] = None

\* While the sender is the only one to flush, retries keep the order in which
\* their reports failed.
OldestInFront ==
    serving => \A i, j \in 1 .. Len(deque) : i < j => deque[i] < deque[j]

\* What falls out of a full deque is older than what stays in it.  (This does
\* not hold: see the README.)
OldestDropped ==
    [][\A r \in dropped' \ dropped : \A q \in Items' : r < q]_vars

\* While the daemon runs, every report is decided on, or falls out.
EveryRetryEnds ==
    \A r \in Reports : count >= r ~> ~serving \/ r \in decided \cup dropped
=============================================================================

-------------------------------- MODULE Loops --------------------------------
(***************************************************************************)
(* Loops that must get there in the end, side by side as in Parts: the     *)
(* retry deque, which is the module itself, the registration at boot and   *)
(* the snapshot stream.                                                    *)
(***************************************************************************)
EXTENDS RetryDeque, FiniteSets

CONSTANTS
    Parts, \* of "deque", "pairing", "stream"
    \* Registration
    Urls, Host, Serials, Boards, Life, MaxRetries, MaxPolls, MaxTime, MaxChanges, PairingFaults,
    \* CommandStream
    Envelopes, AgeLimit, ReadTimeout, StaleLimit, ServerLife, MaxWait, MaxExponent, MaxJob, MaxFaults

ASSUME LoopsAssumption ==
    /\ "none" \notin Urls \cup Serials
    /\ Boards \subseteq [{"env", "cpu", "tree", "machine"} -> Serials \cup {"none"}]
    /\ {Life, MaxRetries, MaxPolls, MaxTime, MaxChanges, PairingFaults} \subseteq Nat
    /\ IsFiniteSet(Envelopes)
    /\ {ReadTimeout, StaleLimit, ServerLife, MaxWait, MaxExponent, MaxJob, MaxFaults} \subseteq Nat

VARIABLES
    part,
    \* Registration
    board, url, single, files, registry, clock, proc, last, spent,
    \* CommandStream
    issued, handled, stream, loop, stop, faults

pairingVars == <<board, url, single, files, registry, clock, proc, last, spent>>
streamVars == <<issued, handled, stream, loop, stop, faults>>
partsVars == <<part, vars, pairingVars, streamVars>>

-----------------------------------------------------------------------------
(* The instances; constants and variables go by their own names.           *)

G == INSTANCE Registration WITH MaxFaults <- PairingFaults
C == INSTANCE CommandStream

-----------------------------------------------------------------------------
(* Side by side.                                                           *)

PartsInit ==
    /\ part \in Parts
    /\ Init /\ C!Init /\ G!Init
    /\ url = (CHOOSE u \in Urls : TRUE) \* the servers are alike
    /\ part # "pairing" => /\ board = (CHOOSE b \in Boards : TRUE)
                           /\ ~single /\ files["one"] = G!NoIdentity

PartsNext ==
    \/ /\ part = "deque" /\ Next
       /\ UNCHANGED <<part, pairingVars, streamVars>>
    \/ /\ part = "pairing" /\ G!Next
       /\ UNCHANGED <<part, vars, streamVars>>
    \/ /\ part = "stream" /\ C!Next
       /\ UNCHANGED <<part, vars, pairingVars>>

\* The fairness of each module, while the behaviour is about it.
PartsFairness ==
    /\ WF_vars(part = "deque" /\ Flush)
    /\ \A t \in Threads :
          /\ WF_vars(part = "deque" /\ Take(t))
          /\ WF_vars(part = "deque" /\ (Decided(t) \/ Again(t)))
          /\ SF_vars(part = "deque" /\ Decided(t))
    /\ WF_pairingVars(part = "pairing" /\ G!Step)
    /\ WF_streamVars(part = "stream" /\ C!Loop) /\ WF_streamVars(part = "stream" /\ C!Tick)

PartsSpec == PartsInit /\ [][PartsNext]_partsVars /\ PartsFairness

-----------------------------------------------------------------------------
(* Their properties, under the names of this module; those of the deque    *)
(* are its own.                                                            *)

\* The daemon works under the identity of its own board and server.
WorksUnderItsOwn == G!WorksUnderItsOwn

\* A device that was installed elsewhere in between does not ask again.
ReturnsWithoutAsking == G!ReturnsWithoutAsking

\* An approved device ends up working.
PairsInTheEnd == G!PairsInTheEnd

\* Every envelope is dealt with, whatever streams and connections do.
EveryEnvelopeIsHeard == C!EveryEnvelopeIsHeard

\* A stop ends the loop, wherever it waits.
StopIsHeeded == C!StopIsHeeded
=============================================================================

------------------------------ MODULE MCParts ------------------------------
(***************************************************************************)
(* Parts on small instances: the jobs, the tunings and the rack that the   *)
(* recipe resolver is given.                                               *)
(***************************************************************************)
EXTENDS Parts

OnePort == <<3>>

\* Steps as the server sends them, to three ports and up to three addresses.
Plainly(kind, i, g, p) ==
    [kind |-> kind, idx |-> i, stage |-> g, pump |-> p, op |-> "", base |-> "sour",
     open |-> <<>>, volume |-> 20, in |-> 0, out |-> 0, asps |-> <<>>]
Asp(volume, port, liquid) == [volume |-> volume, in |-> port, liquid |-> liquid]
OpStep(i, g, p, op) == [Plainly("op", i, g, p) EXCEPT !.op = op, !.in = 1, !.out = 3]
BatchStep(i, g, p, asps) == [Plainly("batch", i, g, p) EXCEPT !.out = 3, !.asps = asps]

\* Steps of every kind, for the order, the stages and the pumps of a job.
Plain(i) ==
    LET groups == {<<>>, <<0>>, <<1>>}
    IN  {OpStep(i, g, p, "initialize") : g \in groups, p \in 1 .. 3}
        \cup {Plainly("valve", i, g, 0) : g \in groups}
        \cup {Plainly("syringe", i, g, p) : g \in {<<>>, <<0>>}, p \in {1, 3}}
        \cup {BatchStep(i, <<0>>, p, <<Asp(20, 1, "other")>>) : p \in {2, 3}}
        \cup {OpStep(i, <<-1>>, 1, "initialize"), OpStep(i, <<0>>, 1, "wipe")}
Jobs == {<<s>> : s \in Plain(0)} \cup {<<>>}
        \cup {<<s, t>> : s \in Plain(1), t \in Plain(0)}
        \cup {<<s, t, u>> : s \in Plain(2), t \in Plain(0), u \in Plain(1)}

\* Single steps with every content a gate looks at.
Singles ==
    {OpStep(0, <<0>>, 1, op) : op \in {"estop", "plungerFull", "plungerHome"}}
    \cup {[OpStep(0, <<0>>, 1, op) EXCEPT !.in = p, !.out = q] :
            op \in {"initialize", "plungerFull"}, p \in {0, 4}, q \in {0, 4}}
    \cup {[Plainly("valve", 0, <<0>>, 0) EXCEPT !.base = b, !.op = op, !.open = o, !.volume = v] :
            b \in {"normal", "salt"}, op \in {"", "open", "close", "spin"},
            o \in {<<>>, <<0>>, <<5>>}, v \in {0, 20}}
    \cup {[Plainly("syringe", 0, <<0>>, 1) EXCEPT !.volume = v, !.in = p, !.out = q] :
            v \in {-1, 0, 1, 5000, 5001}, p \in 0 .. 4, q \in {0, 3, 4}}
    \cup {BatchStep(0, <<0>>, p, <<>>) : p \in {1}}
    \cup {[BatchStep(0, <<0>>, 1, <<Asp(v, p, l)>>) EXCEPT !.out = q] :
            v \in {0, 1, 30}, p \in 0 .. 4, l \in {"alcohol", "other"}, q \in {0, 3, 4}}

\* Batches of two and three liquids, up to a full syringe and over it.
Volumes == {1, 2, 4, 8, 1666, 1667, 2499, 3331, 4992, 4997}
Batches ==
    {BatchStep(0, <<0>>, 1, <<Asp(v, 1, "other"), Asp(w, 2, "other")>>) : v, w \in Volumes}
    \cup {BatchStep(0, <<0>>, 1, <<Asp(v, 1, "other"), Asp(w, 2, "other"), Asp(x, 1, "other")>>) :
            v, w, x \in Volumes}

RecipeInputs == Jobs \cup {<<s>> : s \in Singles \cup Batches}
RackMap == [p \in 1 .. 2 |-> [stroke |-> 3000, capacity |-> 5000]]
PortLiquids == [p \in 1 .. 2 |-> <<"alcohol", "other", "empty">>]

TuneValues == {<<>>} \cup {<<n>> : n \in {-5, 1, 49, 50, 899, 1000, 1400, 2700, 2701, 6000, 6001}}
TuningSet ==
    {[k \in {j \in {"start", "top", "cutoff", "slope"} : IF j = "start" THEN s # <<>> ELSE IF j = "top" THEN t # <<>>
                           ELSE IF j = "cutoff" THEN c # <<>> ELSE l # <<>>} |->
        (IF k = "start" THEN s ELSE IF k = "top" THEN t ELSE IF k = "cutoff" THEN c ELSE l)[1]] :
     s \in TuneValues, t \in TuneValues, c \in TuneValues, l \in {<<>>, <<0>>, <<21>>}}
=============================================================================

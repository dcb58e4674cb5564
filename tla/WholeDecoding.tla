--------------------------- MODULE WholeDecoding ---------------------------
(***************************************************************************)
(* What the monolithic coordinator promises: a connected part of the       *)
(* program is decoded as a whole, once, when all its gadgets are measured  *)
(* and no output port of it is open.                                       *)
(***************************************************************************)
EXTENDS WindowGeometry, Sequences

CONSTANT Gids

VARIABLES inputs, outputs,                \* the program
          executed, measured, decoded     \* gadgets
vars == <<inputs, outputs, executed, measured, decoded>>

Connectors(g) == {inputs[g][i] : i \in DOMAIN inputs[g]}
Before(g) == {c.gid : c \in Connectors(g)}
Component(g) ==
    Closure({g}, [x \in Gids |-> Before(x) \cup {y \in executed : x \in Before(y)}])
Ports(S) == UNION {{[gid |-> g, port |-> k] : k \in outputs[g]} : g \in S}

Init == executed = {} /\ measured = {} /\ decoded = {}

Execute(g) ==
    /\ g \notin executed /\ Before(g) \subseteq executed \ decoded
    /\ executed' = executed \cup {g}
    /\ UNCHANGED <<inputs, outputs, measured, decoded>>

Measure(g) ==
    /\ g \in executed \ (measured \cup decoded)
    /\ measured' = measured \cup {g}
    /\ UNCHANGED <<inputs, outputs, executed, decoded>>

Decode(g) ==
    LET S == Component(g)
    IN  /\ S \subseteq measured \ decoded
        /\ Ports(S) \subseteq UNION {Connectors(x) : x \in S}
        /\ decoded' = decoded \cup S
        /\ UNCHANGED <<inputs, outputs, executed, measured>>

Reset ==
    /\ executed' = {} /\ measured' = {} /\ decoded' = {}
    /\ UNCHANGED <<inputs, outputs>>

Next == (\E g \in Gids : Execute(g) \/ Measure(g) \/ Decode(g)) \/ Reset
Spec == Init /\ [][Next]_vars
=============================================================================

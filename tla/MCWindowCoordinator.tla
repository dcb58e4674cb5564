------------------------ MODULE MCWindowCoordinator ------------------------
(* Circuits and configurations for WindowCoordinator.                      *)
EXTENDS WindowCoordinator

\* Checks compare a gadget with the gadgets before it, errors flip the checks of
\* the gadget and of all after it; every measured gadget has a check model, with a
\* terminal error model (as the JIT compiler makes them).
Circuit(gadgets, inputs, free) ==
    [gadgets |-> gadgets, inputs |-> inputs,
     readouts |-> [g \in Gadgets |-> {}],
     free |-> free, open |-> {}, checks |-> gadgets \ free,
     measured |-> inputs,
     touched |-> [g \in Gadgets |->
                     {x \in gadgets : g \in Closure(inputs[x], inputs)}],
     terminal |-> gadgets \ free]

Unlinked == [g \in Gadgets |-> {}]
Line == [g \in Gadgets |-> {g - 1} \cap Gadgets]

\* 1 -> 2 -> 4 <- 3.
Branch == [g \in Gadgets |-> CASE g = 2 -> {1} [] g = 4 -> {2, 3} [] OTHER -> {}]

Radii(b, l, m) ==
    [buffer_radius |-> b, lookahead_radius |-> l, window_parallelism |-> m]

\* Two gadgets, while everything may fail.  In the last circuit the errors of 1
\* flip a check of 2 that no connection leads to (absolute_cid).
Pair == [Line EXCEPT ![3] = {}]
Measured == {Circuit({1, 2}, Pair, {})}
Faulty ==
    Measured \cup
    {Circuit({1, 2}, Pair, {1}),
     [Circuit({1, 2}, Unlinked, {}) EXCEPT !.touched[1] = {2}]}

\* Three gadgets in line, the last one a free-hop; and three of which a readout of 1
\* decides on a correction of 2, to which no connection leads.
Chain == {Circuit(Gadgets, Line, {3})}
Conditional ==
    {[Circuit(Gadgets, [Unlinked EXCEPT ![3] = {2}], {}) EXCEPT !.readouts[2] = {1}]}

\* Two gadgets that have nothing to do with each other, which serial mode orders.
Apart == {Circuit({1, 2}, Unlinked, {})}

\* Three gadgets in line decoded at once: the windows of 1 and 3 share 2 and nothing
\* else, so that either leader may find the other's reservation where its own center
\* is free.  Gadget 3 has no check model.
Overlapping == {[Circuit(Gadgets, Line, {}) EXCEPT !.checks = {1, 2}]}

FaultyAndOrdered == Faulty \cup Chain \cup Conditional \cup Apart \cup Overlapping
Parallel == Radii(1, 1, "fully_parallel")
Sliding == Radii(1, 1, "sliding")
ParallelOrModes ==
    [c \in FaultyAndOrdered |->
        CASE c \in Faulty -> {Parallel}
          [] c \in Chain -> {Sliding, Radii(0, 1, "fully_parallel")}
          [] c \in Overlapping -> {Radii(1, 0, "fully_parallel")}
          [] c \in Conditional -> {Sliding}
          [] c \in Apart -> {Radii(1, 1, "serial")}]

\* Without check models only the shape of the circuit matters.  With a buffer, a
\* circuit of free-hops only has no leader.
Shapes == {[Circuit(Gadgets, i, f) EXCEPT !.checks = {}] :
              i \in {Line, Branch}, f \in SUBSET Gadgets \ {Gadgets}}
NoFailures == {}
=============================================================================

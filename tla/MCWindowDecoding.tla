-------------------------- MODULE MCWindowDecoding --------------------------
(* Circuits and error models for WindowDecoding.                           *)
EXTENDS WindowDecoding, MCWindowCoordinator
LOCAL INSTANCE SequencesExt

\* The errors of a gadget flip its check, or with it the checks of its consumers.
Touching(c) ==
    [c EXCEPT !.touched = [g \in Gadgets |-> {x \in c.gadgets : g \in c.inputs[x]}]]

Remotes(c) == [g \in Gadgets |-> SetToSeq(c.touched[g])]

\* Errors by gadget; a terminal error model knows the first error only.
Problem(c, errors, prior, late) ==
    [gtype |-> [g \in Gadgets |-> 0], remotes |-> Remotes(c),
     errors |-> [g \in Gadgets |-> IF Remotes(c)[g] = <<>> THEN <<{0}>> ELSE errors],
     terminal |-> [g \in Gadgets |-> <<{0}>>], prior |-> prior, late |-> late]

Flat == [g \in Gadgets |-> 0]
Nothing(c) ==
    [gtype |-> Flat, remotes |-> [g \in Gadgets |-> <<>>],
     errors |-> [g \in Gadgets |-> <<>>], terminal |-> [g \in Gadgets |-> <<>>],
     prior |-> Flat, late |-> {}]

Both == <<{0}, {0, 1}>>

\* Three gadgets in line, two pairs, and the line again with isolated windows.
Three == Touching(Circuit({1, 2, 3}, [Line EXCEPT ![4] = {}], {}))
Pairs == Touching(Circuit(Gadgets, [Unlinked EXCEPT ![2] = {1}, ![4] = {3}], {}))

Decoded == {Three, Pairs}
ShapesOrDecoded == Shapes \cup Decoded
ShapesOrDecodedConfigs ==
    [c \in ShapesOrDecoded |->
        CASE c = Three -> {Radii(1, 0, "fully_parallel"), Radii(0, 0, "serial")}
          [] c = Pairs -> {Radii(1, 0, "serial")}
          [] OTHER -> {Radii(2, 1, "fully_parallel")}]
ShapesOrDecodedProblems ==
    [c \in ShapesOrDecoded |->
        CASE c = Three -> {Problem(c, Both, Flat, {2})}
          [] c = Pairs -> {Problem(c, <<{0, 1}>>, prior, {}) : prior \in {Flat, [Flat EXCEPT ![3] = 1]}}
          [] OTHER -> {Nothing(c)}]
=============================================================================

------------------------ MODULE PauliFrameTracker ------------------------
(***************************************************************************)
(* The Pauli frame tracker (misc/pauli_frame_tracker.rs) and the readouts  *)
(* the coordinators publish from it.  A correction of a gadget changes its *)
(* frame, and through it the frames of the gadgets behind its output ports *)
(* and of those whose conditional corrections use its readouts, visited    *)
(* depth first.  The coordinator holds the tracker's mutex meanwhile.      *)
(*                                                                         *)
(* A bit vector is the set of the indices of its ones, a bit matrix the    *)
(* function from its rows to the set of their ones.                        *)
(***************************************************************************)
EXTENDS Naturals, Sequences, FiniteSets
LOCAL INSTANCE FiniteSetsExt

CONSTANTS Gids, Programs,
          None          \* Option::None

\* An output observable is a port and the index of an observable in its type;
\* an input observable an input port and such an index.  One is the last, constant
\* column of the propagation matrices.
Out(t) == UNION {{k} \X t.outputs[k] : k \in DOMAIN t.outputs}
One == <<0, 0>>

Frame == [readouts : SUBSET Nat, residual : SUBSET (Nat \X Nat)]
Raw == [readouts : SUBSET Nat, measurements : SUBSET Nat]
Readouts == [readouts : SUBSET Nat]

\* A gadget with its type, modifiers applied.  Gadgets are created in the order of
\* their gids, and a port has one peer.
Needed(t) == {t.inputs[i].gid : i \in DOMAIN t.inputs}
             \cup {t.remote_readouts[i].gid : i \in DOMAIN t.remote_readouts}

IsGadget(t, g) ==
    /\ t.inputs \in Seq([gid : Gids, port : Nat])
    /\ t.remote_readouts \in Seq([gid : Gids, readout : Nat])
    /\ \A h \in Needed(t) : h < g
    /\ t.outputs \in Seq(SUBSET Nat)
    /\ t.readouts \subseteq Nat /\ t.measurements \subseteq Nat
    /\ DOMAIN t.readout_propagation = t.readouts
    /\ DOMAIN t.measurement_indices = t.readouts
    /\ DOMAIN t.correction_propagation = Out(t)
    /\ DOMAIN t.logical_correction = Out(t)
    /\ DOMAIN t.physical_correction = Out(t)
    /\ DOMAIN t.remote_correction = Out(t)

IsProgram(p) ==
    /\ DOMAIN p = Gids
    /\ \A g \in Gids : IsGadget(p[g], g)
    /\ \A g \in Gids : \A i \in DOMAIN p[g].inputs :
          p[g].inputs[i].port \in DOMAIN p[p[g].inputs[i].gid].outputs
    /\ \A g, h \in Gids : \A i \in DOMAIN p[g].inputs, j \in DOMAIN p[h].inputs :
          p[g].inputs[i] = p[h].inputs[j] => g = h

ASSUME TrackerAssumption ==
    /\ Gids \subseteq Nat
    /\ None \notin Gids /\ None \notin Frame /\ None \notin Readouts
    /\ \A p \in Programs : IsProgram(p)

VARIABLES program,
          recommit,      \* may a correction replace an earlier one?
          added,         \* keys of the tracker's `gadgets`
          outputs, dependents,     \* their peers and remote_dependents
          raw,           \* raw_readouts and raw_measurements
          decoded, frame,
          stack,         \* the visits of propagate_from still to make
          updates,       \* what load_correction is going to return
          calling,       \* is a load_correction under way?
          published      \* the readouts the coordinator has given to decodes

wires == <<program, recommit, added, outputs, dependents>>
values == <<raw, decoded>>
vars == <<program, recommit, added, outputs, dependents, raw, decoded, frame, stack,
          updates, calling, published>>

Nothing == [g \in Gids |-> None]

Init ==
    /\ program \in Programs /\ recommit \in BOOLEAN
    /\ added = {}
    /\ outputs = [g \in Gids |-> [k \in DOMAIN program[g].outputs |-> None]]
    /\ dependents = [g \in Gids |-> <<>>]
    /\ raw = Nothing /\ decoded = Nothing /\ frame = Nothing
    /\ stack = <<>> /\ updates = Nothing /\ calling = FALSE
    /\ published = Nothing
-----------------------------------------------------------------------------
(* Corrections. *)

Mul(m, v) == {r \in DOMAIN m : Cardinality(m[r] \cap v) % 2 = 1}

\* A decoded gadget with all peers and remote gadgets in their frames.
Ready(g) == decoded[g] # None /\ \A h \in Needed(program[g]) : frame[h] # None

\* The observables of a residual at an output port.
Slice(residual, port) == {k[2] : k \in {r \in residual : r[1] = port}}

\* The frame of a gadget t with raw values r and decoded correction d, where the
\* frames of the others are f.
Corrected(t, r, d, f) ==
    LET input == {One} \cup
                 UNION {{i} \X Slice(f[t.inputs[i].gid].residual, t.inputs[i].port) :
                           i \in DOMAIN t.inputs}
        remote == {i \in DOMAIN t.remote_readouts :
                     t.remote_readouts[i].readout
                         \in f[t.remote_readouts[i].gid].readouts}
        readouts == SymDiff(SymDiff(r.readouts, d.readouts),
                            Mul(t.readout_propagation, input))
        before == SymDiff(Mul(t.correction_propagation, input),
                          Mul(t.physical_correction, r.measurements))
        conditional == SymDiff(Mul(t.logical_correction, readouts),
                               Mul(t.remote_correction, remote))
    IN  [readouts |-> readouts,
         residual |-> SymDiff(SymDiff(before, conditional), d.residual)]

NewFrame(g) == Corrected(program[g], raw[g], decoded[g], frame)

\* Whom a changed frame concerns, in the order of the visits.
SuccessorsConnected(g) == outputs[g]
Successors(g) == outputs[g] \o dependents[g]
\* What the client gets of a frame.
ReadoutsOf(f) == IF f = None THEN None ELSE [readouts |-> f.readouts]
-----------------------------------------------------------------------------
(* The operations, under the tracker's mutex. *)

AddGadget(g) ==
    LET t == program[g]
        Peers(h) == {i \in DOMAIN t.remote_readouts : t.remote_readouts[i].gid = h}
    IN  /\ ~calling /\ g \notin added
        /\ Needed(t) \subseteq added
        /\ added' = added \cup {g}
        /\ outputs' = [h \in Gids |-> [k \in DOMAIN outputs[h] |->
               IF \E i \in DOMAIN t.inputs : t.inputs[i] = [gid |-> h, port |-> k]
               THEN g ELSE outputs[h][k]]]
        /\ dependents' = [h \in Gids |->
               dependents[h] \o [i \in 1..Cardinality(Peers(h)) |-> g]]
        /\ UNCHANGED <<program, recommit, raw, decoded, frame, stack, updates,
                       calling, published>>

\* The coordinator derives the raw readouts from the measurements.
LoadRaw(g, measurements) ==
    /\ ~calling /\ g \in added /\ raw[g] = None
    /\ raw' = [raw EXCEPT ![g] =
           [readouts |-> Mul(program[g].measurement_indices, measurements),
            measurements |-> measurements]]
    /\ UNCHANGED <<wires, decoded, frame, stack, updates, calling, published>>

\* The raw values come first.  A coordinator that commits corrects a gadget once.
Correctable(g) == raw[g] # None /\ (decoded[g] = None \/ recommit)

LoadCorrection(g, correction) ==
    /\ ~calling /\ g \in added /\ Correctable(g)
    /\ decoded' = [decoded EXCEPT ![g] = correction]
    /\ stack' = <<g>> /\ calling' = TRUE
    /\ UNCHANGED <<wires, raw, frame, updates, published>>

SettledReadouts(g) == ReadoutsOf(frame[g]) = ReadoutsOf(NewFrame(g))
Settled(g) == frame[g] = NewFrame(g)

\* One call of propagate_from.  An output port without a peer has nobody to visit,
\* an early return visits nobody either.
VisitNobody ==
    /\ stack # <<>>
    /\ LET g == Head(stack)
       IN  \/ g = None
           \/ g # None /\ ~Ready(g)
           \/ g # None /\ Ready(g) /\ Settled(g)
    /\ stack' = Tail(stack)
    /\ UNCHANGED <<wires, values, frame, updates, calling, published>>

Insert(g, f) == [updates EXCEPT ![g] = ReadoutsOf(f)]

VisitChanged ==
    /\ stack # <<>> /\ Head(stack) # None
    /\ LET g == Head(stack)
           new == NewFrame(g)
       IN  /\ Ready(g) /\ ~Settled(g)
           /\ updates' = Insert(g, new)
           /\ frame' = [frame EXCEPT ![g] = new]
           /\ stack' = Successors(g) \o Tail(stack)
    /\ UNCHANGED <<wires, values, calling, published>>

\* load_correction returns; its caller publishes the updates.
Publish ==
    /\ calling /\ stack = <<>>
    /\ published' = [g \in Gids |->
           IF updates[g] # None THEN updates[g] ELSE published[g]]
    /\ updates' = Nothing /\ calling' = FALSE
    /\ UNCHANGED <<wires, values, frame, stack>>

\* The coordinator forgets the gadgets and resets the tracker.
Reset ==
    /\ ~calling /\ added # {}
    /\ added' = {}
    /\ outputs' = [g \in Gids |-> [k \in DOMAIN program[g].outputs |-> None]]
    /\ dependents' = [g \in Gids |-> <<>>]
    /\ raw' = Nothing /\ decoded' = Nothing /\ frame' = Nothing
    /\ published' = Nothing
    /\ UNCHANGED <<program, recommit, stack, updates, calling>>

Corrections(g) == [readouts : SUBSET program[g].readouts,
                   residual : SUBSET Out(program[g])]

Next ==
    \/ \E g \in Gids : AddGadget(g)
    \/ \E g \in Gids : \E v \in SUBSET program[g].measurements : LoadRaw(g, v)
    \/ \E g \in Gids : \E c \in Corrections(g) : LoadCorrection(g, c)
    \/ VisitNobody \/ VisitChanged \/ Publish
    \/ Reset

Spec == Init /\ [][Next]_vars
-----------------------------------------------------------------------------
(* Properties. *)

Option(S) == S \cup {None}

\* Types; a correction is loaded after the raw values that propagate_from unwraps.
TypeOK ==
    /\ program \in Programs /\ recommit \in BOOLEAN
    /\ added \subseteq Gids
    /\ \A g \in Gids : /\ outputs[g] \in Seq(Option(Gids))
                      /\ Len(outputs[g]) = Len(program[g].outputs)
    /\ dependents \in [Gids -> Seq(Gids)]
    /\ raw \in [Gids -> Option(Raw)]
    /\ {decoded, frame} \subseteq [Gids -> Option(Frame)]
    /\ \A g \in Gids : decoded[g] # None => raw[g] # None /\ g \in added
    /\ stack \in Seq(Option(Gids))
    /\ {updates, published} \subseteq [Gids -> Option(Readouts)]
    /\ calling \in BOOLEAN

\* Between two calls every frame is what its equation makes of the frames it depends
\* on, and a gadget has none exactly when its own correction or one of those frames
\* is missing: propagate_from leaves no gadget behind, whatever the order in which
\* the corrections come.
FramesConsistent ==
    ~calling => \A g \in Gids :
        frame[g] = IF Ready(g) THEN NewFrame(g) ELSE None

\* The readouts given to the decodes are those of the frames, though a call may have
\* visited a gadget several times with transient values.
PublishedCurrent ==
    ~calling => \A g \in Gids :
        published[g] = ReadoutsOf(frame[g])

\* What the readouts are, gadget by gadget in the order of their gids.
Reference[g \in Gids] ==
    LET t == program[g]
    IN  IF decoded[g] # None /\ \A h \in Needed(t) : Reference[h] # None
        THEN Corrected(t, raw[g], decoded[g], [h \in Needed(t) |-> Reference[h]])
        ELSE None

\* The readouts published depend on the raw values and the corrections only, never
\* on the order of the calls or the visits.
ReadoutsExact ==
    ~calling => \A g \in Gids : published[g] = ReadoutsOf(Reference[g])

\* When every correction is final, the readouts of a gadget are published once ("it
\* will return the PauliFrameUpdate only once"), and only a reset takes them back.
PublishedOnce ==
    [][\A g \in Gids : ~recommit /\ published[g] # None =>
          published'[g] = published[g] \/ added' = {}]_vars
=============================================================================

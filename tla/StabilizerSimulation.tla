------------------------ MODULE StabilizerSimulation ------------------------
(***************************************************************************)
(* pauliverse: one circuit given, instruction by instruction, to           *)
(*  - OutcomeSpecificSimulation: one trajectory, with a source of bits,    *)
(*  - OutcomeCompleteSimulation: all trajectories, signs and outcomes as   *)
(*    functions of the random bits,                                        *)
(*  - OutcomeFreeSimulation: the encoder modulo Paulis,                    *)
(*  - FramePropagator: what the faults of one shot do to the outcomes.     *)
(* ideal and faulty are the trajectories as StabilizerState has them: of   *)
(* the circuit, and of the circuit with the shot's faults as gates.        *)
(***************************************************************************)
EXTENDS CliffordEncoders

CONSTANTS Starts,       \* numbers of qubits the simulations are created with
          Instructions  \* for each place in a circuit, the instructions that may stand there

S == INSTANCE StabilizerState
LOCAL Xor(a, b) == (a \ b) \union (b \ a)

ASSUME CircuitAssumption == Starts \subseteq Nat

VARIABLES specific,   \* clifford, outcomes, random (outcome_introduces_branch_bit), count
          complete,   \* clifford, signs, matrix, shift, random, count
          free,       \* clifford, random, count
          frame,      \* x_frames, z_frames and outcome_deltas of one shot
          ideal, faulty, length, \* ideal and faulty: group, outcomes, random, count
          astray      \* a permutation has moved the frame to other qubits than the state

vars == <<specific, complete, free, frame, ideal, faulty, length, astray>>

Init ==
    \E n \in Starts :
        /\ specific = [clifford |-> Identity1(n), outcomes |-> <<>>, random |-> <<>>, count |-> n]
        /\ complete = [clifford |-> Identity1(n), signs |-> [q \in 0..n - 1 |-> {}], matrix |-> <<>>, shift |-> {}, random |-> <<>>, count |-> n]
        /\ free = [clifford |-> Identity1(n), random |-> <<>>, count |-> n]
        /\ frame = [x |-> {}, z |-> {}, deltas |-> <<>>]
        /\ ideal = [group |-> S!ZeroState(n), outcomes |-> <<>>, random |-> <<>>, count |-> n]
        /\ faulty = ideal
        /\ length = 0 /\ astray = FALSE

----------------------------------------------------------------------------
\* Qubits are made as instructions name them; capacity grows to a power of two.
NextPowerOfTwo(n) == CHOOSE k \in {2 ^ i : i \in 0..4} : k >= n /\ \A i \in 0..4 : 2 ^ i >= n => k <= 2 ^ i
Capacity(sim) == NumQubits(sim.clifford)
EnsureQubits(sim, qubits) ==
    LET most == CHOOSE q \in qubits : \A r \in qubits : r <= q
    IN  IF qubits = {} THEN sim
        ELSE [sim EXCEPT !.count = IF most + 1 > @ THEN most + 1 ELSE @,
                         !.clifford = IF most >= Capacity(sim) THEN Resized(@, NextPowerOfTwo(most + 1)) ELSE @]
EnsureComplete(sim, qubits) ==
    LET grown == EnsureQubits(sim, qubits)
    IN  [grown EXCEPT !.signs = [q \in Qubits(grown.clifford) |-> IF q \in DOMAIN @ THEN @[q] ELSE {}]]
\* The reference has qubits up to the highest ever named.
EnsureIdeal(state, qubits) ==
    LET most == CHOOSE q \in qubits : \A r \in qubits : r <= q
    IN  IF qubits = {} \/ most < state.count THEN state ELSE [state EXCEPT !.group = S!Enlarged(@, state.count, most + 1), !.count = most + 1]

\* update_encoder_for_random_outcome: the observable takes the place of the
\* stabilizer that is the image of Z on the pivot.
UpdateEncoder(c, observable, preimage, pivot, outcome) ==
    LET factor == P!Times(preimage, P!ZOn(pivot))
        stabilizer == ImageUpToPhase(c, P!ZOn(pivot))
        \* anti: the generator anticommutes with the stabilizer; hit: with the observable.
        update(v, anti, hit) == LET w == IF anti # hit THEN P!Times(v, factor) ELSE v
                                IN  IF anti /\ outcome = 1 THEN P!Negated(w) ELSE w
    IN  [x |-> [q \in Qubits(c) |-> update(c.x[q], q \in stabilizer.z, q \in observable.z)],
         z |-> [q \in Qubits(c) |-> update(c.z[q], q \in stabilizer.x, q \in observable.x)]]
Pivot(preimage) == CHOOSE q \in preimage.x : \A r \in preimage.x : q <= r
IsRandom(c, p) == Preimage(c, p).x # {}

----------------------------------------------------------------------------
\* OutcomeSpecificSimulation.
SpecificBit(sim, bit) == [sim EXCEPT !.outcomes = Append(@, bit), !.random = Append(@, TRUE)]
SpecificMeasure(sim, p, bit) ==
    LET preimage == Preimage(sim.clifford, p)
    IN  IF preimage.x # {} THEN [SpecificBit(sim, bit) EXCEPT !.clifford = UpdateEncoder(@, p, preimage, Pivot(preimage), bit)]
        ELSE [sim EXCEPT !.outcomes = Append(@, IF preimage.phase = 2 THEN 1 ELSE 0), !.random = Append(@, FALSE)]
SpecificConditional(sim, p, indices, parity) ==
    IF S!Parity(sim.outcomes, indices) = parity THEN [sim EXCEPT !.clifford = LeftMulPauli(@, p)] ELSE sim
\* The observable times the hint, turned into the rotation that measures.
HintRotation(preimage, p, hint) == P!AddPhase(P!Times(p, hint), 3 + 4 - preimage.phase)
SpecificHint(sim, p, hint, bit) ==
    LET preimage == Preimage(sim.clifford, hint)
        turned == SpecificBit([sim EXCEPT !.clifford = PauliExp(@, HintRotation(preimage, p, hint))], bit)
    IN  IF preimage.x # {} THEN SpecificMeasure(sim, p, bit) ELSE SpecificConditional(turned, hint, <<Len(turned.outcomes)>>, 1)

\* OutcomeCompleteSimulation: signs of the stabilizers and outcomes as sets of branch bits.
XorSets(rows, indices) == {b \in UNION {rows[i] : i \in indices} : Cardinality({i \in indices : b \in rows[i]}) % 2 = 1}
BranchBits(sim) == Cardinality({j \in DOMAIN sim.random : sim.random[j]})
AllocateBranchBit(sim) == [sim EXCEPT !.matrix = Append(@, {BranchBits(sim) + 1}), !.random = Append(@, TRUE)]
ConditionedOnBits(sim, p, bits) ==
    LET hit == Preimage(sim.clifford, p).x
    IN  [sim EXCEPT !.signs = [q \in DOMAIN @ |-> IF q \in hit THEN Xor(@[q], bits) ELSE @[q]]]
\* Mutant: the bits the pivot's sign has are not cancelled.
CompleteRandomFresh(sim, p, preimage) ==
    LET bits == {BranchBits(sim) + 1}
        signed == [sim EXCEPT !.signs = [q \in DOMAIN @ |-> IF q \in preimage.x THEN Xor(@[q], bits) ELSE @[q]]]
    IN  [AllocateBranchBit(signed) EXCEPT !.clifford = UpdateEncoder(@, p, preimage, Pivot(preimage), 0)]
CompleteRandom(sim, p, preimage) ==
    LET bits == sim.signs[Pivot(preimage)] \union {BranchBits(sim) + 1}
        signed == [sim EXCEPT !.signs = [q \in DOMAIN @ |-> IF q \in preimage.x THEN Xor(@[q], bits) ELSE @[q]]]
    IN  [AllocateBranchBit(signed) EXCEPT !.clifford = UpdateEncoder(@, p, preimage, Pivot(preimage), 0)]
CompleteMeasure(sim, p) ==
    LET preimage == Preimage(sim.clifford, p)
    IN  IF preimage.x # {} THEN CompleteRandom(sim, p, preimage)
        ELSE [sim EXCEPT !.matrix = Append(@, XorSets(sim.signs, preimage.z)), !.random = Append(@, FALSE),
                         !.shift = IF preimage.phase = 2 THEN @ \union {Len(sim.random) + 1} ELSE @]
CompleteHint(sim, p, hint) ==
    LET preimage == Preimage(sim.clifford, hint)
        turned == AllocateBranchBit([sim EXCEPT !.clifford = PauliExp(@, HintRotation(preimage, p, hint))])
    IN  IF preimage.x # {} THEN CompleteMeasure(sim, p)
        ELSE ConditionedOnBits(turned, hint, XorSets(sim.signs, preimage.z) \union {BranchBits(sim) + 1})
\* OutcomeParity: repeated outcomes cancel.
MaskOf(sim, indices) == {b \in UNION {sim.matrix[indices[k]] : k \in DOMAIN indices} : Cardinality({k \in DOMAIN indices : b \in sim.matrix[indices[k]]}) % 2 = 1}
ConstantOf(sim, indices) == Cardinality({k \in DOMAIN indices : indices[k] \in sim.shift}) % 2
CompleteConditional(sim, p, indices, parity) ==
    LET grown == EnsureComplete(sim, P!SupportOf(p))
        signed == IF ConstantOf(sim, indices) = parity THEN [grown EXCEPT !.clifford = LeftMulPauli(@, p)] ELSE grown
    IN  ConditionedOnBits(signed, p, MaskOf(sim, indices))

\* OutcomeFreeSimulation: the same bits, no phases; Paulis do nothing.
FreeTo(sim, clifford) == [sim EXCEPT !.clifford = ModPauli(clifford)]
FreeMeasure(sim, p) ==
    LET preimage == Preimage(sim.clifford, p)
        random == preimage.x # {}
    IN  [sim EXCEPT !.clifford = IF random THEN ModPauli(UpdateEncoder(@, p, preimage, Pivot(preimage), 0)) ELSE @, !.random = Append(@, random)]
FreeHint(sim, p, hint) ==
    IF IsRandom(sim.clifford, hint) THEN FreeMeasure(sim, p)
    ELSE [sim EXCEPT !.clifford = ModPauli(PauliExp(@, P!Times(p, hint))), !.random = Append(@, TRUE)]
\* Queries, and the signed generators of the state on some qubits (action.rs):
\* canonical Paulis whose signs are functions of the outcomes.
SpecificIsStabilizer(p) == LET preimage == Preimage(specific.clifford, p) IN preimage.x = {} /\ preimage.phase = 0
SpecificConditionalSign(p, indices) ==
    LET preimage == Preimage(specific.clifford, p)
    IN  preimage.x = {} /\ preimage.phase % 2 = 0 /\ (preimage.phase = 0) # (S!Parity(specific.outcomes, indices) = 1)
CompleteIsStabilizer(p) ==
    LET preimage == Preimage(complete.clifford, p)
    IN  preimage.x = {} /\ preimage.phase = 0 /\ XorSets(complete.signs, preimage.z) = {}
CompleteConditionalSign(p, indices) ==
    LET preimage == Preimage(complete.clifford, p)
    IN  /\ preimage.x = {} /\ preimage.phase % 2 = 0
        /\ XorSets(complete.signs, preimage.z) = MaskOf(complete, indices) /\ preimage.phase \div 2 = ConstantOf(complete, indices)
IsStabilizerUpToSign(sim, p) == Preimage(sim.clifford, p).x = {}
\* The outcome a branch bit is read from.
BranchBitLocation(b) == CHOOSE j \in DOMAIN complete.random : complete.random[j] /\ Cardinality({k \in 1..j : complete.random[k]}) = b
SignedGenerators(support) ==
    LET n == NumQubits(complete.clifford)
        restriction == StandardRestriction(complete.clifford, Matrix([j \in 1..n |-> {b - 1 : b \in complete.signs[j - 1]}], BranchBits(complete)), support)
    IN  [k \in DOMAIN restriction.generators |->
            [pauli |-> restriction.generators[k], mask |-> {BranchBitLocation(b + 1) : b \in restriction.signs.rows[k]}]]

----------------------------------------------------------------------------
\* FramePropagator, one column: the fault that stands before what comes next.
Flips(f, p) == P!AntiCommutes(P!PauliOf(f.x, f.z, 0), p)
Inject(f, p) == [f EXCEPT !.x = Xor(@, p.x), !.z = Xor(@, p.z)]
InjectIf(f, p, condition) == IF condition THEN Inject(f, p) ELSE f
FrameH(f, q) == [f EXCEPT !.x = (@ \ {q}) \union (f.z \intersect {q}), !.z = (@ \ {q}) \union (f.x \intersect {q})]
FrameS(f, q) == [f EXCEPT !.z = Xor(@, f.x \intersect {q})]
FrameSqrtX(f, q) == [f EXCEPT !.x = Xor(@, f.z \intersect {q})]
FrameCnot(f, a, b) == [f EXCEPT !.x = IF a \in f.x THEN Xor(@, {b}) ELSE @, !.z = IF b \in f.z THEN Xor(@, {a}) ELSE @]
FrameCz(f, a, b) == [f EXCEPT !.z = Xor(Xor(@, IF a \in f.x THEN {b} ELSE {}), IF b \in f.x THEN {a} ELSE {})]
FrameMoved(f, from, to) == \* qubit from[k] to qubit to[k]
    LET moved(T) == (T \ ToSet(to)) \union {to[k] : k \in {k \in DOMAIN from : from[k] \in T}}
    IN  [f EXCEPT !.x = moved(@), !.z = moved(@)]
FrameUnitaryOp(f, op, s) ==
    CASE op \in {"I", "X", "Y", "Z"} -> f
      [] op \in {"Hadamard", "SqrtY", "SqrtYInv"} -> FrameH(f, s[1])
      [] op \in {"SqrtZ", "SqrtZInv"} -> FrameS(f, s[1])
      [] op \in {"SqrtX", "SqrtXInv"} -> FrameSqrtX(f, s[1])
      [] op = "ControlledX" -> FrameCnot(f, s[1], s[2])
      [] op = "ControlledZ" -> FrameCz(f, s[1], s[2])
      [] op = "Swap" -> FrameMoved(f, s, <<s[2], s[1]>>)
      [] op = "PrepareBell" -> FrameCnot(FrameH(f, s[1]), s[1], s[2])
\* The bits of the images of the frame's X's and Z's, put on the support.
FrameClifford(f, c, s) ==
    LET local(T) == {k \in Qubits(c) : s[k + 1] \in T}
        image == ImageUpToPhase(c, P!PauliOf(local(f.x), local(f.z), 0))
    IN  [f EXCEPT !.x = (@ \ ToSet(s)) \union {s[k + 1] : k \in image.x}, !.z = (@ \ ToSet(s)) \union {s[k + 1] : k \in image.z}]
FramePauliExp(f, p) == InjectIf(f, p, Flips(f, p))
\* Mutant: the second test is made with the frame the first has changed, and on the target itself.
FrameControlledPauliTwice(f, control, target) == LET g == InjectIf(f, target, Flips(f, control)) IN InjectIf(g, target, Flips(f, target))
FrameControlledPauli(f, control, target) == InjectIf(InjectIf(f, target, Flips(f, control)), control, Flips(f, target))
FramePermutation(f, permutation, s) == FrameMoved(f, s, [k \in DOMAIN s |-> s[permutation[k] + 1]])
FrameMeasure(f, p) == [f EXCEPT !.deltas = Append(@, IF Flips(f, p) THEN 1 ELSE 0)]
FrameConditional(f, p, indices) == InjectIf(f, p, S!Parity(f.deltas, indices) = 1)
FrameSkip(f) == [f EXCEPT !.deltas = Append(@, 0)]

----------------------------------------------------------------------------
\* Instructions.  What an instruction does to the four simulations and to the
\* two trajectories happens in one call of FaultySimulation and its like.
Of(kind) == {i \in Instructions[length + 1] : i.kind = kind}
Encode(step(_), qubits) ==
    /\ specific' = [EnsureQubits(specific, qubits) EXCEPT !.clifford = step(@)]
    /\ complete' = [EnsureComplete(complete, qubits) EXCEPT !.clifford = step(@)]
Rotate(rotations, qubits) ==
    LET turned(state) == [EnsureIdeal(state, qubits) EXCEPT !.group = {S!Conjugated(g, rotations) : g \in @}]
    IN  ideal' = turned(ideal) /\ faulty' = turned(faulty)
Unitary(step(_), rotations, qubits) ==
    /\ Encode(step, qubits)
    /\ free' = FreeTo(EnsureQubits(free, qubits), step(EnsureQubits(free, qubits).clifford))
    /\ Rotate(rotations, qubits)

UnitaryOp(i) ==
    /\ Unitary(LAMBDA c : LeftMul(c, i.op, i.support), S!Rotations(i.op, i.support), ToSet(i.support))
    /\ frame' = FrameUnitaryOp(frame, i.op, i.support)
\* A small unitary, given by the gates that make it.
UnitaryOf(i) == FoldLeft(LAMBDA c, g : LeftMul(c, g[1], g[2]), Identity1(Len(i.support)), i.gates)
\* OutcomeFreeSimulation makes no room for it.
CliffordGate(i) ==
    /\ ToSet(i.support) \subseteq Qubits(free.clifford)
    /\ Encode(LAMBDA c : LeftMulClifford(c, UnitaryOf(i), i.support), ToSet(i.support))
    /\ free' = FreeTo(free, LeftMulClifford(free.clifford, UnitaryOf(i), i.support))
    /\ Rotate(S!RotationsOf(i.gates, i.support), ToSet(i.support))
    /\ frame' = FrameClifford(frame, UnitaryOf(i), i.support)
PauliGate(i) ==
    /\ Encode(LAMBDA c : LeftMulPauli(c, i.pauli), P!SupportOf(i.pauli))
    /\ Rotate(<<i.pauli, i.pauli>>, P!SupportOf(i.pauli))
    /\ UNCHANGED <<free, frame>>
PauliExponent(i) ==
    /\ Unitary(LAMBDA c : PauliExp(c, i.pauli), <<i.pauli>>, P!SupportOf(i.pauli))
    /\ frame' = FramePauliExp(frame, i.pauli)
ControlledPauliGate(i) ==
    /\ Unitary(LAMBDA c : ControlledPauli(c, i.control, i.target), S!Controlled(i.control, i.target), P!SupportOf(i.control) \union P!SupportOf(i.target))
    /\ frame' = FrameControlledPauli(frame, i.control, i.target)
\* permute: the encoders take the content of qubit permutation[i] to qubit i, and so
\* do the trajectories; the frame is moved from i to permutation[i].
Backward(permutation) == [k \in DOMAIN permutation |-> (CHOOSE i \in DOMAIN permutation : permutation[i] = k - 1) - 1]
Permute(i) ==
    LET permuted(state) == [EnsureIdeal(state, ToSet(i.support)) EXCEPT !.group = {S!Permuted(g, Backward(i.permutation), i.support) : g \in @}]
        step(c) == LeftMulPermutation(c, i.permutation, i.support)
    IN  /\ Encode(step, ToSet(i.support))
        /\ free' = FreeTo(EnsureQubits(free, ToSet(i.support)), step(EnsureQubits(free, ToSet(i.support)).clifford))
        /\ ideal' = permuted(ideal) /\ faulty' = permuted(faulty)
        /\ frame' = FramePermutation(frame, i.permutation, i.support)
        /\ astray' = (astray \/ frame' # FramePermutation(frame, Backward(i.permutation), i.support))
\* The outcome of the fault's trajectory, when it is random, is taken to be the
\* other one exactly when the frame says so.
MeasureIdeal(state, p, bit) ==
    LET grown == EnsureIdeal(state, P!SupportOf(p))
        outcome == CHOOSE b \in S!OutcomesOf(grown.group, p) : S!Decided(grown.group, p) \/ b = bit
    IN  [grown EXCEPT !.group = S!Measured(@, p, outcome), !.outcomes = Append(@, outcome), !.random = Append(@, ~S!Decided(grown.group, p))]
MeasureTrajectories(p, bit) ==
    /\ ideal' = MeasureIdeal(ideal, p, bit)
    /\ faulty' = MeasureIdeal(faulty, p, IF Flips(frame, p) THEN 1 - bit ELSE bit)
    /\ frame' = FrameMeasure(frame, p)
Measure(i, bit) ==
    LET qubits == P!SupportOf(i.pauli)
    IN  /\ specific' = SpecificMeasure(EnsureQubits(specific, qubits), i.pauli, bit)
        /\ complete' = CompleteMeasure(EnsureComplete(complete, qubits), i.pauli)
        /\ free' = FreeMeasure(EnsureQubits(free, qubits), i.pauli)
        /\ MeasureTrajectories(i.pauli, bit)
\* The circuit keeps the hint; the propagator measures without it.
MeasureWithHint(i, bit) ==
    LET qubits == P!SupportOf(i.pauli) \union P!SupportOf(i.hint)
    IN  /\ P!AntiCommutes(i.pauli, i.hint)
        /\ P!SupportOf(i.hint) \subseteq Qubits(EnsureQubits(free, P!SupportOf(i.pauli)).clifford)
        /\ specific' = SpecificHint(EnsureQubits(specific, qubits), i.pauli, i.hint, bit)
        /\ complete' = CompleteHint(EnsureComplete(complete, qubits), i.pauli, i.hint)
        /\ free' = FreeHint(EnsureQubits(free, P!SupportOf(i.pauli)), i.pauli, i.hint)
        /\ MeasureTrajectories(i.pauli, bit)
AllocateRandomBit(bit) ==
    LET record(state) == [state EXCEPT !.outcomes = Append(@, bit), !.random = Append(@, TRUE)]
    IN  /\ specific' = SpecificBit(specific, bit)
        /\ complete' = AllocateBranchBit(complete)
        /\ free' = [free EXCEPT !.random = Append(@, TRUE)]
        /\ ideal' = record(ideal) /\ faulty' = record(faulty)
        /\ frame' = FrameSkip(frame)
\* Only the outcome-complete simulation makes room for the Pauli.
ConditionalPauli(i) ==
    LET conditioned(state) == [state EXCEPT !.group = IF S!Parity(state.outcomes, i.outcomes) = i.parity THEN {S!Conjugated(g, <<i.pauli, i.pauli>>) : g \in @} ELSE @]
    IN  /\ ToSet(i.outcomes) \subseteq DOMAIN ideal.outcomes /\ P!SupportOf(i.pauli) \subseteq 0..ideal.count - 1
        /\ specific' = SpecificConditional(specific, i.pauli, i.outcomes, i.parity)
        /\ complete' = CompleteConditional(complete, i.pauli, i.outcomes, i.parity)
        /\ ideal' = conditioned(ideal) /\ faulty' = conditioned(faulty)
        /\ frame' = FrameConditional(frame, i.pauli, i.outcomes)
        /\ UNCHANGED free
\* A fault that strikes this shot, if the outcomes without noise meet its condition.
Noise(i) ==
    /\ P!SupportOf(i.pauli) \subseteq 0..ideal.count - 1 /\ ToSet(i.outcomes) \subseteq DOMAIN ideal.outcomes
    /\ S!Parity(ideal.outcomes, i.outcomes) = i.parity
    /\ frame' = Inject(frame, i.pauli)
    /\ faulty' = [faulty EXCEPT !.group = {S!Conjugated(g, <<i.pauli, i.pauli>>) : g \in @}]
    /\ UNCHANGED <<specific, complete, free, ideal>>

Next ==
    /\ length < Len(Instructions) /\ length' = length + 1
    /\ \/ \E i \in Of("permute") : Permute(i)
       \/ /\ UNCHANGED astray
          /\ \/ \E i \in Of("unitary") : UnitaryOp(i)
             \/ \E i \in Of("clifford") : CliffordGate(i)
             \/ \E i \in Of("pauli") : PauliGate(i)
             \/ \E i \in Of("exp") : PauliExponent(i)
             \/ \E i \in Of("controlled") : ControlledPauliGate(i)
             \/ \E i \in Of("measure"), bit \in {0, 1} : Measure(i, bit)
             \/ \E i \in Of("hint"), bit \in {0, 1} : MeasureWithHint(i, bit)
             \/ \E i \in Of("random"), bit \in {0, 1} : AllocateRandomBit(bit)
             \/ \E i \in Of("conditional") : ConditionalPauli(i)
             \/ \E i \in Of("noise") : Noise(i)
Spec == Init /\ [][Next]_vars
=============================================================================

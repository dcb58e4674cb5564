----------------------- MODULE MCStabilizerSimulation -----------------------
EXTENDS StabilizerSimulation

Pauli(x, z, phase) == P!PauliOf(x, z, phase)
XX01 == Pauli({0, 1}, {}, 0)
ZZ01 == Pauli({}, {0, 1}, 0)
YX == Pauli({0, 1}, {0}, 3) \* -YX
Gate(op, support) == [kind |-> "unitary", op |-> op, support |-> support]
AllGates == {Gate(op, <<0>>) : op \in {"Hadamard", "SqrtZ", "SqrtX", "Y"}} \union {Gate("PrepareBell", <<1, 2>>)}
    \union {Gate(op, <<1>>) : op \in {"I", "X", "Z", "SqrtXInv", "SqrtY", "SqrtYInv", "SqrtZInv"}}
    \union {Gate(op, <<0, 1>>) : op \in {"ControlledX", "ControlledZ", "Swap"}}
OtherUnitaries ==
    {[kind |-> "clifford", support |-> <<1, 0>>, gates |-> <<<<"SqrtX", <<0>>>>, <<"ControlledZ", <<0, 1>>>>, <<"SqrtY", <<1>>>>>>],
     [kind |-> "pauli", pauli |-> P!XOn(1)], [kind |-> "exp", pauli |-> YX],
     [kind |-> "controlled", control |-> XX01, target |-> Pauli({0, 1}, {0, 1}, 2)],
     [kind |-> "permute", permutation |-> <<1, 0>>, support |-> <<0, 1>>],
     [kind |-> "permute", permutation |-> <<1, 2, 0>>, support |-> <<0, 1, 2>>]}
Measurements ==
    {[kind |-> "measure", pauli |-> P!XOn(0)], [kind |-> "measure", pauli |-> P!Negated(ZZ01)], [kind |-> "measure", pauli |-> XX01],
     [kind |-> "hint", pauli |-> P!XOn(1), hint |-> P!ZOn(1)], [kind |-> "hint", pauli |-> XX01, hint |-> P!Negated(P!ZOn(0))], [kind |-> "random"]}
Reactions ==
    {[kind |-> "conditional", pauli |-> P!ZOn(0), outcomes |-> <<1>>, parity |-> 1],
     [kind |-> "conditional", pauli |-> Pauli({1}, {0}, 0), outcomes |-> <<1, 2>>, parity |-> 0],
     [kind |-> "noise", pauli |-> P!XOn(0), outcomes |-> <<>>, parity |-> 0],
     [kind |-> "noise", pauli |-> Pauli({}, {0, 1}, 0), outcomes |-> <<1>>, parity |-> 1]}
\* Circuits of four instructions: a state is made, entangled, measured or struck
\* by a fault; then comes anything; and measurements close.
Circuits ==
    <<{Gate("Hadamard", <<0>>), Gate("SqrtX", <<1>>), Gate("PrepareBell", <<1, 2>>)} \union {i \in OtherUnitaries : i.kind \in {"clifford", "exp"}},
      {i \in Measurements : i.kind = "hint" => i.pauli = XX01} \union {i \in Reactions : i.kind = "noise"}
          \union {Gate("ControlledX", <<0, 1>>)} \union {i \in OtherUnitaries : i.kind = "controlled"},
      AllGates \union OtherUnitaries \union Measurements \union Reactions,
      {i \in Measurements : i.kind = "hint" => i.pauli # XX01}>>

----------------------------------------------------------------------------
\* The group an encoder stands for, with the signs of some images turned.
Stabilizers(c, turned) ==
    {LET g == Image(c, Pauli({}, T, 0)) IN IF Cardinality(T \intersect turned) % 2 = 1 THEN P!Negated(g) ELSE g : T \in SUBSET Qubits(c)}
Reference(sim) == S!Enlarged(ideal.group, ideal.count, Capacity(sim))
Asked == {P!XOn(0), Pauli({1}, {1}, 1), ZZ01, YX}
IsAsked(p) == P!SupportOf(p) \subseteq 0..ideal.count - 1

\* The outcome-specific simulation is at the state the circuit's trajectory is
\* at, with its outcomes and the right ones called random, through gates,
\* rotations, measurements with and without hints and conditional Paulis; and
\* what it answers about stabilizers is true.  Two operations are not what their
\* documentation says, and the trajectory takes them as the encoders do: a
\* permutation moves qubit permutation[i] to i, by lib.rs:165 it "maps old qubit
\* index to new qubit index"; a controlled Pauli acts where the control is -1, by
\* lib.rs:153 where it is in "the +1 eigenstate".
TrajectoryExact ==
    /\ IsValid(specific.clifford)
    /\ specific.outcomes = ideal.outcomes /\ specific.random = ideal.random
    /\ Stabilizers(specific.clifford, {}) = Reference(specific)
    /\ \A p \in {p \in Asked : IsAsked(p)} :
        /\ SpecificIsStabilizer(p) <=> p \in ideal.group
        /\ IsStabilizerUpToSign(specific, p) <=> S!Decided(ideal.group, p)
        /\ \A indices \in {<<>>} \union {<<k>> : k \in DOMAIN ideal.outcomes} :
            SpecificConditionalSign(p, indices) <=> S!Signed(p, S!Parity(ideal.outcomes, indices)) \in ideal.group

\* The branch of the outcome-complete simulation that the random outcomes of
\* the trajectory select.
Branch == {b \in 1..BranchBits(complete) : ideal.outcomes[BranchBitLocation(b)] = 1}
OddIn(bits, branch) == Cardinality(bits \intersect branch) % 2
\* Of the outcome-complete simulation, each trajectory is the branch its random
\* outcomes select: the outcomes it decides and the signs of its stabilizers.
\* A stabilizer, or a sign that follows outcomes, is one in every branch.
BranchesExact ==
    /\ complete.random = ideal.random
    /\ \A j \in DOMAIN ideal.outcomes :
        ideal.outcomes[j] = (OddIn(complete.matrix[j], Branch) + IF j \in complete.shift THEN 1 ELSE 0) % 2
    /\ Stabilizers(complete.clifford, {q \in DOMAIN complete.signs : OddIn(complete.signs[q], Branch) = 1}) = Reference(complete)
    /\ \A p \in {p \in Asked : IsAsked(p)} :
        /\ CompleteIsStabilizer(p) => p \in ideal.group
        /\ IsStabilizerUpToSign(complete, p) <=> S!Decided(ideal.group, p)
        /\ \A indices \in {<<>>} \union {<<k>> : k \in DOMAIN ideal.outcomes} :
            CompleteConditionalSign(p, indices) <=>
                /\ S!Decided(ideal.group, p)
                /\ \A branch \in SUBSET (1..BranchBits(complete)) :
                    Stabilizers(complete.clifford, {q \in DOMAIN complete.signs : OddIn(complete.signs[q], branch) = 1})
                        \intersect {S!Signed(p, (OddIn(MaskOf(complete, indices), branch) + ConstantOf(complete, indices)) % 2)} # {}

\* The simulation without outcomes has the stabilizers but for their signs and
\* the same outcomes are random in it.
FreeExact ==
    /\ free.random = ideal.random
    /\ {P!Bits(g) : g \in Stabilizers(free.clifford, {})} =
       {P!Bits(g) : g \in {g \in Reference(specific) : P!SupportOf(g) \subseteq Qubits(free.clifford)}}

\* The circuit's trajectory in the simulation of it, and its stabilizers in the
\* simulation without outcomes; permutations and controlled Paulis in the direction
\* and on the eigenstate of the code (see TrajectoryExact), not of their comments.
SpecificExact == TrajectoryExact /\ FreeExact
\* A shot with faults, replayed with the faults as gates, is the noiseless shot
\* with its outcomes flipped as the frame says, and at the end the frame away: as
\* long as no permutation has moved the frame to other qubits than the state, which
\* only one that is not its own inverse can do.
NoisyExact ==
    astray \/
    /\ frame.deltas = [j \in DOMAIN ideal.outcomes |-> (ideal.outcomes[j] + faulty.outcomes[j]) % 2]
    /\ faulty.group = {IF Flips(frame, g) THEN P!Negated(g) ELSE g : g \in ideal.group}

\* Of the generators of the state on some qubits, with the signs the outcomes
\* give them, each is a stabilizer, and they are as many as are independent.
RestrictionsExact ==
    \A support \in {<<0>>, <<1, 0>>} : ToSet(support) \subseteq Qubits(complete.clifford) =>
        LET generators == SignedGenerators(support)
            inside == {g \in Reference(complete) : P!SupportOf(g) \subseteq ToSet(support)}
            back(g) == S!Signed(OnSupport(g.pauli, support), S!Parity(ideal.outcomes, SetToSeq(g.mask)))
        IN  /\ \A k \in DOMAIN generators : back(generators[k]) \in inside
            /\ 2 ^ Len(generators) = Cardinality(inside)
\* The simulation of all trajectories has this one, and generators of its state
\* on some qubits whose signs follow the outcomes.
CompleteExact == BranchesExact /\ RestrictionsExact

\* Encoders met on the way are inverted, multiplied, raised to powers and put
\* side by side as unitaries are; split over two parts exactly when the state
\* is a product over them, into stabilizers of the parts; made again from their
\* stabilizers; and split into a diagonal unitary, or one of single qubits, and
\* a CSS one whose product they are.
Columns(c) == {P!XOn(q) : q \in Qubits(c)} \union {P!ZOn(q) : q \in Qubits(c)}
Inside(group, qubits) == {g \in group : P!SupportOf(g) \subseteq qubits}
IsDiagonal(d, axis) == IF axis = "X" THEN IsXDiagonal(d) ELSE IsZDiagonal(d)
Resource(d, axis) == IF axis = "X" THEN d ELSE Multiply(d, PrepareAllPlus(NumQubits(d)))
EncodersExact ==
    LET c == specific.clifford
        n == NumQubits(c)
        group == Stabilizers(c, {})
        images == [j \in 1..n |-> Image(c, P!ZOn(j - 1))]
        encoder == GroupEncodingClifford(images, n)
        bits(g) == {P!Bits(p) : p \in g}
    IN  /\ Multiply(c, InverseOf(c)) = Identity1(n) /\ Multiply(InverseOf(c), c) = Identity1(n)
        /\ \A p \in Columns(c) \cup {P!YOn(n - 1)} : Preimage(c, Image(c, p)) = p /\ Image(c, Preimage(c, p)) = p
        /\ ModPauli(InverseOf(c)) = InverseUpToSigns(c)
        /\ Power(c, 3) = Multiply(c, Multiply(c, c)) /\ Multiply(Power(c, 2), InverseOf(c)) = c
        /\ n <= 2 => Multiply(Tensored(c, Identity1(n)), Tensored(Identity1(n), c)) = Tensored(c, c) /\ IsValid(Tensored(c, c))
        /\ IsValid(encoder) /\ Stabilizers(encoder, {}) = group
        /\ \A k \in 1..n - 1 :
            LET left == Inside(group, 0..k - 1)
                right == Inside(group, k..n - 1)
                parts == SplitModPauli(ModPauli(c), [i \in 1..k |-> i - 1], [i \in 1..n - k |-> k + i - 1])
            IN  /\ parts # {} <=> Cardinality(left) * Cardinality(right) = 2 ^ n
                /\ \A d \in parts :
                    /\ bits(Stabilizers(d[1], {})) = bits(left)
                    /\ bits({Shifted(p, k) : p \in Stabilizers(d[2], {})}) = bits(right)
        /\ \A axis \in {"X", "Z"} : \A d \in UnitaryFromDiagonalResourceState(c, axis) :
            /\ IsDiagonal(d, axis)
            /\ bits(Stabilizers(Resource(d, axis), {})) = bits(group)
            /\ (\A j \in 1..n : P!Bits(images[j]) = P!Bits(Image(Resource(d, axis), P!ZOn(j - 1)))) => Stabilizers(Resource(d, axis), {}) = group
        /\ \A d \in SplitPhasedCss(ModPauli(c)) : IsZDiagonal(d[1]) /\ IsCss(d[2])
        /\ \A d \in SplitQubitCliffordsAndCss(ModPauli(c)) : IsCss(d[2]) /\ ModPauli(Multiply(d[1], d[2])) = ModPauli(c)
=============================================================================

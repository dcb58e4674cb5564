-------------------------- MODULE StabilizerState --------------------------
(***************************************************************************)
(* What a stabilizer simulation promises: the state is a group of Paulis   *)
(* with signs; a gate conjugates each of them, a measurement has the       *)
(* outcome the group decides, or either, and then puts the observable in.  *)
(* Gates are products of rotations exp(i pi/4 e), so that nothing here     *)
(* knows of encoders or preimages.                                         *)
(***************************************************************************)
EXTENDS Naturals, Sequences, FiniteSets, SequencesExt

LOCAL P == INSTANCE Pauli

Rotated(p, e) == IF P!AntiCommutes(p, e) THEN P!AddPhase(P!Times(e, p), 1) ELSE p
XX(q) == P!XOn(q)
ZZ(q) == P!ZOn(q)
Minus(p) == P!Negated(p)
\* 1/2 (1 + a + b - ab) is the product of three rotations.
Controlled(a, b) == <<Minus(a), Minus(b), P!Times(a, b)>>
HadamardOf(q) == <<Minus(ZZ(q)), Minus(XX(q)), Minus(ZZ(q))>>
Rotations(op, s) ==
    CASE op = "I" -> <<>>
      [] op = "X" -> <<XX(s[1]), XX(s[1])>> [] op = "Y" -> <<P!YOn(s[1]), P!YOn(s[1])>> [] op = "Z" -> <<ZZ(s[1]), ZZ(s[1])>>
      [] op = "SqrtX" -> <<Minus(XX(s[1]))>> [] op = "SqrtXInv" -> <<XX(s[1])>>
      [] op = "SqrtY" -> <<Minus(P!YOn(s[1]))>> [] op = "SqrtYInv" -> <<P!YOn(s[1])>>
      [] op = "SqrtZ" -> <<Minus(ZZ(s[1]))>> [] op = "SqrtZInv" -> <<ZZ(s[1])>>
      [] op = "Hadamard" -> HadamardOf(s[1])
      [] op = "ControlledX" -> Controlled(ZZ(s[1]), XX(s[2]))
      [] op = "ControlledZ" -> Controlled(ZZ(s[1]), ZZ(s[2]))
      [] op = "Swap" -> Controlled(ZZ(s[1]), XX(s[2])) \o Controlled(ZZ(s[2]), XX(s[1])) \o Controlled(ZZ(s[1]), XX(s[2]))
      [] op = "PrepareBell" -> HadamardOf(s[1]) \o Controlled(ZZ(s[1]), XX(s[2]))
\* The gates of a small unitary, put on some qubits.
RotationsOf(gates, s) == FlattenSeq([i \in DOMAIN gates |-> Rotations(gates[i][1], [k \in DOMAIN gates[i][2] |-> s[gates[i][2][k] + 1]])])
Conjugated(p, rotations) == FoldLeft(Rotated, p, rotations)
\* The content of qubit i of the support moves to qubit permutation[i].
Permuted(p, permutation, s) ==
    LET to(S) == {IF q \in ToSet(s) THEN s[permutation[CHOOSE i \in DOMAIN s : s[i] = q] + 1] ELSE q : q \in S}
    IN  [p EXCEPT !.x = to(@), !.z = to(p.z)]

Signed(p, bit) == IF bit = 1 THEN P!Negated(p) ELSE p
Decided(group, p) == p \in group \/ P!Negated(p) \in group
OutcomesOf(group, p) == IF p \in group THEN {0} ELSE IF P!Negated(p) \in group THEN {1} ELSE {0, 1}
Measured(group, p, bit) ==
    IF Decided(group, p) THEN group
    ELSE LET kept == {g \in group : P!Commutes(g, p)} IN kept \union {P!Times(g, Signed(p, bit)) : g \in kept}
Parity(outcomes, indices) == Cardinality({k \in DOMAIN indices : outcomes[indices[k]] = 1}) % 2
\* Group of |0..0>, and with one more qubit in |0>.
ZeroState(n) == {P!PauliOf({}, z, 0) : z \in SUBSET (0..n - 1)}
Enlarged(group, from, to) == {P!Times(g, z) : g \in group, z \in {P!PauliOf({}, S, 0) : S \in SUBSET (from..to - 1)}}
=============================================================================

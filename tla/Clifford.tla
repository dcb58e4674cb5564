------------------------------ MODULE Clifford ------------------------------
(***************************************************************************)
(* Clifford unitaries of paulimer.  A unitary C on qubits 0..n-1 is kept   *)
(* as the preimages of X_q and Z_q, that is C^-1 X_q C and C^-1 Z_q C, and *)
(* every gate multiplies it from the left in place.  The unitary modulo    *)
(* Paulis has the same bits and no phases.                                 *)
(***************************************************************************)
EXTENDS PauliGroup

Qubits(c) == DOMAIN c.x
NumQubits(c) == Cardinality(DOMAIN c.x)
Identity1(n) == [x |-> [q \in 0..n - 1 |-> P!XOn(q)], z |-> [q \in 0..n - 1 |-> P!ZOn(q)]]
Bare(p) == [p EXCEPT !.phase = 0]
ModPauli(c) == [x |-> [q \in DOMAIN c.x |-> Bare(c.x[q])], z |-> [q \in DOMAIN c.z |-> Bare(c.z[q])]]

\* The product of the views of some qubits, in the order of the qubits.
ProductOver(views, qubits) ==
    LET step[k \in 0..Cardinality(DOMAIN views)] ==
            IF k = 0 THEN P!Neutral ELSE IF k - 1 \in qubits THEN P!Times(step[k - 1], views[k - 1]) ELSE step[k - 1]
    IN  step[Cardinality(DOMAIN views)]
Preimage(c, p) == P!AddPhase(P!Times(ProductOver(c.x, p.x), ProductOver(c.z, p.z)), p.phase)
\* Column q of the bits is what X_q and Z_q become; a column holds q exactly
\* when the preimage it belongs to anticommutes with them.
ImageUpToPhase(c, p) ==
    P!PauliOf({k \in Qubits(c) : P!AntiCommutes(p, c.z[k])}, {k \in Qubits(c) : P!AntiCommutes(p, c.x[k])}, 0)
\* The phase with which the preimage of the bits comes back, conjugated.
WithPhase(c, bits) == P!AddPhase(bits, 4 - Preimage(c, bits).phase)
Image(c, p) == P!AddPhase(WithPhase(c, ImageUpToPhase(c, p)), p.phase)

IsValid(c) ==
    \A q \in Qubits(c) :
        /\ P!IsOrderTwo(c.x[q]) /\ P!IsOrderTwo(c.z[q]) /\ P!AntiCommutes(c.x[q], c.z[q])
        /\ \A r \in Qubits(c) : r > q => \A a \in {c.x[q], c.z[q]}, b \in {c.x[r], c.z[r]} : P!Commutes(a, b)

----------------------------------------------------------------------------
\* Gates from the left.
MulX(c, q) == [c EXCEPT !.z[q] = P!Negated(@)]
MulZ(c, q) == [c EXCEPT !.x[q] = P!Negated(@)]
MulY(c, q) == MulX(MulZ(c, q), q)
Hadamard(c, q) == [c EXCEPT !.x[q] = c.z[q], !.z[q] = c.x[q]]
RootZ(c, q, phase) == [c EXCEPT !.x[q] = P!AddPhase(P!TimesLeft(@, c.z[q]), phase)]
RootX(c, q, phase) == [c EXCEPT !.z[q] = P!AddPhase(P!TimesLeft(@, c.x[q]), phase)]
RootY(c, q) == Hadamard(MulZ(c, q), q)
RootYInverse(c, q) == MulZ(Hadamard(c, q), q)
ControlledX(c, a, b) == [c EXCEPT !.x[a] = P!TimesLeft(@, c.x[b]), !.z[b] = P!TimesLeft(@, c.z[a])]
ControlledZ(c, a, b) == [c EXCEPT !.x[a] = P!TimesLeft(@, c.z[b]), !.x[b] = P!TimesLeft(@, c.z[a])]
Swap(c, a, b) == [x |-> [c.x EXCEPT ![a] = c.x[b], ![b] = c.x[a]], z |-> [c.z EXCEPT ![a] = c.z[b], ![b] = c.z[a]]]
PrepareBell(c, a, b) == ControlledX(Hadamard(c, a), a, b)
LeftMul(c, op, s) ==
    CASE op = "I" -> c [] op = "X" -> MulX(c, s[1]) [] op = "Y" -> MulY(c, s[1]) [] op = "Z" -> MulZ(c, s[1])
      [] op = "SqrtX" -> RootX(c, s[1], 1) [] op = "SqrtXInv" -> RootX(c, s[1], 3)
      [] op = "SqrtY" -> RootY(c, s[1]) [] op = "SqrtYInv" -> RootYInverse(c, s[1])
      [] op = "SqrtZ" -> RootZ(c, s[1], 1) [] op = "SqrtZInv" -> RootZ(c, s[1], 3)
      [] op = "Hadamard" -> Hadamard(c, s[1]) [] op = "Swap" -> Swap(c, s[1], s[2])
      [] op = "ControlledX" -> ControlledX(c, s[1], s[2]) [] op = "ControlledZ" -> ControlledZ(c, s[1], s[2])
      [] op = "PrepareBell" -> PrepareBell(c, s[1], s[2])

LeftMulPauli(c, p) ==
    [x |-> [q \in Qubits(c) |-> IF q \in p.z THEN P!Negated(c.x[q]) ELSE c.x[q]],
     z |-> [q \in Qubits(c) |-> IF q \in p.x THEN P!Negated(c.z[q]) ELSE c.z[q]]]
\* exp(i pi/4 p): the generators that anticommute with p get i times its preimage.
PauliExp(c, p) ==
    LET f == P!AddPhase(Preimage(c, p), 1)
    IN  [x |-> [q \in Qubits(c) |-> IF q \in p.z THEN P!Times(c.x[q], f) ELSE c.x[q]],
         z |-> [q \in Qubits(c) |-> IF q \in p.x THEN P!Times(c.z[q], f) ELSE c.z[q]]]
\* Mutant: both preimages come from the right, in the same order.
ControlledPauliRight(c, control, target) ==
    LET t == Preimage(c, target)
        k == Preimage(c, control)
        both(v, a, b) == LET w == IF a THEN P!Times(v, t) ELSE v IN IF b THEN P!Times(w, k) ELSE w
    IN  [x |-> [q \in Qubits(c) |-> both(c.x[q], q \in control.z, q \in target.z)],
         z |-> [q \in Qubits(c) |-> both(c.z[q], q \in control.x, q \in target.x)]]
\* The target's preimage from the right, the control's from the left.
ControlledPauli(c, control, target) ==
    LET t == Preimage(c, target)
        k == Preimage(c, control)
        both(v, a, b) == LET w == IF a THEN P!Times(v, t) ELSE v IN IF b THEN P!TimesLeft(w, k) ELSE w
    IN  [x |-> [q \in Qubits(c) |-> both(c.x[q], q \in control.z, q \in target.z)],
         z |-> [q \in Qubits(c) |-> both(c.z[q], q \in control.x, q \in target.x)]]
OnSupport(p, s) == [p EXCEPT !.x = {s[q + 1] : q \in p.x}, !.z = {s[q + 1] : q \in p.z}]
At(s, q) == CHOOSE i \in DOMAIN s : s[i] = q
Replaced(c, s, x(_), z(_)) ==
    [x |-> [q \in Qubits(c) |-> IF q \in ToSet(s) THEN x(At(s, q)) ELSE c.x[q]],
     z |-> [q \in Qubits(c) |-> IF q \in ToSet(s) THEN z(At(s, q)) ELSE c.z[q]]]
\* Qubit i of the support gets the preimages of qubit permutation[i].
LeftMulPermutation(c, permutation, s) ==
    Replaced(c, s, LAMBDA i : c.x[s[permutation[i] + 1]], LAMBDA i : c.z[s[permutation[i] + 1]])
LeftMulClifford(c, d, s) ==
    Replaced(c, s, LAMBDA i : Preimage(c, OnSupport(d.x[i - 1], s)), LAMBDA i : Preimage(c, OnSupport(d.z[i - 1], s)))

----------------------------------------------------------------------------
\* Whole unitaries.
Multiply(left, right) ==
    [x |-> [q \in Qubits(left) |-> Preimage(right, left.x[q])], z |-> [q \in Qubits(left) |-> Preimage(right, left.z[q])]]
InverseOf(c) == [x |-> [q \in Qubits(c) |-> Image(c, P!XOn(q))], z |-> [q \in Qubits(c) |-> Image(c, P!ZOn(q))]]
InverseUpToSigns(c) ==
    [x |-> [q \in Qubits(c) |-> ImageUpToPhase(c, P!XOn(q))], z |-> [q \in Qubits(c) |-> ImageUpToPhase(c, P!ZOn(q))]]
Power(c, exponent) ==
    LET square[k \in Nat] == IF k = 0 THEN c ELSE Multiply(square[k - 1], square[k - 1])
        step[k \in Nat] == IF 2 ^ k > exponent THEN Identity1(NumQubits(c))
                           ELSE IF (exponent \div 2 ^ k) % 2 = 1 THEN Multiply(square[k], step[k + 1]) ELSE step[k + 1]
    IN  step[0]
Shifted(p, k) == OnSupport(p, [i \in 1..8 |-> i - 1 + k])
Tensored(a, b) ==
    LET n == NumQubits(a)
    IN  [x |-> [q \in 0..n + NumQubits(b) - 1 |-> IF q < n THEN a.x[q] ELSE Shifted(b.x[q - n], n)],
         z |-> [q \in 0..n + NumQubits(b) - 1 |-> IF q < n THEN a.z[q] ELSE Shifted(b.z[q - n], n)]]
Resized(c, n) ==
    [x |-> [q \in 0..n - 1 |-> IF q \in Qubits(c) THEN c.x[q] ELSE P!XOn(q)],
     z |-> [q \in 0..n - 1 |-> IF q \in Qubits(c) THEN c.z[q] ELSE P!ZOn(q)]]
\* X_j to the X's of row j, Z_j to the Z's of row j of the inverse transpose.
FromCssIndicators(x, z) ==
    [x |-> [q \in 0..x.cols - 1 |-> P!PauliOf(x.rows[q + 1], {}, 0)], z |-> [q \in 0..z.cols - 1 |-> P!PauliOf({}, z.rows[q + 1], 0)]]

IsXDiagonal(c) == \A q \in Qubits(c) : c.z[q].z = {q} /\ c.x[q].x = {q} /\ c.x[q].z = {}
IsZDiagonal(c) == \A q \in Qubits(c) : c.z[q].z = {q} /\ c.x[q].x = {q} /\ c.z[q].x = {}
IsCss(c) == \A q \in Qubits(c) : c.z[q].x = {} /\ c.x[q].z = {}
=============================================================================

------------------------------- MODULE Pauli -------------------------------
(***************************************************************************)
(* Pauli operators of paulimer: i^phase X^x Z^z, with x and z the sets of  *)
(* qubits.  The code keeps the exponent in a wrapping u8 and reads it      *)
(* modulo 4, which is the same as keeping it modulo 4.                     *)
(***************************************************************************)
EXTENDS Naturals, Sequences, FiniteSets

LOCAL Sym(a, b) == (a \ b) \union (b \ a)
LOCAL Odd(s) == Cardinality(s) % 2 = 1

PauliOf(x, z, phase) == [x |-> x, z |-> z, phase |-> phase % 4]
Neutral == PauliOf({}, {}, 0)
XOn(q) == PauliOf({q}, {}, 0)
ZOn(q) == PauliOf({}, {q}, 0)
YOn(q) == PauliOf({q}, {q}, 1)
PaulisOn(qubits, phases) == {PauliOf(x, z, k) : x \in SUBSET qubits, z \in SUBSET qubits, k \in phases}

AntiCommutes(p, q) == Odd(p.x \intersect q.z) # Odd(p.z \intersect q.x)
Commutes(p, q) == ~AntiCommutes(p, q)
AddPhase(p, k) == [p EXCEPT !.phase = (@ + k) % 4]
Negated(p) == AddPhase(p, 2)
\* mul_assign_right: the X part of q moves past the Z part of p.
Times(p, q) == PauliOf(Sym(p.x, q.x), Sym(p.z, q.z), p.phase + q.phase + IF Odd(p.z \intersect q.x) THEN 2 ELSE 0)
\* mul_assign_left, with the other cross term; the product is q * p.
TimesLeft(p, q) == PauliOf(Sym(p.x, q.x), Sym(p.z, q.z), p.phase + q.phase + IF Odd(p.x \intersect q.z) THEN 2 ELSE 0)
ComplexConjugate(p) == [p EXCEPT !.phase = (4 - @) % 4]
InverseOf(p) == IF Odd(p.x \intersect p.z) THEN Negated(ComplexConjugate(p)) ELSE ComplexConjugate(p)
IsOrderTwo(p) == Odd(p.x \intersect p.z) # (p.phase % 2 = 0)
WeightOf(p) == Cardinality(p.x \union p.z)
SupportOf(p) == p.x \union p.z
Bits(p) == <<p.x, p.z>>
\* The order in which sets of indices are traversed.
Product(paulis, indices) ==
    LET step[k \in 0..Len(paulis)] ==
            IF k = 0 THEN Neutral ELSE IF k \in indices THEN Times(step[k - 1], paulis[k]) ELSE step[k - 1]
    IN  step[Len(paulis)]
\* Conjugation by exp(i pi/4 e): a Pauli that anticommutes becomes i e p.
ApplyPauliExponent(p, e) == IF AntiCommutes(p, e) THEN AddPhase(TimesLeft(p, e), 1) ELSE p
============================================================================

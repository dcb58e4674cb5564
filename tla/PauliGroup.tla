----------------------------- MODULE PauliGroup -----------------------------
(***************************************************************************)
(* paulimer's PauliGroup: a subgroup of the Pauli group given by a         *)
(* sequence of generators, with every answer computed from the reduced row *)
(* echelon form of their bits.  "Elements" is the reference: the closure   *)
(* of the generators under products.                                       *)
(***************************************************************************)
EXTENDS BitMatrix, Integers

P == INSTANCE Pauli

Sorted(S) == SetToSortSeq(S, <)
SupportOf(generators) == Sorted(UNION {P!SupportOf(generators[i]) : i \in DOMAIN generators})
PositionIn(support, q) == (CHOOSE k \in DOMAIN support : support[k] = q) - 1

\* Bits of a Pauli as columns: x at its position in the support, z behind all x.
RowOf(p, support) ==
    {PositionIn(support, q) : q \in p.x} \union {Len(support) + PositionIn(support, q) : q \in p.z}
AsBitMatrix(generators, support) == Matrix([i \in DOMAIN generators |-> RowOf(generators[i], support)], 2 * Len(support))
AsSparsePauli(row, phase, support) ==
    P!PauliOf({support[c + 1] : c \in {c \in row : c < Len(support)}},
              {support[c - Len(support) + 1] : c \in {c \in row : c >= Len(support)}}, phase)
AsSparsePaulis(m, support) == [i \in DOMAIN m.rows |-> AsSparsePauli(m.rows[i], 0, support)]

AreAllCommuting(ps) == \A i, j \in DOMAIN ps : i < j => P!Commutes(ps[i], ps[j])

----------------------------------------------------------------------------
\* StandardForm: echelon rows with the phases of the products that give them,
\* read modulo what the rows without bits generate.
ProductOf(generators, row) == P!Product(generators, {c + 1 : c \in row})

\* The rows without bits are the last ones; the scan from the end stops at a
\* row with bits, or at the first odd exponent.
PhaseModulusOf(m, phases) ==
    LET empty == {i \in DOMAIN phases : \A j \in i..Len(phases) : m.rows[j] = {}}
    IN  IF \E i \in empty : phases[i] % 2 = 1 THEN 1 ELSE IF \E i \in empty : phases[i] = 2 THEN 2 ELSE 4

AsStandardGenerators(m, phases, support) ==
    LET modulus == PhaseModulusOf(m, phases)
        rank == Cardinality({i \in DOMAIN m.rows : m.rows[i] # {}})
        rows == [i \in 1..rank |-> AsSparsePauli(m.rows[i], phases[i] % modulus, support)]
        halve == (\E i \in 1..rank : ~P!IsOrderTwo(rows[i])) \/ ~AreAllCommuting(rows)
        kept == IF halve THEN [i \in 1..rank |-> [rows[i] EXCEPT !.phase = @ % 2]] ELSE rows
        left == IF halve THEN modulus % 2 ELSE modulus
    IN  IF left % 4 # 0 \/ (rank = 0 /\ Len(m.rows) > 0) THEN Append(kept, P!PauliOf({}, {}, left)) ELSE kept

StandardFormFrom(generators, echelon, support) ==
    LET phases == [i \in DOMAIN generators |-> ProductOf(generators, echelon.transform.rows[i]).phase]
        orNeutral(standard) == IF standard = <<>> THEN <<P!Neutral>> ELSE standard
    IN  [generators |-> orNeutral(AsStandardGenerators(echelon.matrix, phases, support)), echelon |-> echelon, support |-> support]
StandardForm(generators) ==
    LET support == SupportOf(generators)
    IN  StandardFormFrom(generators, EchelonForm(AsBitMatrix(generators, support)), support)

\* A group: its generators with everything the code caches about them.
GeneratesImaginaryIdentity(ps) == \E i \in DOMAIN ps : ps[i].phase % 2 = 1 /\ P!WeightOf(ps[i]) = 0
GeneratesNegativeIdentity(ps, commute) ==
    ~commute \/ \E i \in DOMAIN ps : ~P!IsOrderTwo(ps[i]) \/ (P!WeightOf(ps[i]) = 0 /\ ps[i].phase = 2)
PhasesGeneratedBy(ps, commute) ==
    IF GeneratesImaginaryIdentity(ps) THEN 0..3 ELSE IF GeneratesNegativeIdentity(ps, commute) THEN {0, 2} ELSE {0}
GroupFrom(generators, form, abelian) ==
    [generators |-> generators, standard |-> form.generators, echelon |-> form.echelon, support |-> form.support,
     abelian |-> abelian, phases |-> PhasesGeneratedBy(form.generators, abelian)]
Group(generators) ==
    LET from(form) == GroupFrom(generators, form, AreAllCommuting(form.generators)) IN from(StandardForm(generators))

IsStabilizerGroup(g) == g.abelian /\ ~GeneratesNegativeIdentity(g.standard, g.abelian)
BinaryRank(g) == Len(g.echelon.profile)
Log2Size(g) == BinaryRank(g) + CASE Cardinality(g.phases) = 1 -> 0 [] Cardinality(g.phases) = 2 -> 1 [] OTHER -> 2

\* factorization_of: the indices of generators and the phase left, or None.
FactorizationOf(g, p) ==
    IF ~(P!SupportOf(p) \subseteq ToSet(g.support)) THEN None
    ELSE {f \in {[indices |-> {c + 1 : c \in s}, phase |-> (p.phase - ProductOf(g.generators, s).phase) % 4]
                   : s \in TransposeSolve(g.echelon, RowOf(p, g.support))} : f.phase \in g.phases}
ContainsElement(g, p) == FactorizationOf(g, p) # None

\* elements(): products of the standard generators with bits, times the phases.
ElementsOf(g) ==
    LET nontrivial == SelectSeq(g.standard, LAMBDA p : P!WeightOf(p) > 0)
    IN  {P!AddPhase(P!Product(nontrivial, s), k) : s \in SUBSET DOMAIN nontrivial, k \in g.phases}

Same(a, b) == a.standard = b.standard
Joined(a, b) == Group(a.generators \o b.generators)
Ranks(g) == <<Cardinality(g.phases), BinaryRank(g)>>
CompareRanks(a, b, union) ==
    IF Ranks(a) = Ranks(b) /\ Ranks(a) = union THEN "Equal"
    ELSE IF Ranks(a)[1] <= Ranks(b)[1] /\ Ranks(a)[2] <= Ranks(b)[2] /\ Ranks(b) = union THEN "Less"
    ELSE IF Ranks(a) = union THEN "Greater" ELSE "None"
PartialCompare(a, b) == CompareRanks(a, b, Ranks(Joined(a, b)))

\* Mutant: the pivot is always taken for an X.
ClearPivotX(ps, h, k) ==
    LET q == h.support[(h.echelon.profile[k] % Len(h.support)) + 1]
    IN  [i \in DOMAIN ps |-> IF q \in ps[i].x THEN P!Times(ps[i], h.standard[k]) ELSE P!Negated(ps[i])]
\* g modulo h: multiply away h's pivots, then the phases that h has.
ClearPivot(ps, h, k) ==
    LET pivot == h.echelon.profile[k]
        q == h.support[(pivot % Len(h.support)) + 1]
        has(p) == IF pivot < Len(h.support) THEN q \in p.x ELSE q \in p.z
    IN  [i \in DOMAIN ps |-> IF has(ps[i]) THEN P!Times(ps[i], h.standard[k]) ELSE ps[i]]
Modulo(g, h) ==
    LET cleared == FoldLeft(LAMBDA ps, k : ClearPivot(ps, h, k), g.standard, Upto(BinaryRank(h)))
        modulus == CASE h.phases = {0} -> 4 [] h.phases = {0, 2} -> 2 [] OTHER -> 1
    IN  Group([i \in DOMAIN cleared |-> [cleared[i] EXCEPT !.phase = @ % modulus]])

\* The intersection: bits common to both, each with a phase that is in both.
CommonPhaseVariant(p, a, b) ==
    LET ks == {k \in 0..3 : ContainsElement(a, [p EXCEPT !.phase = k]) /\ ContainsElement(b, [p EXCEPT !.phase = k])}
    IN  IF ks = {} THEN None ELSE {[p EXCEPT !.phase = CHOOSE k \in ks : \A l \in ks : k <= l]}
PhaseInsensitiveIntersection(a, b) ==
    LET support == SupportOf(a.generators \o b.generators)
    IN  AsSparsePaulis(RowSpaceIntersection(AsBitMatrix(a.standard, support), AsBitMatrix(b.standard, support)), support)
Intersection(a, b) ==
    LET variants(bases) == FlattenSeq([i \in DOMAIN bases |-> SetToSeq(CommonPhaseVariant(bases[i], a, b))])
        phases == Sorted(a.phases \intersect b.phases)
        by(order) == CASE order = "Greater" -> b
                       [] order \in {"Less", "Equal"} -> a
                       [] OTHER -> Group(variants(PhaseInsensitiveIntersection(a, b)) \o [i \in DOMAIN phases |-> P!PauliOf({}, {}, phases[i])])
    IN  by(PartialCompare(a, b))

\* The centralizer within a support: the kernel of the standard generators
\* with x and z exchanged, without the qubits outside the support, times i.
DualRow(row, n) == {IF c < n THEN c + n ELSE c - n : c \in row}
CentralizerWithin(support, g) ==
    LET n == Len(g.support)
        dual == Matrix([i \in DOMAIN g.echelon.matrix.rows |-> DualRow(g.echelon.matrix.rows[i], n)], 2 * n)
        unsupport == SelectSeq([k \in 1..n |-> k - 1], LAMBDA k : g.support[k + 1] \notin ToSet(support))
        unmatrix == Matrix([i \in 1..2 * Len(unsupport) |->
                        {IF i <= Len(unsupport) THEN unsupport[i] ELSE unsupport[i - Len(unsupport)] + n}], 2 * n)
        fresh == SelectSeq(support, LAMBDA q : q \notin ToSet(g.support))
    IN  Group(AsSparsePaulis(KernelBasisMatrix(RowStacked(dual, unmatrix)), g.support)
                \o FlattenSeq([i \in DOMAIN fresh |-> <<P!XOn(fresh[i]), P!ZOn(fresh[i])>>]) \o <<P!PauliOf({}, {}, 1)>>)

\* symplectic_form_of: take the last generator, pair it with the first that
\* anticommutes, and clear both from the rest.
PairUp(e) ==
    LET x == Last(e.left)
        rest == Front(e.left)
        anti == {i \in DOMAIN rest : P!AntiCommutes(x, rest[i])}
        at == CHOOSE i \in anti : \A j \in anti : i <= j
        z == rest[at]
        \* swap_remove: the last generator takes the place of the one removed.
        swapped == Front([rest EXCEPT ![at] = Last(rest)])
        clearX(i) == IF i >= at /\ P!AntiCommutes(swapped[i], x) THEN P!Times(swapped[i], z) ELSE swapped[i]
        clear(i) == IF P!AntiCommutes(clearX(i), z) THEN P!Times(clearX(i), x) ELSE clearX(i)
    IN  IF anti = {} THEN [e EXCEPT !.left = rest, !.single = Append(@, x)]
        ELSE [e EXCEPT !.left = [i \in DOMAIN swapped |-> clear(i)], !.pairs = @ \o <<x, z>>]
SymplecticFormOf(generators) ==
    LET end == FoldLeft(LAMBDA e, k : IF e.left = <<>> THEN e ELSE PairUp(e),
                        [left |-> generators, pairs |-> <<>>, single |-> <<>>], Upto(Len(generators)))
    IN  end.pairs \o end.single

\* complete_to_full_pauli_basis and are_the_same_group_up_to_phases, over n qubits.
BitmatrixFromPaulis(ps, n) == AsBitMatrix(ps, [k \in 1..n |-> k - 1])
CompleteToFullPauliBasis(ps, n) ==
    LET free == Complement(Echelonize(BitmatrixFromPaulis(ps, n)).profile, 2 * n)
    IN  ps \o [k \in DOMAIN free |-> IF free[k] < n THEN P!XOn(free[k]) ELSE P!ZOn(free[k] - n)]
QubitCount(ps) == FoldLeft(LAMBDA n, p : IF \E q \in P!SupportOf(p) : q + 1 > n
                                         THEN 1 + CHOOSE q \in P!SupportOf(p) : \A r \in P!SupportOf(p) : r <= q ELSE n, 0, ps)
SameUpToPhases(left, right) ==
    LET n == QubitCount(left)
        a == Echelonize(BitmatrixFromPaulis(left, n))
        b == Echelonize(BitmatrixFromPaulis(right, n))
    IN  /\ QubitCount(right) = n
        /\ Len(a.profile) = Len(b.profile)
        /\ \A i \in DOMAIN a.profile : a.matrix.rows[i] = b.matrix.rows[i]
=============================================================================

-------------------------- MODULE CliffordEncoders --------------------------
(***************************************************************************)
(* What paulimer computes from a Clifford that encodes a stabilizer state, *)
(* whose stabilizers are the images of Z_0..Z_n-1: splitting it over parts *)
(* of its qubits or into special factors, restricting it to some qubits,   *)
(* and finding an encoder of given stabilizers.                            *)
(***************************************************************************)
EXTENDS Clifford

\* Rows: the images of Z_j as bits, one half before the other.
ImageRows(c, zFirst) ==
    LET n == NumQubits(c)
        row(p) == IF zFirst THEN p.z \union {n + q : q \in p.x} ELSE p.x \union {n + q : q \in p.z}
    IN  Matrix([j \in 1..n |-> row(ImageUpToPhase(c, P!ZOn(j - 1)))], 2 * n)
\* The state is diag|+..+> (or diag|0..0>) when the reduced images are (1 S), S
\* symmetric; S is then the off-diagonal block of the diagonal unitary.
DiagonalBlocks(c, axis) ==
    LET n == NumQubits(c)
        rows == Echelonize(ImageRows(c, axis = "X")).matrix.rows
        S == [q \in 0..n - 1 |-> {j \in 0..n - 1 : n + q \in rows[j + 1]}]
        one == Identity1(n)
    IN  IF \A q \in 0..n - 1 : rows[q + 1] \intersect (0..n - 1) = {q} /\ \A j \in S[q] : q \in S[j]
        THEN {IF axis = "Z" THEN [one EXCEPT !.x = [q \in 0..n - 1 |-> P!PauliOf({q}, S[q], 0)]]
                            ELSE [one EXCEPT !.z = [q \in 0..n - 1 |-> P!PauliOf(S[q], {q}, 0)]]}
        ELSE None
Hermitian(p) == IF P!IsOrderTwo(p) THEN p ELSE P!AddPhase(p, 1)
WithPhases(c) == [x |-> [q \in Qubits(c) |-> Hermitian(c.x[q])], z |-> [q \in Qubits(c) |-> Hermitian(c.z[q])]]
UnitaryFromDiagonalResourceState(c, axis) ==
    LET match(d, j) ==
            LET q == j - 1
                stabilizer == Image(d, IF axis = "X" THEN P!ZOn(q) ELSE P!XOn(q))
                flip == Image(d, IF axis = "X" THEN P!XOn(q) ELSE P!ZOn(q))
            IN  IF P!TimesLeft(Image(c, P!ZOn(q)), stabilizer).phase # 0 THEN LeftMulPauli(d, flip) ELSE d
    IN  {FoldLeft(match, WithPhases(d), Upto(NumQubits(c))) : d \in DiagonalBlocks(c, axis)}

\* Combinations of Z's whose image leaves the complement of the support alone.
SupportRestrictedZImages(c, complement) ==
    KernelBasisMatrix(Matrix([j \in 1..2 * Len(complement) |->
        IF j <= Len(complement) THEN c.x[complement[j]].x ELSE c.z[complement[j - Len(complement)]].x], NumQubits(c)))
FromTransform(stacked) == FromCssIndicators(Transposed(stacked), Inverted(stacked))

\* The rows of the qubits of one part, and the columns of its combinations.
Part(c, qubits, first) ==
    LET cut(p) == P!PauliOf({k \in 0..Len(qubits) - 1 : k + first \in p.x}, {k \in 0..Len(qubits) - 1 : k + first \in p.z}, 0)
    IN  [x |-> [k \in 0..Len(qubits) - 1 |-> cut(c.x[qubits[k + 1]])], z |-> [k \in 0..Len(qubits) - 1 |-> cut(c.z[qubits[k + 1]])]]
SplitModPauli(c, support, complement) ==
    LET inside == SupportRestrictedZImages(c, complement)
        outside == SupportRestrictedZImages(c, support)
        split == Multiply(c, FromTransform(RowStacked(inside, outside)))
    IN  IF RowCount(inside) + RowCount(outside) # NumQubits(c) THEN None
        ELSE {<<Part(split, support, 0), Part(split, complement, Len(support))>>}

\* Unitaries modulo Paulis as a diagonal one, or single-qubit ones, after a CSS one.
PrepareAllPlus(n) == FoldLeft(LAMBDA c, j : Hadamard(c, j - 1), Identity1(n), Upto(n))
SplitPhasedCss(c) ==
    {<<d, ModPauli(Multiply(d, c))>> : d \in {d \in DiagonalBlocks(ModPauli(Multiply(c, PrepareAllPlus(NumQubits(c)))), "Z") : IsCss(Multiply(d, c))}}
AxisOf(c, q) ==
    CASE c.x[q].x = {} -> "X" [] Preimage(c, P!YOn(q)).x = {} -> "Y" [] c.z[q].x = {} -> "Z" [] OTHER -> "None"
QubitCliffordByAxis(c, q, zero, plus) ==
    CASE <<zero, plus>> = <<"Z", "X">> -> c
      [] <<zero, plus>> = <<"Z", "Y">> -> RootZ(c, q, 1)
      [] <<zero, plus>> = <<"X", "Z">> -> RootY(c, q)
      [] <<zero, plus>> = <<"X", "Y">> -> RootX(RootY(c, q), q, 1)
      [] <<zero, plus>> = <<"Y", "X">> -> RootX(c, q, 1)
      [] <<zero, plus>> = <<"Y", "Z">> -> RootZ(RootY(c, q), q, 1)
SplitQubitCliffordsAndCss(c) ==
    LET n == NumQubits(c)
        plus == Multiply(c, PrepareAllPlus(n))
        axes == [q \in 0..n - 1 |-> <<AxisOf(c, q), AxisOf(plus, q)>>]
        product == ModPauli(FoldLeft(LAMBDA d, j : QubitCliffordByAxis(d, j - 1, axes[j - 1][1], axes[j - 1][2]), Identity1(n), Upto(n)))
        css == ModPauli(Multiply(InverseUpToSigns(product), c))
    IN  IF \E q \in 0..n - 1 : "None" \in {axes[q][1], axes[q][2]} \/ axes[q][1] = axes[q][2] THEN None
        ELSE IF IsCss(css) THEN {<<product, css>>} ELSE None

\* One generator after the other is turned into a Z on a qubit of its own.
\* Mutant: the generators behind are not turned along.
EncodeGeneratorAlone(e, i) ==
    LET image == e.images[i]
        p == P!PauliOf(image.x \intersect e.left, image.z \intersect e.left, image.phase)
        q == CHOOSE q \in P!SupportOf(p) : \A r \in P!SupportOf(p) : q <= r
        turn == q \notin p.x
        root(v) == IF turn /\ q \in v.z THEN P!AddPhase(P!TimesLeft(v, P!XOn(q)), 3) ELSE v
        f == P!AddPhase(P!TimesLeft(root(p), P!ZOn(q)), 3)
    IN  [clifford |-> PauliExp(IF turn THEN RootX(e.clifford, q, 1) ELSE e.clifford, f), images |-> e.images,
         left |-> e.left \ {q}, pivots |-> Append(e.pivots, q)]
EncodeGenerator(e, i) ==
    LET image == e.images[i]
        p == P!PauliOf(image.x \intersect e.left, image.z \intersect e.left, image.phase)
        q == CHOOSE q \in P!SupportOf(p) : \A r \in P!SupportOf(p) : q <= r
        turn == q \notin p.x
        root(v) == IF turn /\ q \in v.z THEN P!AddPhase(P!TimesLeft(v, P!XOn(q)), 3) ELSE v
        f == P!AddPhase(P!TimesLeft(root(p), P!ZOn(q)), 3)
    IN  [clifford |-> PauliExp(IF turn THEN RootX(e.clifford, q, 1) ELSE e.clifford, f),
         images |-> [j \in DOMAIN e.images |-> IF j >= i THEN P!ApplyPauliExponent(root(e.images[j]), f) ELSE e.images[j]],
         left |-> e.left \ {q}, pivots |-> Append(e.pivots, q)]
GroupEncodingClifford(generators, n) ==
    LET e == FoldLeft(EncodeGenerator, [clifford |-> Identity1(n), images |-> generators, left |-> 0..n - 1, pivots |-> <<>>], Upto(Len(generators)))
    IN  InverseOf(LeftMulPermutation(e.clifford, e.pivots \o Sorted(e.left), [k \in 1..n |-> k - 1]))

\* The stabilizers on some qubits of the states R|Ar>: standard generators and
\* the matrix that gives their signs from r.
RestrictedTo(group, restricting, signs) ==
    LET transform == Matrix(SubSeq(group.echelon.transform.rows, 1, BinaryRank(group)), BinaryRank(group))
    IN  [generators |-> SubSeq(group.standard, 1, RowCount(restricting)), signs |-> NaiveProduct(NaiveProduct(transform, restricting), signs)]
StandardRestriction(c, signs, support) ==
    LET complement == Sorted(Qubits(c) \ ToSet(support))
        position(q) == At(support, q) - 1
        onto(p) == [p EXCEPT !.x = {position(q) : q \in p.x}, !.z = {position(q) : q \in p.z}]
        full(restricting) == CHOOSE m \in CompleteToFullRankRowBasis(restricting) : TRUE
        group(restricting, restricted) == Group([j \in 1..RowCount(restricting) |-> onto(Image(restricted, P!ZOn(j - 1)))])
        from(restricting) == RestrictedTo(group(restricting, Multiply(c, FromTransform(full(restricting)))), restricting, signs)
    IN  from(SupportRestrictedZImages(c, complement))
=============================================================================

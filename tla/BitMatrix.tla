----------------------------- MODULE BitMatrix -----------------------------
(***************************************************************************)
(* binar's matrices over GF(2).  A matrix is [rows, cols]: a sequence of   *)
(* rows, each the set of the columns whose bit is 1, and the number of     *)
(* columns.  Columns count from 0 as in the code, rows from 1.  The code's *)
(* rows are pointers into a buffer that swap_rows exchanges; only ones and *)
(* random_with_rng put bits past the last column.                          *)
(***************************************************************************)
EXTENDS Naturals, Sequences, FiniteSets, SequencesExt

LOCAL Xor(a, b) == (a \ b) \union (b \ a)
Dot(a, b) == Cardinality(a \intersect b) % 2
XorAll(S, row(_)) == {c \in UNION {row(i) : i \in S} : Cardinality({i \in S : c \in row(i)}) % 2 = 1}
Upto(n) == [i \in 1..n |-> i]

Matrix(rows, cols) == [rows |-> rows, cols |-> cols]
Zeros(r, n) == Matrix([i \in 1..r |-> {}], n)
Identity(n) == Matrix([i \in 1..n |-> {i - 1}], n)
RowCount(m) == Len(m.rows)
SwapRows(m, i, j) == [m EXCEPT !.rows[i] = m.rows[j], !.rows[j] = m.rows[i]]
AddIntoRow(m, to, from) == [m EXCEPT !.rows[to] = Xor(@, m.rows[from])]
Column(m, c) == {i \in 1..RowCount(m) : c \in m.rows[i]}
Submatrix(m, rows, columns) ==
    Matrix([i \in DOMAIN rows |-> {c - 1 : c \in {c \in DOMAIN columns : columns[c] \in m.rows[rows[i]]}}], Len(columns))
RowStacked(a, b) == Matrix(a.rows \o b.rows, b.cols)

----------------------------------------------------------------------------
\* The first column from "col" on with a 1 in a row from "row" on, and the first such row.
PivotOf(m, row, col) ==
    LET columns == {c \in col..m.cols - 1 : \E i \in row..RowCount(m) : c \in m.rows[i]}
    IN  IF columns = {} THEN [row |-> row, col |-> m.cols]
        ELSE LET c == CHOOSE c \in columns : \A d \in columns : c <= d
             IN  [row |-> CHOOSE i \in row..RowCount(m) : c \in m.rows[i] /\ \A j \in row..i - 1 : c \notin m.rows[j], col |-> c]

\* Mutant: only the rows below the pivot are reduced.
ReduceBelow(m, row, col) == [m EXCEPT !.rows = [i \in DOMAIN @ |-> IF i > row /\ col \in @[i] THEN Xor(@[i], @[row]) ELSE @[i]]]
\* Every other row with a 1 in the pivot's column gets the pivot row added.
Reduce(m, row, col) == [m EXCEPT !.rows = [i \in DOMAIN @ |-> IF i # row /\ col \in @[i] THEN Xor(@[i], @[row]) ELSE @[i]]]

EchelonizeStep(e, row) ==
    LET p == PivotOf(e.matrix, row, e.next)
    IN  IF p.col >= e.matrix.cols THEN e
        ELSE [matrix |-> Reduce(SwapRows(e.matrix, p.row, row), row, p.col),
              profile |-> Append(e.profile, p.col), next |-> p.col + 1]
\* Reduced row echelon form and rank profile.
Echelonize(m) == FoldLeft(EchelonizeStep, [matrix |-> m, profile |-> <<>>, next |-> 0], Upto(RowCount(m)))
Rank(m) == Len(Echelonize(m).profile)

\* The same with the transform T, T * m = echelon form, and its inverse transpose.
XorIfColumn(e, col, row, from) ==
    IF col \notin e.matrix.rows[row] THEN e
    ELSE [e EXCEPT !.matrix = AddIntoRow(@, row, from), !.transform = AddIntoRow(@, row, from),
                   !.inverseTransposed = AddIntoRow(@, from, row)]
ReduceWithTransforms(e, row, col) ==
    FoldLeft(LAMBDA acc, i : IF i = row THEN acc ELSE XorIfColumn(acc, col, i, row), e, Upto(RowCount(e.matrix)))
EchelonFormStep(e, row) ==
    LET p == PivotOf(e.matrix, row, e.next)
    IN  IF p.col >= e.matrix.cols THEN e
        ELSE ReduceWithTransforms([matrix |-> SwapRows(e.matrix, p.row, row), transform |-> SwapRows(e.transform, p.row, row),
                                   inverseTransposed |-> SwapRows(e.inverseTransposed, p.row, row),
                                   profile |-> Append(e.profile, p.col), next |-> p.col + 1], row, p.col)
EchelonForm(m) ==
    FoldLeft(EchelonFormStep, [matrix |-> m, transform |-> Identity(RowCount(m)), inverseTransposed |-> Identity(RowCount(m)),
                               profile |-> <<>>, next |-> 0], Upto(RowCount(m)))

----------------------------------------------------------------------------
\* Products: vectors are sets of indices, from 0 for columns and from 1 for rows.
Times(m, vector) == {i \in 1..RowCount(m) : Dot(m.rows[i], vector) = 1}
RightMultiply(m, rows) == XorAll(rows, LAMBDA i : m.rows[i])
NaiveProduct(a, b) == Matrix([i \in 1..RowCount(a) |-> RightMultiply(b, {c + 1 : c \in a.rows[i]})], b.cols)
Transposed(m) == Matrix([c \in 1..m.cols |-> {i - 1 : i \in Column(m, c - 1)}], RowCount(m))

\* m4ri: the rows of the table in Gray code order, each from the one before it by one row of the right matrix.
BitsOfNumber(n, width) == {b \in 0..width - 1 : (n \div (2 ^ b)) % 2 = 1}
Gray(n, width) == LET bits == BitsOfNumber(n, width) IN Xor(bits, {b \in 0..width - 1 : b + 1 \in bits})
StripeTable(m, start, width) ==
    LET step(table, pattern) ==
            LET before == Gray(pattern - 1, width)
                now == Gray(pattern, width)
                changed == CHOOSE b \in Xor(before, now) : \A d \in Xor(before, now) : b <= d
            IN  [table EXCEPT ![now] = Xor(table[before], m.rows[start + changed + 1])]
    IN  FoldLeft(step, [p \in SUBSET (0..width - 1) |-> {}], Upto(2 ^ width - 1))
Smaller(a, b) == IF a < b THEN a ELSE b
\* The product, "inner" bits of the left matrix at a time, "stripes" tables at once.
Product(a, b, inner, stripes) ==
    LET super == inner * stripes
        AddStripe(result, start, width) ==
            LET table == StripeTable(b, start, width)
            IN  [result EXCEPT !.rows = [i \in DOMAIN @ |->
                    Xor(@[i], table[{k \in 0..width - 1 : start + k \in a.rows[i]}])]]
        AddSuper(result, s) ==
            LET start == (s - 1) * super
                bits == Smaller(super, a.cols - start)
                count == (bits + inner - 1) \div inner
            IN  FoldLeft(LAMBDA r, k : AddStripe(r, start + (k - 1) * inner, Smaller(inner, bits - (k - 1) * inner)), result, Upto(count))
    IN  IF a.cols = 0 \/ b.cols = 0 THEN Zeros(RowCount(a), b.cols)
        ELSE FoldLeft(AddSuper, Zeros(RowCount(a), b.cols), Upto((a.cols + super - 1) \div super))

\* transpose_64x64_inplace for tiles of 2^levels rows: swap the off-diagonal blocks of size 1, 2, 4, ...
SwapBlocks(rows, size, side) ==
    LET step(acc, top) ==
            LET mask == {b \in 0..side - 1 : (b \div size) % 2 = 0}
                diff == Xor({b \in 0..side - 1 : b + size \in acc[top]}, acc[top + size]) \intersect mask
            IN  [acc EXCEPT ![top + size] = Xor(@, diff), ![top] = Xor(@, {b + size : b \in diff})]
    IN  FoldLeft(step, rows, SelectSeq(Upto(side), LAMBDA i : ((i - 1) \div size) % 2 = 0))
TransposeTile(rows, levels) == FoldLeft(LAMBDA acc, k : SwapBlocks(acc, 2 ^ (k - 1), 2 ^ levels), rows, Upto(levels))

----------------------------------------------------------------------------
\* An Option is a set: {} for None, {x} for Some(x).
None == {}

SolveEchelon(m, profile, target) ==
    LET step(acc, k) ==
            LET row == Len(profile) + 1 - k
            IN  IF row \notin acc.residual THEN acc
                ELSE [residual |-> Xor(acc.residual, Column(m, profile[row])), solution |-> acc.solution \union {profile[row]}]
        end == FoldLeft(step, [residual |-> target, solution |-> {}], Upto(Len(profile)))
    IN  IF end.residual = {} THEN {end.solution} ELSE None
Solve(e, target) == SolveEchelon(e.matrix, e.profile, Times(e.transform, {i - 1 : i \in target}))

TransposeSolveEchelon(m, profile, target) ==
    LET step(acc, row) ==
            IF profile[row] \notin acc.residual THEN acc
            ELSE [residual |-> Xor(acc.residual, m.rows[row]), solution |-> acc.solution \union {row}]
        end == FoldLeft(step, [residual |-> target, solution |-> {}], Upto(Len(profile)))
    IN  IF end.residual = {} THEN {end.solution} ELSE None
TransposeSolve(e, target) == {RightMultiply(e.transform, y) : y \in TransposeSolveEchelon(e.matrix, e.profile, target)}

Complement(profile, bound) == SelectSeq([c \in 1..bound |-> c - 1], LAMBDA c : \A k \in DOMAIN profile : profile[k] # c)

KernelBasisMatrix(m) ==
    LET e == Echelonize(m)
        free == Complement(e.profile, m.cols)
    IN  Matrix([k \in DOMAIN free |-> {free[k]} \union {e.profile[i] : i \in {i \in DOMAIN e.profile : free[k] \in e.matrix.rows[i]}}], m.cols)

\* None unless the rows are independent.
CompleteToFullRankRowBasis(m) ==
    LET e == Echelonize(m)
        free == Complement(e.profile, m.cols)
    IN  IF Len(e.profile) # RowCount(m) THEN None
        ELSE {Matrix(m.rows \o [k \in DOMAIN free |-> {free[k]}], m.cols)}

Invertible(m) == RowCount(m) = m.cols /\ Len(EchelonForm(m).profile) = m.cols
Inverted(m) == EchelonForm(m).transform     \* the code asserts Invertible(m)

RowsOnTop(e) == Submatrix(e.matrix, Upto(Len(e.profile)), [c \in 1..e.matrix.cols |-> c - 1])
RowSpaceIntersection(a, b) ==
    LET total == RowCount(a) + RowCount(b)
        alphas(e) == Submatrix(e.transform, [k \in 1..total - Len(e.profile) |-> Len(e.profile) + k], [k \in 1..RowCount(a) |-> k - 1])
        common(e) == IF RowCount(a) = 0 \/ RowCount(b) = 0 \/ Len(e.profile) = total THEN Zeros(0, a.cols)
                     ELSE RowsOnTop(Echelonize(NaiveProduct(alphas(e), a)))
    IN  common(EchelonForm(RowStacked(a, b)))

\* tiny_matrix_rref: forward reduction in place, then backward from each pivot.
TinyForward(acc, column) ==
    LET rows == {i \in acc.row..Len(acc.rows) : column \in acc.rows[i]}
        pivot == CHOOSE i \in rows : \A j \in rows : i <= j
        swapped == [acc.rows EXCEPT ![acc.row] = acc.rows[pivot], ![pivot] = acc.rows[acc.row]]
    IN  IF rows = {} THEN acc
        ELSE [rows |-> [i \in DOMAIN swapped |-> IF i > acc.row /\ column \in swapped[i] THEN Xor(swapped[i], swapped[acc.row]) ELSE swapped[i]],
              row |-> acc.row + 1, profile |-> Append(acc.profile, column)]
TinyBackward(rows, row, column) == [i \in DOMAIN rows |-> IF i < row /\ column \in rows[i] THEN Xor(rows[i], rows[row]) ELSE rows[i]]
TinyRref(rows, cols) ==
    LET forward == FoldLeft(TinyForward, [rows |-> rows, row |-> 1, profile |-> <<>>], [c \in 1..cols |-> c - 1])
    IN  FoldLeft(LAMBDA acc, k : TinyBackward(acc, k, forward.profile[k]), forward.rows, Upto(Len(forward.profile)))
============================================================================

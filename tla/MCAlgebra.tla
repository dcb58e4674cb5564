----------------------------- MODULE MCAlgebra -----------------------------
(***************************************************************************)
(* The arithmetic under the stabilizer simulations: bit vectors as they    *)
(* are operated on, and the matrix and Pauli group algorithms against      *)
(* their definitions.  A state is a vector with its history, or an input   *)
(* of the algorithms: a matrix, then a second one, or a group, then a      *)
(* second one.                                                             *)
(***************************************************************************)
EXTENDS PauliGroup, TLC

CONSTANTS Shapes,       \* shapes <<rows, columns>> of matrices
          MaxGenerators, \* longest sequence of generators
          WordBits, BlockWords, MaxLength \* of the vectors

ASSUME ShapesAssumption == Shapes \subseteq Nat \X Nat /\ MaxGenerators \in Nat

VARIABLES kind, left, right, vec, ideal, status

vars == <<kind, left, right, vec, ideal, status>>

V == INSTANCE BitVector

Sequences(S, n) == UNION {[1..k -> S] : k \in 0..n}
Matrices(shape) == {Matrix(rows, shape[2]) : rows \in [1..shape[1] -> SUBSET (0..shape[2] - 1)]}

\* Paulis of one qubit with every phase, and a few of two qubits, on qubits 0, 1 and 2.
MCShapes == {<<0, 2>>, <<1, 3>>, <<2, 2>>, <<2, 3>>, <<3, 2>>, <<3, 3>>}
One == P!PaulisOn({1}, 0..3)
Two == {P!XOn(0), P!Negated(P!XOn(0)), P!XOn(1), P!ZOn(1), P!PauliOf({0, 1}, {}, 0), P!PauliOf({}, {0, 1}, 2),
        P!PauliOf({0}, {0, 1}, 1), P!PauliOf({1}, {0}, 3)}
Three == {P!XOn(1), P!ZOn(1), P!PauliOf({}, {0, 1}, 2), P!PauliOf({0}, {0, 1}, 1)}
Generators == Sequences(One, 2) \union Sequences(Two, 2) \union Sequences(Three, MaxGenerators)
Partners == Sequences(One \intersect {p \in One : p.phase < 3}, 1)
              \union {<<P!XOn(0), P!XOn(1)>>, <<P!Negated(P!XOn(0)), P!Negated(P!XOn(1))>>, <<P!XOn(0), P!ZOn(1)>>, <<P!ZOn(2), P!YOn(1)>>,
                      <<P!PauliOf({0, 1}, {}, 0)>>, <<P!PauliOf({0, 1}, {}, 0), P!PauliOf({}, {0, 1}, 0)>>, <<P!PauliOf({0, 1}, {}, 2)>>,
                      <<P!XOn(0), P!ZOn(0)>>}

Nothing == [none |-> TRUE]
Init == kind = "start" /\ left = Nothing /\ right = Nothing /\ V!Init
Pick(k) == kind' = k /\ UNCHANGED <<vec, ideal, status>>
PickMatrix == kind = "start" /\ Pick("matrix") /\ (\E s \in Shapes : \E m \in Matrices(s) : left' = m) /\ UNCHANGED right
PickMatrices == /\ kind = "matrix" /\ RowCount(left) <= 2
                /\ Pick("matrices") /\ (\E s \in Shapes : \E m \in Matrices(s) : right' = m) /\ UNCHANGED left
PickGroup == kind = "start" /\ Pick("group") /\ (\E gs \in Generators : left' = Group(gs)) /\ UNCHANGED right
PickGroups == /\ kind = "group" /\ left.generators \in Partners
              /\ Pick("groups") /\ (\E gs \in Partners : right' = Group(gs)) /\ UNCHANGED left
OperateOnVector == kind \in {"start", "vector"} /\ V!Next /\ kind' = "vector" /\ UNCHANGED <<left, right>>
Next == OperateOnVector \/ PickMatrix \/ PickMatrices \/ PickGroup \/ PickGroups
Spec == Init /\ [][Next]_vars

IsMatrix == kind = "matrix"
IsGroup == kind = "group"
\* Bit vectors: bits, weight, parity, support, equality and resizing, see BitVector.
VectorsExact == V!QueriesExact /\ V!IndexExact
----------------------------------------------------------------------------
Vectors(n) == SUBSET (0..n - 1)
RowSpace(m) == {RightMultiply(m, s) : s \in SUBSET (1..RowCount(m))}
IsReduced(m, profile) ==
    /\ \A i \in DOMAIN profile : /\ Column(m, profile[i]) = {i}
                                 /\ \A c \in m.rows[i] : c >= profile[i]
    /\ \A i \in DOMAIN profile : i > 1 => profile[i] > profile[i - 1]
    /\ \A i \in Len(profile) + 1..RowCount(m) : m.rows[i] = {}

\* Elimination keeps the row space, ends in reduced form, and keeps the
\* transform and its inverse transpose true to it; the tiny variant agrees.
EchelonExact ==
    IsMatrix => LET e == Echelonize(left)
                    f == EchelonForm(left)
                IN  /\ IsReduced(e.matrix, e.profile) /\ RowSpace(e.matrix) = RowSpace(left)
                    /\ f.matrix = e.matrix /\ f.profile = e.profile
                    /\ NaiveProduct(f.transform, left) = f.matrix
                    /\ NaiveProduct(Transposed(f.transform), f.inverseTransposed) = Identity(RowCount(left))
                    /\ TinyRref(left.rows, left.cols) = e.matrix.rows

\* solve and transpose_solve find a solution exactly when there is one; the
\* kernel is exactly what the matrix takes to 0.
SolveExact ==
    IsMatrix => LET f == EchelonForm(left)
                    kernel == KernelBasisMatrix(left)
                IN  /\ \A t \in SUBSET (1..RowCount(left)) :
                         LET x == Solve(f, t)
                         IN  /\ \A v \in x : Times(left, v) = t
                             /\ (x = None) = (\A v \in Vectors(left.cols) : Times(left, v) # t)
                    /\ \A t \in Vectors(left.cols) :
                         LET x == TransposeSolve(f, t)
                         IN  /\ \A v \in x : RightMultiply(left, {i + 1 : i \in v}) = t
                             /\ (x = None) = (t \notin RowSpace(left))
                    /\ RowSpace(kernel) = {v \in Vectors(left.cols) : Times(left, v) = {}}
                    /\ Rank(kernel) = RowCount(kernel)

\* Completion to a basis keeps the rows and spans everything, or the rows are
\* dependent; of Paulis likewise.
CompletionExact ==
    /\ IsGroup => LET n == QubitCount(left.generators)
                      full == CompleteToFullPauliBasis(left.generators, n)
                  IN  Rank(BitmatrixFromPaulis(full, n)) = 2 * n /\ Len(full) = 2 * n + Len(left.generators) - BinaryRank(left)
    /\ IsMatrix => LET full == CompleteToFullRankRowBasis(left)
                   IN  /\ (full = None) = (Rank(left) < RowCount(left))
                       /\ \A m \in full : Rank(m) = left.cols /\ RowCount(m) = left.cols /\ SubSeq(m.rows, 1, RowCount(left)) = left.rows
                       /\ Invertible(left) => NaiveProduct(left, Inverted(left)) = Identity(left.cols)

\* The table of stripes in Gray code order multiplies; transposing by tiles transposes.
ProductExact ==
    /\ (kind = "matrices" /\ left.cols = RowCount(right)) =>
           \A inner, stripes \in 1..2 : Product(left, right, inner, stripes) = NaiveProduct(left, right)
    /\ IsMatrix => LET tile == [i \in 1..4 |-> IF i \in DOMAIN left.rows THEN left.rows[i] ELSE {}]
                   IN  TransposeTile(tile, 2) = Transposed(Matrix(tile, 4)).rows

\* The intersection of two row spaces, with an independent basis.
SpacesIntersect ==
    (kind = "matrices" /\ left.cols = right.cols) =>
        LET m == RowSpaceIntersection(left, right)
        IN  RowSpace(m) = RowSpace(left) \intersect RowSpace(right) /\ Rank(m) = RowCount(m)

\* Everything computed from matrices.
LinearAlgebraExact == EchelonExact /\ SolveExact /\ CompletionExact /\ ProductExact /\ SpacesIntersect

----------------------------------------------------------------------------
\* The group that generators generate, by multiplying until nothing is new.
Closure(gs) ==
    LET grow[k \in 0..12] == IF k = 0 THEN {P!Neutral} ELSE grow[k - 1] \union {P!Times(p, gs[i]) : p \in grow[k - 1], i \in DOMAIN gs}
    IN  grow[12]
IsPhase(p) == p.x = {} /\ p.z = {}

\* Everything answered from the standard form is true of the group: its
\* elements, membership, factorization, phases, size, and what it is called.
GroupExact ==
    IsGroup => LET all == Closure(left.generators)
                   universe == P!PaulisOn(ToSet(left.support) \union {0}, 0..3)
               IN  /\ ElementsOf(left) = all
                   /\ Cardinality(all) = 2 ^ Log2Size(left)
                   /\ left.phases = {p.phase : p \in {p \in all : IsPhase(p)}}
                   /\ left.abelian = (\A p, q \in ToSet(left.generators) : P!Commutes(p, q))
                   /\ IsStabilizerGroup(left) = (left.abelian /\ P!PauliOf({}, {}, 2) \notin all)
                   /\ \A p \in universe :
                        LET f == FactorizationOf(left, p)
                        IN  /\ (f # None) = (p \in all)
                            /\ \A x \in f : P!AddPhase(P!Product(left.generators, x.indices), x.phase) = p

\* Two groups are equal, ordered or neither as sets of elements.
ComparisonExact ==
    kind = "groups" => LET a == Closure(left.generators)
                           b == Closure(right.generators)
                           BitsIn(S) == {P!Bits(p) : p \in S}
                       IN  /\ Same(left, right) = (a = b)
                           /\ PartialCompare(left, right) = (CASE a = b -> "Equal" [] a \subseteq b -> "Less" [] b \subseteq a -> "Greater" [] OTHER -> "None")
                           /\ SameUpToPhases(left.generators, right.generators) = (BitsIn(a) = BitsIn(b))

\* Every element of the group is a representative times an element of the modulus.
ModuloExact ==
    kind = "groups" => LET r == Modulo(left, right)
                       IN  Closure(r.generators \o right.generators) = Closure(left.generators \o right.generators)

\* The intersection is exact, and what two groups disagree about costs it what the
\* code loses: of the generators of the common bits that have no phase in both
\* groups (XI and IX in <XI, IX> and <-XI, -IX>) one is not missed, and each
\* further one halves the answer, since products of them (XX) are never tried.
IntersectionExact ==
    kind = "groups" =>
        LET both == Closure(left.generators) \intersect Closure(right.generators)
            found == Closure(Intersection(left, right).generators)
            disputed == {p \in ToSet(PhaseInsensitiveIntersection(left, right)) : \A q \in both : P!Bits(q) # P!Bits(p)}
            lost == IF disputed = {} THEN 0 ELSE Cardinality(disputed) - 1
        IN  found \subseteq both /\ Cardinality(both) = 2 ^ lost * Cardinality(found)

\* The Paulis of the support that commute with every generator.
CentralizerExact ==
    kind = "groups" => \A s \in {left.support, right.support} :
        Closure(CentralizerWithin(s, left).generators) = {p \in P!PaulisOn(ToSet(s), 0..3) : \A i \in DOMAIN left.generators : P!Commutes(p, left.generators[i])}

\* Pairs that anticommute with each other only, the rest with none; the same group.
SymplecticExact ==
    IsGroup => LET ps == SymplecticFormOf(left.generators)
                   anti == {<<i, j>> \in (DOMAIN ps) \X (DOMAIN ps) : P!AntiCommutes(ps[i], ps[j])}
               IN  /\ \A ij \in anti : \A kl \in anti : (ij[1] \in {kl[1], kl[2]}) => {ij[1], ij[2]} = {kl[1], kl[2]}
                   /\ \A ij \in anti : ij[2] \in {ij[1] - 1, ij[1] + 1}
                   /\ Closure(ps) = Closure(left.generators)

\* Everything answered about Pauli groups.
GroupsExact == GroupExact /\ ComparisonExact /\ ModuloExact /\ IntersectionExact /\ CentralizerExact /\ SymplecticExact
============================================================================

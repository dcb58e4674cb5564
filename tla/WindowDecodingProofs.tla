------------------------- MODULE WindowDecodingProofs -------------------------
(***************************************************************************)
(* For every circuit, error model and explanation a decoder may choose:    *)
(* what the window coordinator decodes leaves its control as it is         *)
(* (WindowCoordinatorProofs), a decoder taken from the cache has the       *)
(* hypergraph of the window it is used for, and the corrections of all     *)
(* windows explain the outcomes.                                           *)
(*                                                                         *)
(* The argument for the cache: a hypergraph written with places instead of *)
(* gids is a function of the cache key, and the places of a relative       *)
(* program name its gadgets one to one.                                    *)
(*                                                                         *)
(* The argument for the corrections: a check is flipped where the outcomes *)
(* and the corrections differ, and what is still flipped some gadget that  *)
(* is not committed explains.  A window holds every check that errors of   *)
(* its region flip, so fixing them changes no check elsewhere, and windows *)
(* that decode at the same time share no check that either of them fixes.  *)
(***************************************************************************)
EXTENDS WindowDecoding, WindowCoordinatorProofs, SequenceTheorems

-----------------------------------------------------------------------------
(* Relative programs list their gadgets.                                   *)

\* p names every member of T at exactly one place.
Lists(p, T) ==
    /\ \A i \in DOMAIN p : p[i] \in T
    /\ \A i, j \in DOMAIN p : p[i] = p[j] => i = j
    /\ \A x \in T : \E i \in DOMAIN p : p[i] = x

\* Sorting a set lists it.
LEMMA SortedLists ==
    ASSUME NEW S \in SUBSET Nat, IsFiniteSet(S)
    PROVE  /\ Cardinality(S) \in Nat
           /\ Sorted(S) \in [1 .. Cardinality(S) -> S]
           /\ Lists(Sorted(S), S)
<1> DEFINE n == Cardinality(S)
           below(x) == {y \in S : y < x}
           rank == [x \in S |-> Cardinality(below(x))]
           at(i) == CHOOSE x \in S : Cardinality(below(x)) = i - 1
<1>1. n \in Nat
  BY FS_CardinalityType
<1>2. ASSUME NEW x \in S
      PROVE  IsFiniteSet(below(x)) /\ rank[x] \in 0 .. n - 1
  <2>1. below(x) \subseteq S /\ below(x) # S
    OBVIOUS
  <2>2. rank[x] = Cardinality(below(x))
    OBVIOUS
  <2> HIDE DEF below, rank, n
  <2>3. IsFiniteSet(below(x))
    BY <2>1, FS_Subset
  <2>4. Cardinality(below(x)) <= Cardinality(S) /\ Cardinality(below(x)) # Cardinality(S)
    BY <2>1, FS_Subset
  <2>5. Cardinality(below(x)) \in Nat
    BY <2>3, FS_CardinalityType
  <2> QED BY <1>1, <2>2, <2>3, <2>4, <2>5 DEF n
<1>3. ASSUME NEW x \in S, NEW y \in S, x < y
      PROVE  rank[x] # rank[y]
  <2>1. below(x) \subseteq below(y) /\ below(x) # below(y)
    <3>1. \A z \in S : z < x => z < y
      BY <1>3
    <3>2. x \in below(y) /\ x \notin below(x)
      BY <1>3
    <3> QED BY <3>1, <3>2
  <2>2. IsFiniteSet(below(y)) /\ rank[x] = Cardinality(below(x)) /\ rank[y] = Cardinality(below(y))
    BY <1>2
  <2> HIDE DEF below, rank
  <2>3. Cardinality(below(x)) # Cardinality(below(y))
    BY <2>1, <2>2, FS_Subset
  <2> QED BY <2>2, <2>3
<1>4. \A x, y \in S : rank[x] = rank[y] => x = y
  <2>1. \A x, y \in S : x = y \/ x < y \/ y < x
    OBVIOUS
  <2> HIDE DEF rank
  <2> QED BY <1>3, <2>1
<1>5. rank \in Injection(S, 0 .. n - 1)
  <2>1. rank \in [S -> 0 .. n - 1]
    BY <1>2
  <2> HIDE DEF rank, n
  <2> QED BY <1>4, <2>1 DEF Injection, IsInjective
<1>6. IsFiniteSet(0 .. n - 1) /\ Cardinality(0 .. n - 1) = n
  <2>1. /\ IsFiniteSet(0 .. n - 1)
        /\ Cardinality(0 .. n - 1) = IF 0 > n - 1 THEN 0 ELSE (n - 1) - 0 + 1
    BY <1>1, FS_Interval
  <2> QED BY <1>1, <2>1
<1>7. rank \in Surjection(S, 0 .. n - 1)
  <2> HIDE DEF rank, n
  <2>1. Cardinality(S) = Cardinality(0 .. n - 1)
    BY <1>6 DEF n
  <2> QED BY <1>5, <1>6, <2>1, FS_Injection
<1>8. ASSUME NEW i \in 1 .. n
      PROVE  at(i) \in S /\ rank[at(i)] = i - 1
  <2>1. i - 1 \in 0 .. n - 1
    BY <1>1
  <2>2. PICK x \in S : rank[x] = i - 1
    BY <1>7, <2>1 DEF Surjection
  <2>3. \E z \in S : Cardinality(below(z)) = i - 1
    BY <2>2
  <2>4. at(i) \in S /\ Cardinality(below(at(i))) = i - 1
    <3> HIDE DEF below
    <3> QED BY <2>3
  <2> HIDE DEF at, below
  <2> QED BY <2>4
<1>9. Sorted(S) = [i \in 1 .. n |-> at(i)]
  BY Zenon DEF Sorted
<1> HIDE DEF rank, at, n
<1>10. Sorted(S) \in [1 .. n -> S]
  BY <1>8, <1>9
<1>11. \A i, j \in 1 .. n : Sorted(S)[i] = Sorted(S)[j] => i = j
  <2>1. \A i \in 1 .. n : Sorted(S)[i] = at(i) /\ rank[at(i)] = i - 1
    BY <1>8, <1>9
  <2>2. \A i, j \in 1 .. n : i - 1 = j - 1 => i = j
    OBVIOUS
  <2> QED BY <2>1, <2>2
<1>12. ASSUME NEW x \in S PROVE \E i \in 1 .. n : Sorted(S)[i] = x
  <2>1. rank[x] \in 0 .. n - 1
    BY <1>2
  <2>2. rank[x] + 1 \in 1 .. n /\ (rank[x] + 1) - 1 = rank[x]
    BY <1>1, <2>1
  <2>3. at(rank[x] + 1) = x
    BY <1>4, <1>8, <2>2
  <2> QED BY <1>9, <2>2, <2>3
<1>13. DOMAIN Sorted(S) = 1 .. n
  BY <1>9
<1>14. Lists(Sorted(S), S)
  BY <1>10, <1>11, <1>12, <1>13 DEF Lists
<1> QED BY <1>1, <1>10, <1>14 DEF n

\* One list after another lists both sets, which are disjoint.
LEMMA ConcatLists ==
    ASSUME NEW m \in Nat, NEW n \in Nat, NEW S, NEW T, S \cap T = {},
           NEW s \in [1 .. m -> S], NEW t \in [1 .. n -> T], Lists(s, S), Lists(t, T)
    PROVE  Lists(s \o t, S \cup T)
<1>1. s \in Seq(S \cup T) /\ t \in Seq(S \cup T) /\ Len(s) = m /\ Len(t) = n
  OBVIOUS
<1> DEFINE p == s \o t
<1>2. /\ DOMAIN p = 1 .. m + n
      /\ \A i \in 1 .. m + n : p[i] = IF i <= m THEN s[i] ELSE t[i - m]
  <2>1. p \in Seq(S \cup T) /\ Len(p) = Len(s) + Len(t)
    BY <1>1
  <2>2. \A i \in 1 .. Len(s) + Len(t) : p[i] = IF i <= Len(s) THEN s[i] ELSE t[i - Len(s)]
    BY <1>1, ConcatProperties, Zenon
  <2> HIDE DEF p
  <2>3. DOMAIN p = 1 .. Len(p)
    BY <2>1, LenProperties
  <2> QED BY <1>1, <2>1, <2>2, <2>3
<1> HIDE DEF p
<1>3. DOMAIN s = 1 .. m /\ DOMAIN t = 1 .. n
  OBVIOUS
<1>4. \A i \in 1 .. m + n : \/ i \in 1 .. m /\ p[i] = s[i] /\ s[i] \in S
                            \/ i - m \in 1 .. n /\ p[i] = t[i - m] /\ t[i - m] \in T
  BY <1>2
<1>5. ASSUME NEW i \in 1 .. m + n, NEW j \in 1 .. m + n, p[i] = p[j]
      PROVE  i = j
  <2>1. CASE i \in 1 .. m /\ p[i] = s[i] /\ s[i] \in S
    <3>1. j \in 1 .. m /\ p[j] = s[j]
      BY <1>4, <1>5, <2>1
    <3> QED BY <1>3, <1>5, <2>1, <3>1 DEF Lists
  <2>2. CASE i - m \in 1 .. n /\ p[i] = t[i - m] /\ t[i - m] \in T
    <3>1. j - m \in 1 .. n /\ p[j] = t[j - m]
      BY <1>4, <1>5, <2>2
    <3>2. i - m = j - m
      BY <1>3, <1>5, <2>2, <3>1 DEF Lists
    <3> QED BY <3>2
  <2> QED BY <1>4, <2>1, <2>2
<1>6. ASSUME NEW x \in S PROVE \E i \in 1 .. m + n : p[i] = x
  <2>1. PICK i \in 1 .. m : s[i] = x
    BY <1>3 DEF Lists
  <2>2. i \in 1 .. m + n /\ i <= m
    OBVIOUS
  <2> QED BY <1>2, <2>1, <2>2
<1>7. ASSUME NEW x \in T PROVE \E i \in 1 .. m + n : p[i] = x
  <2>1. PICK i \in 1 .. n : t[i] = x
    BY <1>3 DEF Lists
  <2>2. i + m \in 1 .. m + n /\ ~(i + m <= m) /\ (i + m) - m = i
    OBVIOUS
  <2> QED BY <1>2, <2>1, <2>2
<1>8. Lists(p, S \cup T)
  BY <1>2, <1>4, <1>5, <1>6, <1>7 DEF Lists
<1> QED BY <1>8 DEF p

\* The gadgets that bring vertices or errors are those of the program.
LEMMA ProgramLists ==
    ASSUME TypeOK, NEW g \in Gadgets
    PROVE  /\ Lists(Program(g), window[g] \cup Outside(g))
           /\ Inside(g) \subseteq window[g] /\ Vertices(g) \subseteq window[g]
           /\ window[g] \cap Outside(g) = {}
           /\ window[g] \cup Outside(g) \subseteq Gadgets
<1>1. /\ window[g] \subseteq Gadgets /\ Outside(g) \subseteq Gadgets
      /\ window[g] \cap Outside(g) = {}
  BY DEF TypeOK, Outside
<1>2. Gadgets \subseteq Nat /\ IsFiniteSet(Gadgets)
  BY WindowAssumption
<1>3. /\ window[g] \in SUBSET Nat /\ IsFiniteSet(window[g])
      /\ Outside(g) \in SUBSET Nat /\ IsFiniteSet(Outside(g))
  BY <1>1, <1>2, FS_Subset
<1>4. Lists(Sorted(window[g]) \o Sorted(Outside(g)), window[g] \cup Outside(g))
  <2>1. /\ Cardinality(window[g]) \in Nat
        /\ Sorted(window[g]) \in [1 .. Cardinality(window[g]) -> window[g]]
        /\ Lists(Sorted(window[g]), window[g])
    BY <1>3, SortedLists
  <2>2. /\ Cardinality(Outside(g)) \in Nat
        /\ Sorted(Outside(g)) \in [1 .. Cardinality(Outside(g)) -> Outside(g)]
        /\ Lists(Sorted(Outside(g)), Outside(g))
    BY <1>3, SortedLists
  <2> QED BY <1>1, <2>1, <2>2, ConcatLists
<1> QED BY <1>1, <1>4 DEF Program, Inside, Vertices

-----------------------------------------------------------------------------
(* Hypergraphs by places, and back.                                        *)

LEMMA EdgeExcept ==
    ASSUME NEW o, NEW i, NEW r, NEW c, NEW o1, NEW c1, NEW e,
           e = [owner |-> o, index |-> i, prior |-> r, checks |-> c]
    PROVE  [e EXCEPT !.owner = o1, !.checks = c1] =
              [owner |-> o1, index |-> i, prior |-> r, checks |-> c1]
<1> DEFINE d == [e EXCEPT !.owner = o1, !.checks = c1]
<1>1. DOMAIN d = {"owner", "index", "prior", "checks"}
  OBVIOUS
<1>2. d.owner = o1 /\ d.index = i /\ d.prior = r /\ d.checks = c1
  OBVIOUS
<1>3. d = [x \in {"owner", "index", "prior", "checks"} |-> d[x]]
  OBVIOUS
<1> HIDE DEF d
<1>4. d = [owner |-> o1, index |-> i, prior |-> r, checks |-> c1]
  BY <1>2, <1>3
<1> QED BY <1>4 DEF d

\* Edges of gadgets of T with checks of T.
IsEdges(E, T) ==
    \A e \in E : /\ e = [owner |-> e.owner, index |-> e.index, prior |-> e.prior,
                         checks |-> e.checks]
                 /\ e.owner \in T /\ e.checks \subseteq T

\* An edge at the places of p.
Placed(e, p, i) == [owner |-> i, index |-> e.index, prior |-> e.prior,
                    checks |-> LocalOf(p, e.checks)]

LEMMA LocalisedIs ==
    ASSUME NEW p, NEW T, Lists(p, T), NEW E, IsEdges(E, T)
    PROVE  /\ \A e \in E : \E i \in DOMAIN p : p[i] = e.owner /\ Placed(e, p, i) \in Localised(E, p)
           /\ \A l \in Localised(E, p) :
                 \E e \in E : \E i \in DOMAIN p : p[i] = e.owner /\ l = Placed(e, p, i)
<1> DEFINE at(e) == CHOOSE i \in DOMAIN p : p[i] = e.owner
           local(e) == [e EXCEPT !.owner = at(e), !.checks = LocalOf(p, @)]
<1>1. Localised(E, p) = {local(e) : e \in E}
  BY Zenon DEF Localised
<1>2. ASSUME NEW e \in E
      PROVE  at(e) \in DOMAIN p /\ p[at(e)] = e.owner /\ local(e) = Placed(e, p, at(e))
  <2>1. \E i \in DOMAIN p : p[i] = e.owner
    BY DEF Lists, IsEdges
  <2>2. at(e) \in DOMAIN p /\ p[at(e)] = e.owner
    BY <2>1
  <2> HIDE DEF at
  <2>3. e = [owner |-> e.owner, index |-> e.index, prior |-> e.prior, checks |-> e.checks]
    BY DEF IsEdges
  <2>4. local(e) = [e EXCEPT !.owner = at(e), !.checks = LocalOf(p, e.checks)]
    BY <2>3
  <2>5. local(e) = Placed(e, p, at(e))
    <3> HIDE DEF local
    <3> QED BY <2>3, <2>4, EdgeExcept, Zenon DEF Placed
  <2> QED BY <2>2, <2>5
<1> HIDE DEF at, local
<1> QED BY <1>1, <1>2

\* Placing edges and reading the gadgets off their places again gives the edges.
LEMMA PlacesAndBack ==
    ASSUME NEW p, NEW T, Lists(p, T), NEW E, IsEdges(E, T)
    PROVE  Globalised(Localised(E, p), p) = E
<1> DEFINE back(l) == [l EXCEPT !.owner = p[@], !.checks = GlobalOf(p, @)]
<1>1. Globalised(Localised(E, p), p) = {back(l) : l \in Localised(E, p)}
  BY Zenon DEF Globalised
<1>2. ASSUME NEW e \in E, NEW i \in DOMAIN p, p[i] = e.owner
      PROVE  back(Placed(e, p, i)) = e
  <2>1. GlobalOf(p, LocalOf(p, e.checks)) = e.checks
    <3>1. e.checks \subseteq T
      BY DEF IsEdges
    <3> QED BY <3>1 DEF GlobalOf, LocalOf, Lists
  <2>2. e = [owner |-> e.owner, index |-> e.index, prior |-> e.prior, checks |-> e.checks]
    BY DEF IsEdges
  <2> DEFINE l == Placed(e, p, i)
  <2>3. /\ l = [owner |-> i, index |-> e.index, prior |-> e.prior, checks |-> LocalOf(p, e.checks)]
        /\ l.owner = i /\ l.checks = LocalOf(p, e.checks)
    BY DEF Placed
  <2> HIDE DEF l
  <2>4. back(l) = [l EXCEPT !.owner = p[i], !.checks = GlobalOf(p, LocalOf(p, e.checks))]
    BY <2>3
  <2>5. back(l) = [owner |-> p[i], index |-> e.index, prior |-> e.prior,
                   checks |-> GlobalOf(p, LocalOf(p, e.checks))]
    <3> HIDE DEF back
    <3> QED BY <2>3, <2>4, EdgeExcept, Zenon
  <2> HIDE DEF back
  <2> QED BY <1>2, <2>1, <2>2, <2>5 DEF l
<1> HIDE DEF back
<1>3. \A e \in E : e \in {back(l) : l \in Localised(E, p)}
  BY <1>2, LocalisedIs
<1>4. \A l \in Localised(E, p) : back(l) \in E
  BY <1>2, LocalisedIs
<1> QED BY <1>1, <1>3, <1>4

-----------------------------------------------------------------------------
(* The hypergraph by places is a function of the key.                      *)

\* Of an error of the model m at place i: its checks, and whether it is left out.
LocalChecks(key, i, m, error) ==
    {j \in DOMAIN key.program : \/ 0 \in error /\ j = i /\ key.program[i].check
                                \/ \E k \in error \ {0} : j \in m.remotes[k]}
LocalDropped(key, i, m, error) ==
    i \in key.committing /\ \E k \in error \ {0} : m.remotes[k] = {}

LocalEdge(key, i, m, n) ==
    [owner |-> i, index |-> n, prior |-> m.prior, checks |-> LocalChecks(key, i, m, m.errors[n])]

LocalEdges(key, i, m) ==
    {l \in {LocalEdge(key, i, m, n) : n \in {n \in DOMAIN m.errors : ~LocalDropped(key, i, m, m.errors[n])}} :
        l.checks # {}}

Hypergraph(key) ==
    UNION {UNION {LocalEdges(key, i, m) : m \in key.program[i].models} : i \in DOMAIN key.program}

\* The circuit's problem, which the shot keeps.
ProblemOK == problem \in Problems[circuit]

LEMMA ProblemTypes ==
    ASSUME TypeOK, ProblemOK, NEW x \in Gadgets
    PROVE  /\ problem.remotes[x] \in Seq(Gadgets \ {x})
           /\ Model(x) \in Seq(SUBSET (0 .. Len(problem.remotes[x])))
<1>1. IsProblem(problem)
  BY ProblemAssumption DEF TypeOK, ProblemOK
<1>2. /\ problem.remotes[x] \in Seq(Gadgets \ {x})
      /\ problem.errors[x] \in Seq(SUBSET (0 .. Len(problem.remotes[x])))
      /\ problem.terminal[x] \in Seq(SUBSET (0 .. Len(problem.remotes[x])))
  BY <1>1 DEF IsProblem
<1> QED BY <1>2 DEF Model

\* An error flips checks of its owner and of the owner's remotes.
LEMMA ErrorPlaces ==
    ASSUME TypeOK, ProblemOK, NEW x \in Gadgets, NEW n \in DOMAIN Model(x),
           NEW k \in Model(x)[n]
    PROVE  \/ k = 0 /\ Check(x, k) = x
           \/ k # 0 /\ k \in DOMAIN problem.remotes[x] /\ Check(x, k) = problem.remotes[x][k]
<1>1. /\ problem.remotes[x] \in Seq(Gadgets \ {x})
      /\ Model(x) \in Seq(SUBSET (0 .. Len(problem.remotes[x])))
  BY ProblemTypes
<1>2. Model(x)[n] \subseteq 0 .. Len(problem.remotes[x])
  BY <1>1
<1>3. DOMAIN problem.remotes[x] = 1 .. Len(problem.remotes[x]) /\ Len(problem.remotes[x]) \in Nat
  BY <1>1
<1>4. k \in 0 .. Len(problem.remotes[x])
  BY <1>2
<1>5. k = 0 \/ k \in 1 .. Len(problem.remotes[x])
  BY <1>3, <1>4
<1>6. CASE k = 0
  BY <1>6 DEF Check
<1>7. CASE k \in 1 .. Len(problem.remotes[x])
  <2>1. k # 0
    BY <1>7
  <2> QED BY <1>3, <1>7, <2>1 DEF Check
<1> QED BY <1>5, <1>6, <1>7

\* An error's checks and its leaving out, read off the key.
LEMMA LocalError ==
    ASSUME TypeOK, ProblemOK, NEW g \in Gadgets, NEW p, NEW T,
           Lists(p, T), T \subseteq Gadgets, Vertices(g) \subseteq T,
           NEW i \in DOMAIN p, NEW n \in DOMAIN Model(p[i])
    PROVE  LET m == Fingerprint(g, p[i], p)
               key == CacheKey(g, p)
               error == Model(p[i])[n]
           IN  /\ LocalOf(p, Checks(p[i], error) \cap Vertices(g)) = LocalChecks(key, i, m, error)
               /\ Dropped(g, p[i], error) <=> LocalDropped(key, i, m, error)
<1> DEFINE m == Fingerprint(g, p[i], p)
           key == CacheKey(g, p)
           error == Model(p[i])[n]
           x == p[i]
<1>1. x \in Gadgets
  BY DEF Lists
<1>2. /\ DOMAIN key.program = DOMAIN p /\ key.committing = LocalOf(p, cids[g])
      /\ key.program[i].check <=> x \in Vertices(g)
  BY DEF CacheKey, RelativeProgram, LocalGadget
<1>3. \A k \in DOMAIN problem.remotes[x] :
          m.remotes[k] = LocalOf(p, {problem.remotes[x][k]} \cap Vertices(g))
  BY DEF Fingerprint
<1>4. \A k \in error : \/ k = 0 /\ Check(x, k) = x
                       \/ k # 0 /\ k \in DOMAIN problem.remotes[x] /\ Check(x, k) = problem.remotes[x][k]
  BY <1>1, ErrorPlaces
<1> HIDE DEF m, key, error
<1>5. ASSUME NEW k \in error, k # 0
      PROVE  m.remotes[k] = {j \in DOMAIN p : p[j] = Check(x, k) /\ p[j] \in Vertices(g)}
  BY <1>3, <1>4, <1>5 DEF LocalOf
<1>6. \A j \in DOMAIN p : p[j] = x <=> j = i
  BY DEF Lists
<1>7. LocalOf(p, Checks(x, error) \cap Vertices(g)) = LocalChecks(key, i, m, error)
  <2>1. ASSUME NEW j \in DOMAIN p
        PROVE  p[j] \in Checks(x, error) \cap Vertices(g) <=>
                  \/ 0 \in error /\ j = i /\ key.program[i].check
                  \/ \E k \in error \ {0} : j \in m.remotes[k]
    <3>1. p[j] \in Checks(x, error) <=> \E k \in error : p[j] = Check(x, k)
      BY DEF Checks
    <3>2. 0 \in error => Check(x, 0) = x
      BY DEF Check
    <3>3. \A k \in error \ {0} : j \in m.remotes[k] <=> (p[j] = Check(x, k) /\ p[j] \in Vertices(g))
      BY <1>5
    <3> QED BY <1>2, <1>6, <3>1, <3>2, <3>3
  <2> QED BY <1>2, <2>1 DEF LocalOf, LocalChecks
<1>8. Dropped(g, x, error) <=> LocalDropped(key, i, m, error)
  <2>1. i \in key.committing <=> x \in cids[g]
    BY <1>2 DEF LocalOf
  <2>2. ASSUME NEW k \in error, k # 0
        PROVE  m.remotes[k] = {} <=> Check(x, k) \notin Vertices(g)
    <3>1. \A y \in Vertices(g) : \E j \in DOMAIN p : p[j] = y
      BY DEF Lists
    <3> QED BY <1>5, <2>2, <3>1
  <2> QED BY <2>1, <2>2 DEF Dropped, LocalDropped
<1> QED BY <1>7, <1>8 DEF m, key, error

\* The window's hypergraph has edges of the program's gadgets with their checks.
LEMMA WindowEdges ==
    ASSUME TypeOK, NEW g \in Gadgets
    PROVE  IsEdges(DecodingHypergraph(g), window[g] \cup Outside(g))
<1>1. Vertices(g) \subseteq window[g] /\ Inside(g) \subseteq window[g]
  BY ProgramLists
<1>2. ASSUME NEW x \in Inside(g) \cup Outside(g), NEW e \in EdgesOf(g, x)
      PROVE  /\ e = [owner |-> e.owner, index |-> e.index, prior |-> e.prior, checks |-> e.checks]
             /\ e.owner = x /\ e.checks \subseteq Vertices(g)
  <2>1. PICK n \in DOMAIN Model(x) : e = Edge(g, x, n)
    BY DEF EdgesOf
  <2> QED BY <2>1 DEF Edge
<1>3. ASSUME NEW e \in DecodingHypergraph(g)
      PROVE  \E x \in Inside(g) \cup Outside(g) : e \in EdgesOf(g, x)
  BY DEF DecodingHypergraph
<1> QED BY <1>1, <1>2, <1>3 DEF IsEdges

\* An edge by places is one that the key gives, and the other way round.
LEMMA EdgeByKey ==
    ASSUME TypeOK, ProblemOK, NEW g \in Gadgets, NEW p, NEW T,
           Lists(p, T), T \subseteq Gadgets, Vertices(g) \subseteq T,
           NEW i \in DOMAIN p, NEW n \in DOMAIN Model(p[i])
    PROVE  LET m == Fingerprint(g, p[i], p)
               key == CacheKey(g, p)
           IN  /\ Placed(Edge(g, p[i], n), p, i) = LocalEdge(key, i, m, n)
               /\ Edge(g, p[i], n).checks = {} <=> LocalEdge(key, i, m, n).checks = {}
               /\ Dropped(g, p[i], Model(p[i])[n]) <=> LocalDropped(key, i, m, m.errors[n])
<1> DEFINE m == Fingerprint(g, p[i], p)
           key == CacheKey(g, p)
           error == Model(p[i])[n]
           flips == Checks(p[i], error) \cap Vertices(g)
<1>1. m.errors = Model(p[i]) /\ m.prior = problem.prior[p[i]]
  BY DEF Fingerprint
<1>2. /\ LocalOf(p, flips) = LocalChecks(key, i, m, error)
      /\ Dropped(g, p[i], error) <=> LocalDropped(key, i, m, error)
  BY LocalError
<1>3. Edge(g, p[i], n) = [owner |-> p[i], index |-> n, prior |-> m.prior, checks |-> flips]
  BY <1>1 DEF Edge
<1>4. flips = {} <=> LocalOf(p, flips) = {}
  <2>1. flips \subseteq T
    OBVIOUS
  <2> HIDE DEF flips
  <2> QED BY <2>1 DEF LocalOf, Lists
<1> HIDE DEF m, key, flips
<1>5. LocalEdge(key, i, m, n) = [owner |-> i, index |-> n, prior |-> m.prior,
                                 checks |-> LocalOf(p, flips)]
  BY <1>1, <1>2 DEF LocalEdge
<1>6. Placed(Edge(g, p[i], n), p, i) = LocalEdge(key, i, m, n)
  BY <1>3, <1>5 DEF Placed
<1>7. Edge(g, p[i], n).checks = {} <=> LocalEdge(key, i, m, n).checks = {}
  BY <1>3, <1>4, <1>5
<1> QED BY <1>1, <1>2, <1>6, <1>7 DEF m, key

\* Windows with the same key have, by places, the same hypergraph.
LEMMA KeyDecides ==
    ASSUME TypeOK, ProblemOK, NEW g \in Gadgets
    PROVE  Localised(DecodingHypergraph(g), Program(g)) = Hypergraph(CacheKey(g, Program(g)))
<1> DEFINE p == Program(g)
           T == window[g] \cup Outside(g)
           S == Inside(g) \cup Outside(g)
           key == CacheKey(g, p)
           E == DecodingHypergraph(g)
<1>1. Lists(p, T) /\ T \subseteq Gadgets /\ Vertices(g) \subseteq T /\ S \subseteq T
  BY ProgramLists
<1>2. IsEdges(E, T)
  BY WindowEdges
<1>3. /\ DOMAIN key.program = DOMAIN p
      /\ \A i \in DOMAIN p : key.program[i].models = {Fingerprint(g, y, p) : y \in {p[i]} \cap S}
  BY DEF CacheKey, RelativeProgram, LocalGadget
<1>4. \A x : Fingerprint(g, x, p).errors = Model(x)
  BY DEF Fingerprint
<1> HIDE DEF p
<1>5. ASSUME NEW i \in DOMAIN p, NEW n \in DOMAIN Model(p[i])
      PROVE  /\ Placed(Edge(g, p[i], n), p, i) = LocalEdge(key, i, Fingerprint(g, p[i], p), n)
             /\ (Edge(g, p[i], n).checks = {}
                    <=> LocalEdge(key, i, Fingerprint(g, p[i], p), n).checks = {})
             /\ (Dropped(g, p[i], Model(p[i])[n])
                    <=> LocalDropped(key, i, Fingerprint(g, p[i], p), Model(p[i])[n]))
  <2> HIDE DEF T
  <2> QED BY <1>1, <1>4, EdgeByKey
<1> HIDE DEF key, E, T, S
<1>6. ASSUME NEW l \in Localised(E, p) PROVE l \in Hypergraph(key)
  <2>1. PICK e \in E, i \in DOMAIN p : p[i] = e.owner /\ l = Placed(e, p, i)
    BY <1>1, <1>2, LocalisedIs
  <2>2. PICK x \in S : e \in EdgesOf(g, x)
    BY DEF E, S, DecodingHypergraph
  <2>3. PICK n \in DOMAIN Model(x) : ~Dropped(g, x, Model(x)[n]) /\ e = Edge(g, x, n) /\ e.checks # {}
    BY <2>2 DEF EdgesOf
  <2>4. x = p[i]
    BY <2>1, <2>3 DEF Edge
  <2> DEFINE m == Fingerprint(g, p[i], p)
  <2>5. m \in key.program[i].models
    BY <1>3, <2>4
  <2>6. n \in DOMAIN m.errors /\ m.errors[n] = Model(p[i])[n]
    BY <1>4, <2>3, <2>4
  <2>7. l = LocalEdge(key, i, m, n) /\ l.checks # {} /\ ~LocalDropped(key, i, m, m.errors[n])
    BY <1>5, <2>1, <2>3, <2>4, <2>6
  <2> HIDE DEF m
  <2>8. l \in LocalEdges(key, i, m)
    BY <2>6, <2>7 DEF LocalEdges
  <2> QED BY <1>3, <2>5, <2>8 DEF Hypergraph
<1>7. ASSUME NEW l \in Hypergraph(key) PROVE l \in Localised(E, p)
  <2> PICK i \in DOMAIN p : \E m \in key.program[i].models : l \in LocalEdges(key, i, m)
    BY <1>3 DEF Hypergraph
  <2>1. PICK m \in key.program[i].models : l \in LocalEdges(key, i, m)
    OBVIOUS
  <2>2. m = Fingerprint(g, p[i], p) /\ p[i] \in S
    BY <1>3
  <2>3. PICK n \in DOMAIN m.errors :
            ~LocalDropped(key, i, m, m.errors[n]) /\ l = LocalEdge(key, i, m, n) /\ l.checks # {}
    BY <2>1 DEF LocalEdges
  <2>4. n \in DOMAIN Model(p[i]) /\ m.errors[n] = Model(p[i])[n]
    BY <1>4, <2>2
  <2> DEFINE e == Edge(g, p[i], n)
  <2>5. l = Placed(e, p, i) /\ e.checks # {} /\ ~Dropped(g, p[i], Model(p[i])[n])
    BY <1>5, <2>2, <2>3, <2>4
  <2>6. e.owner = p[i]
    BY DEF Edge
  <2>7. e \in EdgesOf(g, p[i])
    BY <2>4, <2>5 DEF EdgesOf
  <2> HIDE DEF e
  <2>8. e \in E
    BY <2>2, <2>7 DEF E, S, DecodingHypergraph
  <2>9. PICK j \in DOMAIN p : p[j] = e.owner /\ Placed(e, p, j) \in Localised(E, p)
    BY <1>1, <1>2, <2>8, LocalisedIs
  <2>10. j = i
    BY <1>1, <2>6, <2>9 DEF Lists
  <2> QED BY <2>5, <2>9, <2>10
<1>8. Localised(E, p) = Hypergraph(key)
  BY <1>6, <1>7
<1> QED BY <1>8 DEF E, p, key

-----------------------------------------------------------------------------
(* Every step of the values is a step of the control.                      *)

\* The steps that decode nothing.
Elsewhere(g) ==
    \/ Execute(g) \/ ComputeSyndrome(g) \/ Decode(g) \/ Explore(g) \/ CommitLoop(g)
    \/ CommitUnchecked(g) \/ AwaitOutcomes(g) \/ AwaitWindowSyndrome(g)
    \/ DecoderAnswers(g) \/ ReturnFrame(g)

LEMMA ValueStep ==
    ASSUME [NextValues]_<<vars, values>>
    PROVE  /\ [Next]_vars
           /\ problem' = problem
           /\ \/ \E g \in Gadgets : DecodeParityFactor(g)
              \/ /\ \/ \E g \in Gadgets : Elsewhere(g)
                    \/ UNCHANGED vars
                 /\ UNCHANGED loaded
                 /\ edges' = edges \/ \E g \in Gadgets : edges' = [edges EXCEPT ![g] = {}]
<1> USE DEF values
<1>1. ASSUME NEW g \in Gadgets, ComputeSyndromeValue(g)
      PROVE  /\ Progress(g) /\ Elsewhere(g) /\ UNCHANGED <<problem, loaded, edges>>
  BY <1>1 DEF ComputeSyndromeValue, Progress, Elsewhere
<1>2. ASSUME NEW g \in Gadgets, DecodeParityFactor(g)
      PROVE  /\ Progress(g) /\ problem' = problem
  BY <1>2 DEF DecodeParityFactor, Progress, DecodeAndCommit
<1>3. ASSUME NEW g \in Gadgets, UpdatePauliFrame(g)
      PROVE  /\ Progress(g) /\ Elsewhere(g) /\ UNCHANGED <<problem, loaded>>
             /\ edges' = [edges EXCEPT ![g] = {}]
  BY <1>3 DEF UpdatePauliFrame, Progress, DecodeAndCommit, Elsewhere
<1>4. ASSUME NEW g \in Gadgets, Otherwise(g)
      PROVE  /\ Progress(g) /\ Elsewhere(g) /\ UNCHANGED <<problem, loaded, edges>>
  BY <1>4 DEF Otherwise, Progress, DecodeAndCommit, Elsewhere
<1>5. CASE UNCHANGED <<vars, values>>
  BY <1>5
<1>6. CASE AllReturned /\ UNCHANGED values
  BY <1>6 DEF AllReturned
<1>7. CASE \E g \in Gadgets :
              ComputeSyndromeValue(g) \/ DecodeParityFactor(g) \/ UpdatePauliFrame(g) \/ Otherwise(g)
  <2>1. [Next]_vars
    BY <1>1, <1>2, <1>3, <1>4, <1>7 DEF Next
  <2> QED BY <1>1, <1>2, <1>3, <1>4, <1>7, <2>1
<1> QED BY <1>5, <1>6, <1>7 DEF NextValues

\* The values never change what the control does: each behaviour with values is one
\* of the coordinator.
THEOREM ControlKept == SpecValues => Spec
<1>1. InitValues => Init
  BY DEF InitValues
<1>2. [NextValues]_<<vars, values>> => [Next]_vars
  BY ValueStep
<1> QED BY <1>1, <1>2, PTL DEF SpecValues, Spec

\* Only a call that awaited its error models goes on to the decoder.
LEMMA ElsewhereNotDecoder ==
    ASSUME TypeOK, NEW g \in Gadgets, Elsewhere(g), NEW h \in Gadgets, pc[h] = "errors"
    PROVE  pc'[h] # "decoder"
<1> USE DEF TypeOK, Goto
<1>1. CASE Execute(g) \/ ComputeSyndrome(g)
  BY <1>1 DEF Execute, ExecuteGadget, ExecuteCheckModel, ExecuteErrorModel, ComputeSyndrome
<1>2. CASE Decode(g)
  BY <1>2 DEF Decode
<1>3. CASE Explore(g)
  BY <1>3 DEF Explore, ExploreMandatoryZone, AwaitMandatoryZoneSyndrome, AwaitErrorModels,
              WaitForHistoryCommitment, ExploreLookaheadZone
<1>4. CASE CommitLoop(g)
  BY <1>4 DEF CommitLoop, BeginTurn, AvailableRemoteCheckOwners, FoundCommitted, FoundClaimed,
              ClaimResolved, FoundBlocked, BlockerReleased, Reserve
<1>5. CASE CommitUnchecked(g) \/ AwaitOutcomes(g) \/ AwaitWindowSyndrome(g)
  BY <1>5 DEF CommitUnchecked, AwaitOutcomes, AwaitWindowSyndrome
<1>6. CASE DecoderAnswers(g) \/ ReturnFrame(g)
  BY <1>6 DEF DecoderAnswers, ReturnFrame
<1> QED BY <1>1, <1>2, <1>3, <1>4, <1>5, <1>6 DEF Elsewhere

-----------------------------------------------------------------------------
(* What the cache holds.                                                   *)

\* A loaded decoder has the hypergraph of its key.
LoadedByKey == \A key \in DOMAIN loaded : loaded[key] = Hypergraph(key)

ValueIInv == ProblemOK /\ DOMAIN edges = Gadgets /\ LoadedByKey

\* A leader decodes the hypergraph of its own window, and what it loads keeps to
\* its key.
LEMMA DecodeStep ==
    ASSUME TypeOK, ValueIInv, NEW g \in Gadgets, DecodeParityFactor(g)
    PROVE  /\ LoadedByKey' /\ DOMAIN edges' = Gadgets
           /\ edges'[g] = DecodingHypergraph(g)
           /\ \A h \in Gadgets \ {g} : pc'[h] = pc[h]
<1> DEFINE p == Program(g)
           key == CacheKey(g, p)
           E == DecodingHypergraph(g)
<1>1. Localised(E, p) = Hypergraph(key)
  BY KeyDecides DEF ValueIInv
<1>2. Globalised(Localised(E, p), p) = E
  BY ProgramLists, WindowEdges, PlacesAndBack
<1>3. /\ loaded' = Load(g, p, key)
      /\ edges' = [edges EXCEPT ![g] = Globalised(loaded'[key], p)]
  BY DEF DecodeParityFactor, DecodeProgram, DecodeWith
<1>4. pc' = [pc EXCEPT ![g] = "decoder"]
  BY DEF DecodeParityFactor, AwaitWindowModels, Goto
<1> HIDE DEF p, key, E
<1>5. /\ key \in DOMAIN loaded'
      /\ \A k \in DOMAIN loaded' : loaded'[k] = Hypergraph(k)
  BY <1>1, <1>3 DEF Load, ValueIInv, LoadedByKey, E
<1>6. edges'[g] = E /\ DOMAIN edges' = Gadgets
  BY <1>1, <1>2, <1>3, <1>5 DEF ValueIInv
<1>7. LoadedByKey'
  BY <1>5 DEF LoadedByKey
<1>8. \A h \in Gadgets \ {g} : pc'[h] = pc[h]
  BY <1>4 DEF TypeOK
<1> QED BY <1>6, <1>7, <1>8 DEF E

\* Every step keeps the cache true to its keys.
LEMMA ValueIInvStep ==
    ASSUME TypeOK, ValueIInv, [NextValues]_<<vars, values>>
    PROVE  ValueIInv'
<1>1. ProblemOK'
  <2>1. circuit' = circuit
    BY ValueStep, ProgramFixed DEF program
  <2> QED BY <2>1, ValueStep DEF ValueIInv, ProblemOK
<1>2. CASE \E g \in Gadgets : DecodeParityFactor(g)
  BY <1>1, <1>2, DecodeStep DEF ValueIInv
<1>3. CASE /\ UNCHANGED loaded
           /\ edges' = edges \/ \E g \in Gadgets : edges' = [edges EXCEPT ![g] = {}]
  BY <1>1, <1>3 DEF ValueIInv, LoadedByKey
<1> QED BY <1>2, <1>3, ValueStep

\* The cache holds for every key the hypergraph that the key stands for.
THEOREM CacheByKey == SpecValues => []ValueIInv
<1>1. InitValues => ValueIInv
  BY DEF InitValues, ValueIInv, ProblemOK, LoadedByKey
<1>2. TypeOK /\ ValueIInv /\ [NextValues]_<<vars, values>> => ValueIInv'
  BY ValueIInvStep
<1> QED BY <1>1, <1>2, ControlKept, TypeCorrect, PTL DEF SpecValues

\* A decoder is taken from the cache only for the hypergraph it was loaded with,
\* wherever the window lies and whatever was committed around it.
THEOREM CachedDecoders == SpecValues => CacheExact
<1>1. ASSUME TypeOK, ValueIInv, [NextValues]_<<vars, values>>, NEW h \in Gadgets,
             pc[h] = "errors", pc'[h] = "decoder"
      PROVE  edges'[h] = DecodingHypergraph(h)
  <2>1. CASE \E g \in Gadgets : DecodeParityFactor(g)
    BY <1>1, <2>1, DecodeStep
  <2>2. CASE (\E g \in Gadgets : Elsewhere(g)) \/ UNCHANGED vars
    BY <1>1, <2>2, ElsewhereNotDecoder DEF vars
  <2> QED BY <1>1, <2>1, <2>2, ValueStep
<1>2. TypeOK /\ ValueIInv /\ [NextValues]_<<vars, values>> =>
          [\A g \in Gadgets : (pc[g] = "errors" /\ pc'[g] = "decoder")
                                  => edges'[g] = DecodingHypergraph(g)]_<<vars, values>>
  BY <1>1
<1> QED BY <1>2, ControlKept, TypeCorrect, CacheByKey, PTL DEF SpecValues, CacheExact

-----------------------------------------------------------------------------
(* The corrections explain the outcomes.                                   *)

\* With a buffer, a free-hop is held together with a hop-counted gadget of the region
\* from which free-hops lead to it.
Carried(g) ==
    \A o \in region[g] \cap circuit.free :
        \E d \in region[g] \ circuit.free :
            o \in Ball({d}, executed, nb, circuit.free, 0)

\* The program is what the client executes, its check models before the first decode.
ProgramExecuted ==
    /\ executed \subseteq circuit.gadgets /\ bound \subseteq circuit.checks
    /\ \A g \in Gadgets : pc[g] # "idle" => circuit.checks \subseteq bound
    /\ committed # {} => circuit.checks \subseteq bound

\* What a leader holds.  Isolated windows hold their center alone.
HeldExact ==
    /\ BufferRadius = 0 => \A g \in Gadgets : remote[g] = {}
    /\ \A g \in Gadgets : pc[g] \in Holding =>
          /\ cids[g] = region[g] \cap bound
          /\ IF BufferRadius = 0 THEN region[g] = {g} /\ window[g] = {g} ELSE Carried(g)

\* What a leader has awaited on its way to the decoder.
WindowAwaited ==
    \A g \in Gadgets :
        /\ pc[g] = "checks" => Vertices(g) \subseteq waiting[g]
        /\ pc[g] \in {"errors", "decoder"} => Vertices(g) \subseteq syndrome
        /\ pc[g] = "errors" => AwaitedModels(window[g]) \subseteq waiting[g]

\* When a gadget is committed, whatever its errors flip has its syndrome.
CommittedSeen ==
    \A o \in committed \cap bound :
        /\ o \in syndrome
        /\ BufferRadius > 0 => Flips(problem, o) \subseteq syndrome

\* The errors in use are uncommitted; those of the region have all their checks in
\* the window, so fixing them changes no check elsewhere.
IsUsable(g, e) ==
    /\ e = [owner |-> e.owner, index |-> e.index, prior |-> e.prior, checks |-> e.checks]
    /\ e.owner \in bound \ committed
    /\ e.index \in DOMAIN problem.errors[e.owner]
    /\ e.checks # {} /\ e.checks \subseteq Vertices(g)
    /\ e.checks \subseteq Checks(e.owner, problem.errors[e.owner][e.index])
    /\ e.owner \in cids[g] =>
          /\ e.checks = Checks(e.owner, problem.errors[e.owner][e.index])
          /\ \/ e.owner \in attached
             \/ /\ e.index \in DOMAIN problem.terminal[e.owner]
                /\ problem.terminal[e.owner][e.index] = problem.errors[e.owner][e.index]
    /\ BufferRadius = 0 => e.owner = g

Reached(g) == UNION {e.checks : e \in edges[g]}

DecodesExactly(g) ==
    /\ IsFiniteSet(edges[g])
    /\ \A e \in edges[g] : IsUsable(g, e)
    /\ read[g] = flipped \cap Vertices(g) \cap Reached(g)
    /\ \A o \in cids[g] : Flips(problem, o) \cap Vertices(g) \subseteq Reached(g)

DecodersExact == \A g \in Gadgets : pc[g] = "decoder" => DecodesExactly(g)

\* A check is flipped where the outcomes and the corrections differ.
Corrected ==
    /\ flipped \subseteq syndrome
    /\ IsFiniteSet(corrections)
    /\ \A e \in corrections : e.owner \in committed /\ e.checks \subseteq syndrome
    /\ \A x \in syndrome : x \in flipped <=> ~(x \in origin <=> x \in Parity(corrections))

\* What is still flipped can be explained by a gadget that is not committed.
Explicable ==
    /\ \A x \in flipped : \E o \in Gadgets \ committed : x \in Flips(problem, o)
    /\ BufferRadius = 0 => flipped \cap committed = {}
    /\ \A x \in origin : \E o \in Gadgets : x \in Flips(problem, o)

SyndromeIInv ==
    /\ DOMAIN edges = Gadgets /\ DOMAIN read = Gadgets
    /\ ProgramExecuted /\ HeldExact /\ WindowAwaited /\ CommittedSeen
    /\ DecodersExact /\ Corrected /\ Explicable

-----------------------------------------------------------------------------
(* Errors and their parity.                                                *)

\* What the errors of o flip, error by error.
LEMMA FlipsIs ==
    ASSUME TypeOK, ProblemOK, NEW o \in Gadgets
    PROVE  /\ Flips(problem, o) \subseteq Gadgets
           /\ \A x : x \in Flips(problem, o) <=>
                 \E i \in DOMAIN problem.errors[o] : x \in Checks(o, problem.errors[o][i])
<1>1. IsProblem(problem)
  BY ProblemAssumption DEF TypeOK, ProblemOK
<1>2. /\ problem.remotes[o] \in Seq(Gadgets \ {o})
      /\ problem.errors[o] \in Seq(SUBSET (0 .. Len(problem.remotes[o])))
  BY <1>1 DEF IsProblem
<1>3. ASSUME NEW i \in DOMAIN problem.errors[o], NEW s \in problem.errors[o][i]
      PROVE  Check(o, s) \in Gadgets
  <2>1. problem.errors[o][i] \subseteq 0 .. Len(problem.remotes[o])
    BY <1>2
  <2>2. Len(problem.remotes[o]) \in Nat
    BY <1>2
  <2>3. s = 0 \/ s \in 1 .. Len(problem.remotes[o])
    BY <2>1, <2>2
  <2>4. s \in 1 .. Len(problem.remotes[o]) => problem.remotes[o][s] \in Gadgets
    BY <1>2
  <2> QED BY <2>3, <2>4 DEF Check
<1>4. \A x : x \in Flips(problem, o) <=>
          \E i \in DOMAIN problem.errors[o] : x \in Checks(o, problem.errors[o][i])
  BY DEF Flips, Checks, Check
<1> QED BY <1>3, <1>4 DEF Checks

\* The same, by the errors of the program.
LEMMA FlipsByError ==
    ASSUME NEW o \in Gadgets, NEW x
    PROVE  x \in Flips(problem, o) <=> \E e \in AllErrors(problem) : e.owner = o /\ x \in e.checks
<1> DEFINE err(g, i) == [checks |-> {IF s = 0 THEN g ELSE problem.remotes[g][s] : s \in problem.errors[g][i]},
                         owner |-> g, index |-> i]
<1>1. \A e : e \in AllErrors(problem) <=>
          \E g \in Gadgets : \E i \in DOMAIN problem.errors[g] : e = err(g, i)
  BY DEF AllErrors
<1>2. \A g, i : /\ err(g, i).owner = g
                /\ err(g, i).checks = {IF s = 0 THEN g ELSE problem.remotes[g][s] : s \in problem.errors[g][i]}
  OBVIOUS
<1> HIDE DEF err
<1>3. x \in Flips(problem, o) <=> \E i \in DOMAIN problem.errors[o] : x \in err(o, i).checks
  BY <1>2 DEF Flips
<1>4. (\E e \in AllErrors(problem) : e.owner = o /\ x \in e.checks) <=>
          \E i \in DOMAIN problem.errors[o] : x \in err(o, i).checks
  BY <1>1, <1>2
<1> QED BY <1>3, <1>4

\* An odd number of errors is not none.
LEMMA ParityTouched ==
    ASSUME NEW S, NEW x \in Parity(S)
    PROVE  x \in Gadgets /\ \E e \in S : x \in e.checks
<1> SUFFICES ASSUME {e \in S : x \in e.checks} = {} PROVE FALSE
  BY DEF Parity
<1>1. Cardinality({e \in S : x \in e.checks}) = 0
  BY FS_EmptySet
<1> QED BY <1>1 DEF Parity

\* Errors that leave x alone do not count at x.
LEMMA ParityLocal ==
    ASSUME NEW S, NEW T \in SUBSET S, NEW x, \A e \in S \ T : x \notin e.checks
    PROVE  x \in Parity(S) <=> x \in Parity(T)
<1>1. {e \in S : x \in e.checks} = {e \in T : x \in e.checks}
  OBVIOUS
<1> QED BY <1>1 DEF Parity

\* Parities of disjoint sets of errors add up.
LEMMA ParityUnion ==
    ASSUME NEW S, NEW T, IsFiniteSet(S), IsFiniteSet(T), S \cap T = {}
    PROVE  Parity(S \cup T) = Xor(Parity(S), Parity(T))
<1> SUFFICES ASSUME NEW x \in Gadgets
             PROVE  x \in Parity(S \cup T) <=> ~(x \in Parity(S) <=> x \in Parity(T))
  BY DEF Xor, Parity
<1> DEFINE at(A) == {e \in A : x \in e.checks}
<1>1. at(S \cup T) = at(S) \cup at(T) /\ at(S) \cap at(T) = {}
  OBVIOUS
<1>2. \A A : x \in Parity(A) <=> Cardinality(at(A)) % 2 = 1
  BY DEF Parity
<1>3. at(S) \subseteq S /\ at(T) \subseteq T
  OBVIOUS
<1> HIDE DEF at
<1>4. IsFiniteSet(at(S)) /\ IsFiniteSet(at(T))
  BY <1>3, FS_Subset
<1>5. Cardinality(at(S) \cup at(T)) =
          Cardinality(at(S)) + Cardinality(at(T)) - Cardinality(at(S) \cap at(T))
  BY <1>4, FS_Union
<1>6. Cardinality(at(S)) \in Nat /\ Cardinality(at(T)) \in Nat
  BY <1>4, FS_CardinalityType
<1>7. Cardinality(at(S \cup T)) = Cardinality(at(S)) + Cardinality(at(T))
  <2>1. Cardinality(at(S) \cap at(T)) = 0
    BY <1>1, FS_EmptySet
  <2>2. Cardinality(at(S \cup T)) = Cardinality(at(S) \cup at(T))
    BY <1>1, Zenon
  <2> QED BY <1>5, <1>6, <2>1, <2>2
<1>8. \A m, n \in Nat : (m + n) % 2 = 1 <=> ~(m % 2 = 1 <=> n % 2 = 1)
  OBVIOUS
<1> QED BY <1>2, <1>6, <1>7, <1>8

-----------------------------------------------------------------------------
(* Whatever a region's errors flip is in the window.                       *)

\* What select_commit_region adds to the deep gadgets it reaches over free-hops.
LEMMA RegionCarried ==
    ASSUME Base, FreeHopsCommitted, NEW g \in Gadgets, BufferRadius > 0
    PROVE  \A o \in SelectCommitRegion(g) \cap circuit.free :
              \E d \in SelectCommitRegion(g) \ circuit.free :
                  o \in Ball({d}, executed, nb, circuit.free, 0)
<1> DEFINE W == Explored(g)
           able == {y \in W : Committable(y)}
           deep == (able \ circuit.free) \ Shallow(W)
           absorbed == {y \in able \cap circuit.free : nb[y] \cap committed # {}}
           next == [y \in Gadgets |-> nb[y] \cap able \cap circuit.free]
           enter == Enter(executed, nb, circuit.free)
           ball(d) == Ball({d}, executed, nb, circuit.free, 0)
           T == deep \cup {o \in able \cap circuit.free : \E d \in deep : o \in ball(d)}
<1>1. /\ W \subseteq executed /\ executed \subseteq Gadgets /\ able \subseteq W
      /\ executed \in SUBSET Gadgets
      /\ nb \in [Gadgets -> SUBSET Gadgets] /\ DOMAIN next = Gadgets
      /\ enter \in [Gadgets -> SUBSET Gadgets]
      /\ \A x \in Gadgets : nb[x] \subseteq executed
  BY NbTypes, NbGraph DEF Base, TypeOK, Grounded, Enter
<1>2. SelectCommitRegion(g) = Closure(deep \cup absorbed, next)
  <2>1. BufferRadius # 0
    BY ConfigTypes DEF Base
  <2> QED BY <2>1, Zenon DEF SelectCommitRegion
<1>3. absorbed = {}
  <2> SUFFICES ASSUME NEW y \in absorbed PROVE FALSE
    OBVIOUS
  <2>1. PICK z \in committed : z \in nb[y]
    OBVIOUS
  <2>2. y \in nb[z]
    <3>1. committed \subseteq Gadgets /\ y \in Gadgets
      BY <1>1 DEF Base, TypeOK
    <3> QED BY <2>1, <3>1, NbTypes
  <2>3. y \in committed
    BY <2>2 DEF FreeHopsCommitted
  <2> QED BY <2>3 DEF Committable
<1>4. ASSUME NEW d \in deep
      PROVE  /\ d \in ball(d)
             /\ \A y \in ball(d) : nb[y] \cap executed \cap circuit.free \subseteq ball(d)
  <2>1. {d} \in SUBSET executed /\ {d} \in SUBSET Gadgets /\ 0 \in Nat
    BY <1>1
  <2>2. d \in ball(d) /\ ball(d) \subseteq executed
    BY <1>1, <2>1, BallBounds
  <2>3. ball(d) = Within({d}, executed, nb, enter, 0)
    BY Zenon DEF Ball
  <2>4. \A y \in executed : enter[y] = nb[y] \cap executed \cap circuit.free
    BY <1>1 DEF Enter
  <2> HIDE DEF ball, enter, deep
  <2>5. \A y \in ball(d) : enter[y] \subseteq ball(d)
    <3>1. Step(Within({d}, executed, nb, enter, 0), Within({d}, executed, nb, enter, 0 + 1),
               Gadgets, executed, nb, enter)
      BY <1>1, <2>1, WithinGrows
    <3> QED BY <2>3, <3>1 DEF Step
  <2> QED BY <2>2, <2>4, <2>5
<1>5. deep \cup absorbed \subseteq T /\ T \subseteq DOMAIN next
  BY <1>1, <1>3
<1>6. \A y \in T : next[y] \subseteq T
  <2> SUFFICES ASSUME NEW y \in T, NEW z \in next[y] PROVE z \in T
    OBVIOUS
  <2>1. y \in Gadgets /\ z \in nb[y] /\ z \in able \cap circuit.free
    BY <1>1
  <2>2. PICK d \in deep : y \in ball(d)
    <3> HIDE DEF ball
    <3> QED BY <1>4
  <2>3. z \in ball(d)
    <3> HIDE DEF ball
    <3> QED BY <1>1, <1>4, <2>1, <2>2
  <2> HIDE DEF ball, deep
  <2> QED BY <2>1, <2>3
<1>7. deep \subseteq Closure(deep \cup absorbed, next)
  <2>1. deep \cup absorbed \subseteq DOMAIN next
    BY <1>5
  <2> HIDE DEF deep, absorbed, next
  <2> QED BY <2>1, ClosureContains
<1>8. Closure(deep \cup absorbed, next) \subseteq T
  <2> HIDE DEF deep, absorbed, next, T
  <2> QED BY <1>5, <1>6, ClosureLeast
<1>9. \A o \in T \cap circuit.free : \E d \in deep : o \in ball(d)
  <2> HIDE DEF ball
  <2> QED OBVIOUS
<1>10. deep \cap circuit.free = {}
  OBVIOUS
<1> HIDE DEF deep, absorbed, next, T
<1> QED BY <1>2, <1>7, <1>8, <1>9, <1>10

\* While the program grows, free-hops lead on to what they led to.
LEMMA CarriedGrows ==
    ASSUME Base, TypeOK', UNCHANGED circuit, executed \subseteq executed', NEW d \in executed
    PROVE  Ball({d}, executed, nb, circuit.free, 0) \subseteq Ball({d}, executed', nb', circuit.free, 0)
<1>1. /\ nb \in [Gadgets -> SUBSET Gadgets] /\ nb' \in [Gadgets -> SUBSET Gadgets]
      /\ executed \in SUBSET Gadgets /\ executed' \in SUBSET Gadgets
      /\ {d} \in SUBSET executed' /\ 0 \in Nat
  <2>1. nb' \in [Gadgets -> SUBSET Gadgets]
    BY CircuitTypes DEF Base, TypeOK, nb, Consumers
  <2> QED BY <2>1, NbGraph DEF Base, TypeOK
<1>2. \A x \in Gadgets : nb[x] \cap executed \subseteq nb'[x] \cap executed'
  BY DEF nb, Consumers
<1>3. Ball({d}, executed', nb', circuit.free, 0) \subseteq Gadgets
  BY <1>1, BallBounds
<1> QED BY <1>1, <1>2, <1>3, BallCompare

\* The window of a leader has the zone of every gadget it commits, free-hops too.
LEMMA RegionZones ==
    ASSUME Base, BufferOnAllSides, NEW g \in Gadgets, pc[g] \in Holding, Carried(g),
           BufferRadius > 0, NEW o \in region[g]
    PROVE  /\ Zone({o}, executed, nb, circuit.free, BufferRadius) \subseteq window[g]
           /\ \A y \in Ball({o}, executed, nb, circuit.free, BufferRadius - 1) : ~Unconnected(y)
<1> DEFINE k == BufferRadius - 1
           enter == Enter(executed, nb, circuit.free)
           ball(d) == Ball({d}, executed, nb, circuit.free, k)
<1>1. CASE o \notin circuit.free
  BY <1>1 DEF BufferOnAllSides
<1>2. CASE o \in circuit.free
  <2>1. PICK d \in region[g] \ circuit.free : o \in Ball({d}, executed, nb, circuit.free, 0)
    BY <1>2 DEF Carried
  <2>2. /\ Zone({d}, executed, nb, circuit.free, BufferRadius) \subseteq window[g]
        /\ \A y \in ball(d) : ~Unconnected(y)
    BY DEF BufferOnAllSides
  <2>3. /\ executed \in SUBSET Gadgets /\ nb \in [Gadgets -> SUBSET Gadgets]
        /\ {d} \in SUBSET executed /\ {d} \in SUBSET Gadgets
        /\ {o} \in SUBSET executed /\ {o} \in SUBSET Gadgets
        /\ BufferRadius \in Nat /\ BufferRadius # 0 /\ k \in Nat /\ 0 \in Nat /\ 0 \in 0 .. k /\ 0 + k = k
    BY NbGraph, ConfigTypes DEF Base, TypeOK
  <2>4. enter \in [Gadgets -> SUBSET Gadgets]
    BY <2>3 DEF Enter
  <2>5. /\ \A j : Ball({d}, executed, nb, circuit.free, j) = Within({d}, executed, nb, enter, j)
        /\ \A j : Ball({o}, executed, nb, circuit.free, j) = Within({o}, executed, nb, enter, j)
    BY Zenon DEF Ball
  <2> HIDE DEF enter
  <2>6. Within({o}, executed, nb, enter, k) \subseteq Within({d}, executed, nb, enter, 0 + k)
    <3>1. {o} \subseteq Within({d}, executed, nb, enter, 0)
      BY <2>1, <2>5
    <3> HIDE DEF k
    <3> QED BY <2>3, <2>4, <3>1, WithinShift
  <2>7. ball(o) \subseteq ball(d)
    BY <2>3, <2>5, <2>6
  <2>8. o \in ball(d) /\ ball(d) \subseteq executed
    <3>1. Ball({d}, executed, nb, circuit.free, 0) \subseteq ball(d) /\ ball(d) \subseteq executed
      <4> HIDE DEF k
      <4> QED BY <2>3, BallBounds
    <3> QED BY <2>1, <3>1
  <2>9. /\ Zone({d}, executed, nb, circuit.free, BufferRadius) =
               {d} \cup (executed \cap (ball(d) \cup Around(ball(d), nb)))
        /\ Zone({o}, executed, nb, circuit.free, BufferRadius) =
               {o} \cup (executed \cap (ball(o) \cup Around(ball(o), nb)))
    BY <2>3, Zenon DEF Zone
  <2> HIDE DEF ball
  <2>10. Around(ball(o), nb) \subseteq Around(ball(d), nb)
    BY <2>7 DEF Around
  <2>11. Zone({o}, executed, nb, circuit.free, BufferRadius) \subseteq window[g]
    BY <2>2, <2>7, <2>8, <2>9, <2>10
  <2>12. \A y \in ball(o) : ~Unconnected(y)
    BY <2>2, <2>7
  <2> QED BY <2>11, <2>12 DEF ball
<1> QED BY <1>1, <1>2

\* What is around a gadget in the whole program is around it already, once the ports
\* nearer than the buffer are connected.
LEMMA ProgramZone ==
    ASSUME Base, ProgramExecuted, BufferRadius > 0, NEW o \in executed,
           \A y \in Ball({o}, executed, nb, circuit.free, BufferRadius - 1) : ~Unconnected(y)
    PROVE  Zone({o}, circuit.gadgets, Links(circuit), circuit.free, BufferRadius)
              \subseteq Zone({o}, executed, nb, circuit.free, BufferRadius)
<1> DEFINE inner == Ball({o}, executed, nb, circuit.free, BufferRadius - 1)
           link == Links(circuit)
<1>1. /\ nb \in [Gadgets -> SUBSET Gadgets] /\ executed \in SUBSET Gadgets
      /\ {o} \in SUBSET executed /\ BufferRadius \in Nat /\ BufferRadius - 1 \in Nat
      /\ \A x \in Gadgets : nb[x] \subseteq executed
  BY NbGraph, NbTypes, ConfigTypes DEF Base, TypeOK
<1>2. circuit.gadgets \in SUBSET Gadgets /\ executed \subseteq circuit.gadgets
  BY WindowAssumption DEF Base, TypeOK, IsCircuit, ProgramExecuted
<1>3. link \in [Gadgets -> SUBSET Gadgets]
  BY <1>2 DEF Links
<1>4. inner \subseteq executed
  BY <1>1, BallBounds
<1>5. \A y \in inner : ~Unconnected(y)
  OBVIOUS
<1>6. \A y \in inner : link[y] = nb[y] /\ nb[y] \subseteq executed
  <2> HIDE DEF inner, link
  <2> SUFFICES ASSUME NEW y \in inner PROVE link[y] = nb[y]
    BY <1>1, <1>4
  <2>1. y \in executed /\ y \in Gadgets /\ ~Unconnected(y)
    BY <1>1, <1>4, <1>5
  <2>2. circuit.inputs[y] \subseteq executed
    BY <2>1 DEF Base, Grounded
  <2>3. \A z \in Gadgets : y \in circuit.inputs[z] => z \in executed
    BY <2>1 DEF Unconnected
  <2>4. nb[y] = circuit.inputs[y] \cup {z \in executed : y \in circuit.inputs[z]}
    BY <2>1 DEF nb, Consumers
  <2>5. link[y] = {z \in circuit.gadgets : y \in circuit.gadgets /\ (z \in circuit.inputs[y] \/ y \in circuit.inputs[z])}
    BY <2>1 DEF link, Links
  <2> QED BY <1>1, <1>2, <2>1, <2>2, <2>3, <2>4, <2>5
<1> HIDE DEF inner, link
<1>7. Zone({o}, circuit.gadgets, link, circuit.free, BufferRadius)
          \subseteq Zone({o}, executed, nb, circuit.free, BufferRadius)
  BY <1>1, <1>2, <1>3, <1>6, ZoneStays DEF inner
<1> QED BY <1>7 DEF link

\* What a program's problem is assumed to be.
LEMMA ProblemReach ==
    ASSUME TypeOK, ProblemOK
    PROVE  /\ TerminalCutDown(problem)
           /\ BufferRadius = 0 => ExplainedAlone(problem)
           /\ BufferRadius > 0 => ErrorsWithin(circuit, BufferRadius, problem)
<1>1. BufferRadius \in Nat
  BY ConfigTypes
<1> QED BY <1>1, ReachAssumption DEF TypeOK, ProblemOK, BufferRadius

\* With a buffer, the checks that the errors of a region flip are in its window.
LEMMA FlipsInside ==
    ASSUME Base, ProblemOK, BufferOnAllSides, CommitOnce, ProgramExecuted, HeldExact,
           NEW g \in Gadgets, pc[g] \in Holding, BufferRadius > 0,
           NEW o \in region[g], o \in bound
    PROVE  Flips(problem, o) \subseteq Vertices(g)
<1>1. /\ o \in Gadgets /\ o \in executed /\ circuit.checks \subseteq bound /\ Carried(g)
      /\ BufferRadius # 0 /\ o \in window[g]
  <2>1. pc[g] # "idle"
    BY DEF Holding
  <2>2. BufferRadius # 0
    BY ConfigTypes DEF Base
  <2> QED BY <2>1, <2>2 DEF Base, TypeOK, ProgramExecuted, HeldExact, CommitOnce
<1>2. Zone({o}, circuit.gadgets, Links(circuit), circuit.free, BufferRadius) \subseteq window[g]
  <2>1. /\ Zone({o}, executed, nb, circuit.free, BufferRadius) \subseteq window[g]
        /\ \A y \in Ball({o}, executed, nb, circuit.free, BufferRadius - 1) : ~Unconnected(y)
    BY <1>1, RegionZones
  <2> QED BY <1>1, <2>1, ProgramZone
<1>3. ErrorsWithin(circuit, BufferRadius, problem)
  BY ProblemReach DEF Base
<1>4. \A x \in Flips(problem, o) \ {o} : x \in circuit.checks /\ x \in window[g]
  BY <1>1, <1>2, <1>3 DEF ErrorsWithin
<1> QED BY <1>1, <1>4 DEF Vertices

-----------------------------------------------------------------------------
(* The steps, by what they do to windows and syndromes.                    *)

\* No model, syndrome or commit comes, and no leader goes on with its window.
Calm ==
    /\ UNCHANGED <<bound, syndrome, committed>>
    /\ executed \subseteq executed' /\ attached \subseteq attached'
    /\ executed' \subseteq executed \cup circuit.gadgets
    /\ \A h \in Gadgets :
          /\ pc'[h] # "idle" => pc[h] # "idle" \/ circuit.checks \subseteq bound
          /\ BufferRadius = 0 /\ remote[h] = {} => remote'[h] = {}
          /\ pc'[h] \in Holding =>
                /\ pc[h] = pc'[h] /\ waiting'[h] = waiting[h]
                /\ region'[h] = region[h] /\ cids'[h] = cids[h] /\ window'[h] = window[h]

LEMMA CalmSteps ==
    ASSUME TypeOK
    PROVE  /\ \A g \in Gadgets :
                 /\ ExecuteGadget(g) \/ ExecuteErrorModel(g) => Calm
                 /\ Executed /\ Decode(g) => Calm
                 /\ Explore(g) => Calm
                 /\ CommitLoop(g) => Calm \/ Reserve(g)
                 /\ ReturnFrame(g) => Calm
           /\ UNCHANGED vars => Calm
<1> USE DEF TypeOK
<1>1. ASSUME NEW g \in Gadgets, ExecuteGadget(g) PROVE Calm
  BY <1>1 DEF ExecuteGadget, Calm, shared, states, locals
<1>2. ASSUME NEW g \in Gadgets, ExecuteErrorModel(g) PROVE Calm
  BY <1>2 DEF ExecuteErrorModel, Calm, shared, states, locals
<1>3. ASSUME NEW g \in Gadgets, Executed, Decode(g) PROVE Calm
  BY <1>3 DEF Executed, Decode, Goto, Calm, Holding, states, locals
<1>4. ASSUME NEW g \in Gadgets, ExploreMandatoryZone(g) PROVE Calm
  BY <1>4 DEF ExploreMandatoryZone, Goto, Await, Calm, Holding, shared, states
<1>5. ASSUME NEW g \in Gadgets, AwaitMandatoryZoneSyndrome(g) PROVE Calm
  BY <1>5 DEF AwaitMandatoryZoneSyndrome, Goto, Await, Calm, Holding, shared, states
<1>6. ASSUME NEW g \in Gadgets, AwaitErrorModels(g) PROVE Calm
  BY <1>6 DEF AwaitErrorModels, Goto, Await, Calm, Holding, shared, states
<1>7. ASSUME NEW g \in Gadgets, WaitForHistoryCommitment(g) PROVE Calm
  BY <1>7 DEF WaitForHistoryCommitment, Goto, Await, Calm, Holding, shared, states
<1>8. ASSUME NEW g \in Gadgets, ExploreLookaheadZone(g) PROVE Calm
  BY <1>8 DEF ExploreLookaheadZone, Calm, Holding, shared, states
<1>9. ASSUME NEW g \in Gadgets, BeginTurn(g) PROVE Calm
  BY <1>9 DEF BeginTurn, AtLoop, Await, Calm, Holding, shared, states
<1>10. ASSUME NEW g \in Gadgets, AvailableRemoteCheckOwners(g) PROVE Calm
  BY <1>10 DEF AvailableRemoteCheckOwners, Goto, Await, Calm, Holding, shared, states
<1>11. ASSUME NEW g \in Gadgets, FoundCommitted(g) \/ FoundClaimed(g) PROVE Calm
  BY <1>11 DEF FoundCommitted, FoundClaimed, Goto, Calm, Holding, shared, states, locals
<1>12. ASSUME NEW g \in Gadgets, ClaimResolved(g) PROVE Calm
  BY <1>12 DEF ClaimResolved, Goto, Calm, Holding, shared, states, locals
<1>13. ASSUME NEW g \in Gadgets, FoundBlocked(g) PROVE Calm
  BY <1>13 DEF FoundBlocked, Goto, Await, Calm, Holding, shared, states
<1>14. ASSUME NEW g \in Gadgets, NEW x \in Gadgets, BlockerReleased(g, x) PROVE Calm
  BY <1>14 DEF BlockerReleased, Await, Calm, Holding, shared, states
<1>15. ASSUME NEW g \in Gadgets, ReturnFrame(g) PROVE Calm
  BY <1>15 DEF ReturnFrame, Goto, Forget, Calm, Holding, shared, states
<1>16. ASSUME UNCHANGED vars PROVE Calm
  BY <1>16 DEF vars, Calm, shared, states, locals
<1> HIDE DEF TypeOK
<1> QED
  BY <1>1, <1>2, <1>3, <1>4, <1>5, <1>6, <1>7, <1>8, <1>9, <1>10, <1>11, <1>12, <1>13,
     <1>14, <1>15, <1>16, Zenon DEF Explore, CommitLoop

\* The steps of the values.
LEMMA ValueKinds ==
    ASSUME TypeOK, [NextValues]_<<vars, values>>
    PROVE  \/ Calm /\ UNCHANGED values
           \/ \E g \in Gadgets :
                 \/ /\ \/ ExecuteCheckModel(g) \/ Reserve(g) \/ CommitUnchecked(g)
                       \/ AwaitOutcomes(g) \/ AwaitWindowSyndrome(g)
                    /\ UNCHANGED values
                 \/ ComputeSyndromeValue(g) \/ DecodeParityFactor(g) \/ UpdatePauliFrame(g)
<1>1. CASE UNCHANGED <<vars, values>>
  BY <1>1, CalmSteps
<1>2. CASE AllReturned /\ UNCHANGED values
  BY <1>2, CalmSteps DEF AllReturned
<1>3. ASSUME NEW g \in Gadgets, Otherwise(g)
      PROVE  /\ \/ Calm \/ ExecuteCheckModel(g) \/ Reserve(g) \/ CommitUnchecked(g)
                \/ AwaitOutcomes(g) \/ AwaitWindowSyndrome(g)
             /\ UNCHANGED values
  BY <1>3, CalmSteps, Zenon DEF Otherwise, Execute
<1> QED BY <1>1, <1>2, <1>3, Zenon DEF NextValues

-----------------------------------------------------------------------------
(* What each step keeps.                                                   *)

\* Everything that is known before a step.
SInv == IInv /\ ValueIInv /\ SyndromeIInv

\* A call that keeps its window keeps what is known of it.
LEMMA HeldKept ==
    ASSUME SInv, TypeOK', UNCHANGED <<circuit, config, bound>>, executed \subseteq executed',
           NEW h \in Gadgets, pc[h] \in Holding,
           region'[h] = region[h], cids'[h] = cids[h], window'[h] = window[h]
    PROVE  /\ cids'[h] = region'[h] \cap bound'
           /\ IF BufferRadius' = 0 THEN region'[h] = {h} /\ window'[h] = {h} ELSE Carried(h)'
<1>1. /\ cids[h] = region[h] \cap bound
      /\ IF BufferRadius = 0 THEN region[h] = {h} /\ window[h] = {h} ELSE Carried(h)
  BY DEF SInv, SyndromeIInv, HeldExact
<1>2. region[h] \subseteq executed /\ Base /\ BufferRadius' = BufferRadius
  BY DEF SInv, IInv, Base, TypeOK, BufferRadius
<1>3. Carried(h) => Carried(h)'
  <2>1. \A d \in executed : Ball({d}, executed, nb, circuit.free, 0)
                               \subseteq Ball({d}, executed', nb', circuit.free, 0)
    BY <1>2, CarriedGrows
  <2> QED BY <1>2, <2>1 DEF Carried
<1> QED BY <1>1, <1>2, <1>3

\* A leader whose errors are still uncommitted, and whose syndrome nobody changes,
\* decodes on.
LEMMA DecodedKept ==
    ASSUME UNCHANGED <<problem, config, bound>>, attached \subseteq attached',
           NEW h \in Gadgets, DecodesExactly(h),
           edges'[h] = edges[h], read'[h] = read[h],
           cids'[h] = cids[h], window'[h] = window[h],
           flipped' \cap Vertices(h) = flipped \cap Vertices(h),
           \A e \in edges[h] : e.owner \notin committed'
    PROVE  DecodesExactly(h)'
<1>1. /\ BufferRadius' = BufferRadius /\ Vertices(h)' = Vertices(h) /\ Reached(h)' = Reached(h)
      /\ \A x, e : Checks(x, e)' = Checks(x, e)
      /\ \A o : Flips(problem, o)' = Flips(problem, o)
  BY DEF BufferRadius, Vertices, Reached, Checks, Check, Flips
<1>2. ASSUME NEW e \in edges[h] PROVE IsUsable(h, e)'
  <2>1. IsUsable(h, e) /\ e.owner \notin committed'
    BY DEF DecodesExactly
  <2> QED BY <1>1, <2>1 DEF IsUsable
<1>3. read'[h] = flipped' \cap Vertices(h)' \cap Reached(h)'
  BY <1>1 DEF DecodesExactly
<1>4. \A o \in cids'[h] : Flips(problem, o)' \cap Vertices(h)' \subseteq Reached(h)'
  BY <1>1 DEF DecodesExactly
<1> QED BY <1>1, <1>2, <1>3, <1>4 DEF DecodesExactly

\* What a window awaits shrinks while models come and gadgets are committed.
LEMMA AwaitedShrinks ==
    ASSUME UNCHANGED <<circuit, bound>>, attached \subseteq attached',
           committed \subseteq committed', NEW h \in Gadgets, window'[h] = window[h]
    PROVE  AwaitedModels(window[h])' \subseteq AwaitedModels(window[h])
BY DEF AwaitedModels, TerminalBoundary

LEMMA CalmKeeps ==
    ASSUME SInv, TypeOK', UNCHANGED <<circuit, config>>, Calm, UNCHANGED values
    PROVE  SyndromeIInv'
<1> USE DEF Calm, values
<1>t. SyndromeIInv /\ BufferRadius' = BufferRadius /\ IInv
  BY DEF SInv, BufferRadius
<1>1. ProgramExecuted'
  BY <1>t DEF SyndromeIInv, ProgramExecuted
<1>2. HeldExact'
  <2>1. BufferRadius' = 0 => \A g \in Gadgets : remote'[g] = {}
    BY <1>t DEF SyndromeIInv, HeldExact
  <2>2. \A g \in Gadgets : pc'[g] \in Holding =>
            /\ cids'[g] = region'[g] \cap bound'
            /\ IF BufferRadius' = 0 THEN region'[g] = {g} /\ window'[g] = {g} ELSE Carried(g)'
    BY HeldKept
  <2> QED BY <2>1, <2>2 DEF HeldExact
<1>3. WindowAwaited'
  <2> SUFFICES ASSUME NEW g \in Gadgets
               PROVE  /\ pc'[g] = "checks" => Vertices(g)' \subseteq waiting'[g]
                      /\ pc'[g] \in {"errors", "decoder"} => Vertices(g)' \subseteq syndrome'
                      /\ pc'[g] = "errors" => AwaitedModels(window[g])' \subseteq waiting'[g]
    BY DEF WindowAwaited
  <2>1. pc'[g] \in Holding => AwaitedModels(window[g])' \subseteq AwaitedModels(window[g])
    BY AwaitedShrinks
  <2>2. pc'[g] \in Holding => Vertices(g)' = Vertices(g)
    BY DEF Vertices
  <2> QED BY <1>t, <2>1, <2>2 DEF SyndromeIInv, WindowAwaited, Holding
<1>4. CommittedSeen'
  BY <1>t DEF SyndromeIInv, CommittedSeen
<1>5. DecodersExact'
  <2> SUFFICES ASSUME NEW g \in Gadgets, pc'[g] = "decoder" PROVE DecodesExactly(g)'
    BY DEF DecodersExact
  <2>1. /\ pc[g] = "decoder" /\ cids'[g] = cids[g] /\ window'[g] = window[g]
    BY DEF Holding
  <2>2. DecodesExactly(g)
    BY <1>t, <2>1 DEF SyndromeIInv, DecodersExact
  <2>3. \A e \in edges[g] : e.owner \notin committed'
    BY <2>2 DEF DecodesExactly, IsUsable
  <2> QED BY <2>1, <2>2, <2>3, DecodedKept
<1>6. Corrected' /\ Explicable'
  BY <1>t DEF SyndromeIInv, Corrected, Explicable, Parity
<1> QED BY <1>t, <1>1, <1>2, <1>3, <1>4, <1>5, <1>6 DEF SyndromeIInv

\* A check model comes before any decode does.
LEMMA CheckModelKeeps ==
    ASSUME SInv, NEW g \in Gadgets, ExecuteCheckModel(g), UNCHANGED values
    PROVE  SyndromeIInv'
<1> USE DEF values
<1>1. /\ g \in circuit.checks /\ g \notin bound /\ bound' = bound \cup {g}
      /\ UNCHANGED <<circuit, config, executed, attached, syndrome, committed, pc, remote>>
  BY DEF ExecuteCheckModel, program, shared, states, locals
<1>2. SyndromeIInv /\ BufferRadius' = BufferRadius
  BY <1>1 DEF SInv, BufferRadius
<1>3. committed = {} /\ \A h \in Gadgets : pc[h] = "idle"
  BY <1>1, <1>2 DEF SyndromeIInv, ProgramExecuted
<1>4. ProgramExecuted' /\ HeldExact' /\ WindowAwaited' /\ CommittedSeen' /\ DecodersExact'
  BY <1>1, <1>2, <1>3
     DEF SyndromeIInv, ProgramExecuted, HeldExact, WindowAwaited, CommittedSeen, DecodersExact, Holding
<1>5. Corrected' /\ Explicable'
  BY <1>1, <1>2 DEF SyndromeIInv, Corrected, Explicable, Parity
<1> QED BY <1>2, <1>4, <1>5 DEF SyndromeIInv

\* A call that waits on for its window's syndromes or error models.
LEMMA AwaitKeeps ==
    ASSUME SInv, TypeOK', NEW g \in Gadgets,
           AwaitOutcomes(g) \/ AwaitWindowSyndrome(g), UNCHANGED values
    PROVE  SyndromeIInv'
<1> USE DEF values
<1>t. SyndromeIInv /\ TypeOK /\ pc \in [Gadgets -> PC] /\ waiting \in [Gadgets -> SUBSET executed]
  BY DEF SInv, IInv, Base, TypeOK
<1>1. /\ UNCHANGED <<circuit, config, executed, bound, attached, syndrome, committed>>
      /\ UNCHANGED <<remote, region, cids, window>>
      /\ \A h \in Gadgets \ {g} : pc'[h] = pc[h] /\ waiting'[h] = waiting[h]
      /\ pc[g] \in Holding /\ pc'[g] \in Holding \ {"decoder"}
  BY <1>t DEF AwaitOutcomes, AwaitWindowSyndrome, Goto, Await, program, shared, states, Holding
<1>2. /\ pc'[g] = "checks" => Vertices(g) \subseteq waiting'[g]
      /\ pc'[g] = "errors" => AwaitedModels(window[g]) \subseteq waiting'[g]
      /\ pc'[g] = "errors" => Vertices(g) \subseteq syndrome
  BY <1>t DEF AwaitOutcomes, AwaitWindowSyndrome, Goto, Await, Vertices,
              SyndromeIInv, WindowAwaited
<1>3. /\ BufferRadius' = BufferRadius /\ \A h : Vertices(h)' = Vertices(h)
      /\ \A h : AwaitedModels(window[h])' = AwaitedModels(window[h])
  BY <1>1 DEF BufferRadius, Vertices, AwaitedModels, TerminalBoundary
<1>4. ProgramExecuted'
  BY <1>t, <1>1 DEF SyndromeIInv, ProgramExecuted, Holding
<1>5. HeldExact'
  <2>1. BufferRadius' = 0 => \A h \in Gadgets : remote'[h] = {}
    BY <1>t, <1>1, <1>3 DEF SyndromeIInv, HeldExact
  <2>2. \A h \in Gadgets : pc'[h] \in Holding =>
            /\ cids'[h] = region'[h] \cap bound'
            /\ IF BufferRadius' = 0 THEN region'[h] = {h} /\ window'[h] = {h} ELSE Carried(h)'
    BY <1>1, HeldKept
  <2> QED BY <2>1, <2>2 DEF HeldExact
<1>6. WindowAwaited'
  BY <1>t, <1>1, <1>2, <1>3 DEF SyndromeIInv, WindowAwaited
<1>7. CommittedSeen'
  BY <1>t, <1>1, <1>3 DEF SyndromeIInv, CommittedSeen
<1>8. DecodersExact'
  <2> SUFFICES ASSUME NEW h \in Gadgets, pc'[h] = "decoder" PROVE DecodesExactly(h)'
    BY DEF DecodersExact
  <2>1. pc[h] = "decoder" /\ DecodesExactly(h)
    BY <1>t, <1>1 DEF SyndromeIInv, DecodersExact
  <2>2. \A e \in edges[h] : e.owner \notin committed'
    BY <1>1, <2>1 DEF DecodesExactly, IsUsable
  <2> QED BY <1>1, <2>1, <2>2, DecodedKept
<1>9. Corrected' /\ Explicable'
  BY <1>t, <1>1, <1>3 DEF SyndromeIInv, Corrected, Explicable, Parity
<1> QED BY <1>t, <1>4, <1>5, <1>6, <1>7, <1>8, <1>9 DEF SyndromeIInv

\* A leader reserves its window.
LEMMA ReserveKeeps ==
    ASSUME SInv, TypeOK', NEW g \in Gadgets, Reserve(g), UNCHANGED values
    PROVE  SyndromeIInv'
<1> USE DEF values
<1>t. /\ SyndromeIInv /\ Base /\ FreeHopsCommitted /\ pc \in [Gadgets -> PC]
      /\ region \in [Gadgets -> SUBSET executed] /\ cids \in [Gadgets -> SUBSET executed]
      /\ window \in [Gadgets -> SUBSET executed] /\ BufferRadius \in Nat
  BY ConfigTypes DEF SInv, IInv, Base, TypeOK
<1>1. /\ UNCHANGED <<circuit, config, executed, bound, attached, syndrome, committed>>
      /\ UNCHANGED <<waiting, remote>>
      /\ \A h \in Gadgets \ {g} : /\ pc'[h] = pc[h] /\ region'[h] = region[h]
                                  /\ cids'[h] = cids[h] /\ window'[h] = window[h]
      /\ pc[g] = "claim" /\ pc'[g] = "outcomes"
      /\ region'[g] = SelectCommitRegion(g) /\ cids'[g] = region'[g] \cap bound
      /\ window'[g] = DecoderWindow(g)
  BY <1>t DEF Reserve, Goto, program, shared
<1>2. /\ BufferRadius' = BufferRadius /\ \A h \in Gadgets \ {g} : Vertices(h)' = Vertices(h)
      /\ nb' = nb
  BY <1>1, SameGraph DEF BufferRadius, Vertices
<1>3. ProgramExecuted'
  BY <1>t, <1>1 DEF SyndromeIInv, ProgramExecuted
<1>4. IF BufferRadius' = 0 THEN region'[g] = {g} /\ window'[g] = {g} ELSE Carried(g)'
  <2>1. CASE BufferRadius = 0
    <3>1. SelectCommitRegion(g) = {g}
      BY <2>1 DEF SelectCommitRegion
    <3>2. ShrinkWindow(g) = {g}
      BY <2>1, <3>1 DEF ShrinkWindow, Zone
    <3>3. remote[g] = {}
      BY <1>t, <2>1 DEF SyndromeIInv, HeldExact
    <3>4. DecoderWindow(g) = {g}
      BY <3>2, <3>3 DEF DecoderWindow
    <3> QED BY <1>1, <1>2, <2>1, <3>1, <3>4
  <2>2. CASE BufferRadius # 0
    <3>1. \A o \in SelectCommitRegion(g) \cap circuit.free :
              \E d \in SelectCommitRegion(g) \ circuit.free :
                  o \in Ball({d}, executed, nb, circuit.free, 0)
      <4>1. BufferRadius > 0
        BY <1>t, <2>2
      <4> QED BY <1>t, <4>1, RegionCarried
    <3> QED BY <1>1, <1>2, <2>2, <3>1 DEF Carried
  <2> QED BY <2>1, <2>2
<1>5. HeldExact'
  <2>1. BufferRadius' = 0 => \A h \in Gadgets : remote'[h] = {}
    BY <1>t, <1>1, <1>2 DEF SyndromeIInv, HeldExact
  <2>2. \A h \in Gadgets \ {g} : pc'[h] \in Holding =>
            /\ cids'[h] = region'[h] \cap bound'
            /\ IF BufferRadius' = 0 THEN region'[h] = {h} /\ window'[h] = {h} ELSE Carried(h)'
    BY <1>1, HeldKept
  <2>3. cids'[g] = region'[g] \cap bound'
    BY <1>1
  <2> QED BY <1>4, <2>1, <2>2, <2>3 DEF HeldExact
<1>6. WindowAwaited'
  <2>1. \A h \in Gadgets \ {g} : AwaitedModels(window[h])' \subseteq AwaitedModels(window[h])
    BY <1>1, AwaitedShrinks
  <2> QED BY <1>t, <1>1, <1>2, <2>1 DEF SyndromeIInv, WindowAwaited
<1>7. CommittedSeen'
  BY <1>t, <1>1, <1>2 DEF SyndromeIInv, CommittedSeen
<1>8. DecodersExact'
  <2> SUFFICES ASSUME NEW h \in Gadgets, pc'[h] = "decoder" PROVE DecodesExactly(h)'
    BY DEF DecodersExact
  <2>1. pc[h] = "decoder" /\ DecodesExactly(h) /\ h # g
    BY <1>t, <1>1 DEF SyndromeIInv, DecodersExact
  <2>2. \A e \in edges[h] : e.owner \notin committed'
    BY <1>1, <2>1 DEF DecodesExactly, IsUsable
  <2> QED BY <1>1, <2>1, <2>2, DecodedKept
<1>9. Corrected' /\ Explicable'
  BY <1>t, <1>1, <1>2 DEF SyndromeIInv, Corrected, Explicable, Parity
<1> QED BY <1>t, <1>3, <1>5, <1>6, <1>7, <1>8, <1>9 DEF SyndromeIInv

\* A syndrome comes: nobody has corrected it, and none of what flips it is committed.
LEMMA SyndromeKeeps ==
    ASSUME SInv, TypeOK', NEW x \in Gadgets, ComputeSyndromeValue(x)
    PROVE  SyndromeIInv'
<1>t. /\ SyndromeIInv /\ Base /\ ProblemOK /\ TypeOK
      /\ ProgramExecuted /\ CommittedSeen /\ Corrected /\ Explicable /\ BufferRadius \in Nat
  BY ConfigTypes DEF SInv, SyndromeIInv, IInv, ValueIInv, Base
<1>1. /\ UNCHANGED <<circuit, config, executed, bound, attached, committed, pc, waiting>>
      /\ UNCHANGED <<remote, region, cids, window>>
      /\ x \in bound /\ x \notin syndrome /\ syndrome' = syndrome \cup {x}
      /\ flipped' = (flipped \ {x}) \cup (origin \cap {x})
      /\ UNCHANGED <<problem, origin, corrections, edges, read>>
  BY DEF ComputeSyndromeValue, ComputeSyndrome, program, states, locals
<1>2. /\ BufferRadius' = BufferRadius /\ \A h : Vertices(h)' = Vertices(h)
      /\ \A h : AwaitedModels(window[h])' = AwaitedModels(window[h])
      /\ \A o : Flips(problem, o)' = Flips(problem, o)
  BY <1>1 DEF BufferRadius, Vertices, AwaitedModels, TerminalBoundary, Flips
<1>3. ProgramExecuted'
  BY <1>t, <1>1 DEF ProgramExecuted
<1>4. HeldExact'
  <2>1. BufferRadius' = 0 => \A h \in Gadgets : remote'[h] = {}
    BY <1>t, <1>1, <1>2 DEF SyndromeIInv, HeldExact
  <2>2. \A h \in Gadgets : pc'[h] \in Holding =>
            /\ cids'[h] = region'[h] \cap bound'
            /\ IF BufferRadius' = 0 THEN region'[h] = {h} /\ window'[h] = {h} ELSE Carried(h)'
    BY <1>1, HeldKept
  <2> QED BY <2>1, <2>2 DEF HeldExact
<1>5. WindowAwaited'
  BY <1>t, <1>1, <1>2 DEF SyndromeIInv, WindowAwaited
<1>6. CommittedSeen'
  BY <1>t, <1>1, <1>2 DEF CommittedSeen
<1>7. DecodersExact'
  <2> SUFFICES ASSUME NEW h \in Gadgets, pc'[h] = "decoder" PROVE DecodesExactly(h)'
    BY DEF DecodersExact
  <2>1. pc[h] = "decoder" /\ DecodesExactly(h) /\ Vertices(h) \subseteq syndrome
    BY <1>t, <1>1 DEF SyndromeIInv, DecodersExact, WindowAwaited
  <2>2. \A e \in edges[h] : e.owner \notin committed'
    BY <1>1, <2>1 DEF DecodesExactly, IsUsable
  <2>3. flipped' \cap Vertices(h) = flipped \cap Vertices(h)
    BY <1>1, <2>1
  <2> QED BY <1>1, <2>1, <2>2, <2>3, DecodedKept
<1>8. x \notin Parity(corrections) /\ Parity(corrections)' = Parity(corrections)
  BY <1>t, <1>1, ParityTouched DEF Corrected, Parity
<1>9. Corrected'
  <2>1. flipped' \subseteq syndrome' /\ IsFiniteSet(corrections)'
    BY <1>t, <1>1 DEF Corrected
  <2>2. \A e \in corrections' : e.owner \in committed' /\ e.checks \subseteq syndrome'
    BY <1>t, <1>1 DEF Corrected
  <2>3. \A y \in syndrome' : y \in flipped' <=> ~(y \in origin' <=> y \in Parity(corrections)')
    BY <1>t, <1>1, <1>8 DEF Corrected
  <2> QED BY <2>1, <2>2, <2>3 DEF Corrected
<1>10. \* What flips x is not committed.
       ASSUME x \in origin
       PROVE  /\ \E o \in Gadgets \ committed : x \in Flips(problem, o)
              /\ BufferRadius = 0 => x \notin committed
  <2>1. PICK o \in Gadgets : x \in Flips(problem, o)
    BY <1>t, <1>10 DEF Explicable
  <2>2. x \notin committed
    BY <1>t, <1>1 DEF CommittedSeen
  <2>3. CASE BufferRadius = 0
    <3>1. \E i \in DOMAIN problem.errors[x] : problem.errors[x][i] = {0}
      BY <1>t, <2>1, <2>3, ProblemReach DEF ExplainedAlone
    <3>2. x \in Flips(problem, x)
      BY <3>1 DEF Flips
    <3> QED BY <2>2, <3>2
  <2>4. CASE BufferRadius > 0
    <3>1. o = x \/ o \in circuit.checks
      BY <1>t, <2>1, <2>4, ProblemReach DEF ErrorsWithin
    <3>2. o \in committed => o \in bound
      BY <1>t, <1>1, <3>1 DEF ProgramExecuted
    <3>3. o \notin committed
      BY <1>t, <1>1, <2>1, <2>4, <3>2 DEF CommittedSeen
    <3> QED BY <2>1, <2>2, <3>3
  <2> QED BY <1>t, <2>3, <2>4
<1>11. Explicable'
  BY <1>t, <1>1, <1>2, <1>10 DEF Explicable
<1> QED BY <1>t, <1>1, <1>3, <1>4, <1>5, <1>6, <1>7, <1>9, <1>11 DEF SyndromeIInv

-----------------------------------------------------------------------------
(* What a decoder is given.                                                *)

\* The values of a function over a finite set are finitely many.
LEMMA ValuesFinite ==
    ASSUME NEW f, IsFiniteSet(DOMAIN f)
    PROVE  IsFiniteSet({f[i] : i \in DOMAIN f})
<1> DEFINE T == {f[i] : i \in DOMAIN f}
           h == [i \in DOMAIN f |-> f[i]]
<1>1. h \in Surjection(DOMAIN f, T)
  BY DEF Surjection
<1> HIDE DEF T, h
<1>2. IsFiniteSet(T)
  BY <1>1, FS_Surjection
<1> QED BY <1>2 DEF T

\* A window has finitely many errors.
LEMMA HypergraphFinite ==
    ASSUME TypeOK, ProblemOK, NEW g \in Gadgets
    PROVE  IsFiniteSet(DecodingHypergraph(g))
<1> DEFINE S == Inside(g) \cup Outside(g)
           all(x) == [n \in DOMAIN Model(x) |-> Edge(g, x, n)]
           of == [x \in S |-> EdgesOf(g, x)]
<1>1. S \subseteq Gadgets
  BY ProgramLists
<1>2. IsFiniteSet(S)
  BY <1>1, WindowAssumption, FS_Subset
<1>3. ASSUME NEW x \in S PROVE IsFiniteSet(EdgesOf(g, x))
  <2>1. DOMAIN Model(x) = 1 .. Len(Model(x)) /\ Len(Model(x)) \in Nat
    BY <1>1, ProblemTypes
  <2>2. IsFiniteSet(1 .. Len(Model(x)))
    BY <2>1, FS_Interval
  <2>3. DOMAIN all(x) = 1 .. Len(Model(x))
    BY <2>1
  <2>4. EdgesOf(g, x) \subseteq {all(x)[n] : n \in DOMAIN all(x)}
    BY DEF EdgesOf
  <2> HIDE DEF all
  <2>5. IsFiniteSet({all(x)[n] : n \in DOMAIN all(x)})
    BY <2>2, <2>3, ValuesFinite
  <2> QED BY <2>4, <2>5, FS_Subset
<1>4. DecodingHypergraph(g) = UNION {of[x] : x \in DOMAIN of}
  BY DEF DecodingHypergraph
<1>5. DOMAIN of = S /\ \A x \in S : of[x] = EdgesOf(g, x)
  OBVIOUS
<1> HIDE DEF S, of
<1>6. IsFiniteSet({of[x] : x \in DOMAIN of})
  BY <1>2, <1>5, ValuesFinite
<1>7. \A T \in {of[x] : x \in DOMAIN of} : IsFiniteSet(T)
  BY <1>3, <1>5
<1> QED BY <1>4, <1>6, <1>7, FS_UNION

\* An error model is used as it is, or cut down.
LEMMA ModelIs ==
    ASSUME TypeOK, ProblemOK, NEW x \in Gadgets, NEW n \in DOMAIN Model(x)
    PROVE  n \in DOMAIN problem.errors[x] /\ Model(x)[n] \subseteq problem.errors[x][n]
BY ProblemReach DEF Model, TerminalCutDown

\* An error flips nothing but its owner's check only if it has no other place.
LEMMA PlaceFlips ==
    ASSUME TypeOK, ProblemOK, NEW x \in Gadgets, NEW i \in DOMAIN problem.errors[x],
           NEW s \in problem.errors[x][i], s # 0
    PROVE  Check(x, s) \in Flips(problem, x) \ {x}
<1>1. IsProblem(problem)
  BY ProblemAssumption DEF TypeOK, ProblemOK
<1>2. /\ problem.remotes[x] \in Seq(Gadgets \ {x})
      /\ problem.errors[x] \in Seq(SUBSET (0 .. Len(problem.remotes[x])))
  BY <1>1 DEF IsProblem
<1>3. s \in 0 .. Len(problem.remotes[x]) /\ Len(problem.remotes[x]) \in Nat
  BY <1>2
<1>4. s \in 1 .. Len(problem.remotes[x])
  BY <1>3
<1>5. problem.remotes[x][s] \in Gadgets \ {x}
  BY <1>2, <1>4
<1>6. Check(x, s) \in Flips(problem, x)
  BY DEF Check, Flips
<1> QED BY <1>5, <1>6 DEF Check

\* A gadget of the commit region whose error model is not there flips its own check
\* only, as its terminal error model does.
LEMMA UnattachedLocal ==
    ASSUME IInv, ProblemOK, ProgramExecuted, HeldExact,
           NEW g \in Gadgets, pc[g] \in Holding, AwaitedModels(window[g]) \subseteq attached,
           NEW x \in cids[g], x \notin attached
    PROVE  /\ \A i \in DOMAIN problem.terminal[x] : problem.terminal[x][i] = problem.errors[x][i]
           /\ BufferRadius > 0 => Flips(problem, x) \subseteq {x}
<1>t. /\ TypeOK /\ Base /\ CommitOnce /\ BufferOnAllSides /\ x \in Gadgets /\ BufferRadius \in Nat
      /\ x \in region[g] /\ x \in bound
  BY ConfigTypes DEF IInv, Base, TypeOK, HeldExact
<1>1. CASE BufferRadius = 0
  BY <1>t, <1>1, ProblemReach DEF ExplainedAlone
<1>2. CASE BufferRadius > 0
  <2>1. x \in window[g] /\ x \notin committed
    BY <1>t DEF CommitOnce
  <2>2. x \in TerminalBoundary(window[g])
    BY <1>t, <2>1 DEF AwaitedModels
  <2>3. Flips(problem, x) \subseteq window[g]
    BY <1>t, <1>2, FlipsInside DEF Vertices
  <2>4. \A y \in Flips(problem, x) \ {x} : x \in Closure(circuit.inputs[y], circuit.inputs)
    BY <1>t, <1>2, ProblemReach DEF ErrorsWithin
  <2>5. Flips(problem, x) \subseteq {x}
    BY <2>2, <2>3, <2>4 DEF TerminalBoundary
  <2>6. ASSUME NEW i \in DOMAIN problem.terminal[x]
        PROVE  problem.terminal[x][i] = problem.errors[x][i]
    <3>1. /\ i \in DOMAIN problem.errors[x]
          /\ problem.errors[x][i] \cap {0} \subseteq problem.terminal[x][i]
          /\ problem.terminal[x][i] \subseteq problem.errors[x][i]
      BY <1>t, ProblemReach DEF TerminalCutDown
    <3>2. problem.errors[x][i] \subseteq {0}
      BY <1>t, <2>5, <3>1, PlaceFlips
    <3> QED BY <3>1, <3>2
  <2> QED BY <2>5, <2>6
<1> QED BY <1>t, <1>1, <1>2

\* The errors of the window are usable.
LEMMA WindowUsable ==
    ASSUME IInv, ProblemOK, ProgramExecuted, HeldExact,
           NEW g \in Gadgets, pc[g] \in Holding, AwaitedModels(window[g]) \subseteq attached,
           NEW e \in DecodingHypergraph(g)
    PROVE  IsUsable(g, e)
<1>t. /\ TypeOK /\ Base /\ CommitOnce /\ BufferRadius \in Nat
      /\ cids[g] \subseteq region[g] \cap bound /\ region[g] \subseteq window[g] \ committed
      /\ attached \subseteq bound /\ bound \subseteq Gadgets
  BY ConfigTypes DEF IInv, Base, TypeOK, HeldExact, CommitOnce
<1>1. PICK x \in Inside(g) \cup Outside(g) : e \in EdgesOf(g, x)
  BY DEF DecodingHypergraph
<1>2. PICK n \in DOMAIN Model(x) :
          ~Dropped(g, x, Model(x)[n]) /\ e = Edge(g, x, n) /\ e.checks # {}
  BY <1>1 DEF EdgesOf
<1>3. x \in bound \ committed /\ x \in Gadgets
  BY <1>t DEF Inside, Outside, Vertices
<1>4. n \in DOMAIN problem.errors[x] /\ Model(x)[n] \subseteq problem.errors[x][n]
  BY <1>t, <1>3, ModelIs
<1>5. /\ e = [owner |-> x, index |-> n, prior |-> problem.prior[x],
              checks |-> Checks(x, Model(x)[n]) \cap Vertices(g)]
      /\ e.owner = x /\ e.index = n
      /\ e.checks = Checks(x, Model(x)[n]) \cap Vertices(g)
      /\ e = [owner |-> e.owner, index |-> e.index, prior |-> e.prior, checks |-> e.checks]
  BY <1>2 DEF Edge
<1>6. Checks(x, Model(x)[n]) \subseteq Checks(x, problem.errors[x][n])
  BY <1>4 DEF Checks
<1>7. ASSUME x \in cids[g]
      PROVE  /\ e.checks = Checks(x, problem.errors[x][n])
             /\ \/ x \in attached
                \/ n \in DOMAIN problem.terminal[x] /\ problem.terminal[x][n] = problem.errors[x][n]
  <2>1. \A s \in Model(x)[n] : Check(x, s) \in Vertices(g)
    <3>1. x \in Vertices(g)
      BY <1>t, <1>7 DEF Vertices
    <3> QED BY <1>2, <1>7, <3>1 DEF Dropped, Check
  <2>2. e.checks = Checks(x, Model(x)[n])
    BY <1>5, <2>1 DEF Checks
  <2>3. CASE x \in attached
    BY <2>2, <2>3 DEF Model
  <2>4. CASE x \notin attached
    <3>1. Model(x) = problem.terminal[x]
      BY <2>4 DEF Model
    <3>2. problem.terminal[x][n] = problem.errors[x][n]
      BY <1>2, <1>7, <2>4, <3>1, UnattachedLocal
    <3> QED BY <1>2, <2>2, <3>1, <3>2
  <2> QED BY <2>3, <2>4
<1>8. BufferRadius = 0 => x = g
  BY <1>1 DEF Inside, Outside, Vertices, HeldExact
<1> QED BY <1>2, <1>3, <1>4, <1>5, <1>6, <1>7, <1>8 DEF IsUsable

\* Whatever an error of the commit region flips in the window, an error of the
\* hypergraph flips.
LEMMA WindowCovered ==
    ASSUME IInv, ProblemOK, ProgramExecuted, HeldExact,
           NEW g \in Gadgets, pc[g] \in Holding, AwaitedModels(window[g]) \subseteq attached,
           NEW o \in cids[g], NEW y \in Flips(problem, o) \cap Vertices(g)
    PROVE  \E e \in DecodingHypergraph(g) : y \in e.checks
<1>t. /\ TypeOK /\ Base /\ CommitOnce /\ BufferOnAllSides /\ BufferRadius \in Nat
      /\ o \in region[g] /\ o \in bound /\ o \in window[g] /\ o \notin committed
      /\ attached \subseteq bound /\ bound \subseteq Gadgets /\ o \in Gadgets
  BY ConfigTypes DEF IInv, Base, TypeOK, HeldExact, CommitOnce
<1>1. o \in Inside(g) /\ o \in Vertices(g)
  BY <1>t DEF Inside, Vertices
<1>2. \* It is enough that an error of its model has y, and all its checks inside.
      ASSUME NEW n \in DOMAIN Model(o), y \in Checks(o, Model(o)[n]),
             \A s \in Model(o)[n] \ {0} : Check(o, s) \in Vertices(g)
      PROVE  \E e \in DecodingHypergraph(g) : y \in e.checks
  <2> DEFINE e == Edge(g, o, n)
  <2>1. e.checks = Checks(o, Model(o)[n]) \cap Vertices(g)
    BY DEF Edge
  <2>2. ~Dropped(g, o, Model(o)[n]) /\ y \in e.checks
    BY <1>2, <2>1 DEF Dropped
  <2>3. e \in EdgesOf(g, o)
    BY <2>2 DEF EdgesOf
  <2> HIDE DEF e
  <2> QED BY <1>1, <2>2, <2>3 DEF DecodingHypergraph
<1>3. \* So it is enough that its model has an error of its own check alone, where y
      \* is that check.
      ASSUME y = o, NEW n \in DOMAIN Model(o), Model(o)[n] = {0}
      PROVE  \E e \in DecodingHypergraph(g) : y \in e.checks
  <2>1. Check(o, 0) = o
    BY DEF Check
  <2>2. y \in Checks(o, Model(o)[n])
    BY <1>3, <2>1 DEF Checks
  <2> QED BY <1>2, <1>3, <2>2
<1>4. CASE BufferRadius = 0
  <2>1. o = g /\ y = g
    BY <1>t, <1>4 DEF HeldExact, Vertices
  <2>2. /\ \E i \in DOMAIN problem.errors[y] : problem.errors[y][i] = {0}
        /\ \E i \in DOMAIN problem.terminal[y] : problem.terminal[y][i] = {0}
    BY <1>t, <1>4, ProblemReach DEF ExplainedAlone
  <2> QED BY <1>3, <2>1, <2>2 DEF Model
<1>5. CASE BufferRadius > 0
  <2>1. Flips(problem, o) \subseteq Vertices(g)
    BY <1>t, <1>5, FlipsInside
  <2>2. PICK i \in DOMAIN problem.errors[o] : y \in Checks(o, problem.errors[o][i])
    BY <1>t, FlipsIs
  <2>3. CASE o \in attached
    <3>1. Model(o) = problem.errors[o]
      BY <2>3 DEF Model
    <3>2. \A s \in problem.errors[o][i] \ {0} : Check(o, s) \in Vertices(g)
      BY <1>t, <2>1, PlaceFlips
    <3> QED BY <1>2, <2>2, <3>1, <3>2
  <2>4. CASE o \notin attached
    <3>1. /\ \A j \in DOMAIN problem.terminal[o] : problem.terminal[o][j] = problem.errors[o][j]
          /\ Flips(problem, o) \subseteq {o}
      BY <1>5, <2>4, UnattachedLocal
    <3>2. Model(o) = problem.terminal[o] /\ y = o
      BY <2>4, <3>1 DEF Model
    <3>3. \A j \in DOMAIN problem.errors[o] : problem.errors[o][j] \subseteq {0}
      BY <1>t, <3>1, PlaceFlips
    <3>4. 0 \in problem.errors[o][i]
      BY <2>2, <3>3 DEF Checks
    <3>5. PICK j \in DOMAIN problem.terminal[o] : 0 \in problem.terminal[o][j]
      BY <1>t, <3>4, ProblemReach DEF TerminalCutDown
    <3>6. j \in DOMAIN problem.errors[o]
      BY <1>t, ProblemReach DEF TerminalCutDown
    <3>7. problem.terminal[o][j] = {0}
      BY <3>1, <3>3, <3>5, <3>6
    <3> QED BY <1>3, <3>2, <3>7
  <2> QED BY <2>3, <2>4
<1> QED BY <1>t, <1>4, <1>5

\* A leader takes its decoder.
LEMMA DecodeKeeps ==
    ASSUME SInv, TypeOK', NEW g \in Gadgets, DecodeParityFactor(g)
    PROVE  SyndromeIInv'
<1>t. /\ SyndromeIInv /\ Base /\ IInv /\ ProblemOK /\ TypeOK /\ ValueIInv
      /\ ProgramExecuted /\ HeldExact /\ WindowAwaited /\ pc \in [Gadgets -> PC]
      /\ waiting \in [Gadgets -> SUBSET executed]
      /\ DOMAIN edges = Gadgets /\ DOMAIN read = Gadgets
  BY DEF SInv, SyndromeIInv, IInv, ValueIInv, Base, TypeOK
<1>1. /\ UNCHANGED <<circuit, config, executed, bound, attached, syndrome, committed>>
      /\ UNCHANGED <<remote, region, cids, window, problem, origin, flipped, corrections>>
      /\ pc[g] = "errors" /\ pc'[g] = "decoder"
      /\ \A h \in Gadgets \ {g} : pc'[h] = pc[h] /\ waiting'[h] = waiting[h]
      /\ waiting[g] \subseteq attached
  BY <1>t DEF DecodeParityFactor, AwaitWindowModels, Goto, Await, program, shared, states
<1>2. /\ edges'[g] = DecodingHypergraph(g) /\ DOMAIN edges' = Gadgets
      /\ read'[g] = IgnoreIsolated(edges'[g], flipped \cap Vertices(g))
      /\ DOMAIN read' = Gadgets
      /\ \A h \in Gadgets \ {g} : edges'[h] = edges[h] /\ read'[h] = read[h]
  <2>1. PICK p, key : DecodeWith(g, p, key)
    BY DEF DecodeParityFactor, DecodeProgram
  <2>2. \A h \in Gadgets \ {g} : edges'[h] = edges[h] /\ read'[h] = read[h]
    BY <1>t, <2>1 DEF DecodeWith
  <2>3. DOMAIN read' = Gadgets /\ read'[g] = IgnoreIsolated(edges'[g], flipped \cap Vertices(g))
    BY <1>t, <2>1 DEF DecodeWith
  <2> QED BY <1>t, <2>2, <2>3, DecodeStep
<1>3. /\ BufferRadius' = BufferRadius /\ \A h : Vertices(h)' = Vertices(h)
      /\ \A h : AwaitedModels(window[h])' = AwaitedModels(window[h])
      /\ \A x, e : Checks(x, e)' = Checks(x, e)
      /\ \A o : Flips(problem, o)' = Flips(problem, o)
  BY <1>1 DEF BufferRadius, Vertices, AwaitedModels, TerminalBoundary, Checks, Check, Flips
<1>4. ProgramExecuted'
  BY <1>t, <1>1 DEF ProgramExecuted
<1>5. HeldExact'
  <2>1. BufferRadius' = 0 => \A h \in Gadgets : remote'[h] = {}
    BY <1>t, <1>1, <1>3 DEF HeldExact
  <2>2. \A h \in Gadgets : pc'[h] \in Holding => pc[h] \in Holding
    BY <1>1 DEF Holding
  <2>3. \A h \in Gadgets : pc'[h] \in Holding =>
            /\ cids'[h] = region'[h] \cap bound'
            /\ IF BufferRadius' = 0 THEN region'[h] = {h} /\ window'[h] = {h} ELSE Carried(h)'
    BY <1>1, <2>2, HeldKept
  <2> QED BY <2>1, <2>3 DEF HeldExact
<1>6. WindowAwaited'
  BY <1>t, <1>1, <1>3 DEF WindowAwaited
<1>7. CommittedSeen'
  BY <1>t, <1>1, <1>3 DEF SyndromeIInv, CommittedSeen
<1>8. DecodesExactly(g)'
  <2>1. pc[g] \in Holding /\ AwaitedModels(window[g]) \subseteq attached
    BY <1>t, <1>1 DEF WindowAwaited, Holding
  <2>2. IsFiniteSet(edges'[g])
    BY <1>t, <1>2, HypergraphFinite
  <2>3. ASSUME NEW e \in edges'[g] PROVE IsUsable(g, e)'
    <3>1. IsUsable(g, e)
      BY <1>t, <1>2, <2>1, WindowUsable
    <3> QED BY <1>1, <1>3, <3>1 DEF IsUsable
  <2>4. Reached(g)' = UNION {e.checks : e \in edges'[g]}
    BY DEF Reached
  <2>5. read'[g] = flipped' \cap Vertices(g)' \cap Reached(g)'
    BY <1>1, <1>2, <1>3, <2>4 DEF IgnoreIsolated
  <2>6. \A o \in cids'[g] : Flips(problem, o)' \cap Vertices(g)' \subseteq Reached(g)'
    <3>1. \A o \in cids[g] : \A y \in Flips(problem, o) \cap Vertices(g) :
              \E e \in edges'[g] : y \in e.checks
      BY <1>t, <1>2, <2>1, WindowCovered
    <3> QED BY <1>1, <1>3, <2>4, <3>1
  <2> QED BY <2>2, <2>3, <2>5, <2>6 DEF DecodesExactly
<1>9. DecodersExact'
  <2> SUFFICES ASSUME NEW h \in Gadgets \ {g}, pc'[h] = "decoder" PROVE DecodesExactly(h)'
    BY <1>8 DEF DecodersExact
  <2>1. pc[h] = "decoder" /\ DecodesExactly(h)
    BY <1>t, <1>1 DEF SyndromeIInv, DecodersExact
  <2>2. \A e \in edges[h] : e.owner \notin committed'
    BY <1>1, <2>1 DEF DecodesExactly, IsUsable
  <2> QED BY <1>1, <1>2, <2>1, <2>2, DecodedKept
<1>10. Corrected' /\ Explicable'
  BY <1>t, <1>1, <1>3 DEF SyndromeIInv, Corrected, Explicable, Parity
<1> QED BY <1>2, <1>4, <1>5, <1>6, <1>7, <1>9, <1>10 DEF SyndromeIInv

-----------------------------------------------------------------------------
(* What a commit keeps.                                                    *)

\* A commit leaves the other leaders as they are.
LEMMA CommitEffect ==
    ASSUME SInv, NEW g \in Gadgets, Fixes(g)
    PROVE  /\ UNCHANGED <<circuit, config, executed, bound, attached, syndrome>>
           /\ pc[g] \in Holding /\ pc'[g] = "frame" /\ remote'[g] = {}
           /\ committed' = committed \cup region[g]
           /\ \A h \in Gadgets \ {g} :
                 /\ pc'[h] = pc[h] /\ waiting'[h] = waiting[h] /\ remote'[h] = remote[h]
                 /\ region'[h] = region[h] /\ cids'[h] = cids[h] /\ window'[h] = window[h]
<1>t. /\ pc \in [Gadgets -> PC] /\ waiting \in [Gadgets -> SUBSET executed]
      /\ region \in [Gadgets -> SUBSET executed] /\ cids \in [Gadgets -> SUBSET executed]
      /\ window \in [Gadgets -> SUBSET executed]
      /\ remote \in [Gadgets -> SUBSET (executed \X executed)]
  BY DEF SInv, IInv, Base, TypeOK
<1>1. pc[g] \in Holding /\ committed' = committed \cup region[g] /\ pc' = [pc EXCEPT ![g] = "frame"]
  BY FixesEffect
<1>2. Forget(g) /\ UNCHANGED <<circuit, config, executed, bound, attached, syndrome>>
  BY DEF Fixes, CommitUnchecked, DecoderAnswers, program, shared
<1> QED BY <1>t, <1>1, <1>2 DEF Forget

LEMMA CommitControl ==
    ASSUME SInv, TypeOK', NEW g \in Gadgets, Fixes(g)
    PROVE  ProgramExecuted' /\ HeldExact' /\ WindowAwaited'
<1>t. ProgramExecuted /\ HeldExact /\ WindowAwaited
  BY DEF SInv, SyndromeIInv
<1>1. /\ UNCHANGED <<circuit, config, executed, bound, attached, syndrome>>
      /\ pc[g] \in Holding /\ pc'[g] = "frame" /\ remote'[g] = {}
      /\ committed' = committed \cup region[g]
      /\ \A h \in Gadgets \ {g} :
            /\ pc'[h] = pc[h] /\ waiting'[h] = waiting[h] /\ remote'[h] = remote[h]
            /\ region'[h] = region[h] /\ cids'[h] = cids[h] /\ window'[h] = window[h]
  BY CommitEffect
<1>2. BufferRadius' = BufferRadius /\ \A h \in Gadgets \ {g} : Vertices(h)' = Vertices(h)
  BY <1>1 DEF BufferRadius, Vertices
<1>3. ProgramExecuted'
  BY <1>t, <1>1 DEF ProgramExecuted, Holding
<1>4. HeldExact'
  <2>1. BufferRadius' = 0 => \A h \in Gadgets : remote'[h] = {}
    BY <1>t, <1>1, <1>2 DEF HeldExact
  <2>2. \A h \in Gadgets : pc'[h] \in Holding => h # g /\ pc[h] \in Holding
    BY <1>1 DEF Holding
  <2>3. \A h \in Gadgets : pc'[h] \in Holding =>
            /\ cids'[h] = region'[h] \cap bound'
            /\ IF BufferRadius' = 0 THEN region'[h] = {h} /\ window'[h] = {h} ELSE Carried(h)'
    BY <1>1, <2>2, HeldKept
  <2> QED BY <2>1, <2>3 DEF HeldExact
<1>5. WindowAwaited'
  <2>1. \A h \in Gadgets \ {g} : AwaitedModels(window[h])' \subseteq AwaitedModels(window[h])
    BY <1>1, AwaitedShrinks
  <2> QED BY <1>t, <1>1, <1>2, <2>1 DEF WindowAwaited
<1> QED BY <1>3, <1>4, <1>5

\* The windows of two leaders have nothing in common.
LEMMA WindowsApart ==
    ASSUME ReservationsExact, NEW g \in Gadgets, NEW h \in Gadgets \ {g},
           pc[g] \in Holding, pc[h] \in Holding
    PROVE  window[g] \cap window[h] = {}
BY DEF ReservationsExact

\* With a buffer, whatever flips a check that has a check model has one, too.
LEMMA FlipsBound ==
    ASSUME Base, ProblemOK, ProgramExecuted, NEW g \in Gadgets, pc[g] \in Holding,
           BufferRadius > 0, NEW o \in Gadgets, NEW x \in Flips(problem, o), x \in bound
    PROVE  o \in bound
<1>1. circuit.checks \subseteq bound
  BY DEF ProgramExecuted, Holding
<1>2. o = x \/ o \in circuit.checks
  BY ProblemReach DEF ErrorsWithin, Base
<1> QED BY <1>1, <1>2

\* Without a buffer, a check that anything flips is flipped by its own gadget.
LEMMA FlipsAlone ==
    ASSUME TypeOK, ProblemOK, BufferRadius = 0, NEW o \in Gadgets, NEW x \in Flips(problem, o)
    PROVE  x \in Flips(problem, x)
<1>1. \E i \in DOMAIN problem.errors[x] : problem.errors[x][i] = {0}
  BY ProblemReach DEF ExplainedAlone
<1> QED BY <1>1 DEF Flips

\* A region without checks brings no corrections.
LEMMA UncheckedKeeps ==
    ASSUME SInv, TypeOK', NEW g \in Gadgets, CommitUnchecked(g), UNCHANGED values
    PROVE  SyndromeIInv'
<1> USE DEF values
<1>t. /\ SyndromeIInv /\ Base /\ IInv /\ ProblemOK /\ TypeOK /\ BufferRadius \in Nat
      /\ ProgramExecuted /\ HeldExact /\ CommittedSeen /\ Corrected /\ Explicable
      /\ committed \subseteq Gadgets /\ syndrome \subseteq bound
  BY ConfigTypes DEF SInv, SyndromeIInv, IInv, ValueIInv, Base, TypeOK
<1>1. /\ UNCHANGED <<circuit, config, executed, bound, attached, syndrome>>
      /\ pc[g] \in Holding /\ pc'[g] = "frame"
      /\ committed' = committed \cup region[g]
      /\ \A h \in Gadgets \ {g} :
            pc'[h] = pc[h] /\ cids'[h] = cids[h] /\ window'[h] = window[h]
  BY CommitEffect DEF Fixes
<1>2. /\ BufferRadius' = BufferRadius /\ \A h \in Gadgets \ {g} : Vertices(h)' = Vertices(h)
      /\ \A o : Flips(problem, o)' = Flips(problem, o)
  BY <1>1 DEF BufferRadius, Vertices, Flips
<1>3. region[g] \cap bound = {}
  BY <1>t, <1>1 DEF HeldExact, CommitUnchecked
<1>4. CommittedSeen'
  BY <1>t, <1>1, <1>2, <1>3 DEF CommittedSeen
<1>5. DecodersExact'
  <2> SUFFICES ASSUME NEW h \in Gadgets, pc'[h] = "decoder" PROVE DecodesExactly(h)'
    BY DEF DecodersExact
  <2>1. pc[h] = "decoder" /\ DecodesExactly(h) /\ h # g
    BY <1>t, <1>1 DEF SyndromeIInv, DecodersExact
  <2>2. \A e \in edges[h] : e.owner \notin committed'
    BY <1>1, <1>3, <2>1 DEF DecodesExactly, IsUsable
  <2> QED BY <1>1, <2>1, <2>2, DecodedKept
<1>6. Corrected'
  BY <1>t, <1>1 DEF Corrected, Parity
<1>7. ASSUME NEW x \in flipped
      PROVE  /\ \E o \in Gadgets \ committed' : x \in Flips(problem, o)
             /\ BufferRadius = 0 => x \notin committed'
  <2>1. x \in bound /\ x \notin region[g]
    BY <1>t, <1>3 DEF Corrected
  <2>2. PICK o \in Gadgets \ committed : x \in Flips(problem, o)
    BY <1>t DEF Explicable
  <2>3. CASE BufferRadius = 0
    <3>1. x \in Flips(problem, x) /\ x \notin committed'
      BY <1>t, <1>1, <2>1, <2>2, <2>3, FlipsAlone DEF Explicable
    <3> QED BY <1>t, <2>1, <3>1 DEF TypeOK
  <2>4. CASE BufferRadius > 0
    <3>1. o \in bound
      BY <1>t, <1>1, <2>1, <2>2, <2>4, FlipsBound
    <3> QED BY <1>1, <1>3, <2>2, <2>4, <3>1
  <2> QED BY <1>t, <2>3, <2>4
<1>8. Explicable'
  BY <1>t, <1>1, <1>2, <1>7 DEF Explicable
<1>9. ProgramExecuted' /\ HeldExact' /\ WindowAwaited'
  BY CommitControl DEF Fixes
<1> QED BY <1>t, <1>4, <1>5, <1>6, <1>8, <1>9 DEF SyndromeIInv

\* The errors that are fixed are those of the explanation that the region owns, with
\* the checks they had in the hypergraph.
LEMMA FixedIs ==
    ASSUME NEW g \in Gadgets, DecodesExactly(g), NEW F \in SUBSET edges[g]
    PROVE  /\ Fixed(g, F) = {e \in F : e.owner \in cids[g]}
           /\ Fixed(g, F) \subseteq F /\ IsFiniteSet(F) /\ IsFiniteSet(Fixed(g, F))
<1>1. ASSUME NEW e \in F, e.owner \in cids[g] PROVE Whole(e) = e
  <2>1. IsUsable(g, e)
    BY DEF DecodesExactly
  <2>2. /\ e = [owner |-> e.owner, index |-> e.index, prior |-> e.prior, checks |-> e.checks]
        /\ e.checks = Checks(e.owner, problem.errors[e.owner][e.index])
        /\ \/ e.owner \in attached
           \/ problem.terminal[e.owner][e.index] = problem.errors[e.owner][e.index]
    BY <1>1, <2>1 DEF IsUsable
  <2>3. e.checks = Checks(e.owner, Model(e.owner)[e.index])
    BY <2>2 DEF Model
  <2>4. [e EXCEPT !.checks = e.checks] = e
    BY <2>2
  <2> QED BY <2>3, <2>4 DEF Whole
<1>2. Fixed(g, F) = {e \in F : e.owner \in cids[g]}
  <2>1. Fixed(g, F) = {Whole(e) : e \in {e \in F : e.owner \in cids[g]}}
    BY DEF Fixed
  <2> QED BY <1>1, <2>1
<1>3. IsFiniteSet(F)
  BY FS_Subset DEF DecodesExactly
<1> QED BY <1>2, <1>3, FS_Subset

\* Where a check is flipped after a commit, an error of the explanation that was not
\* fixed flips it, or it was flipped before and no error of the window reaches it.
LEMMA StillFlipped ==
    ASSUME NEW g \in Gadgets, DecodesExactly(g), NEW F \in Explanations(g),
           NEW x \in Xor(flipped, Parity(Fixed(g, F)))
    PROVE  \/ \E e \in F : e.owner \notin cids[g] /\ x \in e.checks
           \/ x \in flipped /\ ~(x \in Vertices(g) /\ x \in Reached(g))
<1> DEFINE R == Fixed(g, F)
<1>1. F \in SUBSET edges[g] /\ Parity(F) = read[g]
  BY DEF Explanations
<1>2. R = {e \in F : e.owner \in cids[g]} /\ R \in SUBSET F
  BY <1>1, FixedIs
<1>3. read[g] = flipped \cap Vertices(g) \cap Reached(g)
  BY DEF DecodesExactly
<1>4. x \in flipped <=> x \notin Parity(R)
  BY DEF Xor
<1> HIDE DEF R
<1>5. SUFFICES ASSUME \A e \in F \ R : x \notin e.checks
               PROVE  x \in flipped /\ ~(x \in Vertices(g) /\ x \in Reached(g))
  BY <1>2
<1>6. x \in Parity(F) <=> x \in Parity(R)
  BY <1>2, <1>5, ParityLocal
<1> QED BY <1>1, <1>3, <1>4, <1>6

\* A leader commits what its decoder answers.
LEMMA UpdateKeeps ==
    ASSUME SInv, TypeOK', NEW g \in Gadgets, UpdatePauliFrame(g)
    PROVE  SyndromeIInv'
<1>t. /\ SyndromeIInv /\ Base /\ IInv /\ ProblemOK /\ TypeOK /\ BufferRadius \in Nat
      /\ ProgramExecuted /\ HeldExact /\ WindowAwaited /\ CommittedSeen /\ Corrected /\ Explicable
      /\ ReservationsExact /\ CommitOnce /\ BufferOnAllSides
      /\ DOMAIN edges = Gadgets /\ DOMAIN read = Gadgets
      /\ committed \subseteq Gadgets /\ syndrome \subseteq bound /\ bound \subseteq Gadgets
  BY ConfigTypes DEF SInv, SyndromeIInv, IInv, ValueIInv, Base, TypeOK
<1>1. DecoderAnswers(g) /\ pc[g] = "decoder" /\ pc[g] \in Holding
  BY DEF UpdatePauliFrame, DecoderAnswers, Goto, Holding
<1>2. /\ UNCHANGED <<circuit, config, executed, bound, attached, syndrome>>
      /\ pc'[g] = "frame"
      /\ committed' = committed \cup region[g]
      /\ \A h \in Gadgets \ {g} :
            pc'[h] = pc[h] /\ cids'[h] = cids[h] /\ window'[h] = window[h]
  BY <1>1, CommitEffect DEF Fixes
<1>3. PICK F \in Explanations(g) : Correct(Fixed(g, F))
  BY DEF UpdatePauliFrame
<1> DEFINE R == Fixed(g, F)
<1>4. /\ corrections' = corrections \cup R /\ flipped' = Xor(flipped, Parity(R))
      /\ UNCHANGED <<problem, origin>>
      /\ DOMAIN edges' = Gadgets /\ DOMAIN read' = Gadgets
      /\ \A h \in Gadgets \ {g} : edges'[h] = edges[h] /\ read'[h] = read[h]
  BY <1>t, <1>3 DEF Correct, UpdatePauliFrame
<1>5. /\ BufferRadius' = BufferRadius /\ \A h \in Gadgets \ {g} : Vertices(h)' = Vertices(h)
      /\ \A o : Flips(problem, o)' = Flips(problem, o)
  BY <1>2, <1>4 DEF BufferRadius, Vertices, Flips
<1>6. /\ DecodesExactly(g) /\ Vertices(g) \subseteq syndrome
      /\ cids[g] = region[g] \cap bound /\ region[g] \subseteq window[g] \ committed
      /\ circuit.checks \subseteq bound
  BY <1>t, <1>1 DEF SyndromeIInv, DecodersExact, WindowAwaited, HeldExact, CommitOnce,
                    ProgramExecuted, Holding
<1>7. /\ F \in SUBSET edges[g] /\ R = {e \in F : e.owner \in cids[g]}
      /\ IsFiniteSet(R) /\ \A e \in F : IsUsable(g, e)
  BY <1>6, FixedIs DEF Explanations, DecodesExactly
<1> HIDE DEF R
<1>8. ASSUME NEW e \in F
      PROVE  /\ e.owner \in bound \ committed /\ e.checks \subseteq Vertices(g)
             /\ e.checks \subseteq Flips(problem, e.owner)
             /\ BufferRadius = 0 => e.owner = g
             /\ e.owner \notin cids[g] => e.owner \in Gadgets \ committed'
  <2>1. IsUsable(g, e)
    BY <1>7
  <2>2. e.owner \in Gadgets
    BY <1>t, <2>1 DEF IsUsable
  <2>3. e.checks \subseteq Flips(problem, e.owner)
    BY <1>t, <2>1, <2>2, FlipsIs DEF IsUsable
  <2> QED BY <1>2, <1>6, <2>1, <2>2, <2>3 DEF IsUsable
<1>9. Parity(R) \subseteq Vertices(g)
  BY <1>7, <1>8, ParityTouched
<1>10. CommittedSeen'
  <2> SUFFICES ASSUME NEW o \in committed' \cap bound
               PROVE  o \in syndrome /\ (BufferRadius > 0 => Flips(problem, o) \subseteq syndrome)
    BY <1>2, <1>5 DEF CommittedSeen
  <2>1. CASE o \in committed
    BY <1>t, <2>1 DEF CommittedSeen
  <2>2. CASE o \in region[g]
    <3>1. o \in syndrome
      BY <1>6, <2>2 DEF Vertices
    <3>2. BufferRadius > 0 => Flips(problem, o) \subseteq Vertices(g)
      BY <1>t, <1>1, <2>2, FlipsInside
    <3> QED BY <1>6, <3>1, <3>2
  <2> QED BY <1>2, <2>1, <2>2
<1>11. Corrected'
  <2>1. corrections \cap R = {} /\ IsFiniteSet(corrections)
    BY <1>t, <1>7, <1>8 DEF Corrected
  <2>2. Parity(corrections \cup R) = Xor(Parity(corrections), Parity(R))
    BY <1>7, <2>1, ParityUnion
  <2>3. Parity(corrections)' = Xor(Parity(corrections), Parity(R))
    BY <1>4, <2>2 DEF Parity
  <2>4. flipped' \subseteq syndrome'
    BY <1>t, <1>2, <1>4, <1>6, <1>9 DEF Corrected, Xor
  <2>5. IsFiniteSet(corrections)'
    BY <1>4, <1>7, <2>1, FS_Union
  <2>6. \A e \in corrections' : e.owner \in committed' /\ e.checks \subseteq syndrome'
    BY <1>t, <1>2, <1>4, <1>6, <1>7, <1>8 DEF Corrected
  <2>7. \A x \in syndrome' : x \in flipped' <=> ~(x \in origin' <=> x \in Parity(corrections)')
    BY <1>t, <1>2, <1>4, <2>3 DEF Corrected, Xor
  <2> QED BY <2>4, <2>5, <2>6, <2>7 DEF Corrected
<1>12. ASSUME NEW x \in flipped'
       PROVE  /\ \E o \in Gadgets \ committed' : x \in Flips(problem, o)
              /\ BufferRadius = 0 => x \notin committed'
  <2>1. CASE \E e \in F : e.owner \notin cids[g] /\ x \in e.checks
    <3>1. PICK e \in F : e.owner \notin cids[g] /\ x \in e.checks
      BY <2>1
    <3>2. BufferRadius # 0
      <4>1. BufferRadius = 0 => e.owner = g /\ g \in bound /\ g \in region[g]
        BY <1>t, <1>1, <1>8 DEF HeldExact
      <4> QED BY <1>6, <3>1, <4>1
    <3> QED BY <1>8, <3>1, <3>2
  <2>2. CASE x \in flipped /\ ~(x \in Vertices(g) /\ x \in Reached(g))
    <3>1. PICK o \in Gadgets \ committed : x \in Flips(problem, o)
      BY <1>t, <2>2 DEF Explicable
    <3>2. x \in bound /\ x \in Gadgets
      BY <1>t, <2>2 DEF Corrected
    <3>3. \A y \in cids[g] : x \in Flips(problem, y) => x \notin Vertices(g)
      BY <1>6, <2>2 DEF DecodesExactly
    <3>4. CASE BufferRadius = 0
      <4>1. x \in Flips(problem, x) /\ x \notin committed
        BY <1>t, <2>2, <3>1, <3>4, FlipsAlone DEF Explicable
      <4>2. x \notin region[g]
        BY <1>6, <3>2, <3>3, <4>1 DEF Vertices
      <4> QED BY <1>2, <3>2, <4>1, <4>2
    <3>5. CASE BufferRadius > 0
      <4>1. o \in bound
        BY <1>t, <1>1, <3>1, <3>2, <3>5, FlipsBound
      <4>2. o \notin region[g]
        <5> SUFFICES ASSUME o \in region[g] PROVE FALSE
          OBVIOUS
        <5>1. Flips(problem, o) \subseteq Vertices(g)
          BY <1>t, <1>1, <3>5, <4>1, FlipsInside
        <5> QED BY <1>6, <3>1, <3>3, <4>1, <5>1
      <4> QED BY <1>2, <3>1, <3>5, <4>2
    <3> QED BY <1>t, <3>4, <3>5
  <2>3. x \in Xor(flipped, Parity(Fixed(g, F)))
    BY <1>4 DEF R
  <2> QED BY <1>6, <2>1, <2>2, <2>3, StillFlipped
<1>13. Explicable'
  BY <1>t, <1>2, <1>4, <1>5, <1>12 DEF Explicable
<1>14. DecodersExact'
  <2> SUFFICES ASSUME NEW h \in Gadgets, pc'[h] = "decoder" PROVE DecodesExactly(h)'
    BY DEF DecodersExact
  <2>1. pc[h] = "decoder" /\ DecodesExactly(h) /\ h \in Gadgets \ {g} /\ pc[h] \in Holding
    BY <1>t, <1>2 DEF SyndromeIInv, DecodersExact, Holding
  <2>2. window[g] \cap window[h] = {}
    BY <1>t, <1>1, <2>1, WindowsApart
  <2>3. flipped' \cap Vertices(h) = flipped \cap Vertices(h)
    BY <1>4, <1>9, <2>2 DEF Xor, Vertices
  <2>4. ASSUME NEW e \in edges[h] PROVE e.owner \notin committed'
    <3>1. IsUsable(h, e)
      BY <2>1 DEF DecodesExactly
    <3>2. e.owner \in bound \ committed /\ e.owner \in Gadgets /\ e.index \in DOMAIN problem.errors[e.owner]
      BY <1>t, <3>1 DEF IsUsable
    <3>3. CASE BufferRadius = 0
      <4>1. e.owner = h /\ region[g] = {g}
        BY <1>t, <1>1, <3>1, <3>3 DEF IsUsable, HeldExact
      <4> QED BY <1>2, <2>1, <3>2, <4>1
    <3>4. CASE BufferRadius > 0
      <4> SUFFICES ASSUME e.owner \in region[g] PROVE FALSE
        BY <1>2, <3>2
      <4>1. Flips(problem, e.owner) \subseteq Vertices(g)
        BY <1>t, <1>1, <3>2, <3>4, FlipsInside
      <4>2. e.checks \subseteq Flips(problem, e.owner)
        BY <1>t, <3>1, <3>2, FlipsIs DEF IsUsable
      <4>3. e.checks # {} /\ e.checks \subseteq Vertices(h)
        BY <3>1 DEF IsUsable
      <4> QED BY <2>2, <4>1, <4>2, <4>3 DEF Vertices
    <3> QED BY <1>t, <3>3, <3>4
  <2> QED BY <1>2, <1>4, <2>1, <2>3, <2>4, DecodedKept
<1>15. ProgramExecuted' /\ HeldExact' /\ WindowAwaited'
  BY <1>1, CommitControl DEF Fixes
<1> QED BY <1>4, <1>10, <1>11, <1>13, <1>14, <1>15 DEF SyndromeIInv

-----------------------------------------------------------------------------
(* The invariant.                                                          *)

\* It holds initially.
LEMMA SyndromeIInvInit ==
    ASSUME InitValues
    PROVE  SyndromeIInv
<1>1. /\ Init /\ problem \in Problems[circuit] /\ flipped = {} /\ corrections = {}
      /\ edges = [g \in Gadgets |-> {}] /\ read = [g \in Gadgets |-> {}]
      /\ \E E \in SUBSET AllErrors(problem) : origin = Parity(E)
  BY DEF InitValues
<1>2. ProgramExecuted /\ HeldExact /\ WindowAwaited /\ CommittedSeen /\ DecodersExact
  BY <1>1 DEF Init, ProgramExecuted, HeldExact, WindowAwaited, CommittedSeen, DecodersExact, Holding
<1>3. Corrected
  BY <1>1, FS_EmptySet DEF Init, Corrected
<1>4. \A x \in origin : \E o \in Gadgets : x \in Flips(problem, o)
  <2> SUFFICES ASSUME NEW x \in origin PROVE \E o \in Gadgets : x \in Flips(problem, o)
    OBVIOUS
  <2>1. PICK E \in SUBSET AllErrors(problem) : origin = Parity(E)
    BY <1>1
  <2>2. PICK e \in AllErrors(problem) : x \in e.checks
    BY <2>1, ParityTouched
  <2>3. e.owner \in Gadgets
    BY DEF AllErrors
  <2> QED BY <2>2, <2>3, FlipsByError
<1>5. Explicable
  BY <1>1, <1>4 DEF Explicable
<1> QED BY <1>1, <1>2, <1>3, <1>5 DEF SyndromeIInv

\* Every step keeps it.
LEMMA SyndromeIInvStep ==
    ASSUME SInv, [NextValues]_<<vars, values>>
    PROVE  SyndromeIInv'
<1>1. TypeOK /\ TypeOK' /\ UNCHANGED <<circuit, config>>
  <2>1. [Next]_vars
    BY ValueStep
  <2>2. IInv'
    BY <2>1, IInvStep DEF SInv
  <2> QED BY <2>1, <2>2, ProgramFixed DEF SInv, IInv, Base
<1>2. CASE Calm /\ UNCHANGED values
  BY <1>1, <1>2, CalmKeeps
<1>3. ASSUME NEW g \in Gadgets, ExecuteCheckModel(g), UNCHANGED values PROVE SyndromeIInv'
  BY <1>3, CheckModelKeeps
<1>4. ASSUME NEW g \in Gadgets, Reserve(g), UNCHANGED values PROVE SyndromeIInv'
  BY <1>1, <1>4, ReserveKeeps
<1>5. ASSUME NEW g \in Gadgets, CommitUnchecked(g), UNCHANGED values PROVE SyndromeIInv'
  BY <1>1, <1>5, UncheckedKeeps
<1>6. ASSUME NEW g \in Gadgets, AwaitOutcomes(g) \/ AwaitWindowSyndrome(g), UNCHANGED values
      PROVE  SyndromeIInv'
  BY <1>1, <1>6, AwaitKeeps
<1>7. ASSUME NEW g \in Gadgets, ComputeSyndromeValue(g) PROVE SyndromeIInv'
  BY <1>1, <1>7, SyndromeKeeps
<1>8. ASSUME NEW g \in Gadgets, DecodeParityFactor(g) PROVE SyndromeIInv'
  BY <1>1, <1>8, DecodeKeeps
<1>9. ASSUME NEW g \in Gadgets, UpdatePauliFrame(g) PROVE SyndromeIInv'
  BY <1>1, <1>9, UpdateKeeps
<1> QED BY <1>1, <1>2, <1>3, <1>4, <1>5, <1>6, <1>7, <1>8, <1>9, ValueKinds, Zenon

\* What the checks, the corrections and the windows have to do with each other.
THEOREM SyndromeInvariance == SpecValues => []SyndromeIInv
<1>1. InitValues => SyndromeIInv
  BY SyndromeIInvInit
<1>2. IInv /\ ValueIInv /\ SyndromeIInv /\ [NextValues]_<<vars, values>> => SyndromeIInv'
  BY SyndromeIInvStep DEF SInv
<1> QED BY <1>1, <1>2, ControlKept, Invariance, CacheByKey, PTL DEF SpecValues

\* However windows overlap in time and whatever explanations their decoders choose,
\* the corrections of all windows together explain the outcomes.
THEOREM CorrectionsExplain == SpecValues => []SyndromeExplained
<1>1. ASSUME SyndromeIInv PROVE SyndromeExplained
  <2> SUFFICES ASSUME NEW x \in syndrome,
                      \A e \in AllErrors(problem) : x \in e.checks => e.owner \in committed
               PROVE  x \in origin <=> x \in Parity(corrections)
    BY DEF SyndromeExplained
  <2>1. \A o \in Gadgets : x \in Flips(problem, o) => o \in committed
    BY FlipsByError
  <2>2. x \notin flipped
    BY <1>1, <2>1 DEF SyndromeIInv, Explicable
  <2> QED BY <1>1, <2>2 DEF SyndromeIInv, Corrected
<1>2. SyndromeIInv => SyndromeExplained
  BY <1>1
<1> QED BY <1>2, SyndromeInvariance, PTL
=============================================================================

------------------------ MODULE WindowGeometryProofs ------------------------
(***************************************************************************)
(* What the proofs need of the searches in WindowGeometry: a closure is    *)
(* the least closed set around its seeds, distances grow one step at a     *)
(* time, and measuring from either end finds the same.  Induction over the *)
(* distance is by the least distance at which a statement fails: finite    *)
(* sets are well-founded by inclusion, and so are the intervals from 0.    *)
(***************************************************************************)
EXTENDS WindowGeometry, FiniteSetTheorems, WellFoundedInduction, TLAPS

-----------------------------------------------------------------------------
(* Closures, zones and shells.                                             *)

\* The definition of Closure without the bindings made for TLC.
LEMMA ClosureIs ==
    ASSUME NEW S, NEW next
    PROVE  Closure(S, next) =
              {x \in DOMAIN next :
                  \A T \in {T \in SUBSET DOMAIN next :
                               \A y \in T : next[y] \subseteq T} :
                      S \subseteq T => x \in T}
<1> DEFINE closed == {T \in SUBSET DOMAIN next : \A y \in T : next[y] \subseteq T}
           meet(s, C) == {x \in DOMAIN next : \A T \in C : s \subseteq T => x \in T}
<1>1. Closure(S, next) = UNION {meet(s, C) : s \in {S}, C \in {closed}}
  BY DEF Closure
<1>2. {meet(s, C) : s \in {S}, C \in {closed}} = {meet(S, closed)}
  <2> HIDE DEF meet, closed
  <2> QED OBVIOUS
<1>3. UNION {meet(S, closed)} = meet(S, closed)
  <2> HIDE DEF meet, closed
  <2> QED OBVIOUS
<1>4. Closure(S, next) = meet(S, closed)
  <2> HIDE DEF meet, closed
  <2> QED BY <1>1, <1>2, <1>3
<1> QED BY <1>4

\* A closure contains what it starts from.
LEMMA ClosureContains ==
    ASSUME NEW S, NEW next, S \subseteq DOMAIN next
    PROVE  S \subseteq Closure(S, next)
BY ClosureIs

\* A closure is closed.
LEMMA ClosureStep ==
    ASSUME NEW S, NEW next, NEW x \in Closure(S, next), NEW y \in next[x],
           next[x] \subseteq DOMAIN next
    PROVE  y \in Closure(S, next)
BY ClosureIs

\* A closure is contained in every closed set that contains its start.
LEMMA ClosureLeast ==
    ASSUME NEW S, NEW next, NEW T, S \subseteq T, T \subseteq DOMAIN next,
           \A y \in T : next[y] \subseteq T
    PROVE  Closure(S, next) \subseteq T
BY ClosureIs

\* shrink_window keeps what it starts from and adds explored gadgets only.
LEMMA ZoneBounds ==
    ASSUME NEW S, NEW W, NEW nbr, NEW fr, NEW r
    PROVE  /\ S \subseteq Zone(S, W, nbr, fr, r)
           /\ Zone(S, W, nbr, fr, r) \subseteq S \cup W
BY DEF Zone

-----------------------------------------------------------------------------
(* Induction over distances.                                               *)

\* A set of numbers has a least one.
LEMMA LeastNumber ==
    ASSUME NEW T, T \subseteq Nat, T # {}
    PROVE  \E x \in T : \A y \in T : x <= y
<1>1. PICK k \in T : TRUE
  OBVIOUS
<1> DEFINE N == {0 .. j : j \in T}
<1>2. N \subseteq FiniteSubsetsOf(Nat) /\ N # {}
  <2>1. \A j \in Nat : 0 .. j \subseteq Nat /\ IsFiniteSet(0 .. j)
    BY FS_Interval
  <2> QED
    BY <1>1, <2>1 DEF FiniteSubsetsOf
<1>3. PICK A \in N : \A B \in N : ~(<<B, A>> \in StrictSubsetOrdering(Nat))
  <2> HIDE DEF N
  <2> QED
    BY <1>2, FS_StrictSubsetOrderingWellFounded, WFMin
<1>4. PICK x \in T : A = 0 .. x
  BY <1>3
<1>5. ASSUME NEW y \in T, y < x PROVE FALSE
  <2>1. 0 .. y \in N
    OBVIOUS
  <2>2. 0 .. y \subseteq 0 .. x /\ 0 .. y # 0 .. x
    <3>1. x \in 0 .. x /\ x \notin 0 .. y
      BY <1>5
    <3> QED
      BY <1>5, <3>1
  <2>3. 0 .. y \in SUBSET Nat /\ 0 .. x \in SUBSET Nat
    OBVIOUS
  <2>4. <<0 .. y, 0 .. x>> \in StrictSubsetOrdering(Nat)
    BY <2>2, <2>3 DEF StrictSubsetOrdering
  <2> QED
    BY <2>1, <2>4, <1>3, <1>4
<1> QED
  BY <1>5

LEMMA Induction ==
    ASSUME NEW P, 0 \in P, \A k \in Nat : k \in P => k + 1 \in P
    PROVE  \A k \in Nat : k \in P
<1> SUFFICES ASSUME NEW n \in Nat, n \notin P PROVE FALSE
  OBVIOUS
<1>1. {k \in Nat : k \notin P} \subseteq Nat /\ {k \in Nat : k \notin P} # {}
  OBVIOUS
<1>2. PICK x \in {k \in Nat : k \notin P} : \A y \in {k \in Nat : k \notin P} : x <= y
  BY <1>1, LeastNumber
<1>3. x \in Nat /\ x # 0 /\ x - 1 \in Nat /\ (x - 1) + 1 = x /\ ~(x <= x - 1)
  OBVIOUS
<1>4. x - 1 \in P
  BY <1>2, <1>3
<1> QED
  BY <1>3, <1>4

-----------------------------------------------------------------------------
(* Within, one step at a time.                                             *)

Next1(B, W, nbr, next) == Closure(B \cup (Around(B, nbr) \cap W), next)

\* f is what Within defines up to distance k.
Layers(f, k, S, W, nbr, next) ==
    f = [i \in 0 .. k |-> IF i = 0 THEN Closure(S, next)
                          ELSE Next1(f[i-1], W, nbr, next)]

LEMMA LayersExist ==
    ASSUME NEW S, NEW W, NEW nbr, NEW next
    PROVE  \A k \in Nat : \E f : Layers(f, k, S, W, nbr, next)
<1> DEFINE P == {k \in Nat : \E f : Layers(f, k, S, W, nbr, next)}
<1>1. 0 \in P
  <2>1. Layers([i \in 0 .. 0 |-> Closure(S, next)], 0, S, W, nbr, next)
    BY DEF Layers
  <2> QED
    BY <2>1
<1>2. ASSUME NEW k \in Nat, k \in P
      PROVE  k + 1 \in P
  <2>1. PICK f : Layers(f, k, S, W, nbr, next)
    BY <1>2
  <2> DEFINE g == [i \in 0 .. k + 1 |-> IF i <= k THEN f[i] ELSE Next1(f[k], W, nbr, next)]
  <2>2. ASSUME NEW i \in 0 .. k + 1
        PROVE  g[i] = IF i = 0 THEN Closure(S, next) ELSE Next1(g[i-1], W, nbr, next)
    <3>1. CASE i = 0
      <4>1. f[0] = Closure(S, next)
        BY <2>1 DEF Layers
      <4> QED
        BY <3>1, <4>1
    <3>2. CASE i # 0 /\ i <= k
      <4>1. i \in 0 .. k /\ i - 1 \in 0 .. k /\ i - 1 \in 0 .. k + 1 /\ i - 1 <= k
        BY <3>2
      <4>2. f[i] = Next1(f[i-1], W, nbr, next)
        BY <2>1, <3>2, <4>1 DEF Layers
      <4>3. g[i] = f[i] /\ g[i-1] = f[i-1]
        BY <3>2, <4>1
      <4> QED
        BY <3>2, <4>2, <4>3
    <3>3. CASE i = k + 1
      <4>1. /\ i # 0 /\ i - 1 = k /\ k \in 0 .. k + 1 /\ ~(i <= k)
        BY <3>3
      <4>2. g[k] = f[k] /\ g[i] = Next1(f[k], W, nbr, next)
        BY <4>1
      <4> QED
        BY <4>1, <4>2
    <3>4. i = 0 \/ (i # 0 /\ i <= k) \/ i = k + 1
      OBVIOUS
    <3> QED
      BY <3>1, <3>2, <3>3, <3>4
  <2>3. Layers(g, k + 1, S, W, nbr, next)
    BY <2>2 DEF Layers
  <2> QED
    BY <2>3
<1> HIDE DEF P
<1>3. \A k \in Nat : k \in P
  BY <1>1, <1>2, Induction
<1> QED
  BY <1>3 DEF P

LEMMA LayersAgree ==
    ASSUME NEW S, NEW W, NEW nbr, NEW next, NEW k \in Nat, NEW m \in Nat, k <= m,
           NEW f, NEW g, Layers(f, k, S, W, nbr, next), Layers(g, m, S, W, nbr, next)
    PROVE  f[k] = g[k]
<1> DEFINE P == {i \in Nat : i <= k => f[i] = g[i]}
<1>1. 0 \in P
  <2>1. f[0] = Closure(S, next) /\ g[0] = Closure(S, next)
    BY DEF Layers
  <2> QED
    BY <2>1
<1>2. ASSUME NEW i \in Nat, i \in P
      PROVE  i + 1 \in P
  <2>1. SUFFICES ASSUME i + 1 <= k PROVE f[i + 1] = g[i + 1]
    OBVIOUS
  <2>2. /\ i + 1 \in 0 .. k /\ i + 1 \in 0 .. m /\ i + 1 # 0 /\ (i + 1) - 1 = i
        /\ i <= k
    BY <2>1
  <2>3. f[i + 1] = Next1(f[i], W, nbr, next) /\ g[i + 1] = Next1(g[i], W, nbr, next)
    BY <2>2 DEF Layers
  <2> QED
    BY <1>2, <2>2, <2>3
<1> HIDE DEF P
<1>3. k \in P
  BY <1>1, <1>2, Induction
<1> QED
  BY <1>3 DEF P

LEMMA WithinLayers ==
    ASSUME NEW S, NEW W, NEW nbr, NEW next, NEW k \in Nat
    PROVE  \E f : Layers(f, k, S, W, nbr, next) /\ Within(S, W, nbr, next, k) = f[k]
<1> DEFINE f == CHOOSE f : f = [i \in 0 .. k |->
                   IF i = 0 THEN Closure(S, next)
                   ELSE Closure(f[i-1] \cup (Around(f[i-1], nbr) \cap W), next)]
<1>1. \E h : h = [i \in 0 .. k |->
                   IF i = 0 THEN Closure(S, next)
                   ELSE Closure(h[i-1] \cup (Around(h[i-1], nbr) \cap W), next)]
  <2>1. PICK h : Layers(h, k, S, W, nbr, next)
    BY LayersExist
  <2> QED
    BY <2>1, Zenon DEF Layers, Next1
<1>2. f = [i \in 0 .. k |->
                   IF i = 0 THEN Closure(S, next)
                   ELSE Closure(f[i-1] \cup (Around(f[i-1], nbr) \cap W), next)]
  BY <1>1, Zenon
<1>3. Layers(f, k, S, W, nbr, next)
  BY <1>2, Zenon DEF Layers, Next1
<1>4. Within(S, W, nbr, next, k) = f[k]
  BY Zenon DEF Within
<1> QED
  BY <1>3, <1>4

\* What lies within distance 0, and within one step more.
LEMMA WithinSteps ==
    ASSUME NEW S, NEW W, NEW nbr, NEW next
    PROVE  /\ Within(S, W, nbr, next, 0) = Closure(S, next)
           /\ \A k \in Nat : Within(S, W, nbr, next, k + 1)
                                = Next1(Within(S, W, nbr, next, k), W, nbr, next)
<1>1. Within(S, W, nbr, next, 0) = Closure(S, next)
  BY WithinLayers DEF Layers
<1>2. ASSUME NEW k \in Nat
      PROVE  Within(S, W, nbr, next, k + 1) = Next1(Within(S, W, nbr, next, k), W, nbr, next)
  <2>1. PICK f : Layers(f, k, S, W, nbr, next) /\ Within(S, W, nbr, next, k) = f[k]
    BY WithinLayers
  <2>2. PICK g : Layers(g, k + 1, S, W, nbr, next) /\ Within(S, W, nbr, next, k + 1) = g[k + 1]
    BY WithinLayers
  <2>3. f[k] = g[k]
    BY <2>1, <2>2, LayersAgree
  <2>4. k + 1 \in 0 .. k + 1 /\ k + 1 # 0 /\ (k + 1) - 1 = k
    OBVIOUS
  <2>5. g[k + 1] = Next1(g[k], W, nbr, next)
    BY <2>2, <2>4 DEF Layers
  <2> QED
    BY <2>1, <2>2, <2>3, <2>5
<1> QED
  BY <1>1, <1>2

LEMMA WithinNext ==
    ASSUME NEW S, NEW W, NEW nbr, NEW next, NEW k \in Nat
    PROVE  Within(S, W, nbr, next, k + 1) = Next1(Within(S, W, nbr, next, k), W, nbr, next)
BY WithinSteps

\* The gadgets at boundary distance 0 are the seeds and what free-hops lead to.
LEMMA ShellBase ==
    ASSUME NEW seeds, NEW W, NEW nbr, NEW fr
    PROVE  Shell(seeds, W, nbr, fr, 0) = Closure(seeds, Leave(W, nbr, fr))
BY WithinSteps, Zenon DEF Shell

-----------------------------------------------------------------------------
(* Distances over a graph D; W is the part of it that is searched.         *)

\* A is closed, and B takes in A and its neighbours.
Step(A, B, D, W, nbr, next) ==
    /\ A \subseteq D
    /\ \A x \in A : next[x] \subseteq A
    /\ A \subseteq B
    /\ \A x \in A : nbr[x] \cap W \subseteq B

\* Within distance 0 is the start.
LEMMA WithinStart ==
    ASSUME NEW D, NEW next \in [D -> SUBSET D], NEW S \in SUBSET D, NEW W, NEW nbr
    PROVE  S \subseteq Within(S, W, nbr, next, 0)
<1>1. S \subseteq DOMAIN next
  OBVIOUS
<1>2. S \subseteq Closure(S, next)
  BY <1>1, ClosureContains
<1> QED
  BY <1>2, WithinSteps

\* Each distance takes in the neighbours of the one before.
LEMMA WithinGrows ==
    ASSUME NEW D, NEW nbr \in [D -> SUBSET D], NEW next \in [D -> SUBSET D],
           NEW W \in SUBSET D, NEW S \in SUBSET D, NEW k \in Nat
    PROVE  Step(Within(S, W, nbr, next, k), Within(S, W, nbr, next, k + 1),
                D, W, nbr, next)
<1> DEFINE A == Within(S, W, nbr, next, k)
           B == Within(S, W, nbr, next, k + 1)
<1>1. PICK R : A = Closure(R, next)
  <2>1. PICK f : Layers(f, k, S, W, nbr, next) /\ Within(S, W, nbr, next, k) = f[k]
    BY WithinLayers
  <2>2. f[k] = IF k = 0 THEN Closure(S, next) ELSE Next1(f[k-1], W, nbr, next)
    BY <2>1 DEF Layers
  <2> QED
    BY <2>1, <2>2 DEF Next1
<1>2. A \subseteq D /\ \A x \in A : next[x] \subseteq A
  <2>1. A \subseteq DOMAIN next
    BY <1>1, ClosureIs
  <2>2. \A x \in D : next[x] \subseteq DOMAIN next
    OBVIOUS
  <2> HIDE DEF A
  <2> QED
    BY <1>1, <2>1, <2>2, ClosureStep
<1>3. B = Closure(A \cup (Around(A, nbr) \cap W), next)
  <2>1. B = Next1(A, W, nbr, next)
    BY WithinSteps
  <2> HIDE DEF A, B
  <2> QED
    BY <2>1, Zenon DEF Next1
<1>4. A \cup (Around(A, nbr) \cap W) \subseteq B
  <2>1. A \cup (Around(A, nbr) \cap W) \subseteq DOMAIN next
    <3> HIDE DEF A
    <3> QED
      BY <1>2
  <2> HIDE DEF A, B
  <2> QED
    BY <1>3, <2>1, ClosureContains
<1>5. \A x \in A : nbr[x] \subseteq Around(A, nbr)
  BY DEF Around
<1> HIDE DEF A, B
<1>6. A \subseteq B /\ \A x \in A : nbr[x] \cap W \subseteq B
  BY <1>4, <1>5
<1>7. Step(A, B, D, W, nbr, next)
  BY <1>2, <1>6 DEF Step
<1> QED
  BY <1>7 DEF A, B

\* F[0], F[1], ... contain what a search finds.
Covers(F, K, D, S, W, nbr, next) ==
    /\ S \subseteq F[0]
    /\ \A k \in 0 .. K : F[k] \subseteq D /\ \A x \in F[k] : next[x] \subseteq F[k]
    /\ \A k \in 0 .. K : k + 1 \in 0 .. K => Step(F[k], F[k + 1], D, W, nbr, next)

\* What contains the start, is closed and grows by the neighbours contains what is
\* within each distance up to K.
LEMMA WithinLeast ==
    ASSUME NEW D, NEW nbr \in [D -> SUBSET D], NEW next \in [D -> SUBSET D],
           NEW W \in SUBSET D, NEW S \in SUBSET D, NEW K \in Nat,
           NEW F, Covers(F, K, D, S, W, nbr, next)
    PROVE  \A k \in 0 .. K : Within(S, W, nbr, next, k) \subseteq F[k]
<1> DEFINE P == {k \in Nat : k <= K => Within(S, W, nbr, next, k) \subseteq F[k]}
<1>1. 0 \in P
  <2>1. Within(S, W, nbr, next, 0) = Closure(S, next)
    BY WithinSteps
  <2>2. 0 \in 0 .. K /\ DOMAIN next = D
    OBVIOUS
  <2>3. S \subseteq F[0] /\ F[0] \subseteq D /\ \A x \in F[0] : next[x] \subseteq F[0]
    BY <2>2 DEF Covers
  <2>4. Closure(S, next) \subseteq F[0]
    BY <2>2, <2>3, ClosureLeast
  <2> QED
    BY <2>1, <2>4
<1>2. ASSUME NEW k \in Nat, k \in P
      PROVE  k + 1 \in P
  <2>1. SUFFICES ASSUME k + 1 <= K
                 PROVE  Within(S, W, nbr, next, k + 1) \subseteq F[k + 1]
    OBVIOUS
  <2> DEFINE A == Within(S, W, nbr, next, k)
  <2>2. k \in 0 .. K /\ k + 1 \in 0 .. K
    BY <2>1
  <2>3. A \subseteq F[k]
    BY <1>2, <2>2
  <2> HIDE DEF P
  <2>4. Within(S, W, nbr, next, k + 1) = Next1(A, W, nbr, next)
    BY WithinNext
  <2> HIDE DEF A
  <2>5. A \cup (Around(A, nbr) \cap W) \subseteq F[k + 1]
    BY <2>2, <2>3 DEF Covers, Step, Around
  <2>6. /\ F[k + 1] \subseteq D /\ DOMAIN next = D
        /\ \A x \in F[k + 1] : next[x] \subseteq F[k + 1]
    BY <2>2 DEF Covers
  <2>7. Closure(A \cup (Around(A, nbr) \cap W), next) \subseteq F[k + 1]
    BY <2>2, <2>5, <2>6, ClosureLeast
  <2> QED
    BY <2>4, <2>7 DEF Next1
<1> HIDE DEF P
<1>3. \A k \in Nat : k \in P
  BY <1>1, <1>2, Induction
<1> QED
  BY <1>3 DEF P

\* A greater distance takes in no less.
LEMMA WithinMonotone ==
    ASSUME NEW D, NEW nbr \in [D -> SUBSET D], NEW next \in [D -> SUBSET D],
           NEW W \in SUBSET D, NEW S \in SUBSET D, NEW j \in Nat, NEW k \in Nat, j <= k
    PROVE  Within(S, W, nbr, next, j) \subseteq Within(S, W, nbr, next, k)
<1> DEFINE P == {i \in Nat : Within(S, W, nbr, next, j) \subseteq Within(S, W, nbr, next, j + i)}
<1>1. 0 \in P
  <2>1. j + 0 = j
    OBVIOUS
  <2> QED
    BY <2>1
<1>2. ASSUME NEW i \in Nat, i \in P
      PROVE  i + 1 \in P
  <2>1. j + i \in Nat /\ j + (i + 1) = (j + i) + 1
    OBVIOUS
  <2>2. Within(S, W, nbr, next, j + i) \subseteq Within(S, W, nbr, next, (j + i) + 1)
    BY <2>1, WithinGrows DEF Step
  <2> QED
    BY <1>2, <2>1, <2>2
<1> HIDE DEF P
<1>3. k - j \in P
  BY <1>1, <1>2, Induction
<1>4. j + (k - j) = k
  OBVIOUS
<1> QED
  BY <1>3, <1>4 DEF P

\* Only what is searched is found.
LEMMA WithinSearched ==
    ASSUME NEW D, NEW nbr \in [D -> SUBSET D], NEW next \in [D -> SUBSET D],
           NEW W \in SUBSET D, NEW S \in SUBSET W, NEW k \in Nat,
           \A x \in D : next[x] \subseteq W
    PROVE  Within(S, W, nbr, next, k) \subseteq W
<1> DEFINE F == [i \in 0 .. k |-> W]
<1>1. /\ S \in SUBSET D /\ 0 \in 0 .. k /\ k \in 0 .. k
      /\ \A i \in 0 .. k : F[i] = W
  OBVIOUS
<1> HIDE DEF F
<1>2. Covers(F, k, D, S, W, nbr, next)
  BY <1>1 DEF Covers, Step
<1>3. \A i \in 0 .. k : Within(S, W, nbr, next, i) \subseteq F[i]
  BY <1>1, <1>2, WithinLeast
<1> QED
  BY <1>1, <1>3

\* What starts within distance j of S is, after k more steps, within j + k of S.
LEMMA WithinShift ==
    ASSUME NEW D, NEW nbr \in [D -> SUBSET D], NEW next \in [D -> SUBSET D],
           NEW W \in SUBSET D, NEW S \in SUBSET D, NEW T \in SUBSET D,
           NEW j \in Nat, NEW k \in Nat, T \subseteq Within(S, W, nbr, next, j)
    PROVE  Within(T, W, nbr, next, k) \subseteq Within(S, W, nbr, next, j + k)
<1> DEFINE F == [i \in 0 .. k |-> Within(S, W, nbr, next, j + i)]
<1>1. \A i \in 0 .. k : F[i] = Within(S, W, nbr, next, j + i)
  OBVIOUS
<1>2. 0 \in 0 .. k /\ k \in 0 .. k /\ j + 0 = j
  OBVIOUS
<1>3. \A i \in 0 .. k : Step(F[i], Within(S, W, nbr, next, (j + i) + 1), D, W, nbr, next)
  <2> SUFFICES ASSUME NEW i \in 0 .. k
               PROVE  Step(F[i], Within(S, W, nbr, next, (j + i) + 1), D, W, nbr, next)
    OBVIOUS
  <2>1. j + i \in Nat
    OBVIOUS
  <2> QED
    BY <1>1, <2>1, WithinGrows
<1>4. \A i \in 0 .. k : i + 1 \in 0 .. k => F[i + 1] = Within(S, W, nbr, next, (j + i) + 1)
  <2> SUFFICES ASSUME NEW i \in 0 .. k, i + 1 \in 0 .. k
               PROVE  F[i + 1] = Within(S, W, nbr, next, (j + i) + 1)
    OBVIOUS
  <2>1. j + (i + 1) = (j + i) + 1
    OBVIOUS
  <2> QED
    BY <1>1, <2>1
<1>5. T \subseteq F[0]
  BY <1>1, <1>2
<1> HIDE DEF F
<1>6. \A i \in 0 .. k : F[i] \subseteq D /\ \A x \in F[i] : next[x] \subseteq F[i]
  BY <1>3 DEF Step
<1>7. Covers(F, k, D, T, W, nbr, next)
  BY <1>3, <1>4, <1>5, <1>6 DEF Covers
<1>8. \A i \in 0 .. k : Within(T, W, nbr, next, i) \subseteq F[i]
  BY <1>7, WithinLeast
<1> QED
  BY <1>1, <1>2, <1>8

\* A search finds no more than another one from the same start, if wherever that
\* other one comes it goes on to no fewer neighbours.
LEMMA WithinCompare ==
    ASSUME NEW D, NEW nb1 \in [D -> SUBSET D], NEW next1 \in [D -> SUBSET D],
           NEW W1 \in SUBSET D, NEW nb2 \in [D -> SUBSET D],
           NEW next2 \in [D -> SUBSET D], NEW W2 \in SUBSET D,
           NEW S \in SUBSET D, NEW k \in Nat,
           \A x \in Within(S, W1, nb1, next1, k) :
               nb2[x] \cap W2 \subseteq nb1[x] \cap W1 /\ next2[x] \subseteq next1[x]
    PROVE  Within(S, W2, nb2, next2, k) \subseteq Within(S, W1, nb1, next1, k)
<1> DEFINE F == [i \in 0 .. k |-> Within(S, W1, nb1, next1, i)]
<1>1. \A i \in 0 .. k : F[i] = Within(S, W1, nb1, next1, i)
  OBVIOUS
<1>2. 0 \in 0 .. k /\ k \in 0 .. k
  OBVIOUS
<1>3. \A i \in 0 .. k : Step(F[i], Within(S, W1, nb1, next1, i + 1), D, W1, nb1, next1)
  <2> SUFFICES ASSUME NEW i \in 0 .. k
               PROVE  Step(F[i], Within(S, W1, nb1, next1, i + 1), D, W1, nb1, next1)
    OBVIOUS
  <2>1. i \in Nat /\ F[i] = Within(S, W1, nb1, next1, i)
    BY <1>1
  <2> HIDE DEF F
  <2>2. Step(Within(S, W1, nb1, next1, i), Within(S, W1, nb1, next1, i + 1),
             D, W1, nb1, next1)
    BY <2>1, WithinGrows, Zenon
  <2> QED
    BY <2>1, <2>2
<1>4. ASSUME NEW i \in 0 .. k, NEW x \in F[i]
      PROVE  nb2[x] \cap W2 \subseteq nb1[x] \cap W1 /\ next2[x] \subseteq next1[x]
  BY <1>1, WithinMonotone
<1>5. \A i \in 0 .. k : i + 1 \in 0 .. k => F[i + 1] = Within(S, W1, nb1, next1, i + 1)
  BY <1>1
<1>6. S \subseteq F[0]
  BY <1>1, <1>2, WithinStart
<1> HIDE DEF F
<1>7. \A i \in 0 .. k : F[i] \subseteq D /\ \A x \in F[i] : next2[x] \subseteq F[i]
  BY <1>3, <1>4 DEF Step
<1>8. \A i \in 0 .. k : i + 1 \in 0 .. k => Step(F[i], F[i + 1], D, W2, nb2, next2)
  <2> SUFFICES ASSUME NEW i \in 0 .. k, i + 1 \in 0 .. k
               PROVE  Step(F[i], F[i + 1], D, W2, nb2, next2)
    OBVIOUS
  <2>1. Step(F[i], F[i + 1], D, W1, nb1, next1)
    BY <1>3, <1>5
  <2> QED
    BY <1>4, <2>1 DEF Step
<1>9. Covers(F, k, D, S, W2, nb2, next2)
  BY <1>6, <1>7, <1>8 DEF Covers
<1>10. \A i \in 0 .. k : Within(S, W2, nb2, next2, i) \subseteq F[i]
  BY <1>9, WithinLeast
<1> QED
  BY <1>1, <1>2, <1>10

-----------------------------------------------------------------------------
(* Balls and shells: distances measured from either end agree.             *)

\* If every free step of out is a free step of back the other way, then from what is
\* found with out the start is found with back.
LEMMA Reverse ==
    ASSUME NEW D, NEW nbr \in [D -> SUBSET D],
           \A x, y \in D : y \in nbr[x] => x \in nbr[y],
           NEW W \in SUBSET D, NEW out \in [D -> SUBSET D], NEW back \in [D -> SUBSET D],
           \A z \in D : out[z] \subseteq W,
           \A z \in W : \A u \in out[z] : z \in back[u],
           NEW S \in SUBSET W, NEW k \in Nat, NEW y \in Within(S, W, nbr, out, k)
    PROVE  \E x \in S : x \in Within({y}, W, nbr, back, k)
<1> DEFINE G(i) == {z \in W : \E x \in S : x \in Within({z}, W, nbr, back, i)}
           F == [i \in 0 .. k |-> G(i)]
<1>1. \A i \in 0 .. k : F[i] = G(i)
  OBVIOUS
<1>2. 0 \in 0 .. k /\ k \in 0 .. k /\ S \in SUBSET D
  OBVIOUS
<1> HIDE DEF F
<1>3. ASSUME NEW z \in W, NEW i \in Nat
      PROVE  /\ Step(Within({z}, W, nbr, back, i), Within({z}, W, nbr, back, i + 1),
                     D, W, nbr, back)
             /\ z \in Within({z}, W, nbr, back, 0)
  <2>1. {z} \in SUBSET D
    OBVIOUS
  <2>2. {z} \subseteq Within({z}, W, nbr, back, 0)
    BY <2>1, WithinStart
  <2> QED
    BY <2>1, <2>2, WithinGrows
<1>4. ASSUME NEW z \in W, NEW u \in W, NEW j \in Nat, NEW i \in Nat,
             z \in Within({u}, W, nbr, back, j)
      PROVE  Within({z}, W, nbr, back, i) \subseteq Within({u}, W, nbr, back, j + i)
  <2>1. {z} \in SUBSET D /\ {u} \in SUBSET D /\ {z} \subseteq Within({u}, W, nbr, back, j)
    BY <1>4
  <2> QED
    BY <2>1, WithinShift
<1>5. \* Of a neighbour, one step more.
      ASSUME NEW i \in Nat, NEW z \in G(i), NEW u \in nbr[z] \cap W
      PROVE  u \in G(i + 1)
  <2>1. /\ z \in W /\ u \in W /\ z \in nbr[u] \cap W
    OBVIOUS
  <2>2. PICK x \in S : x \in Within({z}, W, nbr, back, i)
    OBVIOUS
  <2>3. z \in Within({u}, W, nbr, back, 0 + 1)
    BY <1>3, <2>1 DEF Step
  <2>4. (0 + 1) + i = i + 1 /\ 0 + 1 \in Nat
    OBVIOUS
  <2>5. x \in Within({u}, W, nbr, back, (0 + 1) + i)
    BY <1>4, <2>1, <2>2, <2>3, <2>4
  <2>6. x \in Within({u}, W, nbr, back, i + 1)
    BY <2>4, <2>5
  <2> QED
    BY <2>1, <2>6
<1>6. \* For a free step, none.
      ASSUME NEW i \in Nat, NEW z \in G(i), NEW u \in out[z]
      PROVE  u \in G(i)
  <2>1. /\ z \in W /\ u \in W /\ z \in back[u]
    OBVIOUS
  <2>2. PICK x \in S : x \in Within({z}, W, nbr, back, i)
    OBVIOUS
  <2>3. z \in Within({u}, W, nbr, back, 0)
    BY <1>3, <2>1 DEF Step
  <2>4. 0 + i = i /\ 0 \in Nat
    OBVIOUS
  <2>5. x \in Within({u}, W, nbr, back, 0 + i)
    BY <1>4, <2>1, <2>2, <2>3, <2>4
  <2>6. x \in Within({u}, W, nbr, back, i)
    BY <2>4, <2>5
  <2> QED
    BY <2>1, <2>6
<1>7. Covers(F, k, D, S, W, nbr, out)
  <2>1. S \subseteq F[0]
    BY <1>1, <1>2, <1>3
  <2>2. ASSUME NEW i \in 0 .. k
        PROVE  F[i] \subseteq D /\ \A z \in F[i] : out[z] \subseteq F[i]
    <3>1. F[i] = G(i) /\ i \in Nat
      BY <1>1
    <3> G(i) \subseteq D
      OBVIOUS
    <3>2. \A z \in G(i) : \A u \in out[z] : u \in G(i)
      BY <1>6, <3>1
    <3> HIDE DEF G
    <3> QED
      BY <3>1, <3>2
  <2>3. ASSUME NEW i \in 0 .. k, i + 1 \in 0 .. k
        PROVE  Step(F[i], F[i + 1], D, W, nbr, out)
    <3>1. F[i] = G(i) /\ F[i + 1] = G(i + 1) /\ i \in Nat
      BY <1>1, <2>3
    <3>2. G(i) \subseteq G(i + 1)
      BY <1>3, <3>1 DEF Step
    <3>3. \A z \in G(i) : nbr[z] \cap W \subseteq G(i + 1)
      BY <1>5, <3>1
    <3> HIDE DEF G
    <3> QED
      BY <2>2, <3>1, <3>2, <3>3 DEF Step
  <2> QED
    BY <2>1, <2>2, <2>3 DEF Covers
<1>8. Within(S, W, nbr, out, k) \subseteq F[k]
  BY <1>2, <1>7, WithinLeast
<1> QED
  BY <1>1, <1>2, <1>8

\* Exploring pays for the gadgets entered, the distance from an edge for those left:
\* from what exploring finds, the start is as near.
LEMMA BallToShell ==
    ASSUME NEW D, NEW nbr \in [D -> SUBSET D],
           \A x, y \in D : y \in nbr[x] => x \in nbr[y],
           NEW W \in SUBSET D, NEW fr, NEW k \in Nat, NEW x \in W,
           NEW y \in Ball({x}, W, nbr, fr, k)
    PROVE  x \in Shell({y}, W, nbr, fr, k)
<1> DEFINE enter == Enter(W, nbr, fr)
           leave == Leave(W, nbr, fr)
<1>1. /\ enter \in [D -> SUBSET D] /\ leave \in [D -> SUBSET D]
      /\ \A z \in D : enter[z] = IF z \in W THEN nbr[z] \cap W \cap fr ELSE {}
      /\ \A z \in D : leave[z] = IF z \in W \cap fr THEN nbr[z] \cap W ELSE {}
  BY DEF Enter, Leave
<1>2. y \in Within({x}, W, nbr, enter, k)
  BY Zenon DEF Ball, enter
<1> HIDE DEF enter, leave
<1>3. /\ \A z \in D : enter[z] \subseteq W
      /\ \A z \in W : \A u \in enter[z] : z \in leave[u]
  BY <1>1
<1>4. {x} \in SUBSET W
  OBVIOUS
<1>5. \E z \in {x} : z \in Within({y}, W, nbr, leave, k)
  BY <1>1, <1>2, <1>3, <1>4, Reverse
<1>6. x \in Within({y}, W, nbr, leave, k)
  BY <1>5
<1> QED
  BY <1>6, Zenon DEF Shell, leave

\* From what is near the edge, exploring finds the edge.
LEMMA ShellToBall ==
    ASSUME NEW D, NEW nbr \in [D -> SUBSET D],
           \A x, y \in D : y \in nbr[x] => x \in nbr[y],
           NEW W \in SUBSET D, NEW fr, NEW k \in Nat, NEW seeds \in SUBSET W,
           NEW y \in Shell(seeds, W, nbr, fr, k)
    PROVE  \E x \in seeds : x \in Ball({y}, W, nbr, fr, k)
<1> DEFINE enter == Enter(W, nbr, fr)
           leave == Leave(W, nbr, fr)
<1>1. /\ enter \in [D -> SUBSET D] /\ leave \in [D -> SUBSET D]
      /\ \A z \in D : enter[z] = IF z \in W THEN nbr[z] \cap W \cap fr ELSE {}
      /\ \A z \in D : leave[z] = IF z \in W \cap fr THEN nbr[z] \cap W ELSE {}
  BY DEF Enter, Leave
<1>2. y \in Within(seeds, W, nbr, leave, k)
  BY Zenon DEF Shell, leave
<1> HIDE DEF enter, leave
<1>3. /\ \A z \in D : leave[z] \subseteq W
      /\ \A z \in W : \A u \in leave[z] : z \in enter[u]
  BY <1>1
<1>4. \E z \in seeds : z \in Within({y}, W, nbr, enter, k)
  BY <1>1, <1>2, <1>3, Reverse
<1> QED
  BY <1>4, Zenon DEF Ball, enter

\* Exploring stays in what is searched, and a greater distance finds no less.
LEMMA BallBounds ==
    ASSUME NEW D, NEW nbr \in [D -> SUBSET D], NEW W \in SUBSET D, NEW fr,
           NEW S \in SUBSET W, NEW k \in Nat
    PROVE  /\ S \subseteq Ball(S, W, nbr, fr, k) /\ Ball(S, W, nbr, fr, k) \subseteq W
           /\ \A j \in 0 .. k : Ball(S, W, nbr, fr, j) \subseteq Ball(S, W, nbr, fr, k)
<1> DEFINE enter == Enter(W, nbr, fr)
<1>1. enter \in [D -> SUBSET D] /\ \A x \in D : enter[x] \subseteq W
  BY DEF Enter
<1>2. S \in SUBSET D
  OBVIOUS
<1> HIDE DEF enter
<1>3. Within(S, W, nbr, enter, k) \subseteq W
  BY <1>1, WithinSearched
<1>4. \A j \in 0 .. k : Within(S, W, nbr, enter, j) \subseteq Within(S, W, nbr, enter, k)
  <2> SUFFICES ASSUME NEW j \in 0 .. k
               PROVE  Within(S, W, nbr, enter, j) \subseteq Within(S, W, nbr, enter, k)
    OBVIOUS
  <2>1. j \in Nat /\ j <= k
    OBVIOUS
  <2> QED
    BY <1>1, <1>2, <2>1, WithinMonotone
<1>5. S \subseteq Within(S, W, nbr, enter, 0)
  BY <1>1, <1>2, WithinStart
<1>6. S \subseteq Within(S, W, nbr, enter, k)
  BY <1>4, <1>5
<1>7. \A j : Ball(S, W, nbr, fr, j) = Within(S, W, nbr, enter, j)
  BY Zenon DEF Ball, enter
<1> QED
  BY <1>3, <1>4, <1>6, <1>7

\* Exploring W2 over nb2 finds no more than exploring W1 over nb1, where that goes
\* on to no fewer neighbours.
LEMMA BallCompare ==
    ASSUME NEW D, NEW nb1 \in [D -> SUBSET D], NEW nb2 \in [D -> SUBSET D],
           NEW W1 \in SUBSET D, NEW W2 \in SUBSET D, NEW fr,
           NEW S \in SUBSET W1, NEW k \in Nat,
           \A x \in Ball(S, W1, nb1, fr, k) : nb2[x] \cap W2 \subseteq nb1[x] \cap W1
    PROVE  Ball(S, W2, nb2, fr, k) \subseteq Ball(S, W1, nb1, fr, k)
<1> DEFINE enter1 == Enter(W1, nb1, fr)
           enter2 == Enter(W2, nb2, fr)
<1>1. /\ enter1 \in [D -> SUBSET D] /\ enter2 \in [D -> SUBSET D]
      /\ \A x \in D : enter1[x] = IF x \in W1 THEN nb1[x] \cap W1 \cap fr ELSE {}
      /\ \A x \in D : enter2[x] = IF x \in W2 THEN nb2[x] \cap W2 \cap fr ELSE {}
  BY DEF Enter
<1>2. Ball(S, W1, nb1, fr, k) \subseteq W1
  BY BallBounds
<1>3. /\ Ball(S, W1, nb1, fr, k) = Within(S, W1, nb1, enter1, k)
      /\ Ball(S, W2, nb2, fr, k) = Within(S, W2, nb2, enter2, k)
  BY Zenon DEF Ball, enter1, enter2
<1> HIDE DEF enter1, enter2
<1>4. \A x \in Within(S, W1, nb1, enter1, k) :
         nb2[x] \cap W2 \subseteq nb1[x] \cap W1 /\ enter2[x] \subseteq enter1[x]
  BY <1>1, <1>2, <1>3
<1>5. S \in SUBSET D
  OBVIOUS
<1>6. Within(S, W2, nb2, enter2, k) \subseteq Within(S, W1, nb1, enter1, k)
  BY <1>1, <1>4, <1>5, WithinCompare
<1> QED
  BY <1>3, <1>6

\* A zone stays what it was while the graph grows elsewhere: around its inner gadgets
\* nothing is new.
LEMMA ZoneStays ==
    ASSUME NEW D, NEW nb1 \in [D -> SUBSET D], NEW nb2 \in [D -> SUBSET D],
           NEW W1 \in SUBSET D, NEW W2 \in SUBSET D, NEW fr,
           NEW S \in SUBSET W1, NEW r \in Nat, r > 0,
           \A x \in Ball(S, W1, nb1, fr, r - 1) : nb2[x] = nb1[x] /\ nb1[x] \subseteq W1
    PROVE  /\ Ball(S, W2, nb2, fr, r - 1) \subseteq Ball(S, W1, nb1, fr, r - 1)
           /\ Zone(S, W2, nb2, fr, r) \subseteq Zone(S, W1, nb1, fr, r)
<1> DEFINE A == Ball(S, W1, nb1, fr, r - 1)
           B == Ball(S, W2, nb2, fr, r - 1)
<1>1. r - 1 \in Nat
  OBVIOUS
<1>2. A \subseteq W1
  BY <1>1, BallBounds
<1>3. \A x \in A : nb2[x] \cap W2 \subseteq nb1[x] \cap W1
  OBVIOUS
<1>4. B \subseteq A
  <2> HIDE DEF B
  <2>1. Ball(S, W2, nb2, fr, r - 1) \subseteq Ball(S, W1, nb1, fr, r - 1)
    BY <1>1, <1>3, BallCompare
  <2> QED
    BY <2>1 DEF B
<1>5. \A x \in A : nb2[x] = nb1[x] /\ nb1[x] \subseteq W1
  OBVIOUS
<1>6. /\ Zone(S, W1, nb1, fr, r) = S \cup (W1 \cap (A \cup Around(A, nb1)))
      /\ Zone(S, W2, nb2, fr, r) = S \cup (W2 \cap (B \cup Around(B, nb2)))
  <2>1. r # 0
    OBVIOUS
  <2> QED
    BY <2>1, Zenon DEF Zone
<1> HIDE DEF A, B
<1>7. Around(B, nb2) \subseteq W1 \cap Around(A, nb1)
  BY <1>4, <1>5 DEF Around
<1>8. Zone(S, W2, nb2, fr, r) \subseteq Zone(S, W1, nb1, fr, r)
  BY <1>2, <1>4, <1>6, <1>7
<1> QED
  BY <1>4, <1>8 DEF A, B

\* Where the inner gadgets around x have all their neighbours in W, a zone around
\* x, however much is searched, is in the zone of W around a set that contains x.
LEMMA ZoneInside ==
    ASSUME NEW D, NEW nbr \in [D -> SUBSET D], NEW W \in SUBSET D, NEW E \in SUBSET D,
           NEW fr, NEW S \in SUBSET W, NEW x \in S, NEW r \in Nat, r > 0,
           \A y \in Ball({x}, W, nbr, fr, r - 1) : nbr[y] \subseteq W
    PROVE  /\ Ball({x}, E, nbr, fr, r - 1) \subseteq Ball({x}, W, nbr, fr, r - 1)
           /\ Zone({x}, E, nbr, fr, r) \subseteq Zone(S, W, nbr, fr, r)
<1> DEFINE A == Ball({x}, W, nbr, fr, r - 1)
           C == Ball(S, W, nbr, fr, r - 1)
<1>1. r - 1 \in Nat /\ r # 0 /\ {x} \in SUBSET W /\ {x} \in SUBSET D /\ S \in SUBSET D
  OBVIOUS
<1>2. \A y \in Ball({x}, W, nbr, fr, r - 1) : nbr[y] = nbr[y] /\ nbr[y] \subseteq W
  OBVIOUS
<1>3. /\ Ball({x}, E, nbr, fr, r - 1) \subseteq Ball({x}, W, nbr, fr, r - 1)
      /\ Zone({x}, E, nbr, fr, r) \subseteq Zone({x}, W, nbr, fr, r)
  BY <1>1, <1>2, ZoneStays
<1>4. A \subseteq C
  <2> DEFINE enter == Enter(W, nbr, fr)
  <2>1. enter \in [D -> SUBSET D]
    BY DEF Enter
  <2>2. A = Within({x}, W, nbr, enter, r - 1) /\ C = Within(S, W, nbr, enter, r - 1)
    BY Zenon DEF Ball, enter
  <2> HIDE DEF enter, A, C
  <2>3. S \subseteq Within(S, W, nbr, enter, 0)
    BY <1>1, <2>1, WithinStart
  <2>4. {x} \subseteq Within(S, W, nbr, enter, 0) /\ 0 \in Nat /\ 0 + (r - 1) = r - 1
    BY <2>3
  <2>5. Within({x}, W, nbr, enter, r - 1) \subseteq Within(S, W, nbr, enter, 0 + (r - 1))
    BY <1>1, <2>1, <2>4, WithinShift
  <2> QED
    BY <2>2, <2>4, <2>5
<1>5. /\ Zone({x}, W, nbr, fr, r) = {x} \cup (W \cap (A \cup Around(A, nbr)))
      /\ Zone(S, W, nbr, fr, r) = S \cup (W \cap (C \cup Around(C, nbr)))
  BY <1>1, Zenon DEF Zone
<1>6. Zone({x}, W, nbr, fr, r) \subseteq Zone(S, W, nbr, fr, r)
  <2> HIDE DEF A, C
  <2>1. Around(A, nbr) \subseteq Around(C, nbr)
    BY <1>4 DEF Around
  <2> QED
    BY <1>4, <1>5, <2>1
<1> QED
  BY <1>3, <1>6

\* What lies deeper in W than k has no edge of W within k.
LEMMA DeepEnclosed ==
    ASSUME NEW D, NEW nbr \in [D -> SUBSET D],
           \A x, y \in D : y \in nbr[x] => x \in nbr[y],
           NEW W \in SUBSET D, NEW fr, NEW k \in Nat, NEW seeds \in SUBSET W,
           NEW x \in W, x \notin Shell(seeds, W, nbr, fr, k)
    PROVE  Ball({x}, W, nbr, fr, k) \cap seeds = {}
<1> SUFFICES ASSUME NEW y \in Ball({x}, W, nbr, fr, k), y \in seeds
             PROVE  FALSE
  OBVIOUS
<1>1. x \in Shell({y}, W, nbr, fr, k)
  BY BallToShell
<1> DEFINE leave == Leave(W, nbr, fr)
<1>2. leave \in [D -> SUBSET D]
  BY DEF Leave
<1>3. /\ Shell({y}, W, nbr, fr, k) = Within({y}, W, nbr, leave, k)
      /\ Shell(seeds, W, nbr, fr, k) = Within(seeds, W, nbr, leave, k)
  BY Zenon DEF Shell, leave
<1> HIDE DEF leave
<1>4. {y} \in SUBSET D /\ seeds \in SUBSET D /\ 0 \in Nat /\ 0 + k = k
  OBVIOUS
<1>5. seeds \subseteq Within(seeds, W, nbr, leave, 0)
  BY <1>2, <1>4, WithinStart
<1>6. {y} \subseteq Within(seeds, W, nbr, leave, 0)
  BY <1>5
<1>7. Within({y}, W, nbr, leave, k) \subseteq Within(seeds, W, nbr, leave, 0 + k)
  BY <1>2, <1>4, <1>6, WithinShift
<1> QED
  BY <1>1, <1>3, <1>4, <1>7
=============================================================================

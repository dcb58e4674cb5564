--------------------------- MODULE WindowDecoding ---------------------------
(***************************************************************************)
(* What the window coordinator decodes: the values that its control        *)
(* (WindowCoordinator) leaves out.  A leader turns its window into a       *)
(* relative program and a decoding hypergraph, or takes a decoder that was *)
(* loaded for an equal program; the decoder explains the syndrome of the   *)
(* window; of its explanation the errors of the commit region are fixed,   *)
(* and their effect is taken out of the syndrome that later leaders see.   *)
(*                                                                         *)
(* Every gadget has one check, so a check is named by its gadget and a     *)
(* syndrome is the set of the checks that are flipped.  The faults, drops  *)
(* and resets of WindowCoordinator are not repeated here.                  *)
(***************************************************************************)
EXTENDS WindowCoordinator, Sequences

CONSTANT Problems   \* for each circuit, the problems it may pose

\* gtype: the gadgets' types.  errors: the errors of a gadget's error model, each
\* the places whose checks it flips: 0 its own, k the k-th of `remotes`.  terminal:
\* the same of its terminal error model.  prior: the modifier of its probabilities.
\* late: gadgets whose error models may come when others are decoded already.
IsProblem(p) ==
    /\ DOMAIN p = {"gtype", "errors", "terminal", "remotes", "prior", "late"}
    /\ \A g \in Gadgets :
          /\ p.remotes[g] \in Seq(Gadgets \ {g})
          /\ {p.errors[g], p.terminal[g]} \subseteq Seq(SUBSET (0 .. Len(p.remotes[g])))

ASSUME ProblemAssumption ==
    \A c \in Circuits : \A p \in Problems[c] : IsProblem(p)

\* The checks that some error of g flips.
Flips(p, g) ==
    {IF s = 0 THEN g ELSE p.remotes[g][s] : s \in UNION {p.errors[g][i] : i \in DOMAIN p.errors[g]}}

\* The terminal error model is the error model cut down to some of its places, and
\* keeps an error of the gadget's own check.
TerminalCutDown(p) ==
    \A g \in Gadgets :
        /\ \A i \in DOMAIN p.terminal[g] :
              /\ i \in DOMAIN p.errors[g]
              /\ p.errors[g][i] \cap {0} \subseteq p.terminal[g][i]
              /\ p.terminal[g][i] \subseteq p.errors[g][i]
        /\ (\E i \in DOMAIN p.errors[g] : 0 \in p.errors[g][i])
               => \E i \in DOMAIN p.terminal[g] : 0 \in p.terminal[g][i]

\* The connectors of the whole program.
Links(c) ==
    [x \in Gadgets |-> {y \in c.gadgets : x \in c.gadgets /\ (y \in c.inputs[x] \/ x \in c.inputs[y])}]

\* Errors with a check elsewhere flip it later, and not more than r hops away.
ErrorsWithin(c, r, p) ==
    \A g \in Gadgets : \A x \in Flips(p, g) \ {g} :
        /\ {g, x} \subseteq c.checks
        /\ g \in Closure(c.inputs[x], c.inputs)
        /\ x \in Zone({g}, c.gadgets, Links(c), c.free, r)

\* Every check that errors flip is one that an error of its gadget alone flips.
ExplainedAlone(p) ==
    \A g \in Gadgets :
        /\ \A i \in DOMAIN p.terminal[g] : p.terminal[g][i] = p.errors[g][i]
        /\ \A x \in Flips(p, g) :
              /\ \E i \in DOMAIN p.errors[x] : p.errors[x][i] = {0}
              /\ \E i \in DOMAIN p.terminal[x] : p.terminal[x][i] = {0}

\* What the windows can explain: with a buffer, errors that reach no further than it;
\* without one, what each gadget's own errors explain.
ASSUME ReachAssumption ==
    \A c \in Circuits : \A p \in Problems[c] :
        /\ TerminalCutDown(p)
        /\ \A k \in Configs[c] :
              IF k.buffer_radius = 0 THEN ExplainedAlone(p)
                                     ELSE ErrorsWithin(c, k.buffer_radius, p)

VARIABLES problem,
          origin,     \* what the outcomes of the shot make of the checks
          flipped,    \* the values of the syndromes that are there
          loaded,     \* loaded_decoders: hypergraphs by DecoderCacheKey
          corrections, \* the errors fixed so far
          edges, read \* of each leader: its hypergraph, and the syndrome it read

values == <<problem, origin, flipped, loaded, corrections, edges, read>>

Parity(S) == {c \in Gadgets : Cardinality({e \in S : c \in e.checks}) % 2 = 1}
Xor(S, T) == (S \ T) \cup (T \ S)

\* The check a place of an error of x stands for.
Check(x, place) == IF place = 0 THEN x ELSE problem.remotes[x][place]
Checks(x, error) == {Check(x, place) : place \in error}

AllErrors(p) ==
    UNION {{[checks |-> {IF s = 0 THEN g ELSE p.remotes[g][s] : s \in p.errors[g][i]}, owner |-> g, index |-> i] :
                i \in DOMAIN p.errors[g]} : g \in Gadgets}

\* The outcomes come from some set of errors of the program.
InitValues ==
    /\ Init
    /\ problem \in Problems[circuit]
    /\ origin \in {Parity(E) : E \in SUBSET AllErrors(problem)}
    /\ flipped = {} /\ loaded = <<>> /\ corrections = {}
    /\ edges = [g \in Gadgets |-> {}] /\ read = [g \in Gadgets |-> {}]

-----------------------------------------------------------------------------
(* The window as a relative program, and its hypergraph.                   *)

\* Gadgets with a vertex in the window of g.
Vertices(g) == window[g] \cap bound

\* Gadgets outside the window whose errors reach into it, unless the errors are
\* decided already; isolated windows do not look outside.
OutsideIgnoresCommits(g) == {x \in attached \ window[g] :
                                \E i \in DOMAIN problem.remotes[x] : problem.remotes[x][i] \in Vertices(g)}
Outside(g) ==
    IF BufferRadius = 0 THEN {}
    ELSE {x \in attached \ (window[g] \cup committed) :
             \E i \in DOMAIN problem.remotes[x] : problem.remotes[x][i] \in Vertices(g)}

\* Committed gadgets of the window keep their checks but bring no errors.
Inside(g) == Vertices(g) \ committed
Model(x) == IF x \in attached THEN problem.errors[x] ELSE problem.terminal[x]

\* local_gadgets: the window in the order of its gids, then the gadgets outside.
Sorted(S) == [i \in 1 .. Cardinality(S) |->
                 CHOOSE x \in S : Cardinality({y \in S : y < x}) = i - 1]
Program(g) == Sorted(window[g]) \o Sorted(Outside(g))

\* An error of the commit region with a check outside cannot be fixed: it is left
\* out.  Other errors are cut down to their checks in the window.
Dropped(g, x, error) ==
    x \in cids[g] /\ \E place \in error \ {0} : Check(x, place) \notin Vertices(g)

Edge(g, x, i) == [owner |-> x, index |-> i, prior |-> problem.prior[x],
                  checks |-> Checks(x, Model(x)[i]) \cap Vertices(g)]

EdgesOf(g, x) ==
    {e \in {Edge(g, x, i) : i \in {i \in DOMAIN Model(x) : ~Dropped(g, x, Model(x)[i])}} :
        e.checks # {}}

DecodingHypergraph(g) == UNION {EdgesOf(g, x) : x \in Inside(g) \cup Outside(g)}

\* Gids by their places in the program p, unknown ones dropped.
LocalOf(p, S) == {i \in DOMAIN p : p[i] \in S}
GlobalOf(p, I) == {p[i] : i \in I}

\* ExpandedErrorModel, with its modifier's fingerprint.
FingerprintUnmodified(g, x, p) ==
    [errors |-> Model(x),
     remotes |-> [i \in DOMAIN problem.remotes[x] |->
                     LocalOf(p, {problem.remotes[x][i]} \cap Vertices(g))]]
Fingerprint(g, x, p) ==
    [errors |-> Model(x), prior |-> problem.prior[x],
     remotes |-> [i \in DOMAIN problem.remotes[x] |->
                     LocalOf(p, {problem.remotes[x][i]} \cap Vertices(g))]]

LocalGadget(g, x, p) ==
    [gtype |-> problem.gtype[x], inputs |-> LocalOf(p, circuit.inputs[x]),
     check |-> x \in Vertices(g),
     models |-> {Fingerprint(g, y, p) : y \in {x} \cap (Inside(g) \cup Outside(g))}]

RelativeProgram(g, p) == [i \in DOMAIN p |-> LocalGadget(g, p[i], p)]

CacheKey(g, p) ==
    [program |-> RelativeProgram(g, p), committing |-> LocalOf(p, cids[g])]

\* The edges with local owners and vertices, as they are loaded, and back.
Localised(E, p) ==
    {[e EXCEPT !.owner = CHOOSE i \in DOMAIN p : p[i] = e.owner,
               !.checks = LocalOf(p, @)] : e \in E}
Globalised(E, p) ==
    {[e EXCEPT !.owner = p[@], !.checks = GlobalOf(p, @)] : e \in E}

\* Checks that no edge can flip belong to history: their bits are cleared.
IgnoreIsolated(E, syndromes) == syndromes \cap UNION {e.checks : e \in E}

-----------------------------------------------------------------------------
(* The steps of WindowCoordinator that see values.                         *)

ComputeSyndromeValue(g) ==
    /\ ComputeSyndrome(g)
    /\ flipped' = (flipped \ {g}) \cup (origin \cap {g})
    /\ UNCHANGED <<problem, origin, loaded, corrections, edges, read>>

\* A decoder that is not there yet is loaded.
Load(g, p, key) ==
    IF key \in DOMAIN loaded THEN loaded
    ELSE [k \in DOMAIN loaded \cup {key} |->
             IF k = key THEN Localised(DecodingHypergraph(g), p) ELSE loaded[k]]

\* The read locks of decode_and_commit, decode_parity_factor up to the decoder's call.
DecodeWith(g, p, key) ==
    /\ loaded' = Load(g, p, key)
    /\ edges' = [edges EXCEPT ![g] = Globalised(loaded'[key], p)]
    /\ read' = [read EXCEPT ![g] = IgnoreIsolated(edges'[g], flipped \cap Vertices(g))]

DecodeProgram(g, p) == DecodeWith(g, p, CacheKey(g, p))

DecodeParityFactor(g) ==
    /\ AwaitWindowModels(g)
    /\ DecodeProgram(g, Program(g))
    /\ UNCHANGED <<problem, origin, flipped, corrections>>

Explanations(g) == {F \in SUBSET edges[g] : Parity(F) = read[g]}

\* update_pauli_frame: the errors of the commit region are fixed, with all their
\* checks, and taken out of the syndromes.
Whole(e) == [e EXCEPT !.checks = Checks(e.owner, Model(e.owner)[e.index])]
Fixed(g, F) == {Whole(e) : e \in {e \in F : e.owner \in cids[g]}}

Correct(errors) ==
    /\ corrections' = corrections \cup errors
    /\ flipped' = Xor(flipped, Parity(errors))

UpdatePauliFrame(g) ==
    /\ DecoderAnswers(g)
    /\ \E F \in Explanations(g) : Correct(Fixed(g, F))
    /\ edges' = [edges EXCEPT ![g] = {}] /\ read' = [read EXCEPT ![g] = {}]
    /\ UNCHANGED <<problem, origin, loaded>>

\* The client executes its check models, and its error models but for the late ones,
\* before its outcomes come.
Executed ==
    /\ circuit.checks \subseteq bound
    /\ bound \ problem.late \subseteq attached

Otherwise(g) ==
    /\ \/ Execute(g) \/ (Executed /\ Decode(g)) \/ Explore(g) \/ CommitLoop(g)
       \/ CommitUnchecked(g) \/ AwaitOutcomes(g) \/ AwaitWindowSyndrome(g)
       \/ ReturnFrame(g)
    /\ UNCHANGED values

NextValues ==
    \/ \E g \in Gadgets :
          ComputeSyndromeValue(g) \/ DecodeParityFactor(g) \/ UpdatePauliFrame(g) \/ Otherwise(g)
    \/ AllReturned /\ UNCHANGED values

SpecValues == InitValues /\ [][NextValues]_<<vars, values>>

-----------------------------------------------------------------------------
(* Properties                                                              *)

\* The corrections of all windows together explain the outcomes: where only errors
\* of committed gadgets can flip a check, the errors fixed so far flip it as the
\* outcomes do.
SyndromeExplained ==
    \A x \in syndrome :
        (\A e \in AllErrors(problem) : x \in e.checks => e.owner \in committed)
            => (x \in origin <=> x \in Parity(corrections))

\* A decoder is taken from the cache only for the hypergraph it was loaded with,
\* wherever the window lies and whatever was committed around it.
CacheExact ==
    [][\A g \in Gadgets : (pc[g] = "errors" /\ pc'[g] = "decoder")
                              => edges'[g] = DecodingHypergraph(g)]_<<vars, values>>
=============================================================================

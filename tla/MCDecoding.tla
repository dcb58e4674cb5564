------------------------------ MODULE MCDecoding ------------------------------
(* Shots from their losses to their corrections: the loss sites of a program *)
(* (LossSites), the problem a coordinator makes of them (DecoderProjection),  *)
(* and the decoder that solves it (HufDecoder).                               *)
EXTENDS HufDecoder, ForcedGap
LOCAL INSTANCE SequencesExt
LOCAL INSTANCE FiniteSetsExt
LOCAL INSTANCE TLC

Compiler == INSTANCE LossSites

CONSTANTS Programs, Configs, Updates, Syndromes

VARIABLES
    shot,    \* the request: its program, configuration and updates
    problem, \* what the decoder was given
    duals,   \* how long each set of vertices has grown as an invalid cluster
    risk     \* the readout that is scored, or its score

mcvars == <<vars, shot, problem, duals, risk>>

----------------------------------------------------------------------------
(* Programs.                                                                *)

Loss(probability, source, continuation, heralds, children, out) ==
    [probability |-> probability, source |-> source, continuation |-> continuation,
     heralds |-> heralds, children |-> children, out |-> out]
Entering(continuation, heralds, children, out) ==
    [continuation |-> continuation, heralds |-> heralds, children |-> children, out |-> out]

NoModel(up, ins, outs) ==
    [up |-> up, ins |-> ins, outs |-> outs, model |-> FALSE, fresh |-> <<>>, input |-> <<>>,
     eid |-> 0, masked |-> FALSE, lost |-> {}]
Gadget(up, ins, outs, fresh, input, eid, lost) ==
    [up |-> up, ins |-> ins, outs |-> outs, model |-> TRUE, fresh |-> fresh, input |-> input,
     eid |-> eid, masked |-> lost # {}, lost |-> lost]

From(gadget, port) == [gadget |-> gadget, port |-> port]

\* A preparation of two ports, of one and two qubits; a gadget without model takes the first;
\* the gadget after takes the second and the output of one outside, in another order.
Twisted(lost1, lost3) ==
    <<Gadget(<<>>, <<>>, <<1, 2>>,
             <<Loss(1, {2}, {}, {1}, {2}, {}), Loss(2, {}, {2}, {2}, {}, {1, 2}), Loss(1, {1}, {2}, {}, {}, {3})>>,
             <<>>, 1, lost1),
      NoModel(<<From(1, 1)>>, <<1>>, <<1>>),
      Gadget(<<From(0, 1), From(1, 2), From(2, 1)>>, <<1, 2, 1>>, <<>>,
             <<Loss(1, {3}, {4}, {2}, {}, {})>>,
             <<Entering({}, {3}, {}, {}), Entering({3}, {1}, {}, {}), Entering({4}, {}, {1}, {}), Entering({}, {2}, {}, {})>>,
             2, lost3)>>

\* A loss that may pass a gadget by two ways and is heralded in a third.
Passing(lost1, lost3) ==
    <<Gadget(<<>>, <<>>, <<1>>, <<Loss(1, {2}, {2}, {}, {}, {1})>>, <<>>, 1, lost1),
      Gadget(<<From(1, 1)>>, <<1>>, <<2>>, <<Loss(1, {3}, {}, {}, {}, {1})>>,
             <<Entering({4}, {}, {1}, {2})>>, 2, {}),
      Gadget(<<From(2, 1)>>, <<2>>, <<>>, <<>>,
             <<Entering({}, {1}, {}, {}), Entering({}, {2}, {}, {})>>, 0, lost3)>>

Lost == SUBSET {1, 2}
MCPrograms ==
    {Twisted(a, b) : a \in Lost, b \in {{}, {1}, {2}, {1, 2}, {3}}}
        \cup {Passing(a, b) : a \in {{}, {1}}, b \in Lost}
ASSUME \A program \in Programs : Compiler!IsProgram(program)

\* The error generators of the two error models, as edges of the graph.
GraphEdge(checks, level, readouts) ==
    [vertices |-> checks, probability |-> level, flips |-> readouts, observables |-> {}]
Generators ==
    <<GraphEdge({1, 2}, 3, {}), GraphEdge({1, 2}, 0, {}), GraphEdge({1}, 2, {1, 3}), GraphEdge({}, 2, {1, 3}),
      GraphEdge({1, 2}, 1, {}), GraphEdge({2, 3}, 2, {}), GraphEdge({3}, 0, {1, 2, 3}), GraphEdge({1, 2, 3}, 0, {})>>
Errors == [e \in DOMAIN Generators |-> [eid |-> 1 + ((e - 1) \div 4), index |-> 1 + ((e - 1) % 4)]]
Committing == [eid \in {1, 2} |-> eid]
Alike == [eid \in {1, 2} |-> 0]

Assign(eid, index, level) == [eid |-> eid, index |-> index, probability |-> level]
MCUpdates ==
    {<<>>, <<Assign(2, 1, 4)>>, <<Assign(1, 1, 0), Assign(1, 3, 0), Assign(1, 4, 5)>>,
     <<Assign(1, 2, 2), Assign(3, 1, 1), Assign(1, 2, 4)>>}

\* The checks a shot may flip: the last is at no edge.
Checks == {1, 2, 3, 4}
MCSyndromes == SUBSET {1, 2, 3} \cup {{4}, {1, 4}}
Targets == 1 .. 4

Policy(strategy, scale) == [strategy |-> strategy, scale |-> scale]
Config(policy, merge, window, persistent, reweighting, capable) ==
    [policy |-> policy, merge |-> merge, window |-> window, persistent |-> persistent,
     reweighting |-> reweighting, capable |-> capable]
Policies ==
    {Policy("ignore", "local"), Policy("handoff", "local"), Policy("reweight", "local"),
     Policy("reweight", "global_mean"), Policy("reweight", "neighbourhood_mean")}
MCConfigs ==
    {Config(policy, merge, window, window, "auto", merge) :
        policy \in Policies, merge \in BOOLEAN, window \in BOOLEAN}

----------------------------------------------------------------------------
(* The way of a shot.                                                       *)

Unloaded == [is |-> "none"]
Unscored == [is |-> "unscored"]

Init ==
    /\ shot \in [program : Programs, config : Configs, assignments : Updates]
    /\ problem = Unloaded /\ duals = <<>> /\ risk = Unscored
    /\ edges = <<>> /\ syndrome = {} /\ answer = Idle
    /\ parent = [v \in Vertices |-> v] /\ clusters = [v \in Vertices |-> Emptied]
    /\ growth = <<>> /\ queue = {} /\ invalid = 0 /\ now = 0

Class(config) == IF config.window THEN Committing ELSE Alike
SitesOf(s) == Compiler!BuildLossSites(s.config.policy.strategy # "ignore", s.program)
Request(s, defects) == [assignments |-> s.assignments, sites |-> SitesOf(s), syndrome |-> defects]

\* The decoder's hypergraph: weights for probabilities.
Backend(graph) ==
    [e \in DOMAIN graph |->
        [vertices |-> graph[e].vertices, possible |-> graph[e].probability # 0,
         weight |-> Unit * WeightOf(graph[e].probability)]]

Give(p, config) ==
    /\ problem' = [is |-> "given", scored |-> config.policy.strategy # "handoff" /\ ~config.window] @@ p
    /\ Load(Backend(p.graph))

Submit(defects) ==
    /\ problem = Unloaded
    /\ Give(DecodingProblem(Generators, Errors, Class(shot.config), shot.config, Request(shot, defects)),
            shot.config)
    /\ shot' = Unloaded
    /\ UNCHANGED <<duals, risk>>

Solve ==
    /\ problem # Unloaded /\ risk.is \in {"unscored", "asked"}
    /\ Decode(IF risk.is = "asked" THEN ForcedSyndrome(risk.case, risk.target) ELSE problem.syndrome)
    /\ duals' = <<>> /\ UNCHANGED <<shot, problem, risk>>

Misread ==
    /\ problem # Unloaded /\ risk = Unscored
    /\ Refuse(problem.syndrome \cup {VertexNum + 1})
    /\ UNCHANGED <<shot, problem, duals, risk>>

\* The clusters that are invalid have grown until the next event.
Growers == {clusters[v].vertices : v \in {v \in Vertices : clusters[v].invalid}}
Grown(S) == IF S \in DOMAIN duals THEN duals[S] ELSE 0
GrowOn ==
    /\ Grow
    /\ duals' = [S \in Growers |-> Grown(S) + (now' - now)] @@ duals
    /\ UNCHANGED <<shot, problem, risk>>

Stop ==
    /\ Starve \/ Finish \/ Expire
    /\ UNCHANGED <<shot, problem, duals, risk>>

\* The coordinator asks how sure the correction of a readout is.
Case == [graph |-> problem.scoring, syndrome |-> problem.syndrome, baseline |-> answer.subgraph]
Scored(target, case, result) == [is |-> "scored", target |-> target, case |-> case, result |-> result]

Ask(target, case, known) ==
    IF known.is = "solve"
    THEN /\ risk' = [is |-> "asked", target |-> known.gap, case |-> case]
         /\ Load(Backend(ForcedHypergraph(problem.scoring, known.gap)))
    ELSE risk' = Scored(target, case, known) /\ UNCHANGED vars

Score ==
    /\ risk = Unscored /\ problem # Unloaded /\ problem.scored /\ answer.is = "ok"
    /\ \E target \in Targets : Ask(target, Case, Probability(Case, target))
    /\ UNCHANGED <<shot, problem, duals>>

Told ==
    /\ risk.is = "asked" /\ answer.is \notin {"idle", "growing"}
    /\ risk' = Scored(risk.target, risk.case,
                      ForcedGapProbability(risk.case, risk.target, answer.is = "ok", answer.subgraph))
    /\ UNCHANGED <<vars, shot, problem, duals>>

Next ==
    \/ \E defects \in Syndromes : Submit(defects)
    \/ Solve \/ Misread \/ GrowOn \/ Stop \/ Score \/ Told

Spec == Init /\ [][Next]_mcvars

----------------------------------------------------------------------------
(* Losses.                                                                  *)

\* The places where an atom may be lost, in the order of the program.
PlacesOf(program) ==
    FlattenSeq([g \in DOMAIN program |->
        [l \in DOMAIN program[g].fresh |-> <<g, FALSE, l>>]
        \o [s \in DOMAIN program[g].input |-> <<g, TRUE, s>>]])
LossAt(program, a) == IF a[2] THEN program[a[1]].input[a[3]] ELSE program[a[1]].fresh[a[3]]

\* The port and qubit of every slot.
Qubits(widths) == FlattenSeq([k \in DOMAIN widths |-> [i \in 1 .. widths[k] |-> <<k, i>>]])

\* A loss at a goes on at b: later in its gadget, or on the qubit it leaves by.
GoesOn(program, a, b) ==
    IF ~b[2] THEN a[1] = b[1] /\ b[3] \in LossAt(program, a).children
    ELSE LET entry == Qubits(program[b[1]].ins)[b[3]]
             up == program[b[1]].up[entry[1]]
         IN  /\ up.gadget = a[1]
             /\ \E s \in LossAt(program, a).out : Qubits(program[a[1]].outs)[s] = <<up.port, entry[2]>>

\* Everything a loss at one of these places may come to.
After(program, places, from) ==
    FoldLeft(LAMBDA S, step : S \cup {b \in Range(places) : \E a \in S : GoesOn(program, a, b)},
             from, places)

HeraldsAt(program, S) == UNION {{a[1]} \X LossAt(program, a).heralds : a \in S}
LostIn(program) == UNION {{g} \X program[g].lost : g \in DOMAIN program}

\* A loss is possible when it comes to a measurement and all it comes to were lost.
PossibleAt(program, heralds) == heralds # {} /\ heralds \subseteq LostIn(program)

Possible(program, places) ==
    SelectSeq(places, LAMBDA a : PossibleAt(program, HeraldsAt(program, After(program, places, {a}))))

SameSite(program, places, site, a) ==
    /\ site.eid = program[a[1]].eid
    /\ site.probability = IF a[2] THEN 0 ELSE LossAt(program, a).probability
    /\ site.source = IF a[2] THEN {} ELSE LossAt(program, a).source
    /\ site.continuation = LossAt(program, a).continuation
    /\ site.children = {p \in DOMAIN places : GoesOn(program, a, places[p])}

SitesAre(program, sites, places) ==
    /\ Len(sites) = Len(places)
    /\ \A p \in DOMAIN sites : SameSite(program, places, sites[p], places[p])
    /\ \A p, q \in DOMAIN sites :
          Cardinality(sites[p].heralds \cap sites[q].heralds)
            = Cardinality(HeraldsAt(program, {places[p]}) \cap HeraldsAt(program, {places[q]}))

SitesMatch(program, sites) ==
    LostIn(program) # {} => SitesAre(program, sites, Possible(program, PlacesOf(program)))

\* The loss sites that loss_compiler.rs emits for a window are the losses that agree with
\* the loss masks, each with its generators, the sites it goes on at and its heralds.
LossSitesExact ==
    shot # Unloaded => SitesMatch(shot.program, Compiler!BuildLossSites(TRUE, shot.program))

----------------------------------------------------------------------------
(* Problems.                                                                *)

Ways(config) ==
    {c \in {[config EXCEPT !.persistent = p, !.reweighting = r, !.capable = k] :
                p \in BOOLEAN, r \in {"auto", "enabled", "disabled"}, k \in BOOLEAN} : ConfigAccepted(c)}

Essence(p) == [graph |-> p.graph, syndrome |-> p.syndrome, loss |-> p.loss, errors |-> p.errors]
ProblemFor(config, request) == DecodingProblem(Generators, Errors, Class(config), config, request)

\* What every generator's probability is in this shot.
LiveGraph(config, request) ==
    ApplySites(ApplyReweights(Generators, ProbabilityReweights(Errors, request.assignments)),
               LossOf(request.sites, Errors, config.policy), config.policy)

Alternatives(config, e) ==
    {f \in DOMAIN Generators :
        /\ Generators[f].vertices = Generators[e].vertices /\ Generators[f].flips = Generators[e].flips
        /\ Class(config)[Errors[f].eid] = Class(config)[Errors[e].eid]}

\* With merged edges: the decoder's edge for generator e has the probability of an odd
\* number of its alternatives, and stands for the most probable of them.
StandsFor(config, live, p, d, e) ==
    LET all == IF MergesEdges(config) THEN Alternatives(config, e) ELSE {e}
    IN  /\ p.graph[d].probability =
              IF Generators[e].vertices = {} /\ Generators[e].flips # {} THEN 0
              ELSE FoldSet(LAMBDA f, sum : live[f].probability + sum, 0, all)
        /\ \E f \in all : /\ p.errors[d] = Errors[f]
                           /\ \A g \in all : live[g].probability <= live[f].probability

EdgesMean(config, live, p) ==
    \A e \in DOMAIN Generators : \E d \in DOMAIN p.graph :
        /\ p.graph[d].vertices = Generators[e].vertices /\ p.graph[d].flips = Generators[e].flips
        /\ StandsFor(config, live, p, d, e)

SameProblem(config, request, p) ==
    /\ \A c \in Ways(config) : Essence(ProblemFor(c, request)) = Essence(p)
    /\ EdgesMean(config, LiveGraph(config, request), p)

\* A shot on a loaded decoder, with its updates passed on or put into a copy, is the problem
\* that a coordinator without persistent decoder builds anew, with the same errors behind its
\* edges; and every edge means all the errors that share its syndrome.
ProjectionExact ==
    shot # Unloaded =>
        SameProblem(shot.config, Request(shot, Checks),
                    ProblemFor([shot.config EXCEPT !.persistent = FALSE], Request(shot, Checks)))

----------------------------------------------------------------------------
(* The decoder.                                                             *)

Clusters == {v \in Vertices : clusters[v].vertices # {}}

\* How far an edge has been covered by the clusters that grew around it.
Covered(e) ==
    FoldSet(LAMBDA S, sum : duals[S] + sum, 0, {S \in DOMAIN duals : S \cap edges[e].vertices # {}})

InvalidAround(e) == {v \in Clusters : clusters[v].invalid /\ clusters[v].vertices \cap edges[e].vertices # {}}

Scheduled(e, state) ==
    {event \in queue : event.edge = e /\ Fresh(event)}
        = IF state.speed = 0 THEN {}
          ELSE {Event(state.updated + state.slack \div state.speed, e, state.version)}

GrowsRight(e, state) ==
    /\ state.speed = Cardinality(InvalidAround(e))
    /\ state.slack - ((now - state.updated) * state.speed) = edges[e].weight - Covered(e)
    /\ Covered(e) <= edges[e].weight
    /\ state.speed # 0 => state.slack % state.speed = 0
    /\ Scheduled(e, state)

\* While it grows, the decoder knows of every edge that is not tight how many invalid clusters
\* it touches and when they will have covered it, and no edge is covered beyond its weight;
\* the clusters part the vertices, and as many are invalid as it counts.
GrowthExact ==
    answer.is = "growing" =>
        /\ \A e \in DOMAIN edges : growth[e].tight \/ GrowsRight(e, growth[e])
        /\ \A v \in Vertices : Cardinality({c \in Clusters : v \in clusters[c].vertices}) = 1
        /\ invalid = Cardinality({c \in Clusters : clusters[c].invalid})

Explains(E, S) ==
    S = {v \in Vertices : Cardinality({e \in E : v \in problem.graph[e].vertices}) % 2 = 1}
Usable == {e \in DOMAIN problem.graph : problem.graph[e].probability # 0}

\* A correction is made of edges that may happen and explains the syndrome; the decoder finds
\* one if there is one, and else says so.
CorrectionExact ==
    risk = Unscored =>
        /\ answer.is = "ok" => answer.subgraph \subseteq Usable /\ Explains(answer.subgraph, syndrome)
        /\ answer.is = "not_in_span" => \A E \in SUBSET Usable : ~Explains(E, syndrome)
        /\ answer.is \notin {"infeasible", "not_the_syndrome"}

\* The union-find decoder keeps its books while it grows and answers rightly.
UnionFindExact == GrowthExact /\ CorrectionExact

\* The corrections that explain the syndrome as well and give the readout its other value.
Opposed(case, target) ==
    {E \in SUBSET Regular(case.graph) :
        /\ case.syndrome = OddAt(case.graph, E)
        /\ LogicalBit(case.graph, E, target) # LogicalBit(case.graph, case.baseline, target)}

RiskIs(case, target, result) ==
    /\ result.is = "none" <=> Opposed(case, target) = {}
    /\ result.is = "gap" =>
          \E E \in Opposed(case, target) : result.gap = CostOf(case.graph, E) - CostOf(case.graph, case.baseline)
    /\ result.is = "certain" => FALSE

\* What the forced-gap handler says of a readout: it is without risk exactly when nothing that
\* may happen explains the syndrome and flips it; else its risk compares the correction with
\* one that does.
RiskExact ==
    risk.is = "scored" =>
        IF risk.result.is = "error" THEN answer.is = "timeout"
        ELSE RiskIs(risk.case, risk.target, risk.result)
=============================================================================

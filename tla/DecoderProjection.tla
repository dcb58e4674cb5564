-------------------------- MODULE DecoderProjection --------------------------
(***************************************************************************)
(* From the hypergraph of a window or program to what its decoder is given *)
(* for one shot: probability updates, losses, and edges that share a       *)
(* syndrome.  A coordinator without a persistent decoder changes the graph *)
(* and ships it whole; one with a persistent decoder loads the graph once  *)
(* and translates every shot into updates of the loaded edges.             *)
(*                                                                         *)
(* A probability p < 1/2 is the natural number k that stands for           *)
(* -ln(1 - 2p): it is 0 for p = 0, and the combination of exclusive        *)
(* errors, a + b - 2ab, is the sum of such numbers.  From Top on a         *)
(* probability counts as 1/2.                                              *)
(***************************************************************************)
EXTENDS Naturals, Sequences, FiniteSets
LOCAL INSTANCE SequencesExt
LOCAL INSTANCE FiniteSetsExt
LOCAL INSTANCE Folds
LOCAL INSTANCE TLC

CONSTANTS Top, Infinite   \* the level of probability 1/2; the weight of probability 0
ASSUME LevelAssumption == Top \in Nat \ {0} /\ Infinite \in Nat /\ Infinite > 2 * Top

Exclusive(a, b) == a + b
\* One loss or another, which are not independent toggles: less than the sum.
UnionOf(a, b) == CASE a = 0 -> b [] b = 0 -> a [] OTHER -> a + b - 1

WeightOf(level) ==
    CASE level = 0 -> Infinite [] level >= Top -> 0 [] OTHER -> Top - level
ProbabilityOfWeight(weight) == IF weight >= Top THEN 0 ELSE Top - weight

----------------------------------------------------------------------------
(* Loss: which edges a shot's losses activate, and what becomes of them.    *)

EdgesAt(errors, eid, generators) ==
    {e \in DOMAIN errors : errors[e].eid = eid /\ errors[e].index \in generators}

\* Generators that no edge stands for are left out; a site without error model has none.
BuildLossInfo(sites, errors) ==
    [s \in DOMAIN sites |->
        [sources |-> EdgesAt(errors, sites[s].eid, sites[s].source),
         continuations |-> EdgesAt(errors, sites[s].eid, sites[s].continuation),
         probability |-> sites[s].probability,
         children |-> sites[s].children,
         heralds |-> sites[s].heralds]]

\* The probability that an atom is lost by the time it passes a site.
AccumulatedSiteProbabilities(loss) ==
    LET accumulated[s \in DOMAIN loss] ==
            MapThenFoldSet(UnionOf, loss[s].probability, LAMBDA t : accumulated[t],
                           LAMBDA S : CHOOSE t \in S : TRUE,
                           {t \in DOMAIN loss : s \in loss[t].children})
    IN  accumulated

\* What one site adds to the activation of an edge.
SiteActivation(site, accumulated, edge) ==
    CASE edge \in site.continuations -> accumulated
      [] edge \in site.sources -> site.probability
      [] OTHER -> 0

Activation(loss, accumulated) ==
    [edge \in UNION {loss[s].sources \cup loss[s].continuations : s \in DOMAIN loss} |->
        FoldLeft(Exclusive, 0, [s \in DOMAIN loss |-> SiteActivation(loss[s], accumulated[s], edge)])]

Regular(graph) == {e \in DOMAIN graph : graph[e].probability # 0}
Neighbours(graph, edge) == {e \in Regular(graph) : graph[e].vertices \cap graph[edge].vertices # {}}

MeanWeight(graph, S) ==
    FoldSet(LAMBDA e, total : WeightOf(graph[e].probability) + total, 0, S) \div Cardinality(S)

\* weight_fraction is one half.
ScaledProbability(weight) == ProbabilityOfWeight(IF weight >= Infinite THEN Infinite ELSE weight \div 2)

Locally(graph, edge, activation) ==
    ScaledProbability(WeightOf(Exclusive(graph[edge].probability, activation)))

Reweighted(graph, scale, edge, activation) ==
    CASE scale = "local" -> Locally(graph, edge, activation)
      [] scale = "global_mean" ->
            ScaledProbability(IF Regular(graph) = {} THEN 0 ELSE MeanWeight(graph, Regular(graph)))
      [] scale = "neighbourhood_mean" ->
            IF Neighbours(graph, edge) = {} THEN Locally(graph, edge, activation)
            ELSE ScaledProbability(MeanWeight(graph, Neighbours(graph, edge)))

LossReweights(loss, graph, scale, activation) ==
    [edge \in DOMAIN activation |-> Reweighted(graph, scale, edge, activation[edge])]

LossReweightsOf(loss, graph, scale) ==
    LossReweights(loss, graph, scale, Activation(loss, AccumulatedSiteProbabilities(loss)))

----------------------------------------------------------------------------
(* Probability updates of the shot.                                         *)

\* An assignment that names no edge is dropped; of two to one edge the later one counts.
ProbabilityReweights(errors, assignments) ==
    FoldLeft(LAMBDA overrides, a :
                [e \in EdgesAt(errors, a.eid, {a.index}) |-> a.probability] @@ overrides,
             <<>>, assignments)

ApplyReweights(graph, reweights) ==
    [e \in DOMAIN graph |->
        IF e \in DOMAIN reweights THEN [graph[e] EXCEPT !.probability = reweights[e]] ELSE graph[e]]

----------------------------------------------------------------------------
(* Edges that share a syndrome.                                             *)

Key(edge, class) == <<edge.vertices, edge.flips, edge.observables, class>>

\* One more edge: it joins the decoder edge of its key or makes a new one.
Merge(merged, position, edge, error, class) ==
    LET same == {d \in DOMAIN merged : merged[d].key = Key(edge, class)}
    IN  IF same = {}
        THEN Append(merged, [key |-> Key(edge, class), edge |-> edge, best |-> edge.probability,
                             representative |-> error, originals |-> <<position>>])
        ELSE [merged EXCEPT ![CHOOSE d \in same : TRUE] =
                [@ EXCEPT !.edge.probability = Exclusive(@, edge.probability),
                          !.best = IF edge.probability > @ THEN edge.probability ELSE @,
                          !.representative = IF edge.probability > merged[CHOOSE d \in same : TRUE].best
                                             THEN error ELSE @,
                          !.originals = Append(@, position)]]

\* class[eid] tells committing from other error models (all alike in the monolithic coordinator).
DeduplicateBySyndrome(graph, errors, class) ==
    FoldLeft(LAMBDA merged, e : Merge(merged, e, graph[e], errors[e], class[errors[e].eid]),
             <<>>, [e \in DOMAIN graph |-> e])

Unmerged(graph, errors) ==
    [e \in DOMAIN graph |-> [key |-> <<e>>, edge |-> graph[e], best |-> graph[e].probability,
                             representative |-> errors[e], originals |-> <<e>>]]

\* prepare_decoder: the edges of the decoder, each with the original edges it stands for.
PrepareDecoder(graph, errors, class, merge) ==
    IF merge THEN DeduplicateBySyndrome(graph, errors, class) ELSE Unmerged(graph, errors)

EdgesOf(prepared) == [d \in DOMAIN prepared |-> prepared[d].edge]
ErrorsOf(prepared) == [d \in DOMAIN prepared |-> prepared[d].representative]

\* An edge that flips readouts and no check says nothing to the decoder.
RequiresSuppression(edge) == edge.observables = {} /\ edge.vertices = {} /\ edge.flips # {}

HardDecodingHypergraph(graph) ==
    [e \in DOMAIN graph |->
        IF RequiresSuppression(graph[e]) THEN [graph[e] EXCEPT !.probability = 0] ELSE graph[e]]

\* A window clears checks beyond its history, which no edge of it can flip.
Incident(graph) == UNION {graph[e].vertices : e \in DOMAIN graph}
IgnoreIsolated(graph, syndrome, window) ==
    IF window THEN syndrome \cap Incident(graph) ELSE syndrome

----------------------------------------------------------------------------
(* The shot on a loaded graph.                                              *)

Live(graph, reweights, e) == IF e \in DOMAIN reweights THEN reweights[e] ELSE graph[e].probability

\* The first of the original edges with the greatest live probability.
Elected(graph, reweights, originals) ==
    FoldLeft(LAMBDA elected, e :
                IF Live(graph, reweights, e) > Live(graph, reweights, elected) THEN e ELSE elected,
             originals[1], originals)

Combined(graph, reweights, originals) ==
    FoldLeft(LAMBDA combined, e : Exclusive(combined, Live(graph, reweights, e)), 0, originals)

Touched(prepared, reweights) ==
    {d \in DOMAIN prepared : \E k \in DOMAIN prepared[d].originals : prepared[d].originals[k] \in DOMAIN reweights}

\* Mutant: a decoder edge stands for the same error in every shot.
ProjectReweightsUnelected(graph, errors, prepared, reweights) ==
    [reweights |-> [d \in Touched(prepared, reweights) |->
                       Combined(graph, reweights, prepared[d].originals)],
     errors |-> ErrorsOf(prepared)]

\* Only the decoder edges with an updated original are computed again; without merging
\* an update is passed on as it is.
ProjectReweights(graph, errors, prepared, reweights) ==
    [reweights |-> [d \in Touched(prepared, reweights) |->
                       Combined(graph, reweights, prepared[d].originals)],
     errors |-> [d \in DOMAIN prepared |->
                    IF d \in Touched(prepared, reweights)
                    THEN errors[Elected(graph, reweights, prepared[d].originals)]
                    ELSE prepared[d].representative]]

\* project_shot of the loss handler, for strategy "ignore", "handoff" or "reweight".
WithLoss(graph, reweights, loss, strategy, scale) ==
    IF strategy # "reweight" \/ loss = <<>> THEN reweights
    ELSE LossReweightsOf(loss, ApplyReweights(graph, reweights), scale) @@ reweights

ProjectShot(graph, errors, prepared, reweights, loss, policy) ==
    [loss |-> IF policy.strategy = "handoff" THEN loss ELSE <<>>]
    @@ ProjectReweights(graph, errors, prepared,
                        WithLoss(graph, reweights, loss, policy.strategy, policy.scale))

\* decode_projected: the loaded graph takes the updates, or a copy of it is made for the shot.
DecodeProjected(loaded, shot, syndrome, useLoaded) ==
    LET wanted == {d \in DOMAIN shot.reweights : ~RequiresSuppression(loaded[d])}
        reweights == [d \in wanted |-> shot.reweights[d]]
    IN  [persistent |-> wanted = {} \/ useLoaded,
         scoring |-> ApplyReweights(loaded, shot.reweights),
         graph |-> ApplyReweights(HardDecodingHypergraph(loaded), reweights),
         syndrome |-> syndrome, loss |-> shot.loss, errors |-> shot.errors]

\* DecoderReweighting; capable: the decoder takes updates of a loaded graph.
UseLoaded(config) ==
    /\ config.persistent
    /\ config.reweighting = "enabled" \/ (config.reweighting = "auto" /\ config.capable)

\* new() refuses a configuration that asks for what cannot be had.
ConfigAccepted(config) ==
    config.reweighting = "enabled" => config.persistent /\ config.capable

----------------------------------------------------------------------------
(* The shot without a persistent decoder.                                   *)

ApplySites(graph, loss, policy) ==
    IF policy.strategy # "reweight" \/ loss = <<>> THEN graph
    ELSE ApplyReweights(graph, LossReweightsOf(loss, graph, policy.scale))

Temporary(prepared, syndrome, loss, window) ==
    [persistent |-> FALSE,
     scoring |-> EdgesOf(prepared),
     graph |-> HardDecodingHypergraph(EdgesOf(prepared)),
     syndrome |-> IgnoreIsolated(EdgesOf(prepared), syndrome, window),
     loss |-> loss, errors |-> ErrorsOf(prepared)]

\* What the two paths send, for one shot: sites are the loss sites, assignments the updates.
MergesEdges(config) == config.merge /\ config.policy.strategy # "handoff"
LossOf(sites, errors, policy) == IF policy.strategy = "ignore" THEN <<>> ELSE BuildLossInfo(sites, errors)

OneShot(graph, errors, class, config, sites, syndrome) ==
    Temporary(PrepareDecoder(ApplySites(graph, LossOf(sites, errors, config.policy), config.policy),
                             errors, class, MergesEdges(config)),
              syndrome,
              IF config.policy.strategy = "handoff" THEN LossOf(sites, errors, config.policy) ELSE <<>>,
              config.window)

DecodeTemporary(graph, errors, class, config, shot) ==
    OneShot(ApplyReweights(graph, ProbabilityReweights(errors, shot.assignments)),
            errors, class, config, shot.sites, shot.syndrome)

Projected(graph, errors, prepared, config, shot) ==
    ProjectShot(graph, errors, prepared, ProbabilityReweights(errors, shot.assignments),
                LossOf(shot.sites, errors, config.policy), config.policy)

DecodeLoaded(graph, errors, prepared, config, shot) ==
    DecodeProjected(EdgesOf(prepared), Projected(graph, errors, prepared, config, shot),
                    IgnoreIsolated(EdgesOf(prepared), shot.syndrome, config.window), UseLoaded(config))

DecodePersistent(graph, errors, class, config, shot) ==
    DecodeLoaded(graph, errors, PrepareDecoder(graph, errors, class, MergesEdges(config)), config, shot)

DecodingProblem(graph, errors, class, config, shot) ==
    IF config.persistent THEN DecodePersistent(graph, errors, class, config, shot)
    ELSE DecodeTemporary(graph, errors, class, config, shot)
=============================================================================

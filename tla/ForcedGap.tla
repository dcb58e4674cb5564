------------------------------ MODULE ForcedGap ------------------------------
(***************************************************************************)
(* How likely is it that a correction is wrong about a readout?  The       *)
(* decoder is asked again, with one vertex more: it has the edges that     *)
(* flip the readout, and its syndrome forces the value the first           *)
(* correction does not have.  The two corrections are compared by their    *)
(* weights.                                                                *)
(*                                                                         *)
(* A case has the scoring graph with the shot's probabilities, the         *)
(* syndrome and the first correction (baseline).                           *)
(***************************************************************************)
EXTENDS Integers, FiniteSets, DecoderProjection
LOCAL INSTANCE FiniteSetsExt

CONSTANT ForcedVertex   \* the vertex after those of every scoring graph
ASSUME ForcedAssumption == ForcedVertex \in Nat

NoRisk == [is |-> "none", gap |-> 0]
Certain == [is |-> "certain", gap |-> 0]
Undefined == [is |-> "error", gap |-> 0]
Gap(weight) == [is |-> "gap", gap |-> weight]

OddAt(graph, E) ==
    {v \in Incident(graph) : Cardinality({e \in E : v \in graph[e].vertices}) % 2 = 1}

IsParityFactor(graph, E, syndrome) == E \subseteq DOMAIN graph /\ OddAt(graph, E) = syndrome

LogicalBit(graph, E, target) == Cardinality({e \in E : target \in graph[e].flips}) % 2 = 1

\* The edges that flip a target.
Flippers(graph, target) == {e \in DOMAIN graph : target \in graph[e].flips}

\* transpose_solve: the edges that flip the target are those at an odd number of some checks.
FixedBySyndrome(graph, flippers) ==
    \E checks \in SUBSET Incident(graph) :
        flippers = {e \in DOMAIN graph : Cardinality(graph[e].vertices \cap checks) % 2 = 1}

\* The first target that the same edges flip; 0 for one that the syndrome fixes.
RepresentativeTarget(graph, target) ==
    IF FixedBySyndrome(graph, Flippers(graph, target)) THEN 0
    ELSE CHOOSE t \in 1 .. target :
            /\ Flippers(graph, t) = Flippers(graph, target)
            /\ \A s \in 1 .. t - 1 : Flippers(graph, s) # Flippers(graph, target)

ForcedHypergraph(graph, target) ==
    [e \in DOMAIN graph |->
        IF target \in graph[e].flips THEN [graph[e] EXCEPT !.vertices = @ \cup {ForcedVertex}] ELSE graph[e]]

ForcedSyndrome(case, target) ==
    IF LogicalBit(case.graph, case.baseline, target) THEN case.syndrome
    ELSE case.syndrome \cup {ForcedVertex}

\* Mutant: an explanation may use what cannot happen.
HasMatchingParityFactorAtAll(graph, syndrome) ==
    \E E \in SUBSET DOMAIN graph : OddAt(graph, E) = syndrome

HasMatchingParityFactor(graph, syndrome) ==
    \E E \in SUBSET Regular(graph) : OddAt(graph, E) = syndrome

Supported(graph, E) == E \subseteq Regular(graph)

CostOf(graph, E) == MapThenSumSet(LAMBDA e : WeightOf(graph[e].probability), E)

CandidateProbability(graph, baseline, candidate) ==
    CASE ~Supported(graph, baseline) /\ ~Supported(graph, candidate) -> Undefined
      [] ~Supported(graph, baseline) /\ Supported(graph, candidate) -> Certain
      [] Supported(graph, baseline) /\ ~Supported(graph, candidate) -> NoRisk
      [] OTHER -> Gap(CostOf(graph, candidate \ baseline) - CostOf(graph, baseline \ candidate))

\* What is known of a target without asking the decoder again; "solve" when it must be asked.
Probability(case, target) ==
    LET representative == RepresentativeTarget(case.graph, target)
    IN  CASE ~IsParityFactor(case.graph, case.baseline, case.syndrome)
             \/ ~Supported(case.graph, case.baseline) -> Undefined
          [] representative = 0 -> NoRisk
          [] /\ Regular(case.graph) # DOMAIN case.graph
             /\ ~HasMatchingParityFactor(ForcedHypergraph(case.graph, representative),
                                         ForcedSyndrome(case, representative)) -> NoRisk
          [] OTHER -> [is |-> "solve", gap |-> representative]

\* What the decoder's answer to the forced problem says of the target.
Answered(case, target, candidate) ==
    IF /\ IsParityFactor(case.graph, candidate, case.syndrome)
       /\ LogicalBit(case.graph, candidate, target) # LogicalBit(case.graph, case.baseline, target)
    THEN CandidateProbability(case.graph, case.baseline, candidate)
    ELSE IF HasMatchingParityFactor(ForcedHypergraph(case.graph, target), ForcedSyndrome(case, target))
         THEN Undefined ELSE NoRisk

ForcedGapProbability(case, target, answered, candidate) ==
    IF answered THEN Answered(case, target, candidate) ELSE Undefined
=============================================================================

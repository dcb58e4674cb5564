------------------------------ MODULE LossSites ------------------------------
(***************************************************************************)
(* The runtime compiler of loss sites.  A gadget type says where an atom   *)
(* may be lost, where a loss goes on and which measurements herald it; the *)
(* compiler joins these models over the gadgets of a window and keeps the  *)
(* sites that agree with the measurements that were lost in this shot.     *)
(*                                                                         *)
(* A program has the gadgets of a window in order: for each its connectors *)
(* (the gadget, 0 for one outside the window, and its output port), the    *)
(* widths of its input and output ports, whether its type has a loss model *)
(* and, if so, its losses and input losses, the error model that holds     *)
(* their generators (0 for none), whether its outcomes came with a loss    *)
(* mask, and the measurements that were lost.                              *)
(***************************************************************************)
EXTENDS Naturals, Sequences, FiniteSets
LOCAL INSTANCE SequencesExt
LOCAL INSTANCE Folds
LOCAL INSTANCE Functions
LOCAL INSTANCE TLC

LossFields == {"children", "out", "heralds", "continuation"}

\* Forward models only: a loss continues in a later loss of its gadget, or in a later gadget.
IsProgram(program) ==
    \A g \in DOMAIN program :
        /\ DOMAIN program[g] = {"up", "ins", "outs", "model", "fresh", "input", "eid", "masked", "lost"}
        /\ Len(program[g].up) = Len(program[g].ins)
        /\ \A k \in DOMAIN program[g].up : program[g].up[k].gadget \in 0 .. g - 1
        /\ \A l \in DOMAIN program[g].fresh :
              /\ DOMAIN program[g].fresh[l] = LossFields \cup {"probability", "source"}
              /\ \A c \in program[g].fresh[l].children : c > l
        /\ \A s \in DOMAIN program[g].input : DOMAIN program[g].input[s] = LossFields

SumTo(widths, n) == FoldLeft(+, 0, SubSeq(widths, 1, n))

\* The first slot of every port.
PortOffsets(widths) == [k \in DOMAIN widths |-> SumTo(widths, k - 1)]

\* The links that one connector of gadget d makes: from a slot of an output port
\* to the slot of d's input port.
ConnectorLinks(region, d, k) ==
    LET up == region[d].up[k]
        from == PortOffsets(region[up.gadget].outs)[up.port]
        to == PortOffsets(region[d].ins)[k]
    IN  {<<up.gadget, from + i, d, to + i>> : i \in 1 .. region[up.gadget].outs[up.port]}

OutputLinks(region) ==
    UNION {ConnectorLinks(region, dk[1], dk[2]) :
        dk \in {<<d, k>> \in UNION {{d} \X DOMAIN region[d].up : d \in DOMAIN region} :
                   region[d].up[k].gadget # 0}}

\* A node for every loss, then one for every input loss, gadget by gadget.
NodesOf(region, g) ==
    [l \in DOMAIN region[g].fresh |->
        [gadget |-> g, slot |-> l, entering |-> FALSE, loss |-> region[g].fresh[l]]]
    \o [s \in DOMAIN region[g].input |->
        [gadget |-> g, slot |-> s, entering |-> TRUE,
         loss |-> [probability |-> 0, source |-> {}] @@ region[g].input[s]]]

BuildLossNodes(region) == FlattenSeq([g \in DOMAIN region |-> NodesOf(region, g)])

\* The position of the node that stands for a loss, if the model has that loss.
NodeIds(nodes, gadget, entering, slot) ==
    {n \in DOMAIN nodes : /\ nodes[n].gadget = gadget
                          /\ nodes[n].entering = entering
                          /\ nodes[n].slot = slot}

ResolveChildren(nodes, links, n) ==
    UNION {NodeIds(nodes, nodes[n].gadget, FALSE, c) : c \in nodes[n].loss.children}
    \cup UNION {NodeIds(nodes, l[3], TRUE, l[4]) :
                    l \in {l \in links : l[1] = nodes[n].gadget /\ l[2] \in nodes[n].loss.out}}

Children(nodes, links) == [n \in DOMAIN nodes |-> ResolveChildren(nodes, links, n)]

\* What the heralds of a node say themselves: a measurement beyond the mask is not lost.
Direct(region, node) ==
    [supported |-> node.loss.heralds \cap region[node.gadget].lost # {},
     contradicted |-> node.loss.heralds \ region[node.gadget].lost # {}]

\* Mutant: what a loss goes on at does not speak against it.
FoldEvidenceForgiving(children, direct) ==
    LET evidence[n \in DOMAIN direct] ==
            [supported |-> direct[n].supported \/ \E c \in children[n] : evidence[c].supported,
             contradicted |-> direct[n].contradicted]
    IN  evidence

\* The evidence of a node with that of everything after it; every node is computed once.
FoldEvidence(children, direct) ==
    LET evidence[n \in DOMAIN direct] ==
            [supported |-> direct[n].supported \/ \E c \in children[n] : evidence[c].supported,
             contradicted |-> direct[n].contradicted \/ \E c \in children[n] : evidence[c].contradicted]
    IN  evidence

Kept(evidence) ==
    SetToSortSeq({n \in DOMAIN evidence : evidence[n].supported /\ ~evidence[n].contradicted}, <)

HeraldsOf(node) ==
    [h \in 1 .. Cardinality(node.loss.heralds) |->
        <<node.gadget, SetToSortSeq(node.loss.heralds, <)[h]>>]

\* The heralds of the kept sites in the order in which they are met: their place is their id.
HeraldIds(nodes, kept) ==
    FoldLeft(LAMBDA ids, h : IF h \in Range(ids) THEN ids ELSE Append(ids, h), <<>>,
             FlattenSeq([p \in DOMAIN kept |-> HeraldsOf(nodes[kept[p]])]))

Places(seq, S) == {p \in DOMAIN seq : seq[p] \in S}

EmitSites(nodes, children, kept, ids) ==
    [p \in DOMAIN kept |->
        LET node == nodes[kept[p]]
        IN  [gadget |-> node.gadget,
             probability |-> node.loss.probability,
             source |-> node.loss.source,
             continuation |-> node.loss.continuation,
             children |-> Places(kept, children[kept[p]]),
             heralds |-> Places(ids, {node.gadget} \X node.loss.heralds)]]

EmitPossibleSites(region, nodes, children) ==
    LET kept == Kept(FoldEvidence(children, [n \in DOMAIN nodes |-> Direct(region, nodes[n])]))
    IN  EmitSites(nodes, children, kept, HeraldIds(nodes, kept))

BuildFrom(region, nodes) ==
    EmitPossibleSites(region, nodes, Children(nodes, OutputLinks(region)))

BuildCrossGadgetLossSites(region) == BuildFrom(region, BuildLossNodes(region))

\* The gadgets with a loss model; a connector to another gadget leads outside the region.
GidOfIndex(program) == SetToSortSeq({g \in DOMAIN program : program[g].model}, <)

IndexOfGid(gids, g) == IF g \in Range(gids) THEN CHOOSE i \in DOMAIN gids : gids[i] = g ELSE 0

RegionOf(program, gids) ==
    [i \in DOMAIN gids |->
        [program[gids[i]] EXCEPT !.up =
            [k \in DOMAIN @ |-> [gadget |-> IndexOfGid(gids, @[k].gadget), port |-> @[k].port]]]]

\* RawLossSite::from_compiled: the generators are those of the gadget's first error model.
RawSites(program, gids, sites) ==
    [p \in DOMAIN sites |-> [eid |-> program[gids[sites[p].gadget]].eid] @@ sites[p]]

SitesOf(program, gids) ==
    RawSites(program, gids, BuildCrossGadgetLossSites(RegionOf(program, gids)))

BuildLossSites(tracksLosses, program) ==
    IF tracksLosses /\ \E g \in DOMAIN program : program[g].masked
    THEN SitesOf(program, GidOfIndex(program)) ELSE <<>>
=============================================================================

-------------------- MODULE MonolithicCoordinatorProofs --------------------
(***************************************************************************)
(* For every program and every interleaving of its calls, tasks, faults    *)
(* and resets: the tables are exact, the readouts final, and the           *)
(* coordinator implements WholeDecoding.                                   *)
(*                                                                         *)
(* The union-find structure is described from both sides.  Gadgets with a  *)
(* connection between them have the same root (SameRoot), so a class is    *)
(* closed under connections; and every set that is closed under            *)
(* connections is a union of classes (Connected), so a class is no more    *)
(* than what connections reach.  The second is stated for all sets, not    *)
(* for paths, and needs no induction.                                      *)
(***************************************************************************)
EXTENDS MonolithicCoordinator, WindowGeometryProofs, FiniteSetTheorems

-----------------------------------------------------------------------------
(* The inductive invariant.                                                *)

\* The connectors of a gadget that have been followed so far.
Followed(g) == CASE g \in placed -> DOMAIN program.inputs[g]
                 [] g \notin placed /\ adding.gid = g -> 1 .. adding.next - 1
                 [] OTHER -> {}
Members == placed \cup ({adding.gid} \ {None})

\* A gadget is added after the gadgets it needs, none of which has been taken.
AddingInv ==
    IF adding.gid = None THEN adding = Idle
    ELSE /\ adding.gid \in program.gids \ placed
         /\ adding.next \in 1 .. Len(program.inputs[adding.gid]) + 1
         /\ Peers(adding.gid) \subseteq gadgets
         /\ program.readouts[adding.gid] \subseteq tracked

Executed ==
    /\ placed \subseteq program.gids
    /\ \A g \in placed : Needs(g) \subseteq tracked

LinkedInv == linked = UNION {{program.inputs[g][i] : i \in Followed(g)} : g \in Gids}

\* The classes of the union-find structure.
RootInv == \A g \in Members : root[g] \in Members /\ root[root[g]] = root[g]
SameRoot == \A g \in Gids : \A i \in Followed(g) : root[program.inputs[g][i].gid] = root[g]

\* No connection leads into S or out of it.
Separate(S) == \A g \in Gids : \A i \in Followed(g) : g \in S <=> program.inputs[g][i].gid \in S
Connected == \A S \in SUBSET Gids : Separate(S) =>
                \A g, h \in Members : root[g] = root[h] => (g \in S <=> h \in S)

CountersAt(r) ==
    /\ node[r].num_unloaded_gadgets = Cardinality(Part(r) \ outcomes)
    /\ node[r].num_unconnected_outputs = Cardinality(Open(Part(r))) + Ahead(r)
CountersInv == \A g \in Members : CountersAt(root[g])

\* What is taken is a whole class without open ports, all of it measured.
TakenInv ==
    \A g \in tracked \ gadgets :
        /\ g \in outcomes
        /\ Open({g}) = {}
        /\ \A h \in placed : root[h] = root[g] => h \in tracked \ gadgets

\* The call that waits for the frame tracker holds the locks: it is alone, no gadget is
\* being added, and its own gadget is in the tables.
RawInv ==
    \A c \in Calls : pc[c] = "raw" =>
        /\ c[1] \in gadgets /\ adding = Idle
        /\ \A d \in Calls : pc[d] = "raw" => c = d

\* A call that is going to take a class: it is complete, nobody else is, and no gadget
\* is being added to it.
TakeInv ==
    \A c \in Calls : pc[c] = "take" =>
        /\ c[1] \in gadgets
        /\ Part(root[c[1]]) \subseteq outcomes
        /\ Open(Part(root[c[1]])) = {}
        /\ adding.gid # None =>
              /\ root[adding.gid] # root[c[1]]
              /\ Peers(adding.gid) \cap Part(root[c[1]]) = {}
        /\ \A d \in Calls : pc[d] \in {"raw", "take"} /\ root[c[1]] = root[d[1]] => c = d

\* A gadget's outcomes are loaded by one call.
AfterLoad == PC \ {"idle", "models", "load", "failed", "dropped"}
LoadInv ==
    \A c \in Calls : pc[c] \in AfterLoad =>
        /\ c[1] \in outcomes
        /\ \A d \in Calls : pc[d] \in AfterLoad /\ c[1] = d[1] => c = d

CutInv == \A x \in Models : expanded[x] = "cut" => token

\* What is being decoded is out of the tables, by one call and of its class, and needs
\* corrections of its own only.  So does what has been corrected.
Settled == {g \in tracked \ gadgets : \A c \in Calls : g \notin work[c]}
WorkInv ==
    /\ \A c \in Calls : \A g \in work[c] :
          /\ g \notin gadgets /\ c[1] \in work[c] /\ root[g] = root[c[1]]
          /\ \A d \in Calls : g \in work[d] => c = d
          /\ InOrder => g \in program.gids /\ Past(g) \subseteq work[c]
    /\ \A g \in corrected : g \in Settled /\ (InOrder => Past(g) \subseteq Settled)
ChannelInv == \A g \in Gids : channel[g] = "readouts" => g \in Framed(corrected)

\* In a program in order, only a dropped call leaves a gadget without a frame.
FramelessInv ==
    InOrder => \A g \in frameless : \E d \in Calls : d[1] = g /\ pc[d] = "dropped"

Structure == AddingInv /\ Executed /\ LinkedInv /\ RootInv /\ SameRoot /\ Connected
IInv == /\ TypeOK /\ CacheLive /\ Structure /\ CountersInv
        /\ TakenInv /\ RawInv /\ TakeInv /\ LoadInv
        /\ CutInv /\ WorkInv /\ ChannelInv /\ FramelessInv /\ ReadoutsFinal

-----------------------------------------------------------------------------
(* Types.                                                                  *)

\* The fields of a program.
LEMMA ProgramTypes ==
    ASSUME TypeOK
    PROVE  /\ IsProgram(program) /\ config \in Config
           /\ program.gids \subseteq Gids
           /\ program.inputs \in [Gids -> Seq([gid : Gids, port : Nat])]
           /\ program.outputs \in [Gids -> SUBSET Nat]
           /\ \A g \in Gids : IsFiniteSet(program.outputs[g])
           /\ program.readouts \in [Gids -> SUBSET Gids]
           /\ program.errors \subseteq Gids
           /\ \A g \in Gids : program.shape[g] \in Shapes
<1>1. /\ IsProgram(program) /\ config \in Config
      /\ \E s \in Setups : s[1] = program
  BY MonolithicAssumption DEF TypeOK
<1>2. \A g \in Gids : program.shape[g] \in Shapes
  BY <1>1 DEF Shapes
<1>3. QED
  BY <1>1, <1>2 DEF IsProgram

\* Connectors lead to output ports, no two to the same.
LEMMA Connectors ==
    ASSUME TypeOK, NEW g \in Gids, NEW i \in DOMAIN program.inputs[g]
    PROVE  /\ program.inputs[g][i] \in [gid : Gids, port : Nat]
           /\ program.inputs[g][i].gid \in Peers(g)
           /\ program.inputs[g][i].port \in program.outputs[program.inputs[g][i].gid]
           /\ \A h \in Gids : \A j \in DOMAIN program.inputs[h] :
                 program.inputs[g][i] = program.inputs[h][j] => g = h /\ i = j
<1> DEFINE C == [gid : Gids, port : Nat]
<1>1. program.inputs[g] \in Seq(C)
  BY ProgramTypes
<1>2. program.inputs[g][i] \in C
  <2> HIDE DEF C
  <2> QED BY <1>1
<1>3. program.inputs[g][i].gid \in Peers(g)
  BY DEF Peers
<1>4. /\ program.inputs[g][i].port \in program.outputs[program.inputs[g][i].gid]
      /\ \A h \in Gids : \A j \in DOMAIN program.inputs[h] :
            program.inputs[g][i] = program.inputs[h][j] => g = h /\ i = j
  BY ProgramTypes, Zenon DEF IsProgram
<1>5. QED
  BY <1>2, <1>3, <1>4

\* The peers of a gadget are gadgets.
LEMMA PeersTypes ==
    ASSUME TypeOK, NEW g \in Gids
    PROVE  Peers(g) \subseteq Gids
BY Connectors DEF Peers

\* The program and the configuration stay.
LEMMA ProgramFixed ==
    ASSUME [Next]_vars
    PROVE  UNCHANGED <<program, config>>
BY DEF Next, vars, Execute, BeginExecuteGadget, ExecuteCheckModel, ExecuteErrorModel,
       Locked, Connect, FinishExecuteGadget, DropExecute, CountGadget, Task, Expand,
       ExpandLost, AwaitPort, ExpandCut,
       BeginDecode, Decode, AwaitErrorModels, LoadOutcomes, LoadRaw, LoadRefused, TakeSubgraph,
       AssembleProgram, FindDecoder, LoadHypergraph, DecodeLoaded, DecodeOnce,
       UpdatePauliFrame, UpdatePauliFrameFails, Receive, CallCancelled, DecoderFails,
       DropCall, CancelPending, BeginReset, FinishReset, AllEnded

\* Most steps leave the tables and outcomes alone.
Quiet == UNCHANGED <<program, tables, outcomes>>

\* The steps that do not.
LEMMA StepKinds ==
    ASSUME [Next]_vars
    PROVE  \/ Quiet
           \/ \E g \in Gids : BeginExecuteGadget(g)
           \/ Connect \/ FinishExecuteGadget \/ DropExecute
           \/ \E c \in Calls : LoadOutcomes(c) \/ TakeSubgraph(c)
           \/ FinishReset
BY DEF Quiet, Next, vars, Execute, ExecuteCheckModel, ExecuteErrorModel,
       Locked, Task, Expand, ExpandLost, AwaitPort, ExpandCut,
       BeginDecode, Decode, AwaitErrorModels, LoadRaw, LoadRefused,
       AssembleProgram, FindDecoder, LoadHypergraph, DecodeLoaded, DecodeOnce,
       UpdatePauliFrame, UpdatePauliFrameFails, Receive, CallCancelled, DecoderFails,
       DropCall, CancelPending, BeginReset, AllEnded

Node == [set_size : Nat, num_unloaded_gadgets : Nat, num_unconnected_outputs : Nat]

\* While a gadget is added, adding is a gadget and the place of a connector.
LEMMA AddingTypes ==
    ASSUME TypeOK, AddingInv, Adding
    PROVE  /\ adding.gid \in Gids /\ adding.gid # None /\ adding.gid \notin placed
           /\ adding.next \in Nat \ {0}
           /\ root[adding.gid] \in Gids
BY ProgramTypes, MonolithicAssumption DEF TypeOK, AddingInv, Unlocked, Adding

\* The image of a finite set under a function is finite, and as large if the
\* function is injective.
LEMMA ImageFinite ==
    ASSUME NEW S, IsFiniteSet(S), NEW f, DOMAIN f = S
    PROVE  /\ IsFiniteSet({f[x] : x \in S})
           /\ (\A x, y \in S : f[x] = f[y] => x = y)
                 => Cardinality({f[x] : x \in S}) = Cardinality(S)
<1>1. PICK g : g = [x \in S |-> f[x]]
  OBVIOUS
<1>2. g \in Surjection(S, {f[x] : x \in S})
  BY <1>1 DEF Surjection
<1>3. (\A x, y \in S : f[x] = f[y] => x = y) => g \in Injection(S, {f[x] : x \in S})
  BY <1>1 DEF Injection, IsInjective
<1>4. QED
  BY <1>2, <1>3, FS_Surjection

PortsOf(g) == {[gid |-> g, port |-> k] : k \in program.outputs[g]}

\* A gadget has as many ports as its type says.
LEMMA PortsFinite ==
    ASSUME TypeOK, NEW g \in Gids
    PROVE  /\ IsFiniteSet(PortsOf(g)) /\ Cardinality(PortsOf(g)) = Cardinality(program.outputs[g])
           /\ PortsOf(g) \subseteq [gid : Gids, port : Nat]
<1> DEFINE f == [k \in program.outputs[g] |-> [gid |-> g, port |-> k]]
<1>1. IsFiniteSet(program.outputs[g]) /\ program.outputs[g] \subseteq Nat
  BY ProgramTypes
<1>2. PortsOf(g) = {f[k] : k \in program.outputs[g]} /\ DOMAIN f = program.outputs[g]
  BY DEF PortsOf
<1>3. \A k, l \in program.outputs[g] : f[k] = f[l] => k = l
  <2>1. ASSUME NEW k \in program.outputs[g], NEW l \in program.outputs[g], f[k] = f[l] PROVE k = l
    <3>1. f[k].port = k /\ f[l].port = l
      OBVIOUS
    <3> QED BY <3>1, <2>1
  <2> QED BY <2>1
<1>4. PortsOf(g) \subseteq [gid : Gids, port : Nat]
  BY <1>1 DEF PortsOf
<1> HIDE DEF f
<1>5. QED
  BY <1>1, <1>2, <1>3, <1>4, ImageFinite

\* There are finitely many gadgets, so finitely many ports.
LEMMA OpenFinite ==
    ASSUME TypeOK, NEW S \in SUBSET Gids
    PROVE  /\ IsFiniteSet(Open(S)) /\ Cardinality(Open(S)) \in Nat
           /\ IsFiniteSet(S) /\ Cardinality(S) \in Nat
           /\ Open(S) = (UNION {PortsOf(g) : g \in S}) \ linked
<1> DEFINE f == [g \in S |-> PortsOf(g)]
           P == {f[g] : g \in S}
<1>1. IsFiniteSet(S)
  BY MonolithicAssumption, FS_Subset
<1>2. IsFiniteSet(P)
  <2>1. DOMAIN f = S
    OBVIOUS
  <2> HIDE DEF f
  <2> QED BY <1>1, <2>1, ImageFinite
<1>3. \A T \in P : IsFiniteSet(T)
  BY PortsFinite
<1>4. IsFiniteSet(UNION P)
  <2> HIDE DEF P
  <2> QED BY <1>2, <1>3, FS_UNION
<1>5. Open(S) = (UNION P) \ linked /\ P = {PortsOf(g) : g \in S}
  BY DEF Open, PortsOf
<1> HIDE DEF P
<1>6. IsFiniteSet((UNION P) \ linked)
  BY <1>4, FS_Difference
<1>7. QED
  BY <1>1, <1>5, <1>6, FS_CardinalityType

\* Classes of gadgets, and what of them is not measured.
LEMMA PartFinite ==
    ASSUME TypeOK, NEW r
    PROVE  /\ Part(r) \in SUBSET Gids
           /\ IsFiniteSet(Part(r) \ outcomes) /\ Cardinality(Part(r) \ outcomes) \in Nat
<1>1. Part(r) \in SUBSET Gids
  BY DEF Part, TypeOK
<1>2. QED
  BY <1>1, MonolithicAssumption, FS_Subset, FS_CardinalityType

\* The counters do not underflow when a gadget is added: its connectors are ahead.
LEMMA FinishedNode ==
    ASSUME TypeOK, AddingInv, CountersInv, CountGadget(adding.gid)
    PROVE  node[root[adding.gid]] \in Node /\ node' \in [Gids -> Node]
<1> DEFINE g == adding.gid
           r == root[g]
           n == Len(program.inputs[g])
           k == Cardinality(program.outputs[g])
           m == node[r]
<1>1. Adding /\ g \in Gids /\ g \in Members /\ r \in Gids /\ n \in Nat /\ adding.next = n + 1
  BY AddingTypes, ProgramTypes DEF CountGadget, Members
<1>2. k \in Nat
  BY <1>1, ProgramTypes, FS_CardinalityType
<1>3. m \in Node
  BY <1>1 DEF TypeOK, Node
<1>4. m.num_unconnected_outputs = Cardinality(Open(Part(r))) + n
  <2>1. Ahead(r) = n
    BY <1>1 DEF Ahead
  <2>2. m.num_unconnected_outputs = Cardinality(Open(Part(r))) + Ahead(r)
    BY <1>1 DEF CountersInv, CountersAt
  <2>3. QED
    BY <2>1, <2>2
<1>5. Cardinality(Open(Part(r))) \in Nat
  BY PartFinite, OpenFinite
<1>6. /\ m.num_unconnected_outputs + k - n \in Nat /\ m.num_unloaded_gadgets + 1 \in Nat
  <2> HIDE DEF n, k, m, r, g
  <2> QED BY <1>1, <1>2, <1>3, <1>4, <1>5 DEF Node
<1>7. node' = [node EXCEPT ![r].num_unconnected_outputs = @ + k - n, ![r].num_unloaded_gadgets = @ + 1]
  BY DEF CountGadget
<1>8. node \in [Gids -> Node]
  BY DEF TypeOK, Node
<1> HIDE DEF n, k, r, g
<1>9. QED
  BY <1>1, <1>3, <1>6, <1>7, <1>8 DEF Node

\* Nor when outcomes come: their gadget is among those without.
LEMMA LoadedNode ==
    ASSUME TypeOK, CountersInv, NEW c \in Calls, LoadOutcomes(c)
    PROVE  /\ node' \in [Gids -> Node] /\ c[1] \in tracked /\ c[1] \in Gids
           /\ node[root[c[1]]].num_unloaded_gadgets \in Nat \ {0}
<1> DEFINE g == c[1]
           r == root[g]
<1>1. g \in gadgets \ outcomes /\ g \in tracked /\ g \in placed /\ g \in Gids /\ r \in Gids
  BY DEF LoadOutcomes, Loadable, TypeOK
<1>2. node[r].num_unloaded_gadgets = Cardinality(Part(r) \ outcomes)
  BY <1>1 DEF CountersInv, CountersAt, Members
<1>3. g \in Part(r) \ outcomes
  BY <1>1 DEF Part
<1>4. Cardinality(Part(r) \ outcomes) \in Nat \ {0}
  BY <1>3, PartFinite, FS_EmptySet
<1>5. node \in [Gids -> Node]
  BY DEF TypeOK, Node
<1>6. node' = [node EXCEPT ![r].num_unloaded_gadgets = @ - 1]
  BY DEF LoadOutcomes
<1> HIDE DEF r, g
<1>7. QED
  BY <1>1, <1>2, <1>4, <1>5, <1>6 DEF Node, g, r

\* A union keeps the types.
LEMMA UnionTypes ==
    ASSUME TypeOK, NEW a \in Gids, NEW b \in Gids, Union(a, b)
    PROVE  root' \in [Gids -> Gids] /\ node' \in [Gids -> Node]
<1>1. CASE root[a] = root[b]
  BY <1>1 DEF Union, TypeOK, Node
<1>2. CASE root[a] # root[b]
  <2>1. \E k \in Gids, l \in Gids :
           /\ root' = [x \in Gids |-> IF root[x] = k THEN l ELSE root[x]]
           /\ node' = [node EXCEPT ![l] = Join(node[root[a]], node[root[b]])]
    <3>1. root[a] \in Gids /\ root[b] \in Gids
      BY DEF TypeOK
    <3>2. QED
      BY <1>2, <3>1 DEF Union
  <2>2. node \in [Gids -> Node] /\ node[root[a]] \in Node /\ node[root[b]] \in Node
    BY DEF TypeOK, Node
  <2>3. Join(node[root[a]], node[root[b]]) \in Node
    BY <2>2 DEF Join, Node
  <2>4. root \in [Gids -> Gids]
    BY DEF TypeOK
  <2>5. QED
    BY <2>1, <2>2, <2>3, <2>4
<1>3. QED
  BY <1>1, <1>2

\* The end of a call keeps the types.
LEMMA UnwindTypes ==
    ASSUME TypeOK, NEW c \in Calls, NEW end \in PC, Unwind(c, end)
    PROVE  /\ pc' \in [Calls -> PC] /\ work' \in [Calls -> SUBSET tracked]
           /\ channel' \in [Gids -> {"empty", "readouts", "error", "closed"}]
BY DEF TypeOK, Unwind

\* Every step keeps the types.
LEMMA TypeStep ==
    ASSUME TypeOK, Structure, CountersInv, RawInv, [Next]_vars
    PROVE  TypeOK'
<1> USE ProgramTypes
<1> USE DEF TypeOK, PC, Ended, tables, frames, models, decoders, control, calls
<1>1. ASSUME NEW g \in Gids, BeginExecuteGadget(g) PROVE TypeOK'
  <2>1. adding' \in [gid : Gids \cup {None}, next : Nat] /\ root' \in [Gids -> Gids]
    BY <1>1 DEF BeginExecuteGadget
  <2>2. node' \in [Gids -> Node]
    BY <1>1 DEF BeginExecuteGadget, NewNode, Node
  <2>3. QED
    BY <1>1, <2>1, <2>2 DEF BeginExecuteGadget, Node
<1>2. ASSUME NEW g \in Gids, ExecuteCheckModel(g) PROVE TypeOK'
  BY <1>2 DEF ExecuteCheckModel, Start, Ready, Kinds, Models
<1>3. ASSUME NEW g \in Gids, ExecuteErrorModel(g) PROVE TypeOK'
  BY <1>3 DEF ExecuteErrorModel, Start, Kinds, Models
<1>4. ASSUME Connect PROVE TypeOK'
  <2> DEFINE g == adding.gid
             p == program.inputs[g][adding.next]
  <2>1. g \in Gids /\ adding.next \in Nat /\ adding.next \in DOMAIN program.inputs[g]
    BY <1>4, AddingTypes DEF Connect, Structure
  <2>2. adding' \in [gid : Gids \cup {None}, next : Nat]
    <3>1. adding' = [adding EXCEPT !.next = adding.next + 1]
      BY <1>4 DEF Connect
    <3>2. adding \in [gid : Gids \cup {None}, next : Nat]
      OBVIOUS
    <3> HIDE DEF g, p, TypeOK
    <3>3. adding.next + 1 \in Nat
      BY <2>1
    <3>4. QED
      BY <3>1, <3>2, <3>3, Zenon
  <2>3. p \in [gid : Gids, port : Nat]
    BY <2>1, Connectors
  <2>4. Union(g, p.gid)
    BY <1>4 DEF Connect
  <2>5. root' \in [Gids -> Gids] /\ node' \in [Gids -> Node]
    BY <2>1, <2>3, <2>4, UnionTypes
  <2>6. linked' = linked \cup {p}
    BY <1>4 DEF Connect
  <2> HIDE DEF g, p
  <2>7. QED
    BY <1>4, <2>2, <2>3, <2>5, <2>6 DEF Connect, Node
<1>5. ASSUME FinishExecuteGadget \/ DropExecute PROVE TypeOK'
  <2> DEFINE g == adding.gid
             r == root[g]
  <2>1. g \in Gids /\ r \in Gids
    BY <1>5, AddingTypes DEF FinishExecuteGadget, DropExecute, CountGadget, Structure
  <2>2. node[r] \in Node /\ node' \in [Gids -> Node]
    BY <1>5, FinishedNode DEF FinishExecuteGadget, DropExecute, Structure, Node
  <2>3. adding' \in [gid : Gids \cup {None}, next : Nat]
    BY <1>5 DEF FinishExecuteGadget, DropExecute, CountGadget, Idle
  <2>4. /\ placed' = placed \cup {g}
        /\ \/ gadgets' = gadgets \cup {g} /\ tracked' = tracked \cup {g}
           \/ UNCHANGED <<gadgets, tracked>>
    BY <1>5 DEF FinishExecuteGadget, DropExecute, CountGadget
  <2> HIDE DEF g, r
  <2>5. UNCHANGED <<program, config, linked, root, models, outcomes, frames, decoders, control, calls>>
    BY <1>5 DEF FinishExecuteGadget, DropExecute, CountGadget
  <2>6. /\ placed' \subseteq Gids /\ tracked' \subseteq placed' /\ gadgets' \subseteq tracked'
        /\ tracked \subseteq tracked'
    BY <2>1, <2>4
  <2>7. work' \in [Calls -> SUBSET tracked']
    BY <2>5, <2>6
  <2>8. QED
    BY <2>2, <2>3, <2>5, <2>6, <2>7 DEF Node
<1>6. ASSUME NEW x \in Models, Expand(x) \/ ExpandLost(x) PROVE TypeOK'
  <2>1. /\ tasks' = [tasks EXCEPT ![x] = "none"]
        /\ expanded' = [expanded EXCEPT ![x] = "whole"] \/ expanded' = expanded
        /\ UNCHANGED <<program, config, tables, bound, attached, outcomes, frames,
                      decoders, control, calls>>
    BY <1>6 DEF Expand, ExpandLost, Expanded
  <2>2. QED
    BY <2>1
<1>7. ASSUME NEW x \in Models, AwaitPort(x) PROVE TypeOK'
  BY <1>7 DEF AwaitPort
<1>8. ASSUME NEW x \in Models, ExpandCut(x) PROVE TypeOK'
  BY <1>8 DEF ExpandCut, Expanded
<1>9. ASSUME NEW c \in Calls, BeginDecode(c) PROVE TypeOK'
  BY <1>9 DEF BeginDecode, Goto
<1>10. ASSUME NEW c \in Calls, AwaitErrorModels(c) PROVE TypeOK'
  BY <1>10 DEF AwaitErrorModels, Goto
<1>11. ASSUME NEW c \in Calls, LoadOutcomes(c) PROVE TypeOK'
  <2>1. node' \in [Gids -> Node] /\ c[1] \in tracked
    BY <1>11, LoadedNode DEF Structure
  <2>2. pc' \in [Calls -> PC]
    BY <1>11 DEF LoadOutcomes, Goto
  <2>3. outcomes' = outcomes \cup {c[1]}
    BY <1>11 DEF LoadOutcomes
  <2>4. UNCHANGED <<program, config, gadgets, placed, linked, root, adding, tracked,
                    models, frames, decoders, control, work, channel>>
    BY <1>11 DEF LoadOutcomes
  <2>5. outcomes' \subseteq tracked' /\ work' \in [Calls -> SUBSET tracked'] /\ gadgets' \subseteq tracked'
    BY <2>1, <2>3, <2>4
  <2>6. QED
    BY <2>1, <2>2, <2>4, <2>5 DEF Node
<1>12. ASSUME NEW c \in Calls, LoadRaw(c) \/ LoadRefused(c) PROVE TypeOK'
  BY <1>12 DEF LoadRaw, LoadRefused, Goto
<1>13. ASSUME NEW c \in Calls, TakeSubgraph(c) PROVE TypeOK'
  <2> DEFINE S == GetSubgraph(c[1])
  <2>1. CASE Open(S) = {} /\ S \subseteq gadgets
    <3>1. /\ Goto(c, "take", "expand") /\ gadgets' = gadgets \ S
          /\ work' = [work EXCEPT ![c] = S] /\ UNCHANGED channel
      BY <1>13, <2>1 DEF TakeSubgraph
    <3> HIDE DEF S
    <3>2. QED
      BY <1>13, <2>1, <3>1 DEF TakeSubgraph, Goto
  <2>2. CASE ~(Open(S) = {} /\ S \subseteq gadgets)
    <3>1. Unwind(c, "panicked") /\ UNCHANGED gadgets
      BY <1>13, <2>2 DEF TakeSubgraph
    <3>2. QED
      BY <1>13, <3>1, UnwindTypes DEF TakeSubgraph
  <2>3. QED
    BY <2>1, <2>2
<1>14. ASSUME NEW c \in Calls, AssembleProgram(c) PROVE TypeOK'
  <2>1. CASE Unwind(c, "wait") \/ Unwind(c, "panicked")
    BY <1>14, <2>1, UnwindTypes DEF AssembleProgram
  <2>2. CASE Goto(c, "expand", "decoder") /\ UNCHANGED <<work, channel>>
    BY <1>14, <2>2 DEF AssembleProgram, Goto
  <2>3. QED
    BY <1>14, <2>1, <2>2 DEF AssembleProgram
<1>15. ASSUME NEW c \in Calls, FindDecoder(c) PROVE TypeOK'
  BY <1>15 DEF FindDecoder, Goto
<1>16. ASSUME NEW c \in Calls, LoadHypergraph(c) PROVE TypeOK'
  BY <1>16 DEF LoadHypergraph, Goto, ShapeOf, Calls
<1>17. ASSUME NEW c \in Calls, DecodeLoaded(c) PROVE TypeOK'
  BY <1>17 DEF DecodeLoaded, Goto
<1>18. ASSUME NEW c \in Calls, DecodeOnce(c) PROVE TypeOK'
  BY <1>18 DEF DecodeOnce, Goto
<1>19. ASSUME NEW c \in Calls, UpdatePauliFrame(c) PROVE TypeOK'
  BY <1>19 DEF UpdatePauliFrame, Goto
<1>20. ASSUME NEW c \in Calls, UpdatePauliFrameFails(c) PROVE TypeOK'
  <2>1. PICK g \in work[c] : /\ Unwind(c, "panicked") /\ corrected' = Upto(work[c], g)
                             /\ \E skipped \in SUBSET Skipped(work[c], g) :
                                   frameless' = frameless \cup skipped
    BY <1>20 DEF UpdatePauliFrameFails, Unframed
  <2>2. Upto(work[c], g) \subseteq tracked /\ Skipped(work[c], g) \subseteq tracked
    BY DEF Upto, Skipped, Framed
  <2>3. corrected' \subseteq tracked /\ frameless' \subseteq tracked
    BY <2>1, <2>2
  <2>4. QED
    BY <1>20, <2>1, <2>3, UnwindTypes DEF UpdatePauliFrameFails
<1>21. ASSUME NEW c \in Calls, Receive(c) PROVE TypeOK'
  BY <1>21 DEF Receive, Goto
<1>22. ASSUME NEW c \in Calls, CallCancelled(c) PROVE TypeOK'
  BY <1>22 DEF CallCancelled, Goto
<1>23. ASSUME NEW c \in Calls, DecoderFails(c) PROVE TypeOK'
  BY <1>23 DEF DecoderFails
<1>24. ASSUME NEW c \in Calls, DropCall(c) PROVE TypeOK'
  <2>1. Unwind(c, "dropped") /\ (frameless' = frameless \cup {c[1]} \/ frameless' = frameless)
    BY <1>24 DEF DropCall
  <2>2. pc[c] = "raw" => c[1] \in tracked
    BY DEF RawInv
  <2>3. frameless' \subseteq tracked
    BY <1>24, <2>2 DEF DropCall
  <2>4. /\ pc' \in [Calls -> PC] /\ work' \in [Calls -> SUBSET tracked]
        /\ channel' \in [Gids -> {"empty", "readouts", "error", "closed"}]
    BY <2>1, UnwindTypes
  <2>5. QED
    BY <1>24, <2>3, <2>4 DEF DropCall
<1>25. ASSUME CancelPending PROVE TypeOK'
  BY <1>25 DEF CancelPending
<1>26. ASSUME BeginReset PROVE TypeOK'
  BY <1>26 DEF BeginReset
<1>27. ASSUME FinishReset PROVE TypeOK'
  <2>1. cache' \subseteq Shapes /\ loaded' \subseteq Shapes
    BY <1>27 DEF FinishReset, Flush
  <2>2. /\ root' \in [Gids -> Gids] /\ node' \in [Gids -> Node]
        /\ expanded' \in [Models -> {"unset", "whole", "cut"}]
        /\ pc' \in [Calls -> PC] /\ work' \in [Calls -> SUBSET tracked']
        /\ channel' \in [Gids -> {"empty", "readouts", "error", "closed"}]
    BY <1>27 DEF FinishReset, NewNode, Node, NoExpansion, NoCall, NoWork, NoMessage
  <2>3. QED
    BY <1>27, <2>1, <2>2 DEF FinishReset, Node
<1>28. CASE UNCHANGED vars
  BY <1>28 DEF vars
<1>29. QED
  BY <1>1, <1>2, <1>3, <1>4, <1>5, <1>6, <1>7, <1>8, <1>9, <1>10, <1>11, <1>12, <1>13, <1>14, <1>15, <1>16, <1>17, <1>18, <1>19, <1>20, <1>21, <1>22, <1>23, <1>24, <1>25, <1>26, <1>27, <1>28
       DEF Next, Execute, Locked, Task, Decode, AllEnded

-----------------------------------------------------------------------------
(* The structure: connectors and classes.                                  *)

\* All connectors of a gadget in the tables have been followed, and to other gadgets.
LEMMA FollowedTypes ==
    ASSUME TypeOK, AddingInv, NEW g \in Gids
    PROVE  /\ Followed(g) \subseteq DOMAIN program.inputs[g]
           /\ Followed(g) # {} => g \in Members
           /\ ~Adding => (Followed(g) # {} => g \in placed)
<1>1. program.inputs[g] \in Seq([gid : Gids, port : Nat])
  BY ProgramTypes
<1>2. CASE g \notin placed /\ adding.gid = g
  <2>1. adding.next \in 1 .. Len(program.inputs[g]) + 1 /\ g # None
    BY <1>2, MonolithicAssumption DEF AddingInv
  <2>2. Followed(g) = 1 .. adding.next - 1
    BY <1>2 DEF Followed
  <2>3. DOMAIN program.inputs[g] = 1 .. Len(program.inputs[g]) /\ Len(program.inputs[g]) \in Nat
    BY <1>1
  <2>4. Followed(g) \subseteq DOMAIN program.inputs[g]
    BY <2>1, <2>2, <2>3
  <2>5. QED
    BY <1>2, <2>1, <2>4 DEF Members, Adding, Idle
<1>3. CASE ~(g \notin placed /\ adding.gid = g)
  BY <1>3 DEF Followed, Members
<1>4. QED
  BY <1>2, <1>3

\* Gadgets with a connection are members, and of one class.
LEMMA Linking ==
    ASSUME TypeOK, Structure, NEW g \in Gids, NEW i \in Followed(g)
    PROVE  /\ g \in Members /\ program.inputs[g][i].gid \in tracked
           /\ program.inputs[g][i] \in linked
           /\ root[program.inputs[g][i].gid] = root[g]
<1>1. g \in Members /\ i \in DOMAIN program.inputs[g]
  BY FollowedTypes DEF Structure
<1>2. program.inputs[g][i].gid \in Peers(g)
  BY <1>1, Connectors
<1>3. Peers(g) \subseteq tracked
  BY <1>1, MonolithicAssumption DEF Structure, Executed, Needs, AddingInv, Members, TypeOK
<1>4. QED
  BY <1>1, <1>2, <1>3 DEF Structure, LinkedInv, SameRoot

\* A connector that has not been followed is not linked: nobody else has it.
LEMMA NotLinked ==
    ASSUME TypeOK, Structure, NEW g \in Gids, NEW i \in DOMAIN program.inputs[g], i \notin Followed(g)
    PROVE  program.inputs[g][i] \in Open({program.inputs[g][i].gid}) \ linked
<1> DEFINE p == program.inputs[g][i]
<1>1. ASSUME p \in linked PROVE FALSE
  <2>1. PICK h \in Gids : \E j \in Followed(h) : p = program.inputs[h][j]
    BY <1>1 DEF Structure, LinkedInv
  <2>2. PICK j \in Followed(h) : p = program.inputs[h][j]
    BY <2>1
  <2>3. j \in DOMAIN program.inputs[h]
    BY FollowedTypes DEF Structure
  <2>4. g = h /\ i = j
    BY <2>2, <2>3, Connectors
  <2>5. QED
    BY <2>2, <2>4
<1>2. p \in [gid : Gids, port : Nat] /\ p.port \in program.outputs[p.gid]
  BY Connectors
<1>3. p = [gid |-> p.gid, port |-> p.port]
  BY <1>2
<1>4. p \in PortsOf(p.gid)
  BY <1>2, <1>3 DEF PortsOf
<1>5. QED
  BY <1>1, <1>2, <1>4, OpenFinite

\* The ports of a set that are open are those of its members.
LEMMA OpenParts ==
    ASSUME TypeOK, NEW S \in SUBSET Gids, NEW T \in SUBSET Gids
    PROVE  /\ S \subseteq T => Open(S) \subseteq Open(T)
           /\ Open(S \cup T) = Open(S) \cup Open(T)
           /\ S \cap T = {} => Open(S) \cap Open(T) = {}
           /\ \A p \in Open(S) : p.gid \in S
<1>1. /\ Open(S) = (UNION {PortsOf(g) : g \in S}) \ linked
      /\ Open(T) = (UNION {PortsOf(g) : g \in T}) \ linked
      /\ Open(S \cup T) = (UNION {PortsOf(g) : g \in S \cup T}) \ linked
  BY OpenFinite
<1>2. \A g \in Gids : \A p \in PortsOf(g) : p.gid = g
  BY DEF PortsOf
<1>3. \A p \in Open(S) : p.gid \in S
  BY <1>1, <1>2
<1>4. \A p \in Open(T) : p.gid \in T
  BY <1>1, <1>2
<1>5. Open(S \cup T) = Open(S) \cup Open(T)
  BY <1>1
<1>6. S \subseteq T => Open(S) \subseteq Open(T)
  BY <1>1
<1>7. QED
  BY <1>3, <1>4, <1>5, <1>6

\* A gadget that has not been placed yet finds its peers there: a gadget that was
\* taken has no open port.
LEMMA PeersThere ==
    ASSUME TypeOK, Structure, TakenInv, ~Adding, NEW g \in Gids \ placed, Peers(g) \subseteq tracked
    PROVE  /\ \A x \in Peers(g) : Open({x}) # {}
           /\ Peers(g) \subseteq gadgets
<1>1. ASSUME NEW x \in Peers(g) PROVE Open({x}) # {}
  <2>1. PICK i \in DOMAIN program.inputs[g] : x = program.inputs[g][i].gid
    BY DEF Peers
  <2>2. Followed(g) = {}
    BY MonolithicAssumption DEF Followed, Adding, Idle
  <2>3. QED
    BY <2>1, <2>2, NotLinked
<1>2. QED
  BY <1>1 DEF TakenInv

\* Union moves one class to the root of another, if they differ.
LEMMA UnionRoots ==
    ASSUME TypeOK, NEW a \in Gids, NEW b \in Gids, Union(a, b)
    PROVE  \E k, l \in Gids :
              /\ (k = root[a] /\ l = root[b]) \/ (k = root[b] /\ l = root[a])
              /\ root' = [x \in Gids |-> IF root[x] = k THEN l ELSE root[x]]
              /\ IF k = l THEN UNCHANGED node
                 ELSE node' = [node EXCEPT ![l] = Join(node[root[a]], node[root[b]])]
<1>1. root[a] \in Gids /\ root[b] \in Gids /\ root \in [Gids -> Gids]
  BY DEF TypeOK
<1>2. CASE root[a] = root[b]
  BY <1>1, <1>2 DEF Union
<1>3. CASE root[a] # root[b]
  BY <1>1, <1>3 DEF Union
<1>4. QED
  BY <1>2, <1>3

\* What the structure is made of, but for the gadgets that AddingInv refers to.
LEMMA StructureSame ==
    ASSUME Structure, UNCHANGED <<program, linked, root, adding, placed, tracked>>, AddingInv'
    PROVE  Structure'
BY DEF Structure, Executed, LinkedInv, Members, RootInv, SameRoot, Connected, Separate, Followed, Peers, Needs

\* A new gadget is a class of its own.
LEMMA StructureBegin ==
    ASSUME TypeOK, Structure, TakenInv, NEW g \in Gids, BeginExecuteGadget(g)
    PROVE  Structure'
<1>1. /\ ~Adding /\ g \in program.gids \ placed /\ Peers(g) \cup program.readouts[g] \subseteq tracked
      /\ adding' = [gid |-> g, next |-> 1] /\ root' = [root EXCEPT ![g] = g]
      /\ UNCHANGED <<program, gadgets, linked, placed, tracked>>
  BY DEF BeginExecuteGadget, Unlocked
<1>2. g # None /\ adding.gid = None /\ Members = placed /\ Members' = placed \cup {g}
      /\ adding'.gid = g /\ adding'.next = 1
  BY <1>1, MonolithicAssumption DEF Adding, Idle, Members
<1>3. root' \in [Gids -> Gids] /\ root'[g] = g /\ \A h \in Gids \ {g} : root'[h] = root[h]
  BY <1>1 DEF TypeOK
<1>4. \A h \in Gids : Followed(h)' = Followed(h)
  <2>1. Followed(g) = {} /\ Followed(g)' = 1 .. 0
    BY <1>1, <1>2 DEF Followed
  <2>2. \A h \in Gids \ {g} : Followed(h)' = Followed(h)
    BY <1>1, <1>2, MonolithicAssumption DEF Followed
  <2>3. QED
    BY <2>1, <2>2
<1>5. AddingInv'
  <2>1. program.inputs[g] \in Seq([gid : Gids, port : Nat])
    BY ProgramTypes
  <2>2. Peers(g) \subseteq gadgets /\ Peers(g)' = Peers(g)
    BY <1>1, PeersThere DEF Peers
  <2>3. 1 \in 1 .. Len(program.inputs[g]) + 1
    BY <2>1
  <2>4. QED
    BY <1>1, <1>2, <2>2, <2>3 DEF AddingInv
<1>6. Executed'
  BY <1>1 DEF Structure, Executed, Needs, Peers
<1>7. LinkedInv'
  BY <1>1, <1>4 DEF Structure, LinkedInv
<1>8. placed \subseteq Gids /\ g \notin placed
  BY <1>1 DEF TypeOK
<1>9. RootInv'
  BY <1>2, <1>3, <1>8 DEF Structure, RootInv
<1>10. SameRoot'
  <2>1. ASSUME NEW h \in Gids, NEW i \in Followed(h)
        PROVE  root'[program.inputs[h][i].gid] = root'[h]
    BY <1>2, <1>3, <1>8, Linking, <2>1 DEF TypeOK
  <2>2. QED
    BY <1>1, <1>4, <2>1 DEF SameRoot
<1>11. Connected'
  <2>1. ASSUME NEW S \in SUBSET Gids, Separate(S)',
               NEW x \in Members', NEW y \in Members', root'[x] = root'[y]
        PROVE  x \in S <=> y \in S
    <3>1. Separate(S)
      BY <1>1, <1>4, <2>1 DEF Separate
    <3>2. CASE x = g \/ y = g
      BY <1>2, <1>3, <1>8, <2>1, <3>2 DEF Structure, RootInv
    <3>3. CASE x # g /\ y # g
      BY <1>2, <1>3, <1>8, <2>1, <3>1, <3>3 DEF Structure, Connected
    <3>4. QED
      BY <3>2, <3>3
  <2>2. QED
    BY <2>1 DEF Connected
<1>12. QED
  BY <1>5, <1>6, <1>7, <1>9, <1>10, <1>11 DEF Structure

\* What Connect does.
LEMMA ConnectIs ==
    ASSUME TypeOK, Structure, Connect
    PROVE  /\ Adding /\ adding.gid \in Gids /\ adding.gid \notin placed /\ adding.gid # None
           /\ adding.next \in DOMAIN program.inputs[adding.gid]
           /\ adding.next \in Nat \ {0}
           /\ program.inputs[adding.gid][adding.next] \in [gid : Gids, port : Nat]
           /\ program.inputs[adding.gid][adding.next].gid \in Peers(adding.gid)
           /\ program.inputs[adding.gid][adding.next].gid \in gadgets
           /\ adding' = [gid |-> adding.gid, next |-> adding.next + 1]
           /\ linked' = linked \cup {program.inputs[adding.gid][adding.next]}
           /\ UNCHANGED <<program, gadgets, placed, tracked, outcomes, pc>>
           /\ Union(adding.gid, program.inputs[adding.gid][adding.next].gid)
           /\ Followed(adding.gid) = 1 .. adding.next - 1
           /\ Members' = Members /\ adding.gid \in Members
<1>1. /\ Adding /\ adding.gid \in Gids /\ adding.gid # None /\ adding.gid \notin placed
      /\ adding.next \in Nat \ {0} /\ adding.next \in DOMAIN program.inputs[adding.gid]
  BY AddingTypes DEF Connect, Structure
<1>2. /\ program.inputs[adding.gid][adding.next] \in [gid : Gids, port : Nat]
      /\ program.inputs[adding.gid][adding.next].gid \in Peers(adding.gid)
  BY <1>1, Connectors
<1>3. Peers(adding.gid) \subseteq gadgets
  BY <1>1 DEF Structure, AddingInv
<1>4. adding' = [gid |-> adding.gid, next |-> adding.next + 1]
  BY DEF Connect, TypeOK
<1>5. /\ linked' = linked \cup {program.inputs[adding.gid][adding.next]}
      /\ UNCHANGED <<program, gadgets, placed, tracked, outcomes, pc>>
      /\ Union(adding.gid, program.inputs[adding.gid][adding.next].gid)
  BY DEF Connect, calls
<1>6. Followed(adding.gid) = 1 .. adding.next - 1
  BY <1>1 DEF Followed
<1>7. Members' = Members /\ adding.gid \in Members
  BY <1>1, <1>4, <1>5 DEF Members
<1>8. QED
  BY <1>1, <1>2, <1>3, <1>4, <1>5, <1>6, <1>7

\* A union puts the two ends of a connection into one class.
LEMMA StructureConnect ==
    ASSUME TypeOK, Structure, Connect
    PROVE  Structure'
<1>0. PICK g \in Gids, n \in Nat : g = adding.gid /\ n = adding.next
  BY ConnectIs
<1> DEFINE p == program.inputs[g][n]
           b == p.gid
<1>1. /\ Adding /\ g \in Gids /\ g \notin placed /\ g # None
      /\ n \in DOMAIN program.inputs[g] /\ n \in Nat \ {0}
      /\ p \in [gid : Gids, port : Nat] /\ b \in Peers(g) /\ b \in gadgets
      /\ adding' = [gid |-> g, next |-> n + 1] /\ linked' = linked \cup {p}
      /\ UNCHANGED <<program, gadgets, placed, tracked, outcomes, pc>>
      /\ Union(g, b) /\ Followed(g) = 1 .. n - 1
      /\ Members' = Members /\ g \in Members
  BY <1>0, ConnectIs
<1>2. b \in tracked /\ b \in Members /\ b \in Gids /\ adding'.gid = g /\ adding'.next = n + 1
      /\ adding.gid = g
  BY <1>0, <1>1 DEF TypeOK, Members
<1> HIDE DEF b
<1>3. PICK k \in Gids, l \in Gids :
              /\ (k = root[g] /\ l = root[b]) \/ (k = root[b] /\ l = root[g])
              /\ root' = [x \in Gids |-> IF root[x] = k THEN l ELSE root[x]]
  BY <1>1, <1>2, UnionRoots
<1>4. \A h \in Gids : Followed(h)' = IF h = g THEN Followed(h) \cup {n} ELSE Followed(h)
  <2>1. Followed(g)' = 1 .. (n + 1) - 1
    BY <1>1, <1>2 DEF Followed
  <2>2. \A h \in Gids \ {g} : Followed(h)' = Followed(h)
    BY <1>1, <1>2, MonolithicAssumption DEF Followed
  <2>3. 1 .. (n + 1) - 1 = (1 .. n - 1) \cup {n}
    BY <1>1
  <2>4. QED
    BY <1>1, <2>1, <2>2, <2>3
<1>5. AddingInv'
  <2>1. program.inputs[g] \in Seq([gid : Gids, port : Nat])
    BY <1>1, ProgramTypes
  <2>2. DOMAIN program.inputs[g] = 1 .. Len(program.inputs[g]) /\ Len(program.inputs[g]) \in Nat
    BY <2>1
  <2>3. n + 1 \in 1 .. Len(program.inputs[g]) + 1
    BY <1>1, <2>2
  <2>4. g \in program.gids /\ Peers(g) \subseteq gadgets /\ program.readouts[g] \subseteq tracked
    BY <1>0, <1>1, <1>2 DEF Structure, AddingInv
  <2>5. QED
    BY <1>1, <1>2, <2>3, <2>4 DEF AddingInv, Peers
<1>6. Executed'
  BY <1>1 DEF Structure, Executed, Needs, Peers
<1>7. LinkedInv'
  <2>1. linked' = UNION {{program.inputs[h][i] : i \in Followed(h)'} : h \in Gids}
    BY <1>1, <1>4 DEF Structure, LinkedInv
  <2>2. program' = program
    BY <1>1
  <2>3. QED
    BY <2>1, <2>2 DEF LinkedInv
<1>8. root \in [Gids -> Gids] /\ Members \subseteq Gids
  BY <1>1, <1>2 DEF TypeOK, Members
<1>9. RootInv'
  BY <1>1, <1>2, <1>3, <1>8 DEF Structure, RootInv
<1>10. SameRoot'
  <2>1. ASSUME NEW h \in Gids, NEW i \in Followed(h)'
        PROVE  root'[program.inputs[h][i].gid] = root'[h]
    <3>1. CASE i \in Followed(h)
      BY <1>2, <1>3, <1>8, <3>1, Linking DEF TypeOK
    <3>2. CASE h = g /\ i = n
      BY <1>1, <1>2, <1>3, <1>8, <3>2 DEF b
    <3>3. QED
      BY <1>4, <3>1, <3>2
  <2>2. QED
    BY <1>1, <2>1 DEF SameRoot
<1>11. Connected'
  <2>1. ASSUME NEW S \in SUBSET Gids, Separate(S)',
               NEW x \in Members', NEW y \in Members', root'[x] = root'[y]
        PROVE  x \in S <=> y \in S
    <3>1. Separate(S) /\ (g \in S <=> b \in S)
      BY <1>1, <1>4, <2>1 DEF Separate, b
    <3>2. \A u, v \in Members : root[u] = root[v] => (u \in S <=> v \in S)
      BY <3>1 DEF Structure, Connected
    <3>3. QED
      BY <1>1, <1>2, <1>3, <1>8, <2>1, <3>1, <3>2
  <2>2. QED
    BY <2>1 DEF Connected
<1>12. QED
  BY <1>5, <1>6, <1>7, <1>9, <1>10, <1>11 DEF Structure

\* What the end of an execute does, whether it is finished or dropped.
LEMMA FinishIs ==
    ASSUME TypeOK, Structure, CountGadget(adding.gid)
    PROVE  /\ Adding /\ adding.gid \in Gids /\ adding.gid \in program.gids \ placed
           /\ Followed(adding.gid) = DOMAIN program.inputs[adding.gid]
           /\ adding.next = Len(program.inputs[adding.gid]) + 1
           /\ Len(program.inputs[adding.gid]) \in Nat
           /\ Peers(adding.gid) \cup program.readouts[adding.gid] \subseteq tracked
           /\ placed' = placed \cup {adding.gid}
           /\ adding' = Idle /\ UNCHANGED <<program, linked, root, outcomes, pc>>
           /\ Members' = Members /\ adding.gid \in Members
<1> DEFINE g == adding.gid
<1>1. Adding /\ g \in Gids /\ g # None /\ g \in program.gids \ placed
  BY AddingTypes DEF CountGadget, Structure, AddingInv
<1>2. program.inputs[g] \in Seq([gid : Gids, port : Nat])
  BY <1>1, ProgramTypes
<1>3. DOMAIN program.inputs[g] = 1 .. Len(program.inputs[g]) /\ Len(program.inputs[g]) \in Nat
  BY <1>2
<1>4. adding.next = Len(program.inputs[g]) + 1
  BY DEF CountGadget
<1>5. Followed(g) = DOMAIN program.inputs[g]
  <2>1. Followed(g) = 1 .. adding.next - 1
    BY <1>1 DEF Followed
  <2>2. QED
    BY <1>3, <1>4, <2>1
<1>6. Peers(g) \cup program.readouts[g] \subseteq tracked
  BY <1>1 DEF Structure, AddingInv, TypeOK
<1>7. /\ placed' = placed \cup {g} /\ adding' = Idle
      /\ UNCHANGED <<program, linked, root, outcomes, pc>>
  BY DEF CountGadget, calls
<1>8. Members' = Members /\ g \in Members
  BY <1>1, <1>7 DEF Members, Idle
<1>9. QED
  BY <1>1, <1>3, <1>4, <1>5, <1>6, <1>7, <1>8

\* The gadget that was added is one of the others.
LEMMA StructureFinish ==
    ASSUME TypeOK, Structure, CountGadget(adding.gid), tracked \subseteq tracked'
    PROVE  Structure'
<1>0. PICK g \in Gids : g = adding.gid
  BY FinishIs
<1>1. /\ Adding /\ g \in program.gids \ placed /\ Followed(g) = DOMAIN program.inputs[g]
      /\ Peers(g) \cup program.readouts[g] \subseteq tracked
      /\ placed' = placed \cup {g} /\ adding' = Idle
      /\ UNCHANGED <<program, linked, root, outcomes, pc>>
      /\ Members' = Members /\ g \in Members
  BY <1>0, FinishIs
<1>2. \A h \in Gids : Followed(h)' = Followed(h)
  <2>1. Followed(g)' = Followed(g)
    BY <1>1 DEF Followed
  <2>2. \A h \in Gids \ {g} : Followed(h)' = Followed(h)
    BY <1>0, <1>1, MonolithicAssumption DEF Followed, Idle
  <2>3. QED
    BY <2>1, <2>2
<1>3. AddingInv'
  BY <1>1 DEF AddingInv, Idle
<1>4. Executed'
  BY <1>1 DEF Structure, Executed, Needs, Peers
<1>5. program' = program /\ linked' = linked /\ root' = root
  BY <1>1
<1>6. LinkedInv'
  BY <1>2, <1>5 DEF Structure, LinkedInv
<1>7. RootInv' /\ SameRoot'
  BY <1>1, <1>2, <1>5 DEF Structure, RootInv, SameRoot
<1>8. \A S \in SUBSET Gids : Separate(S)' => Separate(S)
  BY <1>2, <1>5 DEF Separate
<1>9. Connected'
  BY <1>1, <1>5, <1>8 DEF Structure, Connected
<1>10. QED
  BY <1>3, <1>4, <1>6, <1>7, <1>9 DEF Structure

\* Nothing is connected after a reset.
LEMMA StructureReset ==
    ASSUME TypeOK, FinishReset
    PROVE  Structure' /\ Members' = {} /\ placed' = {} /\ tracked' = {} /\ ~Adding
<1>1. /\ ~Adding /\ adding' = Idle /\ placed' = {} /\ tracked' = {} /\ linked' = {} /\ gadgets' = {}
      /\ UNCHANGED program
  BY DEF FinishReset, Unlocked, Adding
<1>2. adding'.gid = None /\ Members' = {}
  BY <1>1 DEF Idle, Members
<1>3. \A h \in Gids : Followed(h)' = {}
  BY <1>1, <1>2, MonolithicAssumption DEF Followed
<1>4. AddingInv'
  BY <1>1, <1>2 DEF AddingInv
<1>5. linked' = UNION {{program'.inputs[g][i] : i \in {}} : g \in Gids}
  BY <1>1
<1>6. LinkedInv'
  BY <1>3, <1>5 DEF LinkedInv
<1>7. Executed' /\ RootInv' /\ SameRoot' /\ Connected'
  BY <1>1, <1>2, <1>3 DEF Executed, RootInv, SameRoot, Connected
<1>8. QED
  BY <1>1, <1>2, <1>4, <1>6, <1>7 DEF Structure

\* Every step keeps the structure.
LEMMA StructureStep ==
    ASSUME TypeOK, Structure, TakenInv, [Next]_vars
    PROVE  Structure'
<1>1. CASE Quiet
  <2>1. UNCHANGED <<program, gadgets, linked, root, adding, placed, tracked>>
    BY <1>1 DEF Quiet, tables
  <2>2. AddingInv'
    BY <2>1 DEF Structure, AddingInv, Peers
  <2>3. QED
    BY <2>1, <2>2, StructureSame
<1>2. ASSUME NEW g \in Gids, BeginExecuteGadget(g) PROVE Structure'
  BY <1>2, StructureBegin
<1>3. CASE Connect
  BY <1>3, StructureConnect
<1>4. CASE FinishExecuteGadget \/ DropExecute
  BY <1>4, StructureFinish DEF FinishExecuteGadget, DropExecute
<1>5. ASSUME NEW c \in Calls, LoadOutcomes(c) \/ TakeSubgraph(c) PROVE Structure'
  <2>1. UNCHANGED <<program, linked, root, adding, placed, tracked>> /\ adding = Idle
    BY <1>5 DEF LoadOutcomes, TakeSubgraph, Unlocked, Adding
  <2>2. AddingInv'
    BY <2>1 DEF AddingInv, Idle
  <2>3. QED
    BY <2>1, <2>2, StructureSame
<1>6. CASE FinishReset
  BY <1>6, StructureReset
<1>7. QED
  BY <1>1, <1>2, <1>3, <1>4, <1>5, <1>6, StepKinds

-----------------------------------------------------------------------------
(* The counters.                                                           *)

\* A class that a step does not touch.
LEMMA CountersKept ==
    ASSUME NEW r, CountersAt(r), UNCHANGED <<program, Part(r), node[r], Ahead(r)>>,
           Part(r) \ outcomes' = Part(r) \ outcomes,
           Open(Part(r))' = Open(Part(r))
    PROVE  CountersAt(r)'
BY DEF CountersAt

\* Open ports change with the linked ones.
LEMMA OpenSame ==
    ASSUME UNCHANGED <<program, linked>>, NEW S
    PROVE  Open(S)' = Open(S)
BY DEF Open

\* Cardinalities of parts.
LEMMA SetFacts ==
    ASSUME NEW S, NEW T, IsFiniteSet(S), IsFiniteSet(T)
    PROVE  /\ IsFiniteSet(S \cup T) /\ Cardinality(S) \in Nat /\ Cardinality(T) \in Nat
           /\ S \cap T = {} => Cardinality(S \cup T) = Cardinality(S) + Cardinality(T)
           /\ \A x \in S : Cardinality(S \ {x}) = Cardinality(S) - 1
           /\ \A x : x \notin S => Cardinality(S \cup {x}) = Cardinality(S) + 1
           /\ Cardinality(S) = 0 => S = {}
           /\ Cardinality({}) = 0
<1>1. Cardinality(S) \in Nat /\ Cardinality(T) \in Nat /\ Cardinality({}) = 0
  BY FS_CardinalityType, FS_EmptySet
<1>2. ASSUME S \cap T = {} PROVE Cardinality(S \cup T) = Cardinality(S) + Cardinality(T)
  <2>1. Cardinality(S \cup T) = Cardinality(S) + Cardinality(T) - Cardinality(S \cap T)
    BY FS_Union
  <2>2. Cardinality(S \cap T) = 0
    BY <1>1, <1>2, Zenon
  <2>3. QED
    BY <1>1, <2>1, <2>2
<1>3. \A x \in S : Cardinality(S \ {x}) = Cardinality(S) - 1
  BY FS_RemoveElement
<1>4. \A x : x \notin S => Cardinality(S \cup {x}) = Cardinality(S) + 1
  BY FS_AddElement
<1>5. QED
  BY <1>1, <1>2, <1>3, <1>4, FS_Union, FS_EmptySet

\* A new class is empty.
LEMMA CountersBegin ==
    ASSUME TypeOK, Structure, CountersInv, NEW g \in Gids, BeginExecuteGadget(g)
    PROVE  CountersInv'
<1>1. /\ ~Adding /\ g \in program.gids \ placed /\ adding' = [gid |-> g, next |-> 1]
      /\ root' = [root EXCEPT ![g] = g] /\ node' = [node EXCEPT ![g] = NewNode]
      /\ UNCHANGED <<program, gadgets, linked, placed, tracked, outcomes>>
  BY DEF BeginExecuteGadget, Unlocked
<1>2. Members = placed /\ Members' = placed \cup {g} /\ adding'.gid = g /\ adding'.next = 1
      /\ Adding' /\ g # None
  BY <1>1, MonolithicAssumption DEF Adding, Idle, Members
<1>3. /\ root'[g] = g /\ \A h \in Gids \ {g} : root'[h] = root[h]
      /\ node'[g] = NewNode /\ \A h \in Gids \ {g} : node'[h] = node[h]
      /\ placed \subseteq Gids /\ g \notin placed /\ root \in [Gids -> Gids]
  BY <1>1 DEF TypeOK
<1>4. \A h \in placed : root[h] \in placed
  BY <1>2 DEF Structure, RootInv
<1>5. CountersAt(g)'
  <2>1. Part(g)' = {}
    BY <1>1, <1>3, <1>4 DEF Part
  <2>2. Open({}) = {} /\ Open({})' = Open({})
    BY <1>1, OpenSame DEF Open
  <2>3. Ahead(g)' = 0
    BY <1>2, <1>3 DEF Ahead
  <2>4. node'[g].num_unloaded_gadgets = 0 /\ node'[g].num_unconnected_outputs = 0
    BY <1>3 DEF NewNode
  <2>5. Open(Part(g))' = {}
    BY <2>1, <2>2 DEF Open
  <2>6. QED
    BY <2>1, <2>3, <2>4, <2>5, FS_EmptySet DEF CountersAt
<1>6. ASSUME NEW r \in placed, CountersAt(r) PROVE CountersAt(r)'
  <2>1. Part(r)' = Part(r) /\ node'[r] = node[r]
    BY <1>1, <1>3 DEF Part
  <2>2. Ahead(r)' = 0 /\ Ahead(r) = 0
    BY <1>1, <1>2, <1>3 DEF Ahead
  <2>3. Open(Part(r))' = Open(Part(r))
    BY <1>1, <2>1 DEF Open
  <2>4. QED
    BY <1>1, <1>6, <2>1, <2>2, <2>3, CountersKept
<1>7. ASSUME NEW h \in placed PROVE CountersAt(root[h])'
  <2>1. PICK r \in placed : r = root[h] /\ r = root'[h]
    BY <1>3, <1>4
  <2>2. CountersAt(r)'
    BY <1>2, <1>6, <2>1 DEF CountersInv
  <2>3. QED
    BY <2>1, <2>2 DEF CountersAt, Part, Ahead
<1>8. CountersAt(root[g])'
  BY <1>3, <1>5 DEF CountersAt, Part, Ahead
<1>9. QED
  BY <1>2, <1>7, <1>8 DEF CountersInv

\* Linking a port closes it.
LEMMA OpenLinked ==
    ASSUME program' = program, NEW p, linked' = linked \cup {p}, NEW S
    PROVE  Open(S)' = Open(S) \ {p}
BY DEF Open

\* What a union and its connector do to the counters.
LEMMA CountersConnect ==
    ASSUME TypeOK, Structure, CountersInv, Connect
    PROVE  CountersInv'
<1>0. PICK g \in Gids, n \in Nat \ {0} : g = adding.gid /\ n = adding.next
  BY ConnectIs
<1>p. PICK p : p = program.inputs[g][n]
  OBVIOUS
<1>b. PICK b \in Gids : b = p.gid
  BY <1>0, <1>p, ConnectIs
<1>1. /\ Adding /\ g \notin placed /\ b \in gadgets
      /\ n \in DOMAIN program.inputs[g]
      /\ adding' = [gid |-> g, next |-> n + 1] /\ linked' = linked \cup {p}
      /\ UNCHANGED <<program, gadgets, placed, tracked, outcomes>>
      /\ Union(g, b) /\ Followed(g) = 1 .. n - 1
      /\ Members' = Members /\ g \in Members
  BY <1>0, <1>p, <1>b, ConnectIs
<1>2. /\ b \in placed /\ b \in Members /\ adding'.gid = g /\ adding'.next = n + 1
      /\ Adding' /\ g # None
  BY <1>1, MonolithicAssumption DEF TypeOK, Members, Adding, Idle
<1>3. PICK k \in Gids, l \in Gids :
              /\ (k = root[g] /\ l = root[b]) \/ (k = root[b] /\ l = root[g])
              /\ root' = [x \in Gids |-> IF root[x] = k THEN l ELSE root[x]]
              /\ IF k = l THEN UNCHANGED node
                 ELSE node' = [node EXCEPT ![l] = Join(node[root[g]], node[root[b]])]
  BY <1>1, UnionRoots
<1>4. CountersAt(root[g]) /\ CountersAt(root[b]) /\ CountersAt(k) /\ CountersAt(l)
  BY <1>1, <1>2, <1>3 DEF CountersInv
<1>5. /\ Ahead(root[g]) = n - 1 /\ \A r : r # root[g] => Ahead(r) = 0
      /\ \A r : Ahead(r)' = IF r = l THEN n ELSE 0
  <2>1. root'[g] = l
    BY <1>3
  <2>2. Ahead(root[g]) = n - 1 /\ \A r : r # root[g] => Ahead(r) = 0
    BY <1>0, <1>1 DEF Ahead
  <2>3. n + 1 - 1 = n
    OBVIOUS
  <2>4. \A r : Ahead(r)' = IF r = l THEN n ELSE 0
    BY <1>2, <2>1, <2>3 DEF Ahead
  <2>5. QED
    BY <2>2, <2>4
<1>6. /\ \A S \in SUBSET Gids : Open(S)' = Open(S) \ {p}
      /\ p \in Open(Part(root[b])) /\ p.gid = b
  <2>0. n \notin Followed(g)
    BY <1>1
  <2>1. p \in Open({b})
    BY <1>1, <1>p, <1>b, <2>0, NotLinked
  <2>2. {b} \subseteq Part(root[b]) /\ {b} \in SUBSET Gids
    BY <1>2 DEF Part
  <2>3. p \in Open(Part(root[b]))
    BY <2>1, <2>2, PartFinite, OpenParts
  <2>4. QED
    BY <1>1, <1>b, <2>3, OpenLinked
<1>7. ASSUME NEW r \in Gids, r # k, r # l, CountersAt(r) PROVE CountersAt(r)'
  <2>1. Part(r)' = Part(r)
    BY <1>1, <1>3, <1>7 DEF Part, TypeOK
  <2>2. b \notin Part(r)
    BY <1>3, <1>7 DEF Part
  <2>3. p \notin Open(Part(r))
    BY <1>6, <2>2, PartFinite, OpenParts
  <2>4. Open(Part(r))' = Open(Part(r))
    <3>1. Open(Part(r))' = Open(Part(r)) \ {p}
      BY <1>1, <2>1 DEF Open
    <3>2. QED
      BY <2>3, <3>1
  <2>5. node'[r] = node[r]
    BY <1>3, <1>7 DEF TypeOK
  <2>6. Ahead(r)' = Ahead(r)
    BY <1>3, <1>5, <1>7
  <2>7. QED
    BY <1>1, <1>7, <2>1, <2>4, <2>5, <2>6, CountersKept
<1>8. PICK A \in SUBSET Gids, B \in SUBSET Gids :
         /\ A = Part(root[g]) /\ B = Part(root[b])
         /\ Part(l)' = A \cup B
         /\ root[g] # root[b] => A \cap B = {}
  <2>1. Part(l)' = Part(root[g]) \cup Part(root[b])
    BY <1>1, <1>3 DEF Part, TypeOK
  <2>2. root[g] # root[b] => Part(root[g]) \cap Part(root[b]) = {}
    BY DEF Part
  <2>3. QED
    BY <2>1, <2>2, PartFinite
<1>9. /\ Open(Part(l))' = Open(A \cup B) \ {p} /\ p \in Open(B)
      /\ Open(A \cup B) = Open(A) \cup Open(B)
      /\ root[g] # root[b] => Open(A) \cap Open(B) = {}
  <2>1. Open(Part(l))' = Open(A \cup B) \ {p}
    BY <1>1, <1>8 DEF Open
  <2>2. QED
    BY <1>6, <1>8, <2>1, OpenParts
<1>10. /\ IsFiniteSet(Open(A)) /\ IsFiniteSet(Open(B))
       /\ IsFiniteSet(A \ outcomes) /\ IsFiniteSet(B \ outcomes)
  BY <1>8, OpenFinite, PartFinite
<1>11. CountersAt(l)'
  <2>1. CASE k = l
    <3>1. root[g] = l /\ root[b] = l /\ A = B /\ Part(l) = A /\ node' = node
      BY <1>3, <1>8, <2>1
    <3>2. Cardinality(Open(A) \ {p}) = Cardinality(Open(A)) - 1 /\ Cardinality(Open(A)) \in Nat
      BY <1>9, <1>10, <3>1, SetFacts
    <3>3. Open(Part(l))' = Open(A) \ {p} /\ Part(l)' = A
      BY <1>8, <1>9, <3>1
    <3>4. node[l].num_unconnected_outputs = Cardinality(Open(A)) + (n - 1)
      BY <1>4, <1>5, <3>1 DEF CountersAt
    <3>5. node[l].num_unconnected_outputs = Cardinality(Open(A) \ {p}) + n
      BY <3>2, <3>4
    <3>6. node[l].num_unloaded_gadgets = Cardinality(A \ outcomes)
      BY <1>4, <3>1 DEF CountersAt
    <3>7. QED
      BY <1>1, <1>5, <3>1, <3>3, <3>5, <3>6 DEF CountersAt
  <2>2. CASE k # l
    <3>1. root[g] # root[b]
      BY <1>3, <2>2
    <3>2. node'[l] = Join(node[root[g]], node[root[b]])
      BY <1>3, <2>2 DEF TypeOK
    <3>3. /\ node[root[g]].num_unloaded_gadgets = Cardinality(A \ outcomes)
          /\ node[root[b]].num_unloaded_gadgets = Cardinality(B \ outcomes)
          /\ node[root[g]].num_unconnected_outputs = Cardinality(Open(A)) + (n - 1)
          /\ node[root[b]].num_unconnected_outputs = Cardinality(Open(B)) + 0
      BY <1>4, <1>5, <1>8, <3>1 DEF CountersAt
    <3>4. Cardinality((A \cup B) \ outcomes) = Cardinality(A \ outcomes) + Cardinality(B \ outcomes)
      <4>1. (A \cup B) \ outcomes = (A \ outcomes) \cup (B \ outcomes)
            /\ (A \ outcomes) \cap (B \ outcomes) = {}
        BY <1>8, <3>1
      <4>2. QED
        BY <1>10, <4>1, SetFacts
    <3>5. /\ Cardinality(Open(A \cup B)) = Cardinality(Open(A)) + Cardinality(Open(B))
          /\ Cardinality(Open(A)) \in Nat /\ Cardinality(Open(B)) \in Nat
          /\ IsFiniteSet(Open(A \cup B))
      <4>1. Open(A) \cap Open(B) = {}
        BY <1>9, <3>1
      <4>2. /\ Cardinality(Open(A) \cup Open(B)) = Cardinality(Open(A)) + Cardinality(Open(B))
            /\ IsFiniteSet(Open(A) \cup Open(B))
        BY <1>10, <4>1, SetFacts
      <4>3. QED
        BY <1>9, <1>10, <4>2, SetFacts
    <3>6. Cardinality(Open(A \cup B) \ {p}) = Cardinality(Open(A \cup B)) - 1
      BY <1>9, <3>5, SetFacts
    <3>7. /\ node'[l].num_unloaded_gadgets = Cardinality((A \cup B) \ outcomes)
          /\ node'[l].num_unconnected_outputs = Cardinality(Open(A \cup B) \ {p}) + n
      <4>1. /\ node'[l].num_unloaded_gadgets
                 = node[root[g]].num_unloaded_gadgets + node[root[b]].num_unloaded_gadgets
            /\ node'[l].num_unconnected_outputs
                 = node[root[g]].num_unconnected_outputs + node[root[b]].num_unconnected_outputs
        BY <3>2 DEF Join
      <4>2. node'[l].num_unloaded_gadgets = Cardinality((A \cup B) \ outcomes)
        BY <3>3, <3>4, <4>1
      <4>3. (Cardinality(Open(A)) + (n - 1)) + (Cardinality(Open(B)) + 0)
              = (Cardinality(Open(A)) + Cardinality(Open(B))) - 1 + n
        BY <3>5
      <4>4. QED
        BY <3>3, <3>5, <3>6, <4>1, <4>2, <4>3
    <3>8. QED
      BY <1>1, <1>5, <1>8, <1>9, <3>7 DEF CountersAt
  <2>3. QED
    BY <2>1, <2>2
<1>12. ASSUME NEW h \in Members PROVE CountersAt(root[h])'
  <2>1. PICK r \in Gids : r = root'[h] /\ (r = l \/ (r # k /\ r # l /\ r = root[h]))
    <3>1. h \in Gids /\ root[h] \in Gids
      BY <1>0, <1>12 DEF Members, TypeOK
    <3>2. QED
      BY <1>3, <3>1
  <2>2. CountersAt(r)'
    BY <1>7, <1>11, <1>12, <2>1 DEF CountersInv
  <2>3. QED
    BY <2>1, <2>2 DEF CountersAt, Part, Ahead
<1>13. QED
  BY <1>1, <1>12 DEF CountersInv

\* The ports of a gadget that is not in the tables are all open.
LEMMA NewPorts ==
    ASSUME TypeOK, Structure, NEW g \in Gids \ placed
    PROVE  Open({g}) = PortsOf(g)
<1>1. \A p \in linked : p.gid \in tracked
  BY Linking DEF Structure, LinkedInv
<1>2. \A p \in PortsOf(g) : p.gid = g
  BY DEF PortsOf
<1>3. Open({g}) = PortsOf(g) \ linked
  <2>1. Open({g}) = (UNION {PortsOf(h) : h \in {g}}) \ linked
    BY OpenFinite
  <2>2. QED
    BY <2>1
<1>4. \A p \in PortsOf(g) : p \notin linked
  BY <1>1, <1>2 DEF TypeOK
<1>5. QED
  BY <1>3, <1>4

\* The gadget that was added has ports and no outcomes yet.
LEMMA CountersFinish ==
    ASSUME TypeOK, Structure, CountersInv, CountGadget(adding.gid)
    PROVE  CountersInv'
<1>0. PICK g \in Gids, r \in Gids, n \in Nat :
         g = adding.gid /\ r = root[g] /\ n = Len(program.inputs[g]) /\ adding.next = n + 1
  BY FinishIs DEF TypeOK
<1>1. /\ Adding /\ g \notin placed /\ adding' = Idle
      /\ placed' = placed \cup {g} /\ UNCHANGED <<program, linked, root, outcomes>>
      /\ Members' = Members /\ g \in Members
  BY <1>0, FinishIs
<1>2. node' = [node EXCEPT
         ![r].num_unconnected_outputs = @ + Cardinality(program.outputs[g]) - n,
         ![r].num_unloaded_gadgets = @ + 1]
  BY <1>0 DEF CountGadget
<1>3. CountersAt(r) /\ node[r] \in Node
  BY <1>0, <1>1 DEF CountersInv, TypeOK, Node
<1>4. \A s : Ahead(s)' = 0
  BY <1>1 DEF Ahead, Adding
<1>5. Ahead(r) = n /\ \A s : s # r => Ahead(s) = 0
  <2>1. n + 1 - 1 = n
    OBVIOUS
  <2>2. QED
    BY <1>0, <1>1, <2>1 DEF Ahead
<1>6. ASSUME NEW s \in Gids, s # r, CountersAt(s) PROVE CountersAt(s)'
  <2>1. Part(s)' = Part(s)
    BY <1>0, <1>1, <1>6 DEF Part
  <2>2. node'[s] = node[s]
    BY <1>2, <1>6 DEF TypeOK
  <2>3. Open(Part(s))' = Open(Part(s))
    BY <1>1, <2>1 DEF Open
  <2>4. QED
    BY <1>1, <1>4, <1>5, <1>6, <2>1, <2>2, <2>3, CountersKept
<1>7. CountersAt(r)'
  <2>1. PICK A \in SUBSET Gids : A = Part(r) /\ g \notin A
    BY <1>1, PartFinite DEF Part
  <2>2. Part(r)' = A \cup {g}
    BY <1>0, <1>1, <2>1 DEF Part
  <2>3. Open(Part(r))' = Open(A) \cup Open({g})
    <3>1. Open(Part(r))' = Open(A \cup {g})
      BY <1>1, <2>2 DEF Open
    <3>2. QED
      BY <2>1, <3>1, OpenParts
  <2>4. /\ IsFiniteSet(Open({g})) /\ Cardinality(Open({g})) = Cardinality(program.outputs[g])
        /\ Cardinality(Open({g})) \in Nat
    BY <1>1, NewPorts, PortsFinite, OpenFinite
  <2>5. Cardinality(Open(A) \cup Open({g})) = Cardinality(Open(A)) + Cardinality(Open({g}))
    <3>1. Open(A) \cap Open({g}) = {}
      BY <2>1, OpenParts
    <3>2. IsFiniteSet(Open(A))
      BY OpenFinite
    <3>3. QED
      BY <2>4, <3>1, <3>2, SetFacts
  <2>6. Cardinality((A \cup {g}) \ outcomes) = Cardinality(A \ outcomes) + 1
    <3>1. (A \cup {g}) \ outcomes = (A \ outcomes) \cup {g} /\ g \notin A \ outcomes
      BY <1>1, <2>1 DEF TypeOK
    <3>2. IsFiniteSet(A \ outcomes)
      BY <2>1, PartFinite
    <3>3. QED
      BY <3>1, <3>2, FS_AddElement
  <2>7. /\ node'[r].num_unconnected_outputs
             = node[r].num_unconnected_outputs + Cardinality(program.outputs[g]) - n
        /\ node'[r].num_unloaded_gadgets = node[r].num_unloaded_gadgets + 1
    BY <1>2, <1>3 DEF TypeOK, Node
  <2>8. /\ node[r].num_unconnected_outputs = Cardinality(Open(A)) + n
        /\ node[r].num_unloaded_gadgets = Cardinality(A \ outcomes)
    BY <1>3, <1>5, <2>1 DEF CountersAt
  <2>9. node'[r].num_unconnected_outputs = Cardinality(Open(A) \cup Open({g})) + 0
    <3>1. Cardinality(Open(A)) \in Nat
      BY OpenFinite
    <3>2. QED
      BY <2>4, <2>5, <2>7, <2>8, <3>1
  <2>10. node'[r].num_unloaded_gadgets = Cardinality((A \cup {g}) \ outcomes)
    BY <2>6, <2>7, <2>8
  <2>11. QED
    BY <1>1, <1>4, <2>2, <2>3, <2>9, <2>10 DEF CountersAt
<1>8. ASSUME NEW h \in Members PROVE CountersAt(root[h])'
  <2>1. PICK s \in Gids : s = root[h]
    BY <1>0, <1>8 DEF Members, TypeOK
  <2>2. CountersAt(s)'
    BY <1>6, <1>7, <1>8, <2>1 DEF CountersInv
  <2>3. QED
    BY <1>1, <2>1, <2>2 DEF CountersAt, Part, Ahead
<1>9. QED
  BY <1>1, <1>8 DEF CountersInv

\* Outcomes are counted where they are stored.
LEMMA CountersLoad ==
    ASSUME TypeOK, Structure, CountersInv, NEW c \in Calls, LoadOutcomes(c)
    PROVE  CountersInv'
<1>0. PICK g \in Gids, r \in Gids : g = c[1] /\ r = root[g] /\ g \in placed
  BY LoadedNode DEF TypeOK
<1>1. /\ ~Adding /\ g \notin outcomes /\ outcomes' = outcomes \cup {g}
      /\ node' = [node EXCEPT ![r].num_unloaded_gadgets = @ - 1]
      /\ UNCHANGED <<program, linked, root, adding, placed, tracked>>
  BY <1>0 DEF LoadOutcomes, Loadable, Unlocked
<1>2. Members' = Members /\ \A s : Ahead(s)' = Ahead(s) /\ Part(s)' = Part(s)
  BY <1>1 DEF Members, Ahead, Part, Unlocked, Adding
<1>3. ASSUME NEW s \in Gids, CountersAt(s) PROVE CountersAt(s)'
  <2>1. Open(Part(s))' = Open(Part(s))
    BY <1>1, <1>2 DEF Open
  <2>2. CASE s # r
    <3>1. Part(s) \ outcomes' = Part(s) \ outcomes
      BY <1>0, <1>1, <2>2 DEF Part
    <3>2. node'[s] = node[s]
      BY <1>1, <2>2 DEF TypeOK
    <3>3. QED
      BY <1>1, <1>2, <1>3, <2>1, <3>1, <3>2, CountersKept
  <2>3. CASE s = r
    <3>1. Part(r) \ outcomes' = (Part(r) \ outcomes) \ {g} /\ g \in Part(r) \ outcomes
      BY <1>0, <1>1 DEF Part
    <3>2. Cardinality(Part(r) \ outcomes') = Cardinality(Part(r) \ outcomes) - 1
      BY <3>1, PartFinite, SetFacts
    <3>3. /\ node'[r].num_unloaded_gadgets = node[r].num_unloaded_gadgets - 1
          /\ node'[r].num_unconnected_outputs = node[r].num_unconnected_outputs
      BY <1>1 DEF TypeOK
    <3>4. QED
      BY <1>2, <1>3, <2>1, <2>3, <3>2, <3>3 DEF CountersAt
  <2>4. QED
    BY <2>2, <2>3
<1>4. ASSUME NEW h \in Members PROVE CountersAt(root[h])'
  <2>1. PICK s \in Gids : s = root[h]
    BY <1>1, <1>4 DEF Members, TypeOK, Unlocked, Adding, Idle
  <2>2. CountersAt(s)'
    BY <1>3, <1>4, <2>1 DEF CountersInv
  <2>3. QED
    BY <1>1, <2>1, <2>2 DEF CountersAt, Part, Ahead
<1>5. QED
  BY <1>2, <1>4 DEF CountersInv

\* Every step keeps the counters exact.
LEMMA CountersStep ==
    ASSUME TypeOK, Structure, CountersInv, [Next]_vars
    PROVE  CountersInv'
<1>1. CASE UNCHANGED <<program, linked, root, node, adding, placed, outcomes>>
  <2>1. Members' = Members /\ \A r : UNCHANGED <<Part(r), Ahead(r), node[r]>>
    BY <1>1 DEF Members, Part, Ahead, Unlocked, Adding
  <2>2. \A r : Open(Part(r))' = Open(Part(r))
    BY <1>1, <2>1 DEF Open
  <2>3. \A r : CountersAt(r) => CountersAt(r)'
    BY <1>1, <2>1, <2>2, CountersKept
  <2>4. ASSUME NEW h \in Members PROVE CountersAt(root[h])'
    <3>1. PICK s : s = root[h]
      OBVIOUS
    <3>2. CountersAt(s)'
      BY <2>3, <2>4, <3>1 DEF CountersInv
    <3>3. QED
      BY <1>1, <3>1, <3>2 DEF CountersAt, Part, Ahead
  <2>5. QED
    BY <2>1, <2>4 DEF CountersInv
<1>2. ASSUME NEW g \in Gids, BeginExecuteGadget(g) PROVE CountersInv'
  BY <1>2, CountersBegin
<1>3. CASE Connect
  BY <1>3, CountersConnect
<1>4. CASE FinishExecuteGadget \/ DropExecute
  BY <1>4, CountersFinish DEF FinishExecuteGadget, DropExecute
<1>5. ASSUME NEW c \in Calls, LoadOutcomes(c) PROVE CountersInv'
  BY <1>5, CountersLoad
<1>6. ASSUME NEW c \in Calls, TakeSubgraph(c) PROVE CountersInv'
  <2>1. UNCHANGED <<program, linked, root, node, adding, placed, outcomes>>
    BY <1>6 DEF TakeSubgraph
  <2>2. QED
    BY <1>1, <2>1
<1>7. CASE FinishReset
  BY <1>7, StructureReset DEF CountersInv
<1>8. QED
  BY <1>1, <1>2, <1>3, <1>4, <1>5, <1>6, <1>7, StepKinds DEF Quiet, tables

-----------------------------------------------------------------------------
(* What is taken.                                                          *)

\* The subgraph that decode walks is the class the counters are kept for.
LEMMA SubgraphIsClass ==
    ASSUME TypeOK, Structure, ~Adding, NEW g \in placed
    PROVE  /\ GetSubgraph(g) = Part(root[g])
           /\ \A x \in placed : PeersOf[x] \subseteq placed
<1>1. adding.gid = None /\ Members = placed /\ placed \subseteq Gids /\ g \in Gids
  BY DEF Adding, Idle, Members, TypeOK
<1>2. \A h \in Gids : Followed(h) = IF h \in placed THEN DOMAIN program.inputs[h] ELSE {}
  BY <1>1, MonolithicAssumption DEF Followed
<1>3. DOMAIN PeersOf = Gids
  BY DEF PeersOf
<1>4. \A x \in placed : \A y \in PeersOf[x] : y \in placed /\ root[y] = root[x]
  <2>1. ASSUME NEW x \in placed, NEW y \in PeersOf[x] PROVE y \in placed /\ root[y] = root[x]
    <3>1. CASE y \in Peers(x)
      BY <1>1, <1>2, <3>1, Linking DEF Peers, TypeOK
    <3>2. CASE y \in placed /\ \E i \in DOMAIN program.inputs[y] : program.inputs[y][i].gid = x
      BY <1>1, <1>2, <3>2, Linking
    <3>3. QED
      BY <1>1, <2>1, <3>1, <3>2 DEF PeersOf
  <2>2. QED
    BY <2>1
<1>5. GetSubgraph(g) \subseteq Part(root[g])
  <2>1. \A y \in Part(root[g]) : PeersOf[y] \subseteq Part(root[g])
    BY <1>4 DEF Part
  <2>2. {g} \subseteq Part(root[g]) /\ Part(root[g]) \subseteq DOMAIN PeersOf
    BY <1>1, <1>3 DEF Part
  <2>3. QED
    BY <2>1, <2>2, ClosureLeast DEF GetSubgraph
<1>6. \A x \in Gids : PeersOf[x] \subseteq DOMAIN PeersOf
  BY <1>1, <1>3, PeersTypes DEF PeersOf
<1>7. GetSubgraph(g) \in SUBSET Gids /\ g \in GetSubgraph(g)
  <2>1. {g} \subseteq DOMAIN PeersOf
    BY <1>1, <1>3
  <2>2. Part(root[g]) \subseteq Gids
    BY PartFinite
  <2>3. QED
    BY <1>5, <2>1, <2>2, ClosureContains DEF GetSubgraph
<1>8. \A x \in GetSubgraph(g) : PeersOf[x] \subseteq GetSubgraph(g)
  BY <1>6, <1>7, ClosureStep DEF GetSubgraph
<1>9. Separate(GetSubgraph(g))
  <2>1. ASSUME NEW h \in Gids, NEW i \in Followed(h)
        PROVE  h \in GetSubgraph(g) <=> program.inputs[h][i].gid \in GetSubgraph(g)
    <3>1. h \in placed /\ i \in DOMAIN program.inputs[h] /\ program.inputs[h][i].gid \in Gids
      BY <1>1, <1>2, <2>1, Linking DEF TypeOK
    <3>2. program.inputs[h][i].gid \in PeersOf[h] /\ h \in PeersOf[program.inputs[h][i].gid]
      BY <1>1, <3>1 DEF PeersOf, Peers
    <3>3. QED
      BY <1>8, <3>2
  <2>2. QED
    BY <2>1 DEF Separate
<1>10. Part(root[g]) \subseteq GetSubgraph(g)
  BY <1>1, <1>7, <1>9 DEF Structure, Connected, Part
<1>11. QED
  BY <1>4, <1>5, <1>10

\* A subgraph that is taken is there as a whole, so nothing missing is unwrapped.
LEMMA TakesClass ==
    ASSUME TypeOK, Structure, TakenInv, TakeInv, NEW c \in Calls, TakeSubgraph(c)
    PROVE  /\ Unlocked /\ pc[c] = "take" /\ c[1] \in gadgets
           /\ GetSubgraph(c[1]) = Part(root[c[1]])
           /\ GetSubgraph(c[1]) \subseteq gadgets \cap outcomes
           /\ Open(GetSubgraph(c[1])) = {}
           /\ gadgets' = gadgets \ GetSubgraph(c[1])
           /\ pc' = [pc EXCEPT ![c] = "expand"]
           /\ work' = [work EXCEPT ![c] = GetSubgraph(c[1])] /\ channel' = channel
           /\ UNCHANGED <<program, linked, root, adding, placed, tracked, outcomes>>
<1>1. Unlocked /\ pc[c] = "take"
  BY DEF TakeSubgraph
<1>2. /\ c[1] \in gadgets /\ c[1] \in placed
      /\ Part(root[c[1]]) \subseteq outcomes /\ Open(Part(root[c[1]])) = {}
  BY <1>1 DEF TakeInv, TypeOK
<1>3. GetSubgraph(c[1]) = Part(root[c[1]])
  BY <1>1, <1>2, SubgraphIsClass DEF Unlocked
<1>4. Part(root[c[1]]) \subseteq gadgets
  BY <1>2 DEF TakenInv, Part, TypeOK
<1>5. /\ Goto(c, "take", "expand") /\ gadgets' = gadgets \ GetSubgraph(c[1])
      /\ work' = [work EXCEPT ![c] = GetSubgraph(c[1])] /\ channel' = channel
      /\ UNCHANGED <<program, linked, root, adding, placed, tracked, outcomes>>
  BY <1>2, <1>3, <1>4 DEF TakeSubgraph
<1>6. QED
  BY <1>1, <1>2, <1>3, <1>4, <1>5 DEF Goto

\* While a gadget is added, its class and those of its peers are still there.
LEMMA TakenApart ==
    ASSUME TypeOK, Structure, TakenInv, Adding, NEW g \in tracked \ gadgets
    PROVE  /\ root[g] # root[adding.gid]
           /\ \A b \in Peers(adding.gid) : root[g] # root[b]
<1> DEFINE T == tracked \ gadgets
<1>1. adding.gid \in Members /\ adding.gid \notin placed /\ adding.gid \in Gids
      /\ Peers(adding.gid) \subseteq gadgets /\ g \in Members
      /\ gadgets \subseteq tracked /\ tracked \subseteq placed
  BY AddingTypes DEF Structure, Members, AddingInv, TypeOK
<1>2. Separate(T)
  <2>1. ASSUME NEW h \in Gids, NEW i \in Followed(h)
        PROVE  h \in T <=> program.inputs[h][i].gid \in T
    <3>1. /\ h \in Members /\ program.inputs[h][i].gid \in tracked
          /\ root[program.inputs[h][i].gid] = root[h] /\ i \in DOMAIN program.inputs[h]
      BY Linking, FollowedTypes DEF Structure
    <3>2. CASE h \in placed
      BY <1>1, <3>1, <3>2 DEF TakenInv
    <3>3. CASE h = adding.gid
      BY <1>1, <3>1, <3>3, Connectors
    <3>4. QED
      BY <3>1, <3>2, <3>3 DEF Members
  <2>2. QED
    BY <2>1 DEF Separate
<1>3. T \in SUBSET Gids
  BY DEF TypeOK
<1>4. root[g] # root[adding.gid]
  BY <1>1, <1>2, <1>3 DEF Structure, Connected
<1>5. ASSUME NEW b \in Peers(adding.gid) PROVE root[g] # root[b]
  BY <1>1, <1>5 DEF TakenInv
<1>6. QED
  BY <1>4, <1>5

\* Every step keeps what is known of the gadgets that were taken.
LEMMA TakenStep ==
    ASSUME TypeOK, Structure, TakenInv, TakeInv, [Next]_vars
    PROVE  TakenInv'
<1>1. CASE Quiet
  BY <1>1 DEF Quiet, tables, TakenInv, Open
<1>2. ASSUME NEW g \in Gids, BeginExecuteGadget(g) PROVE TakenInv'
  <2>1. /\ g \notin placed /\ \A h \in Gids \ {g} : root'[h] = root[h]
        /\ UNCHANGED <<program, gadgets, linked, placed, tracked, outcomes>>
    BY <1>2 DEF BeginExecuteGadget, TypeOK
  <2>2. \A h \in placed : root'[h] = root[h]
    BY <2>1 DEF TypeOK
  <2>3. QED
    BY <2>1, <2>2 DEF TakenInv, Open, TypeOK
<1>3. CASE Connect
  <2>1. /\ Adding /\ adding.gid \in Gids
        /\ program.inputs[adding.gid][adding.next].gid \in Peers(adding.gid)
        /\ program.inputs[adding.gid][adding.next].gid \in Gids
        /\ linked' = linked \cup {program.inputs[adding.gid][adding.next]}
        /\ UNCHANGED <<program, gadgets, placed, tracked, outcomes>>
        /\ Union(adding.gid, program.inputs[adding.gid][adding.next].gid)
    BY <1>3, ConnectIs DEF TypeOK
  <2>2. PICK k \in Gids, l \in Gids :
              /\ \/ k = root[adding.gid] /\ l = root[program.inputs[adding.gid][adding.next].gid]
                 \/ l = root[adding.gid] /\ k = root[program.inputs[adding.gid][adding.next].gid]
              /\ root' = [x \in Gids |-> IF root[x] = k THEN l ELSE root[x]]
    BY <2>1, UnionRoots
  <2>3. ASSUME NEW g \in tracked \ gadgets
        PROVE  /\ g \in outcomes /\ Open({g})' = {}
               /\ \A h \in placed : root'[h] = root'[g] => h \in tracked \ gadgets
    <3>1. root[g] # k /\ root[g] # l
      BY <2>1, <2>2, TakenApart
    <3>2. g \in outcomes /\ Open({g}) = {} /\ \A h \in placed : root[h] = root[g] => h \in tracked \ gadgets
      BY DEF TakenInv
    <3>3. Open({g})' = {}
      BY <2>1, <3>2, OpenLinked
    <3>4. \A h \in placed : root'[h] = root'[g] => root[h] = root[g]
      BY <2>2, <3>1 DEF TypeOK
    <3>5. QED
      BY <3>2, <3>3, <3>4
  <2>4. QED
    BY <2>1, <2>3 DEF TakenInv, Open
<1>4. CASE FinishExecuteGadget \/ DropExecute
  <2>1. /\ Adding /\ placed' = placed \cup {adding.gid}
        /\ \/ gadgets' = gadgets \cup {adding.gid} /\ tracked' = tracked \cup {adding.gid}
           \/ UNCHANGED <<gadgets, tracked>>
        /\ adding.gid \notin placed /\ gadgets \subseteq tracked /\ tracked \subseteq placed
        /\ UNCHANGED <<program, linked, root, outcomes>>
    BY <1>4, FinishIs DEF FinishExecuteGadget, DropExecute, TypeOK
  <2>2. ASSUME NEW g \in tracked' \ gadgets'
        PROVE  /\ g \in outcomes /\ Open({g})' = {}
               /\ \A h \in placed' : root[h] = root[g] => h \in tracked' \ gadgets'
    <3>1. g \in tracked \ gadgets
      BY <2>1
    <3>2. /\ g \in outcomes /\ Open({g}) = {} /\ root[g] # root[adding.gid]
          /\ \A h \in placed : root[h] = root[g] => h \in tracked \ gadgets
      BY <2>1, <3>1, TakenApart DEF TakenInv
    <3>3. QED
      BY <2>1, <3>2 DEF Open
  <2>3. QED
    BY <2>1, <2>2 DEF TakenInv
<1>5. ASSUME NEW c \in Calls, LoadOutcomes(c) PROVE TakenInv'
  <2>1. outcomes \subseteq outcomes' /\ UNCHANGED <<program, gadgets, linked, root, placed, tracked>>
    BY <1>5 DEF LoadOutcomes
  <2>2. QED
    BY <2>1 DEF TakenInv, Open
<1>6. ASSUME NEW c \in Calls, TakeSubgraph(c) PROVE TakenInv'
  <2>1. PICK S \in SUBSET Gids :
           /\ S = Part(root[c[1]]) /\ S \subseteq gadgets \cap outcomes /\ Open(S) = {}
           /\ gadgets' = gadgets \ S /\ UNCHANGED <<program, linked, root, placed, tracked, outcomes>>
    <3>1. PICK S \in SUBSET Gids : S = Part(root[c[1]])
      BY PartFinite
    <3>2. S = GetSubgraph(c[1])
      BY <1>6, <3>1, TakesClass
    <3>3. QED
      BY <1>6, <3>1, <3>2, TakesClass
  <2>2. ASSUME NEW g \in tracked \ gadgets'
        PROVE  /\ g \in outcomes /\ Open({g}) = {}
               /\ \A h \in placed : root[h] = root[g] => h \in tracked \ gadgets'
    <3>1. CASE g \in S
      <4>1. Open({g}) \subseteq Open(S)
        BY <3>1, OpenParts
      <4>2. QED
        BY <2>1, <3>1, <4>1 DEF Part, TypeOK
    <3>2. CASE g \notin S
      BY <2>1, <2>2, <3>2 DEF TakenInv, Part
    <3>3. QED
      BY <3>1, <3>2
  <2>3. QED
    BY <2>1, <2>2 DEF TakenInv, Open
<1>7. CASE FinishReset
  BY <1>7, StructureReset DEF TakenInv
<1>8. QED
  BY <1>1, <1>2, <1>3, <1>4, <1>5, <1>6, <1>7, StepKinds

-----------------------------------------------------------------------------
(* Who takes what.                                                         *)

\* How a call gets to where it may take a subgraph, and where a dropped one stays.
Moves(c) ==
    /\ pc'[c] = "take" => pc[c] = "take" \/ LoadRaw(c)
    /\ pc'[c] = "raw" => pc[c] = "raw" \/ LoadOutcomes(c)
    /\ pc'[c] \in AfterLoad => pc[c] \in AfterLoad \/ LoadOutcomes(c)
    /\ pc[c] = "dropped" => pc'[c] = "dropped" \/ FinishReset

\* No step moves it another way.
LEMMA PcSteps ==
    ASSUME TypeOK, [Next]_vars, NEW c \in Calls
    PROVE  Moves(c)
<1> USE DEF TypeOK, AfterLoad, PC, Ended, Goto, Unwind, calls, decoders, control, NoCall, Moves
<1>1. ASSUME pc' = pc PROVE Moves(c)
  BY <1>1
<1>2. ASSUME NEW d \in Calls,
             \/ BeginDecode(d) \/ AwaitErrorModels(d) \/ LoadRefused(d)
             \/ TakeSubgraph(d) \/ AssembleProgram(d) \/ FindDecoder(d)
      PROVE  Moves(c)
  BY <1>2 DEF BeginDecode, AwaitErrorModels, LoadRefused, TakeSubgraph, AssembleProgram,
              FindDecoder
<1>3. ASSUME NEW d \in Calls,
             \/ LoadHypergraph(d) \/ DecodeLoaded(d) \/ DecodeOnce(d) \/ UpdatePauliFrame(d)
             \/ UpdatePauliFrameFails(d) \/ Receive(d) \/ CallCancelled(d)
             \/ DecoderFails(d) \/ DropCall(d)
      PROVE  Moves(c)
  BY <1>3 DEF LoadHypergraph, DecodeLoaded, DecodeOnce, UpdatePauliFrame,
              UpdatePauliFrameFails, Receive, CallCancelled, DecoderFails, DropCall
<1>4. CASE FinishReset
  BY <1>4 DEF FinishReset
<1>5. ASSUME NEW d \in Calls, LoadOutcomes(d) \/ LoadRaw(d) PROVE Moves(c)
  BY <1>5 DEF LoadOutcomes, LoadRaw
<1>6. QED
  BY <1>1, <1>2, <1>3, <1>4, <1>5
     DEF Next, vars, Execute, BeginExecuteGadget, ExecuteCheckModel, ExecuteErrorModel,
         Locked, Connect, FinishExecuteGadget, DropExecute, CountGadget, Task, Expand,
         ExpandLost, AwaitPort, ExpandCut, Decode, CancelPending, BeginReset, AllEnded

\* While a call waits for the frame tracker, the tables stay.
LEMMA RawStep ==
    ASSUME TypeOK, RawInv, [Next]_vars
    PROVE  RawInv'
<1>1. ASSUME NEW c \in Calls, LoadOutcomes(c), NEW d \in Calls
      PROVE  /\ c[1] \in gadgets' /\ adding' = Idle
             /\ pc'[d] = "raw" => c = d
  BY <1>1 DEF LoadOutcomes, Loadable, Goto, Unlocked, Adding, TypeOK
<1>2. ASSUME NEW c \in Calls, pc[c] = "raw", pc'[c] = "raw"
      PROVE  /\ c[1] \in gadgets' /\ adding' = Idle
             /\ ~\E d \in Calls : LoadOutcomes(d)
  <2>1. ~Unlocked /\ ~Adding /\ c[1] \in gadgets /\ adding = Idle
    BY <1>2 DEF Unlocked, Adding, RawInv
  <2>2. ~FinishReset
    BY <1>2 DEF FinishReset, NoCall
  <2>3. Quiet
    BY <2>1, <2>2, StepKinds
       DEF BeginExecuteGadget, Connect, FinishExecuteGadget, DropExecute, CountGadget, LoadOutcomes,
           TakeSubgraph
  <2>4. QED
    BY <2>1, <2>3 DEF Quiet, tables, LoadOutcomes
<1>3. ASSUME NEW c \in Calls, pc'[c] = "raw"
      PROVE  /\ c[1] \in gadgets' /\ adding' = Idle
             /\ \A d \in Calls : pc'[d] = "raw" => c = d
  <2>1. CASE LoadOutcomes(c)
    BY <1>1, <2>1
  <2>2. CASE ~LoadOutcomes(c)
    <3>1. pc[c] = "raw"
      BY <1>3, <2>2, PcSteps DEF Moves
    <3>2. \A d \in Calls : pc'[d] = "raw" => pc[d] = "raw"
      BY <1>2, <1>3, <3>1, PcSteps DEF Moves
    <3>3. QED
      BY <1>2, <1>3, <3>1, <3>2 DEF RawInv
  <2>3. QED
    BY <2>1, <2>2
<1>4. QED
  BY <1>3 DEF RawInv

\* A call that is about to take a class.
TakesOne(c) ==
    /\ c[1] \in gadgets
    /\ Part(root[c[1]]) \subseteq outcomes
    /\ Open(Part(root[c[1]])) = {}
    /\ adding.gid # None =>
          /\ root[adding.gid] # root[c[1]]
          /\ Peers(adding.gid) \cap Part(root[c[1]]) = {}

\* Tables and outcomes: a step that another call, or the addition of a gadget, takes
\* leaves the class of a call that is about to take it as it is.
LEMMA TakesOneStep ==
    ASSUME TypeOK, Structure, CountersInv, TakenInv, TakeInv, [Next]_vars,
           NEW c \in Calls, pc[c] = "take", pc'[c] = "take"
    PROVE  TakesOne(c)'
<1>0. PICK g \in Gids, r \in Gids, A \in SUBSET Gids :
         /\ g = c[1] /\ r = root[g] /\ A = Part(r) /\ g \in gadgets /\ g \in placed
         /\ A \subseteq outcomes /\ Open(A) = {}
         /\ adding.gid # None => root[adding.gid] # r /\ Peers(adding.gid) \cap A = {}
  <2>1. c[1] \in gadgets /\ c[1] \in Gids
    BY DEF TakeInv, TypeOK
  <2>2. QED
    BY <2>1, PartFinite DEF TakeInv, TypeOK
<1>1. CASE UNCHANGED <<program, tables>> /\ outcomes \subseteq outcomes'
  BY <1>0, <1>1 DEF TakesOne, tables, Part, Open, Peers
<1>2. ASSUME NEW h \in Gids, BeginExecuteGadget(h) PROVE TakesOne(c)'
  <2>1. /\ ~Adding /\ h \notin placed /\ Peers(h) \subseteq tracked /\ adding' = [gid |-> h, next |-> 1]
        /\ root' = [root EXCEPT ![h] = h]
        /\ UNCHANGED <<program, gadgets, linked, placed, tracked, outcomes>>
    BY <1>2 DEF BeginExecuteGadget, Unlocked
  <2>2. r \in placed /\ Members = placed
    BY <1>0, <2>1 DEF Structure, RootInv, Members, Adding, Idle
  <2>3. root'[g] = r /\ root'[h] = h /\ r # h /\ \A x \in placed : root'[x] = root[x]
    BY <1>0, <2>1, <2>2 DEF TypeOK
  <2>4. Part(r)' = A
    BY <1>0, <2>1, <2>3 DEF Part
  <2>5. Peers(h) \cap A = {}
    <3>1. ASSUME NEW x \in Peers(h), x \in A PROVE FALSE
      <4>1. Open({x}) # {}
        BY <2>1, PeersThere
      <4>2. Open({x}) \subseteq Open(A)
        BY <3>1, OpenParts
      <4>3. QED
        BY <1>0, <4>1, <4>2
    <3>2. QED
      BY <3>1
  <2>6. Part(root[c[1]])' = A
    BY <1>0, <2>3, <2>4 DEF Part
  <2>7. QED
    BY <1>0, <2>1, <2>3, <2>5, <2>6 DEF TakesOne, Open, Peers
<1>3. CASE Connect
  <2>p. PICK p : p = program.inputs[adding.gid][adding.next]
    OBVIOUS
  <2>a. /\ adding.gid \in Gids /\ adding.gid # None /\ p \in [gid : Gids, port : Nat]
        /\ p.gid \in Peers(adding.gid) /\ p.gid \in gadgets
        /\ adding' = [gid |-> adding.gid, next |-> adding.next + 1]
        /\ linked' = linked \cup {p} /\ Union(adding.gid, p.gid)
        /\ UNCHANGED <<program, gadgets, placed, tracked, outcomes>>
    BY <1>3, <2>p, ConnectIs
  <2>b. PICK b \in Gids, a \in Gids : a = adding.gid /\ b = p.gid
    BY <2>a
  <2>1. /\ a # None /\ b \in Peers(a) /\ b \in placed
        /\ adding'.gid = a /\ linked' = linked \cup {p} /\ Union(a, b)
        /\ UNCHANGED <<program, gadgets, placed, tracked, outcomes>>
    BY <2>a, <2>b DEF TypeOK
  <2>2. PICK k \in Gids, l \in Gids :
              /\ (k = root[a] /\ l = root[b]) \/ (k = root[b] /\ l = root[a])
              /\ root' = [x \in Gids |-> IF root[x] = k THEN l ELSE root[x]]
    BY <2>1, UnionRoots
  <2>3. root[a] # r /\ Peers(a) \cap A = {} /\ root[b] # r
    BY <1>0, <2>1, <2>b DEF Part
  <2>4. \A x \in Gids : root'[x] = r <=> root[x] = r
    BY <2>2, <2>3 DEF TypeOK
  <2>5. root'[g] = r /\ Part(r)' = A
    BY <1>0, <2>1, <2>4 DEF Part, TypeOK
  <2>6. Part(root[c[1]])' = A
    BY <1>0, <2>5 DEF Part
  <2>7. Open(A)' = {}
    BY <1>0, <2>1, OpenLinked
  <2>8. root'[a] # r
    BY <2>1, <2>3, <2>4
  <2>9. QED
    <3>1. Open(Part(root[c[1]]))' = {}
      BY <2>6, <2>7 DEF Open
    <3>2. Peers(adding.gid)' = Peers(a)
      BY <2>1 DEF Peers
    <3>3. root'[adding'.gid] # root'[c[1]]
      BY <1>0, <2>1, <2>5, <2>8
    <3>4. QED
      BY <1>0, <2>1, <2>3, <2>6, <3>1, <3>2, <3>3 DEF TakesOne
<1>4. CASE FinishExecuteGadget \/ DropExecute
  <2>1. /\ gadgets \subseteq gadgets' /\ placed' = placed \cup {adding.gid}
        /\ adding' = Idle /\ UNCHANGED <<program, linked, root, outcomes>> /\ adding.gid # None
    BY <1>4, FinishIs, AddingTypes DEF Structure, FinishExecuteGadget, DropExecute
  <2>2. Part(r)' = A
    BY <1>0, <2>1 DEF Part
  <2>3. Part(root[c[1]])' = A
    BY <1>0, <2>1, <2>2 DEF Part
  <2>4. QED
    BY <1>0, <2>1, <2>3 DEF TakesOne, Open, Idle
<1>5. ASSUME NEW d \in Calls, LoadOutcomes(d) PROVE TakesOne(c)'
  <2>1. outcomes \subseteq outcomes' /\ UNCHANGED <<program, gadgets, linked, root, adding, placed, tracked>>
    BY <1>5 DEF LoadOutcomes
  <2>2. QED
    BY <1>0, <2>1 DEF TakesOne, Part, Open, Peers
<1>6. ASSUME NEW d \in Calls, TakeSubgraph(d) PROVE TakesOne(c)'
  <2>1. /\ pc[d] = "take" /\ pc' = [pc EXCEPT ![d] = "expand"] /\ Unlocked
        /\ GetSubgraph(d[1]) = Part(root[d[1]])
        /\ gadgets' = gadgets \ GetSubgraph(d[1])
        /\ UNCHANGED <<program, linked, root, adding, placed, tracked, outcomes>>
    BY <1>6, TakesClass
  <2>2. c # d
    BY <2>1 DEF TypeOK
  <2>3. root[d[1]] # r
    BY <1>0, <2>1, <2>2 DEF TakeInv
  <2>4. g \in gadgets'
    BY <1>0, <2>1, <2>3 DEF Part
  <2>5. QED
    BY <1>0, <2>1, <2>4 DEF TakesOne, Part, Open, Peers
<1>7. CASE FinishReset
  BY <1>7 DEF FinishReset, NoCall
<1>8. QED
  BY <1>1, <1>2, <1>3, <1>4, <1>5, <1>6, <1>7, StepKinds DEF Quiet

\* The call that stored the last outcomes of a class without open ports is going to
\* take it.
LEMMA TakesOneRaw ==
    ASSUME TypeOK, Structure, CountersInv, RawInv,
           NEW c \in Calls, LoadRaw(c), pc'[c] = "take"
    PROVE  TakesOne(c)'
<1>1. PICK g \in Gids, r \in Gids, A \in SUBSET Gids :
         g = c[1] /\ r = root[g] /\ A = Part(r) /\ g \in gadgets /\ g \in placed
  <2>1. c[1] \in gadgets /\ c[1] \in placed /\ c[1] \in Gids /\ root[c[1]] \in Gids
    BY DEF LoadRaw, Goto, RawInv, TypeOK
  <2>2. QED
    BY <2>1, PartFinite
<1>2. /\ IsFinal(node[r]) /\ adding = Idle /\ UNCHANGED <<program, tables, outcomes>>
  BY <1>1 DEF LoadRaw, Goto, RawInv, TypeOK
<1>3. CountersAt(r)
  BY <1>1 DEF CountersInv, Members
<1>4. PICK B : B = Open(A)
  OBVIOUS
<1>5. Cardinality(A \ outcomes) = 0 /\ Cardinality(B) + 0 = 0
  BY <1>1, <1>2, <1>3, <1>4 DEF CountersAt, IsFinal, Ahead, Adding
<1>6. IsFiniteSet(A \ outcomes) /\ IsFiniteSet(B) /\ Cardinality(B) \in Nat
  BY <1>4, OpenFinite, MonolithicAssumption, FS_Subset
<1>7. A \ outcomes = {} /\ B = {}
  <2>1. Cardinality(B) = 0
    BY <1>5, <1>6
  <2>2. QED
    BY <1>5, <1>6, <2>1, FS_EmptySet
<1>8. adding.gid = None
  BY <1>2 DEF Idle
<1>9. TakesOne(c)
  BY <1>1, <1>4, <1>7, <1>8 DEF TakesOne
<1>10. QED
  BY <1>2, <1>9 DEF TakesOne, tables, Part, Open, Peers

\* Gadgets of one class stay in one class.
LEMMA RootsKept ==
    ASSUME TypeOK, Structure, [Next]_vars, ~FinishReset, NEW x \in placed, NEW y \in placed,
           root[x] = root[y]
    PROVE  root'[x] = root'[y]
<1>1. x \in Gids /\ y \in Gids
  BY DEF TypeOK
<1>2. CASE root' = root
  BY <1>2
<1>3. ASSUME NEW g \in Gids, BeginExecuteGadget(g) PROVE root'[x] = root'[y]
  <2>1. g \notin placed /\ root' = [root EXCEPT ![g] = g]
    BY <1>3 DEF BeginExecuteGadget
  <2>2. QED
    BY <1>1, <2>1 DEF TypeOK
<1>4. CASE Connect
  <2>1. PICK b \in Gids, a \in Gids :
           a = adding.gid /\ b = program.inputs[adding.gid][adding.next].gid /\ Union(a, b)
    BY <1>4, ConnectIs
  <2>2. PICK k \in Gids, l \in Gids : root' = [z \in Gids |-> IF root[z] = k THEN l ELSE root[z]]
    BY <2>1, UnionRoots
  <2>3. QED
    BY <1>1, <2>2
<1>5. CASE FinishExecuteGadget \/ DropExecute
  BY <1>2, <1>5 DEF FinishExecuteGadget, DropExecute, CountGadget
<1>6. ASSUME NEW c \in Calls, LoadOutcomes(c) \/ TakeSubgraph(c) PROVE root' = root
  BY <1>6 DEF LoadOutcomes, TakeSubgraph
<1>7. QED
  BY <1>2, <1>3, <1>4, <1>5, <1>6, StepKinds DEF Quiet, tables

\* And the class of a call that takes it is joined with no other.
LEMMA RootsApart ==
    ASSUME TypeOK, Structure, RawInv, TakeInv, [Next]_vars, ~FinishReset,
           NEW c \in Calls, NEW d \in Calls, pc[c] = "take", pc[d] \in {"raw", "take"},
           root[c[1]] # root[d[1]]
    PROVE  root'[c[1]] # root'[d[1]]
<1>1. c[1] \in placed /\ d[1] \in placed /\ c[1] \in Gids /\ d[1] \in Gids
  BY DEF TakeInv, RawInv, TypeOK
<1>2. CASE root' = root
  BY <1>2
<1>3. ASSUME NEW g \in Gids, BeginExecuteGadget(g) PROVE root'[c[1]] # root'[d[1]]
  <2>1. g \notin placed /\ root' = [root EXCEPT ![g] = g]
    BY <1>3 DEF BeginExecuteGadget
  <2>2. root'[c[1]] = root[c[1]] /\ root'[d[1]] = root[d[1]]
    BY <1>1, <2>1 DEF TypeOK
  <2>3. QED
    BY <2>2
<1>4. CASE Connect
  <2>1. PICK b \in Gids, a \in Gids :
           a = adding.gid /\ b = program.inputs[adding.gid][adding.next].gid
    BY <1>4, ConnectIs
  <2>2. a # None /\ b \in Peers(a) /\ b \in placed /\ Union(a, b)
    BY <1>4, <2>1, ConnectIs DEF TypeOK
  <2>3. PICK k \in Gids, l \in Gids :
           /\ (k = root[a] /\ l = root[b]) \/ (k = root[b] /\ l = root[a])
           /\ root' = [x \in Gids |-> IF root[x] = k THEN l ELSE root[x]]
    BY <2>2, UnionRoots
  <2>4. pc[d] = "take"
    BY <2>1, <2>2 DEF RawInv, Idle
  <2>5. /\ root[a] # root[c[1]] /\ root[b] # root[c[1]]
        /\ root[a] # root[d[1]] /\ root[b] # root[d[1]]
    BY <2>1, <2>2, <2>4 DEF TakeInv, Part
  <2>6. QED
    BY <1>1, <2>3, <2>5 DEF TypeOK
<1>5. CASE FinishExecuteGadget \/ DropExecute
  BY <1>2, <1>5 DEF FinishExecuteGadget, DropExecute, CountGadget
<1>6. ASSUME NEW e \in Calls, LoadOutcomes(e) \/ TakeSubgraph(e) PROVE root' = root
  BY <1>6 DEF LoadOutcomes, TakeSubgraph
<1>7. QED
  BY <1>2, <1>3, <1>4, <1>5, <1>6, StepKinds DEF Quiet, tables

\* Every step keeps what is known of the calls that take a class.
LEMMA TakeStep ==
    ASSUME TypeOK, Structure, CountersInv, TakenInv, RawInv, TakeInv, [Next]_vars
    PROVE  TakeInv'
<1>1. ASSUME NEW c \in Calls, pc'[c] = "take" PROVE TakesOne(c)'
  <2>1. CASE LoadRaw(c)
    BY <1>1, <2>1, TakesOneRaw
  <2>2. CASE ~LoadRaw(c)
    BY <1>1, <2>2, PcSteps, TakesOneStep DEF Moves
  <2>3. QED
    BY <2>1, <2>2
<1>2. ASSUME NEW c \in Calls, NEW d \in Calls, pc'[c] = "take", pc'[d] \in {"raw", "take"},
             root'[c[1]] = root'[d[1]]
      PROVE  c = d
  <2>0. ~FinishReset
    BY <1>2 DEF FinishReset, NoCall
  <2>1. CASE pc[c] = "take" /\ pc[d] \in {"raw", "take"}
    BY <1>2, <2>0, <2>1, RootsApart DEF TakeInv
  <2>2. CASE pc[c] # "take"
    <3>1. LoadRaw(c)
      BY <1>2, <2>2, PcSteps DEF Moves
    <3>2. /\ pc[c] = "raw" /\ root' = root
          /\ \A e \in Calls : c # e => pc'[e] = pc[e]
      BY <3>1 DEF LoadRaw, Goto, tables, TypeOK
    <3>3. QED
      BY <1>2, <3>2 DEF RawInv, TakeInv
  <2>3. CASE pc[c] = "take" /\ pc[d] \notin {"raw", "take"}
    <3>1. LoadOutcomes(d)
      BY <1>2, <2>3, PcSteps DEF Moves, LoadRaw, Goto
    <3>2. d[1] \in placed /\ d[1] \notin outcomes /\ root' = root
      BY <3>1 DEF LoadOutcomes, Loadable, TypeOK
    <3>3. d[1] \in Part(root[c[1]])
      BY <1>2, <3>2 DEF Part
    <3>4. QED
      BY <2>3, <3>2, <3>3 DEF TakeInv
  <2>4. QED
    BY <2>1, <2>2, <2>3
<1>3. QED
  BY <1>1, <1>2 DEF TakeInv, TakesOne

\* Outcomes stay until a reset.
LEMMA OutcomesGrow ==
    ASSUME [Next]_vars
    PROVE  outcomes \subseteq outcomes' \/ FinishReset
BY StepKinds DEF Quiet, BeginExecuteGadget, Connect, FinishExecuteGadget, DropExecute,
                 CountGadget, LoadOutcomes, TakeSubgraph

\* Only one call loads the outcomes of a gadget.
LEMMA LoadStep ==
    ASSUME TypeOK, LoadInv, [Next]_vars
    PROVE  LoadInv'
<1>1. ASSUME NEW c \in Calls, pc'[c] \in AfterLoad, ~LoadOutcomes(c)
      PROVE  pc[c] \in AfterLoad /\ c[1] \in outcomes /\ c[1] \in outcomes'
  <2>1. pc[c] \in AfterLoad /\ c[1] \in outcomes
    BY <1>1, PcSteps DEF Moves, LoadInv
  <2>2. ~FinishReset
    BY <1>1 DEF FinishReset, NoCall, AfterLoad
  <2>3. QED
    BY <2>1, <2>2, OutcomesGrow
<1>2. ASSUME NEW c \in Calls, LoadOutcomes(c)
      PROVE  /\ c[1] \notin outcomes /\ c[1] \in outcomes' /\ pc[c] = "load"
             /\ \A d \in Calls : c # d => pc'[d] = pc[d]
  BY <1>2 DEF LoadOutcomes, Loadable, Goto, TypeOK
<1>3. ASSUME NEW c \in Calls, NEW d \in Calls, pc'[c] \in AfterLoad, pc'[d] \in AfterLoad, c[1] = d[1]
      PROVE  c = d
  <2>1. CASE ~LoadOutcomes(c) /\ ~LoadOutcomes(d)
    BY <1>1, <1>3, <2>1 DEF LoadInv
  <2>2. CASE LoadOutcomes(c) /\ ~LoadOutcomes(d)
    BY <1>1, <1>2, <1>3, <2>2
  <2>3. CASE ~LoadOutcomes(c) /\ LoadOutcomes(d)
    BY <1>1, <1>2, <1>3, <2>3
  <2>4. CASE LoadOutcomes(c) /\ LoadOutcomes(d)
    BY <1>2, <1>3, <2>4 DEF AfterLoad
  <2>5. QED
    BY <2>1, <2>2, <2>3, <2>4
<1>4. ASSUME NEW c \in Calls, pc'[c] \in AfterLoad PROVE c[1] \in outcomes'
  BY <1>1, <1>2, <1>4
<1>5. QED
  BY <1>3, <1>4 DEF LoadInv, AfterLoad

\* Cached decoders and the references that the token cut off.
LEMMA CacheStep ==
    ASSUME TypeOK, CacheLive, CutInv, [Next]_vars
    PROVE  CacheLive' /\ CutInv'
<1>1. ASSUME UNCHANGED <<decoders, expanded>>, token => token' PROVE CacheLive' /\ CutInv'
  BY <1>1 DEF CacheLive, CutInv, decoders
<1>2. ASSUME NEW x \in Models, Expand(x) \/ ExpandLost(x) \/ ExpandCut(x) PROVE CacheLive' /\ CutInv'
  BY <1>2 DEF Expand, ExpandLost, ExpandCut, Expanded, CacheLive, CutInv, decoders, control, TypeOK
<1>3. ASSUME NEW c \in Calls, LoadHypergraph(c) PROVE CacheLive' /\ CutInv'
  BY <1>3 DEF LoadHypergraph, CacheLive, CutInv, models, control
<1>4. CASE FinishReset
  <2>1. cache' \subseteq loaded'
    BY <1>4 DEF FinishReset, Flush, CacheLive
  <2>2. expanded' = NoExpansion
    BY <1>4 DEF FinishReset
  <2>3. QED
    BY <2>1, <2>2 DEF CacheLive, CutInv, NoExpansion
<1>5. ASSUME NEW g \in Gids, Execute(g) PROVE CacheLive' /\ CutInv'
  BY <1>1, <1>5 DEF Execute, BeginExecuteGadget, ExecuteCheckModel, ExecuteErrorModel, models,
                    control
<1>6. CASE Locked \/ DropExecute
  BY <1>1, <1>6 DEF Locked, Connect, FinishExecuteGadget, DropExecute, CountGadget, models, control
<1>7. ASSUME NEW x \in Models, AwaitPort(x) PROVE CacheLive' /\ CutInv'
  BY <1>1, <1>7 DEF AwaitPort, control
<1>8. ASSUME NEW c \in Calls,
             \/ BeginDecode(c) \/ AwaitErrorModels(c) \/ LoadOutcomes(c) \/ LoadRaw(c) \/ LoadRefused(c)
             \/ TakeSubgraph(c) \/ AssembleProgram(c) \/ FindDecoder(c)
      PROVE  CacheLive' /\ CutInv'
  BY <1>1, <1>8 DEF BeginDecode, AwaitErrorModels, LoadOutcomes, LoadRaw, LoadRefused, TakeSubgraph,
                    AssembleProgram, FindDecoder, models, control
<1>9. ASSUME NEW c \in Calls,
             \/ DecodeLoaded(c) \/ DecodeOnce(c) \/ UpdatePauliFrame(c)
             \/ UpdatePauliFrameFails(c) \/ Receive(c) \/ CallCancelled(c)
             \/ DecoderFails(c) \/ DropCall(c)
      PROVE  CacheLive' /\ CutInv'
  BY <1>1, <1>9 DEF DecodeLoaded, DecodeOnce, UpdatePauliFrame, UpdatePauliFrameFails, Receive,
                    CallCancelled, DecoderFails, DropCall, models, control
<1>10. CASE CancelPending \/ BeginReset \/ AllEnded \/ UNCHANGED vars
  BY <1>1, <1>10 DEF CancelPending, BeginReset, AllEnded, vars, models, control
<1>11. QED
  BY <1>2, <1>3, <1>4, <1>5, <1>6, <1>7, <1>8, <1>9, <1>10 DEF Next, Task, Decode

-----------------------------------------------------------------------------
(* Frames.                                                                 *)

\* The gadgets that Past ranges over.
LEMMA PastIs ==
    ASSUME TypeOK, NEW g \in Gids, NEW S \in SUBSET Gids, Needs(g) \subseteq S,
           \A x \in S : Needs(x) \subseteq S
    PROVE  Past(g) \subseteq S
<1> DEFINE before == [x \in Gids |-> Needs(x)]
<1>1. Past(g) = Closure(Needs(g), before)
  BY DEF Past
<1>2. S \subseteq DOMAIN before /\ \A y \in S : before[y] \subseteq S
  OBVIOUS
<1> HIDE DEF before
<1>3. QED
  BY <1>1, <1>2, ClosureLeast

\* It is closed.
LEMMA PastClosed ==
    ASSUME TypeOK, NEW g \in Gids
    PROVE  /\ Past(g) \in SUBSET Gids /\ Needs(g) \subseteq Past(g)
           /\ \A x \in Past(g) : Past(x) \subseteq Past(g)
<1> DEFINE before == [x \in Gids |-> Needs(x)]
<1>1. Past(g) = Closure(Needs(g), before)
  BY DEF Past
<1>2. \A x \in Gids : Needs(x) \subseteq Gids
  BY ProgramTypes, PeersTypes DEF Needs
<1>3. Past(g) \in SUBSET Gids
  BY <1>2, PastIs
<1>4. DOMAIN before = Gids /\ \A x \in Gids : before[x] = Needs(x)
  OBVIOUS
<1> HIDE DEF before
<1>5. Needs(g) \subseteq Past(g)
  BY <1>1, <1>2, <1>4, ClosureContains
<1>6. \A x \in Past(g) : Needs(x) \subseteq Past(g)
  <2>1. ASSUME NEW x \in Past(g), NEW y \in Needs(x) PROVE y \in Past(g)
    <3>1. x \in Gids /\ before[x] \subseteq DOMAIN before /\ y \in before[x]
      BY <1>2, <1>3, <1>4, <2>1
    <3>2. QED
      BY <1>1, <3>1, ClosureStep
  <2>2. QED
    BY <2>1
<1>7. ASSUME NEW x \in Past(g) PROVE Past(x) \subseteq Past(g)
  BY <1>3, <1>6, PastIs
<1>8. QED
  BY <1>3, <1>5, <1>7

\* The past belongs to the program.
LEMMA PastSame ==
    ASSUME program' = program
    PROVE  /\ InOrder' = InOrder
           /\ \A g : Past(g)' = Past(g) /\ Needs(g)' = Needs(g)
<1>1. \A g : Needs(g)' = Needs(g)
  BY DEF Needs, Peers
<1>2. [x \in Gids |-> Needs(x)]' = [x \in Gids |-> Needs(x)]
  BY <1>1
<1>3. \A g : Past(g)' = Past(g)
  BY <1>1, <1>2 DEF Past
<1>4. Neighbours' = Neighbours
  BY DEF Neighbours, Peers
<1>5. QED
  BY <1>1, <1>3, <1>4 DEF InOrder

\* A class without open ports has everything that InOrder ties to its gadgets.
LEMMA ClassIsPast ==
    ASSUME TypeOK, Structure, TakenInv, TakeInv, InOrder, NEW c \in Calls, TakeSubgraph(c),
           NEW g \in GetSubgraph(c[1])
    PROVE  g \in program.gids /\ Past(g) \subseteq GetSubgraph(c[1])
<1>1. PICK S \in SUBSET Gids :
         S = GetSubgraph(c[1]) /\ S = Part(root[c[1]]) /\ Open(S) = {} /\ S \subseteq placed
  <2>1. PICK S \in SUBSET Gids : S = Part(root[c[1]])
    BY PartFinite
  <2>2. QED
    BY <2>1, TakesClass DEF Part
<1>2. adding.gid = None
  BY TakesClass DEF Unlocked, Adding, Idle
<1>3. \A h \in Gids : Followed(h) = IF h \in placed THEN DOMAIN program.inputs[h] ELSE {}
  BY <1>2, MonolithicAssumption DEF Followed
<1>4. ASSUME NEW x \in S, NEW y \in Peers(x) PROVE y \in S
  <2>1. PICK i \in DOMAIN program.inputs[x] : y = program.inputs[x][i].gid
    BY <1>4 DEF Peers
  <2>2. y \in placed /\ root[y] = root[x]
    BY <1>1, <1>3, <2>1, Linking DEF TypeOK
  <2>3. QED
    BY <1>1, <2>2 DEF Part
<1>5. ASSUME NEW x \in S, NEW y \in program.gids, x \in Peers(y) PROVE y \in S
  <2>1. PICK i \in DOMAIN program.inputs[y] : x = program.inputs[y][i].gid
    BY <1>5 DEF Peers
  <2>2. y \in Gids
    BY ProgramTypes
  <2>3. i \in Followed(y)
    <3>1. ASSUME i \notin Followed(y) PROVE FALSE
      <4>1. Open({x}) # {}
        BY <2>1, <2>2, <3>1, NotLinked
      <4>2. Open({x}) \subseteq Open(S)
        BY <1>5, OpenParts
      <4>3. QED
        BY <1>1, <4>1, <4>2
    <3>2. QED
      BY <3>1
  <2>4. y \in placed /\ root[x] = root[y]
    BY <1>3, <2>1, <2>2, <2>3, Linking
  <2>5. QED
    BY <1>1, <2>4 DEF Part
<1>6. ASSUME NEW x \in S PROVE x \in program.gids /\ program.readouts[x] \subseteq S
  <2>1. x \in program.gids /\ x \in Gids
    BY <1>1, <1>6 DEF Structure, Executed
  <2>2. program.readouts[x] \subseteq Closure({x}, Neighbours)
    BY <2>1 DEF InOrder
  <2>3. DOMAIN Neighbours = Gids /\ \A y \in S : Neighbours[y] \subseteq S
    BY <1>4, <1>5 DEF Neighbours
  <2>4. Closure({x}, Neighbours) \subseteq S
    BY <1>6, <2>3, ClosureLeast
  <2>5. QED
    BY <2>1, <2>2, <2>4
<1>7. QED
  BY <1>1, <1>4, <1>6, PastIs DEF Needs

\* Only TakeSubgraph gives a call gadgets to decode.
LEMMA WorkSteps ==
    ASSUME TypeOK, [Next]_vars, NEW c \in Calls, ~TakeSubgraph(c)
    PROVE  work'[c] = work[c] \/ work'[c] = {}
<1> USE DEF TypeOK, Unwind, calls, decoders, control, NoWork
<1>1. ASSUME NEW d \in Calls,
             \/ TakeSubgraph(d) \/ AssembleProgram(d) \/ UpdatePauliFrame(d)
             \/ UpdatePauliFrameFails(d) \/ DecoderFails(d) \/ DropCall(d)
      PROVE  work'[c] = work[c] \/ work'[c] = {}
  BY <1>1 DEF TakeSubgraph, AssembleProgram, UpdatePauliFrame, UpdatePauliFrameFails,
              DecoderFails, DropCall
<1>2. CASE FinishReset
  BY <1>2 DEF FinishReset
<1>3. ASSUME NEW d \in Calls,
             \/ BeginDecode(d) \/ AwaitErrorModels(d) \/ LoadOutcomes(d) \/ LoadRaw(d) \/ LoadRefused(d)
             \/ FindDecoder(d) \/ LoadHypergraph(d) \/ DecodeLoaded(d) \/ DecodeOnce(d)
             \/ Receive(d) \/ CallCancelled(d)
      PROVE  work' = work
  BY <1>3 DEF BeginDecode, AwaitErrorModels, LoadOutcomes, LoadRaw, LoadRefused, FindDecoder,
              LoadHypergraph, DecodeLoaded, DecodeOnce, Receive, CallCancelled
<1>4. QED
  BY <1>1, <1>2, <1>3
     DEF Next, vars, Execute, BeginExecuteGadget, ExecuteCheckModel, ExecuteErrorModel,
         Locked, Connect, FinishExecuteGadget, DropExecute, CountGadget, Task, Expand,
       ExpandLost, AwaitPort, ExpandCut, Decode,
         CancelPending, BeginReset, AllEnded

\* Frames change with updates and with calls that end without one.
LEMMA FrameSteps ==
    ASSUME [Next]_vars
    PROVE  \/ UNCHANGED frames \/ FinishReset
           \/ \E c \in Calls : UpdatePauliFrame(c) \/ UpdatePauliFrameFails(c) \/ DropCall(c)
BY DEF Next, vars, frames, Execute, BeginExecuteGadget, ExecuteCheckModel, ExecuteErrorModel,
       Locked, Connect, FinishExecuteGadget, DropExecute, CountGadget, Task, Expand,
       ExpandLost, AwaitPort, ExpandCut,
       BeginDecode, Decode, AwaitErrorModels, LoadOutcomes, LoadRaw, LoadRefused, TakeSubgraph,
       AssembleProgram, FindDecoder, LoadHypergraph, DecodeLoaded, DecodeOnce, Receive,
       CallCancelled, DecoderFails, CancelPending, BeginReset, AllEnded

\* Gadgets that have been taken do not come back.
LEMMA TakenStays ==
    ASSUME TypeOK, Structure, TakenInv, TakeInv, [Next]_vars, ~FinishReset
    PROVE  /\ tracked \subseteq tracked' /\ tracked \ gadgets \subseteq tracked' \ gadgets'
           /\ \A c \in Calls : TakeSubgraph(c) =>
                 GetSubgraph(c[1]) \subseteq (tracked \cap gadgets) \ gadgets'
<1>1. ASSUME Quiet PROVE UNCHANGED <<tracked, gadgets>>
  BY <1>1 DEF Quiet, tables
<1>2. ASSUME NEW g \in Gids, BeginExecuteGadget(g) PROVE UNCHANGED <<tracked, gadgets>>
  BY <1>2 DEF BeginExecuteGadget
<1>3. ASSUME Connect \/ DropExecute PROVE UNCHANGED <<tracked, gadgets>>
  BY <1>3 DEF Connect, DropExecute
<1>4. ASSUME FinishExecuteGadget
      PROVE  tracked \subseteq tracked' /\ tracked \ gadgets \subseteq tracked' \ gadgets'
  <2>1. /\ adding.gid \notin placed
        /\ gadgets' = gadgets \cup {adding.gid} /\ tracked' = tracked \cup {adding.gid}
    BY <1>4, FinishIs DEF FinishExecuteGadget
  <2>2. QED
    BY <2>1 DEF TypeOK
<1>5. ASSUME NEW c \in Calls, LoadOutcomes(c) PROVE UNCHANGED <<tracked, gadgets>>
  BY <1>5 DEF LoadOutcomes
<1>6. ASSUME NEW c \in Calls, TakeSubgraph(c)
      PROVE  /\ tracked' = tracked /\ gadgets' = gadgets \ GetSubgraph(c[1])
             /\ GetSubgraph(c[1]) \subseteq tracked \cap gadgets
  BY <1>6, TakesClass DEF TypeOK
<1>7. tracked \subseteq tracked' /\ tracked \ gadgets \subseteq tracked' \ gadgets'
  BY <1>1, <1>2, <1>3, <1>4, <1>5, <1>6, StepKinds DEF Quiet, tables
<1>8. QED
  BY <1>6, <1>7

\* What is decoded is decoded once, and closed under what InOrder asks about.
LEMMA WorkOwn ==
    ASSUME TypeOK, Structure, TakenInv, TakeInv, WorkInv, [Next]_vars, ~FinishReset,
           NEW c \in Calls, NEW g \in work'[c]
    PROVE  /\ g \in tracked' \ gadgets' /\ c[1] \in work'[c] /\ root'[g] = root'[c[1]]
           /\ \A d \in Calls : g \in work'[d] => c = d
           /\ InOrder => g \in program.gids /\ Past(g) \subseteq work'[c]
<1>1. CASE TakeSubgraph(c)
  <2>1. /\ work'[c] = GetSubgraph(c[1]) /\ root' = root
        /\ GetSubgraph(c[1]) = Part(root[c[1]]) /\ c[1] \in placed
        /\ \A d \in Calls : c # d => work'[d] = work[d]
    BY <1>1, TakesClass DEF TypeOK
  <2>2. g \in (tracked \cap gadgets) \ gadgets' /\ tracked \subseteq tracked'
    BY <1>1, <2>1, TakenStays
  <2>3. root'[g] = root'[c[1]] /\ c[1] \in work'[c]
    BY <2>1 DEF Part
  <2>4. \A d \in Calls : g \in work'[d] => c = d
    BY <2>1, <2>2 DEF WorkInv
  <2>5. InOrder => g \in program.gids /\ Past(g) \subseteq work'[c]
    BY <1>1, <2>1, ClassIsPast
  <2>6. QED
    BY <2>2, <2>3, <2>4, <2>5
<1>2. CASE ~TakeSubgraph(c)
  <2>1. work'[c] = work[c] /\ g \in work[c] /\ g \in tracked \ gadgets
    BY <1>2, WorkSteps DEF WorkInv, TypeOK
  <2>2. g \in tracked' \ gadgets'
    BY <2>1, TakenStays
  <2>3. root[g] = root[c[1]] /\ c[1] \in work[c] /\ g \in placed /\ c[1] \in placed
    BY <2>1 DEF WorkInv, TypeOK
  <2>4. root'[g] = root'[c[1]]
    BY <2>3, RootsKept
  <2>5. ASSUME NEW d \in Calls, g \in work'[d] PROVE c = d
    <3>1. ~TakeSubgraph(d)
      <4>1. TakeSubgraph(d) => g \in gadgets
        BY <2>5, TakesClass DEF TypeOK
      <4>2. QED
        BY <2>1, <4>1
    <3>2. QED
      BY <2>1, <2>5, <3>1, WorkSteps DEF WorkInv
  <2>6. QED
    BY <2>1, <2>2, <2>3, <2>4, <2>5 DEF WorkInv
<1>3. QED
  BY <1>1, <1>2

\* What has been decoded and corrected stays so.
LEMMA SettledStays ==
    ASSUME TypeOK, Structure, TakenInv, TakeInv, WorkInv, [Next]_vars, ~FinishReset
    PROVE  Settled \subseteq Settled'
<1>1. ASSUME NEW g \in Settled, NEW c \in Calls PROVE g \notin work'[c]
  <2>1. CASE TakeSubgraph(c)
    <3>1. work'[c] = GetSubgraph(c[1])
      BY <2>1, TakesClass DEF TypeOK
    <3>2. QED
      BY <2>1, <3>1, TakenStays DEF Settled
  <2>2. CASE ~TakeSubgraph(c)
    BY <2>2, WorkSteps DEF Settled
  <2>3. QED
    BY <2>1, <2>2
<1>2. QED
  BY <1>1, TakenStays DEF Settled

\* Corrections are those of gadgets that have been decoded.
LEMMA CorrectedStep ==
    ASSUME TypeOK, Structure, TakenInv, TakeInv, WorkInv, [Next]_vars, ~FinishReset, NEW g \in corrected'
    PROVE  g \in Settled' /\ (InOrder => Past(g) \subseteq Settled')
<1>1. CASE g \in corrected
  BY <1>1, SettledStays DEF WorkInv
<1>2. CASE g \notin corrected
  <2>1. ~UNCHANGED frames /\ \A c \in Calls : ~DropCall(c)
    BY <1>2 DEF frames, DropCall
  <2>2. PICK c \in Calls : UpdatePauliFrame(c) \/ UpdatePauliFrameFails(c)
    BY <2>1, FrameSteps
  <2>3. corrected' \subseteq corrected \cup work[c] /\ work' = [work EXCEPT ![c] = {}] /\ pc[c] = "frame"
    BY <2>2 DEF UpdatePauliFrame, UpdatePauliFrameFails, Unwind, Upto, Goto
  <2>4. g \in work[c] /\ work'[c] = {} /\ \A d \in Calls : work'[d] \subseteq work[d]
    BY <1>2, <2>3 DEF TypeOK
  <2>5. \A x \in work[c] : x \in tracked' \ gadgets' /\ \A d \in Calls : x \notin work'[d]
    <3>1. ASSUME NEW x \in work[c] PROVE x \in tracked \ gadgets
      BY DEF WorkInv, TypeOK
    <3>2. ASSUME NEW x \in work[c], NEW d \in Calls PROVE x \notin work'[d]
      BY <2>4 DEF WorkInv
    <3>3. QED
      BY <3>1, <3>2, TakenStays
  <2>6. work[c] \subseteq Settled'
    BY <2>5 DEF Settled
  <2>7. QED
    BY <2>4, <2>6 DEF WorkInv
<1>3. QED
  BY <1>1, <1>2

\* Every step keeps what is known of what is decoded and corrected.
LEMMA WorkStep ==
    ASSUME TypeOK, Structure, TakenInv, TakeInv, WorkInv, [Next]_vars
    PROVE  WorkInv'
<1>1. program' = program
  BY ProgramFixed
<1>2. InOrder' = InOrder /\ \A g : Past(g)' = Past(g)
  BY <1>1, PastSame
<1>3. CASE FinishReset
  BY <1>3 DEF FinishReset, NoWork, WorkInv
<1>4. CASE ~FinishReset
  <2>1. ASSUME NEW c \in Calls, NEW g \in work'[c]
        PROVE  /\ g \notin gadgets' /\ c[1] \in work'[c] /\ root'[g] = root'[c[1]]
               /\ \A d \in Calls : g \in work'[d] => c = d
               /\ InOrder => g \in program.gids /\ Past(g) \subseteq work'[c]
    BY <1>4, WorkOwn
  <2>2. \A g \in corrected' : g \in Settled' /\ (InOrder => Past(g) \subseteq Settled')
    BY <1>4, CorrectedStep
  <2>3. QED
    BY <1>1, <1>2, <2>1, <2>2 DEF WorkInv
<1>5. QED
  BY <1>3, <1>4

\* More corrections give more frames.
LEMMA FramedGrows ==
    ASSUME NEW S, NEW T, S \subseteq T
    PROVE  Framed(S) \subseteq Framed(T)
BY DEF Framed

\* In a program in order, each correction gives its frame at once, and comes to no gadget
\* of another subgraph: those with a correction have been reached before.
LEMMA OrderedFrames ==
    ASSUME TypeOK, WorkInv, InOrder, NEW c \in Calls, work[c] \cap frameless = {}
    PROVE  Unframed(work[c]) = {}
<1> DEFINE S == work[c]
<1>1. \A g \in S : g \in program.gids /\ Past(g) \subseteq S /\ g \in Nat /\ g \in Gids
  BY MonolithicAssumption DEF WorkInv, TypeOK
<1>2. ASSUME NEW g \in S PROVE g \in Framed(Upto(S, g))
  <2>1. \A h \in Past(g) : h <= g
    BY <1>1 DEF InOrder
  <2>2. QED
    BY <1>1, <2>1 DEF Framed, Upto
<1>3. ASSUME NEW g \in S, NEW h \in frameless \cap Reached(Upto(S, g)) PROVE h \in Reached(Below(S, g))
  <2>1. h \in corrected /\ h \in Gids /\ Needs(h) \subseteq Framed(Upto(S, g))
    BY DEF Reached, Upto, TypeOK
  <2>2. Past(h) \cap S = {}
    BY <2>1 DEF WorkInv, Settled
  <2>3. Needs(h) \subseteq Past(h) /\ \A n \in Past(h) : Past(n) \subseteq Past(h)
    BY <2>1, PastClosed
  <2>4. ASSUME NEW n \in Needs(h) PROVE n \in Framed(Below(S, g))
    <3>1. n \in Upto(S, g) \ frameless /\ Past(n) \subseteq Upto(S, g) \ frameless
      BY <2>1 DEF Framed
    <3>2. n \notin S /\ Past(n) \cap S = {}
      BY <2>2, <2>3
    <3>3. QED
      BY <3>1, <3>2 DEF Framed, Upto, Below
  <2>5. QED
    BY <2>1, <2>4 DEF Reached, Below
<1>4. QED
  BY <1>2, <1>3 DEF Unframed, UnwrapsRaw

\* And a propagation that unwraps skips none.
LEMMA NothingSkipped ==
    ASSUME TypeOK, WorkInv, InOrder, NEW c \in Calls, NEW g \in work[c]
    PROVE  Skipped(work[c], g) = {}
<1> DEFINE S == work[c]
<1>1. \A x \in S : x \in program.gids /\ x \in Nat
  BY MonolithicAssumption DEF WorkInv, TypeOK
<1>2. ASSUME NEW h \in Skipped(S, g) PROVE FALSE
  <2>1. /\ h # g /\ h \in Upto(S, g) \ frameless /\ Past(h) \subseteq Upto(S, g) \ frameless
        /\ h \notin Framed(Below(S, g))
    BY DEF Skipped, Framed
  <2>2. Upto(S, g) \subseteq Below(S, g) \cup {g}
    BY <1>1 DEF Upto, Below
  <2>3. g \in Past(h)
    BY <2>1, <2>2 DEF Framed
  <2>4. CASE h \in corrected
    BY <2>3, <2>4 DEF WorkInv, Settled
  <2>5. CASE h \in S /\ h <= g
    <3>1. g <= h
      BY <1>1, <2>3, <2>5 DEF InOrder
    <3>2. g \in Nat /\ h \in Nat
      BY <1>1, <2>5
    <3>3. QED
      BY <2>1, <2>5, <3>1, <3>2
  <2>6. QED
    BY <2>1, <2>4, <2>5 DEF Upto
<1>3. QED
  BY <1>2

\* A frame stays until a reset: what becomes frameless has none.
LEMMA FramesStay ==
    ASSUME TypeOK, RawInv, WorkInv, [Next]_vars, ~FinishReset
    PROVE  /\ corrected \subseteq corrected' /\ frameless \subseteq frameless'
           /\ Framed(corrected) \subseteq Framed(corrected)'
<1>1. program' = program /\ \A g : Past(g)' = Past(g)
  BY ProgramFixed, PastSame
<1>2. ASSUME corrected \subseteq corrected', frameless \subseteq frameless',
             (frameless' \ frameless) \cap Framed(corrected) = {}
      PROVE  Framed(corrected) \subseteq Framed(corrected)'
  <2>1. ASSUME NEW g \in Framed(corrected)
        PROVE  g \in corrected' \ frameless' /\ Past(g) \subseteq corrected' \ frameless'
    <3>1. g \in corrected \ frameless /\ Past(g) \subseteq corrected \ frameless /\ g \in Gids
      BY DEF Framed, TypeOK
    <3>2. Past(g) \subseteq Framed(corrected)
      BY <3>1, PastClosed DEF Framed
    <3>3. QED
      BY <1>2, <3>1, <3>2
  <2>2. QED
    BY <1>1, <2>1 DEF Framed
<1>3. CASE UNCHANGED frames
  BY <1>2, <1>3 DEF frames
<1>4. ASSUME NEW c \in Calls, UpdatePauliFrame(c)
      PROVE  corrected \subseteq corrected' /\ frameless' = frameless
  BY <1>4 DEF UpdatePauliFrame
<1>5. ASSUME NEW c \in Calls, UpdatePauliFrameFails(c)
      PROVE  /\ corrected \subseteq corrected' /\ frameless \subseteq frameless'
             /\ (frameless' \ frameless) \cap Framed(corrected) = {}
  <2>1. PICK g \in Gids : /\ corrected' = Upto(work[c], g)
                          /\ \E skipped \in SUBSET Skipped(work[c], g) :
                                frameless' = frameless \cup skipped
    BY <1>5 DEF UpdatePauliFrameFails, Unframed, TypeOK
  <2>2. Framed(corrected) \subseteq Framed(Below(work[c], g))
    BY FramedGrows DEF Below
  <2>3. QED
    BY <2>1, <2>2 DEF Upto, Skipped
<1>6. ASSUME NEW c \in Calls, DropCall(c)
      PROVE  /\ corrected \subseteq corrected' /\ frameless \subseteq frameless'
             /\ (frameless' \ frameless) \cap Framed(corrected) = {}
  <2>1. corrected' = corrected /\ frameless' = frameless \cup {g \in {c[1]} : pc[c] = "raw"}
    BY <1>6 DEF DropCall
  <2>2. pc[c] = "raw" => c[1] \notin corrected
    BY DEF RawInv, WorkInv, Settled
  <2>3. QED
    BY <2>1, <2>2 DEF Framed
<1>7. QED
  BY <1>2, <1>3, <1>4, <1>5, <1>6, FrameSteps DEF frames

\* In a program in order, a gadget becomes frameless with a call that is dropped.
LEMMA FramelessStep ==
    ASSUME TypeOK, WorkInv, FramelessInv, [Next]_vars
    PROVE  FramelessInv'
<1>1. InOrder' = InOrder
  BY ProgramFixed, PastSame
<1>2. CASE FinishReset
  BY <1>2 DEF FinishReset, FramelessInv
<1>3. CASE ~FinishReset
  <2>1. ASSUME NEW d \in Calls, pc[d] = "dropped" PROVE pc'[d] = "dropped"
    BY <1>3, <2>1, PcSteps DEF Moves
  <2>2. ASSUME InOrder, NEW g \in frameless' \ frameless
        PROVE  \E d \in Calls : d[1] = g /\ pc'[d] = "dropped"
    <3>1. PICK c \in Calls : UpdatePauliFrame(c) \/ UpdatePauliFrameFails(c) \/ DropCall(c)
      BY <1>3, <2>2, FrameSteps DEF frames
    <3>2. ~UpdatePauliFrame(c)
      BY <2>2 DEF UpdatePauliFrame
    <3>3. ~UpdatePauliFrameFails(c)
      <4>1. ASSUME UpdatePauliFrameFails(c) PROVE FALSE
        <5>1. PICK h \in work[c] : \E skipped \in SUBSET Skipped(work[c], h) :
                                      frameless' = frameless \cup skipped
          BY <4>1 DEF UpdatePauliFrameFails, Unframed
        <5>2. Skipped(work[c], h) = {}
          BY <2>2, NothingSkipped
        <5>3. QED
          BY <2>2, <5>1, <5>2
      <4>2. QED
        BY <4>1
    <3>4. frameless' \subseteq frameless \cup {c[1]} /\ pc'[c] = "dropped"
      BY <3>1, <3>2, <3>3 DEF DropCall, Unwind, TypeOK
    <3>5. QED
      BY <2>2, <3>4
  <2>3. QED
    BY <1>1, <2>1, <2>2 DEF FramelessInv
<1>4. QED
  BY <1>2, <1>3

\* Only an update of the frame sends readouts.
LEMMA ChannelStep ==
    ASSUME TypeOK, RawInv, WorkInv, ChannelInv, [Next]_vars
    PROVE  ChannelInv'
<1>1. program' = program /\ \A g : Past(g)' = Past(g)
  BY ProgramFixed, PastSame
<1>2. ASSUME ~FinishReset, \A g \in Gids : channel'[g] = "readouts" => channel[g] = "readouts"
      PROVE  ChannelInv'
  BY <1>2, FramesStay DEF ChannelInv
<1>3. ASSUME NEW c \in Calls, UpdatePauliFrame(c), ~FinishReset PROVE ChannelInv'
  <2>1. /\ corrected' = corrected \cup work[c] /\ Unframed(work[c]) = {} /\ frameless' = frameless
        /\ channel' = [g \in Gids |-> IF g \in work[c] THEN "readouts" ELSE channel[g]]
    BY <1>3 DEF UpdatePauliFrame
  <2>2. ASSUME NEW g \in work[c] PROVE g \in Framed(corrected)'
    <3>1. g \in Framed(Upto(work[c], g))
      BY <2>1, <2>2 DEF Unframed
    <3>2. Upto(work[c], g) \subseteq corrected'
      BY <2>1 DEF Upto
    <3>3. g \in Framed(corrected')
      BY <3>1, <3>2, FramedGrows
    <3>4. QED
      BY <1>1, <2>1, <3>3 DEF Framed
  <2>3. QED
    BY <1>3, <2>1, <2>2, FramesStay DEF ChannelInv
<1>4. ASSUME NEW c \in Calls,
             \/ UpdatePauliFrameFails(c) \/ TakeSubgraph(c) \/ AssembleProgram(c)
             \/ DecoderFails(c) \/ DropCall(c)
      PROVE  \A g \in Gids : channel'[g] = "readouts" => channel[g] = "readouts"
  BY <1>4 DEF UpdatePauliFrameFails, TakeSubgraph, AssembleProgram, DecoderFails, DropCall, Unwind
<1>5. CASE FinishReset
  BY <1>5 DEF FinishReset, ChannelInv, NoMessage
<1>6. ASSUME channel' = channel PROVE ChannelInv'
  BY <1>2, <1>5, <1>6
<1>7. ASSUME NEW g \in Gids, Execute(g) PROVE ChannelInv'
  BY <1>6, <1>7 DEF Execute, BeginExecuteGadget, ExecuteCheckModel, ExecuteErrorModel, calls
<1>8. CASE Locked \/ DropExecute \/ CancelPending \/ BeginReset \/ AllEnded \/ UNCHANGED vars
  BY <1>6, <1>8 DEF Locked, Connect, FinishExecuteGadget, DropExecute, CountGadget, CancelPending,
                    BeginReset, AllEnded, vars, calls
<1>9. ASSUME NEW x \in Models, Task(x) PROVE ChannelInv'
  BY <1>6, <1>9 DEF Task, Expand, ExpandLost, AwaitPort, ExpandCut, calls
<1>10. ASSUME NEW c \in Calls,
              \/ BeginDecode(c) \/ AwaitErrorModels(c) \/ LoadOutcomes(c) \/ LoadRaw(c) \/ LoadRefused(c)
              \/ FindDecoder(c) \/ LoadHypergraph(c) \/ DecodeLoaded(c) \/ DecodeOnce(c)
              \/ Receive(c) \/ CallCancelled(c)
       PROVE  ChannelInv'
  BY <1>6, <1>10 DEF BeginDecode, AwaitErrorModels, LoadOutcomes, LoadRaw, LoadRefused, FindDecoder,
                     LoadHypergraph, DecodeLoaded, DecodeOnce, Receive, CallCancelled
<1>11. QED
  BY <1>2, <1>3, <1>4, <1>5, <1>7, <1>8, <1>9, <1>10 DEF Next, Decode

-----------------------------------------------------------------------------
(* The answers of the calls.                                               *)

\* How a call gets to its end.
Ends(c) ==
    /\ pc'[c] = "panicked" =>
          (pc[c] = "panicked" \/ TakeSubgraph(c) \/ AssembleProgram(c) \/ UpdatePauliFrameFails(c))
    /\ pc'[c] = "returned" => pc[c] = "returned" \/ Receive(c)

\* No step ends it another way.
LEMMA EndSteps ==
    ASSUME TypeOK, [Next]_vars, NEW c \in Calls
    PROVE  Ends(c)
<1>1. ASSUME pc' = pc PROVE Ends(c)
  BY <1>1 DEF Ends
<1>2. ASSUME NEW d \in Calls, TakeSubgraph(d) \/ AssembleProgram(d) \/ UpdatePauliFrameFails(d)
      PROVE  Ends(c)
  <2>1. \A e \in Calls \ {d} : pc'[e] = pc[e]
    BY <1>2 DEF TakeSubgraph, AssembleProgram, UpdatePauliFrameFails, Goto, Unwind, TypeOK
  <2>2. pc'[d] \in {"expand", "decoder", "wait", "panicked"}
    BY <1>2 DEF TakeSubgraph, AssembleProgram, UpdatePauliFrameFails, Goto, Unwind, TypeOK
  <2>3. QED
    BY <1>2, <2>1, <2>2 DEF Ends
<1>3. ASSUME NEW d \in Calls, Receive(d) PROVE Ends(c)
  <2>1. \A e \in Calls \ {d} : pc'[e] = pc[e]
    BY <1>3 DEF Receive, Goto, TypeOK
  <2>2. pc'[d] \in {"returned", "failed"}
    BY <1>3 DEF Receive, Goto, TypeOK
  <2>3. QED
    BY <1>3, <2>1, <2>2 DEF Ends
<1>4. ASSUME NEW d \in Calls, NEW to \in PC \ {"panicked", "returned"}, pc' = [pc EXCEPT ![d] = to]
      PROVE  Ends(c)
  BY <1>4 DEF TypeOK, Ends
<1>5. ASSUME NEW d \in Calls,
             \/ BeginDecode(d) \/ AwaitErrorModels(d) \/ LoadOutcomes(d) \/ LoadRaw(d) \/ LoadRefused(d)
             \/ FindDecoder(d) \/ LoadHypergraph(d) \/ DecodeLoaded(d) \/ DecodeOnce(d)
             \/ UpdatePauliFrame(d) \/ CallCancelled(d) \/ DecoderFails(d) \/ DropCall(d)
      PROVE  Ends(c)
  BY <1>4, <1>5 DEF BeginDecode, AwaitErrorModels, LoadOutcomes, LoadRaw, LoadRefused, FindDecoder,
                    LoadHypergraph, DecodeLoaded, DecodeOnce, UpdatePauliFrame, CallCancelled,
                    DecoderFails, DropCall, Goto, Unwind, PC, Ended
<1>6. CASE FinishReset
  BY <1>6 DEF FinishReset, NoCall, Ends
<1>7. ASSUME NEW g \in Gids, Execute(g) PROVE Ends(c)
  BY <1>1, <1>7 DEF Execute, BeginExecuteGadget, ExecuteCheckModel, ExecuteErrorModel, calls
<1>8. CASE Locked \/ DropExecute \/ CancelPending \/ BeginReset \/ AllEnded \/ UNCHANGED vars
  BY <1>1, <1>8 DEF Locked, Connect, FinishExecuteGadget, DropExecute, CountGadget,
                    CancelPending, BeginReset, AllEnded, vars, calls
<1>9. ASSUME NEW x \in Models, Task(x) PROVE Ends(c)
  BY <1>1, <1>9 DEF Task, Expand, ExpandLost, AwaitPort, ExpandCut, calls
<1>10. ASSUME NEW d \in Calls, BeginDecode(d) \/ Decode(d) \/ DecoderFails(d) \/ DropCall(d)
       PROVE  Ends(c)
  BY <1>2, <1>3, <1>5, <1>10 DEF Decode
<1>11. QED
  BY <1>6, <1>7, <1>8, <1>9, <1>10 DEF Next

\* The token stays cancelled until a reset ends.
LEMMA TokenStays ==
    ASSUME [Next]_vars, token
    PROVE  token' \/ FinishReset
BY DEF Next, vars, control, Execute, BeginExecuteGadget, ExecuteCheckModel, ExecuteErrorModel,
       Locked, Connect, FinishExecuteGadget, DropExecute, CountGadget, Task, Expand,
       ExpandLost, AwaitPort, ExpandCut,
       BeginDecode, Decode, AwaitErrorModels, LoadOutcomes, LoadRaw, LoadRefused, TakeSubgraph,
       AssembleProgram, FindDecoder, LoadHypergraph, DecodeLoaded, DecodeOnce,
       UpdatePauliFrame, UpdatePauliFrameFails, Receive, CallCancelled, DecoderFails,
       DropCall, CancelPending, BeginReset, AllEnded

\* Why a call may have died.
Excused(c) ==
    \/ token \/ ~InOrder
    \/ \E d \in Calls : pc[d] = "dropped" /\ d[1] \in frameless /\ root[d[1]] = root[c[1]]

\* The reasons stay.
LEMMA ExcusesStay ==
    ASSUME TypeOK, Structure, RawInv, WorkInv, [Next]_vars, ~FinishReset,
           NEW c \in Calls, c[1] \in tracked, Excused(c)
    PROVE  Excused(c)'
<1>1. InOrder' = InOrder
  BY ProgramFixed, PastSame
<1>2. CASE token
  BY <1>2, TokenStays DEF Excused
<1>3. ASSUME NEW d \in Calls, pc[d] = "dropped", d[1] \in frameless, root[d[1]] = root[c[1]]
      PROVE  Excused(c)'
  <2>1. pc'[d] = "dropped"
    BY <1>3, PcSteps DEF Moves
  <2>2. d[1] \in frameless'
    BY <1>3, FramesStay
  <2>3. d[1] \in placed /\ c[1] \in placed
    BY <1>3 DEF TypeOK
  <2>4. root'[d[1]] = root'[c[1]]
    BY <1>3, <2>3, RootsKept
  <2>5. QED
    BY <2>1, <2>2, <2>4 DEF Excused
<1>4. QED
  BY <1>1, <1>2, <1>3 DEF Excused

\* In a program in order, the update of a frame fails where a dropped call has left a
\* gadget frameless.
LEMMA FailureExcused ==
    ASSUME TypeOK, WorkInv, FramelessInv, InOrder, NEW c \in Calls, UpdatePauliFrameFails(c)
    PROVE  Excused(c)
<1>1. Unframed(work[c]) # {}
  BY DEF UpdatePauliFrameFails
<1>2. PICK g \in work[c] : g \in frameless
  BY <1>1, OrderedFrames
<1>3. PICK d \in Calls : d[1] = g /\ pc[d] = "dropped"
  BY <1>2 DEF FramelessInv
<1>4. root[g] = root[c[1]]
  BY DEF WorkInv
<1>5. QED
  BY <1>2, <1>3, <1>4 DEF Excused

\* Every step keeps the readouts final.
LEMMA ReadoutsStep ==
    ASSUME TypeOK, Structure, TakenInv, RawInv, TakeInv, LoadInv, CutInv, WorkInv, ChannelInv,
           FramelessInv, ReadoutsFinal, LoadInv', [Next]_vars
    PROVE  ReadoutsFinal'
<1>1. program' = program /\ InOrder' = InOrder
  BY ProgramFixed, PastSame
<1>2. ASSUME NEW c \in Calls, pc'[c] = "panicked" PROVE Excused(c)'
  <2>1. ~FinishReset
    BY <1>2 DEF FinishReset, NoCall
  <2>2. CASE pc[c] = "panicked"
    <3>1. c[1] \in tracked
      BY <2>2 DEF LoadInv, AfterLoad, PC, Ended, TypeOK
    <3>2. Excused(c)
      BY <2>2 DEF ReadoutsFinal, Excused
    <3>3. QED
      BY <2>1, <3>1, <3>2, ExcusesStay
  <2>3. ~TakeSubgraph(c)
    <3>1. ASSUME TakeSubgraph(c) PROVE FALSE
      <4>1. pc' = [pc EXCEPT ![c] = "expand"]
        BY <3>1, TakesClass
      <4>2. QED
        BY <1>2, <4>1 DEF TypeOK
    <3>2. QED
      BY <3>1
  <2>4. CASE AssembleProgram(c)
    <3>1. /\ GetSyndromePanics(work[c]) \/ DecodingHypergraphPanics(work[c])
          /\ config.async_expand \/ token
          /\ token' = token
      BY <1>2, <2>4 DEF AssembleProgram, Unwind, Goto, TypeOK, control
    <3>2. CASE config.async_expand
      <4>1. \E x \in Models : expanded[x] = "cut"
        BY <3>1, <3>2 DEF GetSyndromePanics, DecodingHypergraphPanics, ModelsOf, Reference
      <4>2. token
        BY <4>1 DEF CutInv
      <4>3. QED
        BY <3>1, <4>2 DEF Excused
    <3>3. QED
      BY <3>1, <3>2 DEF Excused
  <2>5. CASE UpdatePauliFrameFails(c)
    <3>1. CASE InOrder
      <4>1. c[1] \in tracked
        BY <2>5 DEF LoadInv, AfterLoad, PC, Ended, UpdatePauliFrameFails, TypeOK
      <4>2. QED
        BY <2>1, <2>5, <3>1, <4>1, FailureExcused, ExcusesStay
    <3>2. QED
      BY <1>1, <3>1 DEF Excused
  <2>6. QED
    BY <1>2, <2>2, <2>3, <2>4, <2>5, EndSteps DEF Ends
<1>3. ASSUME NEW c \in Calls, pc'[c] = "returned" PROVE c[1] \in Framed(corrected)'
  <2>1. ~FinishReset
    BY <1>3 DEF FinishReset, NoCall
  <2>2. c[1] \in Framed(corrected)
    <3>1. CASE pc[c] = "returned"
      BY <3>1 DEF ReadoutsFinal
    <3>2. CASE Receive(c)
      <4>1. channel[c[1]] = "readouts" /\ c[1] \in Gids
        BY <1>3, <3>2 DEF Receive, Goto, TypeOK, Calls
      <4>2. QED
        BY <4>1 DEF ChannelInv
    <3>3. QED
      BY <1>3, <3>1, <3>2, EndSteps DEF Ends
  <2>3. QED
    BY <2>1, <2>2, FramesStay
<1>4. \A c, d \in Calls : (pc'[c] = "returned" /\ pc'[d] = "returned" /\ c[1] = d[1]) => c = d
  BY DEF LoadInv, AfterLoad, PC, Ended
<1>5. \A c \in Calls : pc'[c] = "panicked" => Excused(c)'
  BY <1>2
<1>6. QED
  BY <1>3, <1>4, <1>5 DEF ReadoutsFinal, Excused

-----------------------------------------------------------------------------
(* The theorems.                                                           *)

\* The invariant holds in the beginning.
LEMMA InitIInv ==
    ASSUME Init
    PROVE  IInv
<1>1. /\ <<program, config>> \in Setups /\ adding = Idle
      /\ gadgets = {} /\ placed = {} /\ linked = {} /\ tracked = {}
      /\ root = [g \in Gids |-> g] /\ node = [g \in Gids |-> NewNode]
      /\ bound = {} /\ attached = {} /\ expanded = NoExpansion /\ tasks = NoTask
      /\ outcomes = {} /\ corrected = {} /\ frameless = {} /\ cache = {} /\ loaded = {}
      /\ token = FALSE /\ resetting = FALSE
      /\ pc = NoCall /\ work = NoWork /\ channel = NoMessage
  <2>1. PICK s \in Setups : program = s[1] /\ config = s[2]
    BY DEF Init
  <2>2. <<program, config>> \in Setups
    BY <2>1, MonolithicAssumption
  <2>3. QED
    BY <2>2 DEF Init
<1>2. adding.gid = None /\ Members = {} /\ \A h \in Gids : Followed(h) = {}
  BY <1>1, MonolithicAssumption DEF Idle, Members, Followed
<1>3. TypeOK
  <2>1. node \in [Gids -> [set_size : Nat, num_unloaded_gadgets : Nat, num_unconnected_outputs : Nat]]
    BY <1>1 DEF NewNode
  <2>2. adding \in [gid : Gids \cup {None}, next : Nat]
    BY <1>1 DEF Idle
  <2>3. /\ expanded \in [Models -> {"unset", "whole", "cut"}]
        /\ tasks \in [Models -> {"none", "new", "waiting"}]
        /\ pc \in [Calls -> PC] /\ work \in [Calls -> SUBSET tracked]
        /\ channel \in [Gids -> {"empty", "readouts", "error", "closed"}]
    BY <1>1 DEF NoExpansion, NoTask, NoCall, NoWork, NoMessage, PC, Ended
  <2>4. QED
    BY <1>1, <2>1, <2>2, <2>3 DEF TypeOK
<1>4. linked = UNION {{program.inputs[g][i] : i \in {}} : g \in Gids}
  BY <1>1
<1>5. LinkedInv
  BY <1>2, <1>4 DEF LinkedInv
<1>6. Structure
  BY <1>1, <1>2, <1>5 DEF Structure, AddingInv, Executed, RootInv, SameRoot, Connected
<1>7. CacheLive /\ CountersInv /\ TakenInv
  BY <1>1, <1>2 DEF CacheLive, CountersInv, TakenInv
<1>8. \A c \in Calls : pc[c] = "idle" /\ work[c] = {}
  BY <1>1 DEF NoCall, NoWork
<1>9. RawInv /\ TakeInv /\ LoadInv /\ ReadoutsFinal /\ WorkInv
  BY <1>1, <1>8 DEF RawInv, TakeInv, LoadInv, AfterLoad, ReadoutsFinal, WorkInv
<1>10. CutInv /\ ChannelInv /\ FramelessInv
  BY <1>1 DEF FramelessInv, CutInv, NoExpansion, ChannelInv, NoMessage
<1>11. QED
  BY <1>3, <1>6, <1>7, <1>9, <1>10 DEF IInv

\* And every step keeps it.
LEMMA NextIInv ==
    ASSUME IInv, [Next]_vars
    PROVE  IInv'
<1> USE DEF IInv
<1>1. TypeOK'
  BY TypeStep
<1>2. Structure'
  BY StructureStep
<1>3. CountersInv'
  BY CountersStep
<1>4. TakenInv'
  BY TakenStep
<1>5. RawInv' /\ TakeInv'
  BY RawStep, TakeStep
<1>6. LoadInv'
  BY LoadStep
<1>7. CacheLive' /\ CutInv'
  BY CacheStep
<1>8. WorkInv' /\ FramelessInv'
  BY WorkStep, FramelessStep
<1>9. ChannelInv'
  BY ChannelStep
<1>10. ReadoutsFinal'
  BY <1>6, ReadoutsStep
<1>11. QED
  BY <1>1, <1>2, <1>3, <1>4, <1>5, <1>6, <1>7, <1>8, <1>9, <1>10

\* The inductive invariant holds in every state.
THEOREM Invariance == Spec => []IInv
<1>1. Init => IInv
  BY InitIInv
<1>2. IInv /\ [Next]_vars => IInv'
  BY NextIInv
<1>3. QED
  BY <1>1, <1>2, PTL DEF Spec

\* The counters that decide which decode call takes a connected part say what they are
\* meant to say: whatever unions came in which order, however calls, tasks and resets
\* interleave.  The tables have their types and a cached decoder is loaded.
THEOREM TablesAreExact == Spec => []TablesExact
<1>1. IInv => TablesExact
  BY DEF IInv, CountersInv, CountersAt, CountersExact, Members, TablesExact
<1>2. QED
  BY <1>1, Invariance, PTL

\* A call that returns readouts returns those of a frame with all its past corrected, and
\* it is the only one of its gadget that does.  In a program that is in order no unwrap
\* fails but for two causes: the token was cancelled, or a decode of the same connected
\* part was dropped where it waits for the frame tracker (monolithic_coordinator.rs:1747),
\* so that the tracker never gets the raw readouts that the part's update unwraps.
THEOREM ReadoutsAreFinal == Spec => []ReadoutsFinal
<1>1. IInv => ReadoutsFinal
  BY DEF IInv
<1>2. QED
  BY <1>1, Invariance, PTL

\* The subgraph that is walked is the component WholeDecoding speaks of.
LEMMA ComponentIs ==
    ASSUME TypeOK, NEW g
    PROVE  GetSubgraph(g) = Whole!Component(g)
<1>1. \A x : Whole!Before(x) = Peers(x)
  BY DEF Whole!Before, Whole!Connectors, Peers
<1>2. \A x : {h \in placed : \E i \in DOMAIN program.inputs[h] : program.inputs[h][i].gid = x}
             = {h \in placed : x \in Whole!Before(h)}
  BY <1>1 DEF Peers
<1>3. PeersOf = [x \in Gids |-> Whole!Before(x) \cup {h \in placed : x \in Whole!Before(h)}]
  BY <1>1, <1>2, Zenon DEF PeersOf
<1>4. \A S, next : Whole!Closure(S, next) = Closure(S, next)
  BY DEF Whole!Closure, Closure
<1>5. QED
  BY <1>3, <1>4, Zenon DEF GetSubgraph, Whole!Component

\* A step of the coordinator is a step of WholeDecoding, or none.
LEMMA StepImplements ==
    ASSUME IInv, [Next]_vars
    PROVE  [Whole!Next]_Whole!vars
<1>0. TypeOK /\ Structure /\ TakenInv /\ TakeInv /\ gadgets \subseteq tracked
  BY DEF IInv, TypeOK
<1>1. ASSUME UNCHANGED <<program, gadgets, placed, tracked, outcomes>> PROVE UNCHANGED Whole!vars
  BY <1>1 DEF Whole!vars
<1>2. CASE FinishExecuteGadget \/ DropExecute
  <2>1. PICK g \in Gids : g = adding.gid
    BY <1>0, <1>2, FinishIs DEF FinishExecuteGadget, DropExecute
  <2>2. /\ g \notin placed /\ placed' = placed \cup {g}
        /\ \/ gadgets' = gadgets \cup {g} /\ tracked' = tracked \cup {g}
           \/ UNCHANGED <<gadgets, tracked>>
        /\ UNCHANGED <<program, outcomes>> /\ Adding
    BY <1>0, <1>2, <2>1, FinishIs DEF FinishExecuteGadget, DropExecute
  <2>3. Peers(g) \subseteq gadgets
    BY <1>0, <2>1, <2>2, AddingTypes DEF Structure, AddingInv
  <2>4. Whole!Before(g) \subseteq placed \ (tracked \ gadgets)
    BY <1>0, <2>3 DEF TypeOK, Whole!Before, Whole!Connectors, Peers
  <2>5. tracked' \ gadgets' = tracked \ gadgets
    BY <1>0, <2>2 DEF TypeOK
  <2>6. Whole!Execute(g)
    BY <2>2, <2>4, <2>5 DEF Whole!Execute
  <2>7. QED
    BY <2>6 DEF Whole!Next
<1>3. ASSUME NEW c \in Calls, LoadOutcomes(c) PROVE Whole!Next
  <2>1. /\ c[1] \in gadgets \ outcomes /\ c[1] \in Gids /\ outcomes' = outcomes \cup {c[1]}
        /\ UNCHANGED <<program, gadgets, placed, tracked>>
    BY <1>3 DEF LoadOutcomes, Loadable, Calls
  <2>2. Whole!Measure(c[1])
    BY <1>0, <2>1 DEF TypeOK, Whole!Measure
  <2>3. QED
    BY <2>1, <2>2 DEF Whole!Next
<1>4. ASSUME NEW c \in Calls, TakeSubgraph(c) PROVE Whole!Next
  <2>1. PICK g \in Gids : g = c[1]
    BY DEF Calls
  <2>2. PICK S \in SUBSET Gids :
           /\ S = GetSubgraph(g) /\ S = Part(root[g]) /\ S \subseteq gadgets \cap outcomes
           /\ Open(S) = {} /\ gadgets' = gadgets \ S
           /\ UNCHANGED <<program, placed, tracked, outcomes>> /\ ~Adding
    <3>1. PICK S \in SUBSET Gids : S = Part(root[g])
      BY <1>0, PartFinite
    <3>2. S = GetSubgraph(g)
      BY <1>0, <1>4, <2>1, <3>1, TakesClass
    <3>3. QED
      BY <1>0, <1>4, <2>1, <3>1, <3>2, TakesClass DEF Unlocked
  <2>3. S = Whole!Component(g)
    BY <1>0, <2>2, ComponentIs
  <2>4. S \subseteq outcomes \ (tracked \ gadgets)
    BY <2>2
  <2>5. tracked' \ gadgets' = (tracked \ gadgets) \cup S
    BY <1>0, <2>2
  <2>6. Whole!Ports(S) \subseteq UNION {Whole!Connectors(x) : x \in S}
    <3>1. ASSUME NEW h \in S, NEW p \in PortsOf(h)
          PROVE  \E x \in S : p \in Whole!Connectors(x)
      <4>1. p \in linked /\ p.gid = h
        BY <1>0, <2>2, OpenFinite DEF PortsOf
      <4>2. PICK x \in Gids : \E i \in Followed(x) : p = program.inputs[x][i]
        BY <1>0, <4>1 DEF Structure, LinkedInv
      <4>3. PICK i \in Followed(x) : p = program.inputs[x][i]
        BY <4>2
      <4>4. /\ x \in Members /\ root[x] = root[h] /\ i \in DOMAIN program.inputs[x]
        BY <1>0, <4>1, <4>3, Linking, FollowedTypes DEF Structure
      <4>5. x \in S
        BY <2>2, <4>4 DEF Part, Members, Adding, Idle
      <4>6. QED
        BY <4>3, <4>4, <4>5 DEF Whole!Connectors
    <3>2. Whole!Ports(S) = UNION {PortsOf(h) : h \in S}
      BY DEF Whole!Ports, PortsOf
    <3>3. QED
      BY <3>1, <3>2
  <2>7. Whole!Decode(g)
    BY <2>2, <2>3, <2>4, <2>5, <2>6 DEF Whole!Decode
  <2>8. QED
    BY <2>7 DEF Whole!Next
<1>5. CASE FinishReset
  <2>1. gadgets' = {} /\ placed' = {} /\ tracked' = {} /\ outcomes' = {} /\ UNCHANGED program
    BY <1>5 DEF FinishReset
  <2>2. Whole!Reset
    BY <2>1 DEF Whole!Reset
  <2>3. QED
    BY <2>2 DEF Whole!Next
<1>6. CASE Connect
  BY <1>0, <1>1, <1>6, ConnectIs
<1>7. ASSUME NEW g \in Gids, BeginExecuteGadget(g) PROVE UNCHANGED Whole!vars
  BY <1>1, <1>7 DEF BeginExecuteGadget
<1>8. CASE Quiet
  BY <1>1, <1>8 DEF Quiet, tables
<1>9. QED
  BY <1>2, <1>3, <1>4, <1>5, <1>6, <1>7, <1>8, StepKinds

\* The coordinator decodes every connected part as a whole, once, and only when all of
\* it is measured and no port of it is open: it implements WholeDecoding.
THEOREM Implementation == Spec => ImplementsWholeDecoding
<1>1. Init => Whole!Init
  BY DEF Init, Whole!Init
<1>2. IInv /\ [Next]_vars => [Whole!Next]_Whole!vars
  BY StepImplements
<1>3. QED
  BY <1>1, <1>2, Invariance, PTL DEF Spec, ImplementsWholeDecoding, Whole!Spec
=============================================================================

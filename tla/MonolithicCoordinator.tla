----------------------- MODULE MonolithicCoordinator -----------------------
(***************************************************************************)
(* The monolithic coordinator (coordinator/monolithic_coordinator.rs).  A  *)
(* union-find structure counts, for every connected part of the program,   *)
(* the gadgets without outcomes and the output ports without a peer.  The  *)
(* decode call that brings both to zero takes the part out of the tables,  *)
(* has it decoded as a whole and answers the calls of all its gadgets.     *)
(*                                                                         *)
(* A step is what the code does between two awaits; the unions of one      *)
(* execute are a step each.  `adding` and the place "raw" of a call stand  *)
(* for the locks that execute and decode hold while they wait for the      *)
(* frame tracker.  A gid names the gadget, its check model and its error   *)
(* models.  Bits are left out.                                             *)
(***************************************************************************)
EXTENDS WindowGeometry, Sequences, FiniteSets

CONSTANTS Gids, None,
          Setups         \* the programs, each with a configuration of the coordinator

\* gids: the gadgets.  inputs: the connectors.  outputs: the output ports.  readouts: the gadgets whose
\* readouts a conditional correction uses.  checks: gadgets with a check model;
\* errors: those whose check model declares an error model.  measured, touched: the
\* remote gadgets of checks and the owners of the remote checks of errors.  chained:
\* whether remote references lead over others.  retried: gadgets decoded twice.
\* shape: equal for connected parts with equal relative programs.
IsProgram(p) ==
    /\ p.gids \subseteq Gids
    /\ p.inputs \in [Gids -> Seq([gid : Gids, port : Nat])]
    /\ p.outputs \in [Gids -> SUBSET Nat] /\ \A g \in Gids : IsFiniteSet(p.outputs[g])
    /\ {p.readouts, p.measured, p.touched} \subseteq [Gids -> SUBSET Gids]
    /\ {p.checks, p.errors, p.chained, p.retried} \subseteq SUBSET Gids
    /\ p.errors \subseteq p.checks
    /\ DOMAIN p.shape = Gids
    /\ \A g \in Gids : \A i \in DOMAIN p.inputs[g] :
          p.inputs[g][i].port \in p.outputs[p.inputs[g][i].gid]
    /\ \A g, h \in Gids : \A i \in DOMAIN p.inputs[g], j \in DOMAIN p.inputs[h] :
          p.inputs[g][i] = p.inputs[h][j] => g = h /\ i = j

\* faults: may calls be dropped, decoders fail, resets come?
Config == [async_expand : BOOLEAN, persistent_decoder : BOOLEAN, faults : BOOLEAN]

ASSUME MonolithicAssumption ==
    /\ Gids \subseteq Nat /\ IsFiniteSet(Gids) /\ None \notin Gids
    /\ \A s \in Setups : s = <<s[1], s[2]>> /\ IsProgram(s[1]) /\ s[2] \in Config

Calls == Gids \X {1, 2}
Shapes == UNION {{s[1].shape[g] : g \in Gids} : s \in Setups}

VARIABLES program, config,
          gadgets,         \* keys of `gadgets`
          placed,          \* gadgets of the union-find structure, but the one being added
          linked,          \* the output ports with a peer, as connectors
          root, node,      \* pending_subgraphs: roots, and the payload of each root
          adding,          \* the gadget an execute is adding, and its next connector
          bound, attached, \* binding_cid, error_model_ready
          expanded,        \* expanded_remote_gadgets and .._check_models
          tasks,           \* the tasks that expand them
          outcomes,
          tracked,         \* gadgets of the frame tracker
          corrected,       \*   those with a decoded correction
          frameless,       \*   and those that can get no frame any more
          cache, loaded,   \* loaded_decoders; hypergraphs the decoder service holds
          token,           \* is the cancellation token cancelled?
          resetting,
          pc, work,        \* of a call: its place, the gadgets it has taken
          channel          \* of a gadget: what its oneshot channel holds

tables == <<gadgets, placed, linked, root, node, adding, tracked>>
models == <<bound, attached, expanded, tasks>>
frames == <<corrected, frameless>>
decoders == <<cache, loaded>>
control == <<token, resetting>>
calls == <<pc, work, channel>>
vars == <<program, config, tables, models, outcomes, frames, decoders, control, calls>>

Kinds == {"check", "error"}
Models == Gids \X Kinds
Ended == {"idle", "returned", "failed", "dropped", "panicked"}
PC == Ended \cup {"models", "load", "raw", "take", "expand", "decoder", "hypergraph",
                  "decode", "frame", "wait"}

NewNode == [set_size |-> 1, num_unloaded_gadgets |-> 0, num_unconnected_outputs |-> 0]
Idle == [gid |-> None, next |-> 1]

NoExpansion == [x \in Models |-> "unset"]
NoTask == [x \in Models |-> "none"]
NoCall == [c \in Calls |-> "idle"]
NoWork == [c \in Calls |-> {}]
NoMessage == [g \in Gids |-> "empty"]

Init ==
    /\ \E s \in Setups : program = s[1] /\ config = s[2]
    /\ gadgets = {} /\ placed = {} /\ linked = {} /\ tracked = {} /\ adding = Idle
    /\ root = [g \in Gids |-> g] /\ node = [g \in Gids |-> NewNode]
    /\ bound = {} /\ attached = {} /\ expanded = NoExpansion /\ tasks = NoTask
    /\ outcomes = {} /\ corrected = {} /\ frameless = {}
    /\ cache = {} /\ loaded = {}
    /\ token = FALSE /\ resetting = FALSE
    /\ pc = NoCall /\ work = NoWork /\ channel = NoMessage

-----------------------------------------------------------------------------
(* execute of a gadget.  The client executes a gadget once, after its peers *)
(* and the gadgets whose readouts it uses.                                  *)

Peers(g) == {program.inputs[g][i].gid : i \in DOMAIN program.inputs[g]}
Adding == adding # Idle
Unlocked == ~Adding /\ \A c \in Calls : pc[c] # "raw"

BeginExecuteGadget(g) ==
    /\ Unlocked /\ ~resetting
    /\ g \in program.gids \ placed
    /\ Peers(g) \cup program.readouts[g] \subseteq tracked
    /\ adding' = [gid |-> g, next |-> 1]
    /\ root' = [root EXCEPT ![g] = g]
    /\ node' = [node EXCEPT ![g] = NewNode]
    /\ UNCHANGED <<program, config, gadgets, placed, linked, tracked, models, outcomes,
                   frames, decoders, control, calls>>

\* MonolithicUnionNode::union
Join(l, r) ==
    [set_size |-> l.set_size + r.set_size,
     num_unloaded_gadgets |-> l.num_unloaded_gadgets + r.num_unloaded_gadgets,
     num_unconnected_outputs |-> l.num_unconnected_outputs + r.num_unconnected_outputs]

\* UnionFindGeneric::union, up to the paths that `find` compresses.
UnionAlwaysJoins(a, b) ==
    /\ root' = [x \in Gids |-> IF root[x] = root[b] THEN root[a] ELSE root[x]]
    /\ node' = [node EXCEPT ![root[a]] = Join(node[root[a]], node[root[b]])]

Union(a, b) ==
    LET k0 == root[a]  k1 == root[b]
        parent == IF node[k0].set_size >= node[k1].set_size THEN k0 ELSE k1
        child == IF parent = k0 THEN k1 ELSE k0
    IN  IF k0 = k1 THEN UNCHANGED <<root, node>>
        ELSE /\ root' = [x \in Gids |-> IF root[x] = child THEN parent ELSE root[x]]
             /\ node' = [node EXCEPT ![parent] = Join(node[k0], node[k1])]

Connect ==
    LET g == adding.gid  i == adding.next
    IN  /\ Adding /\ i \in DOMAIN program.inputs[g]
        /\ Union(g, program.inputs[g][i].gid)
        /\ linked' = linked \cup {program.inputs[g][i]}
        /\ adding' = [adding EXCEPT !.next = i + 1]
        /\ UNCHANGED <<program, config, gadgets, placed, tracked, models, outcomes, frames,
                       decoders, control, calls>>

\* The gadget enters the counters of its part; then execute awaits the frame tracker.
CountGadget(g) ==
    LET r == root[g]  n == Len(program.inputs[g])
    IN  /\ Adding /\ adding.next = n + 1
        /\ node' = [node EXCEPT
              ![r].num_unconnected_outputs = @ + Cardinality(program.outputs[g]) - n,
              ![r].num_unloaded_gadgets = @ + 1]
        /\ placed' = placed \cup {g}
        /\ adding' = Idle
        /\ UNCHANGED <<program, config, linked, root, models, outcomes, frames, decoders,
                       control, calls>>

FinishExecuteGadget ==
    /\ CountGadget(adding.gid)
    /\ gadgets' = gadgets \cup {adding.gid} /\ tracked' = tracked \cup {adding.gid}

\* A future that is dropped while it awaits the tracker leaves the counters and the
\* ports of the peers as they are, without the gadget.
DropExecute ==
    /\ config.faults
    /\ CountGadget(adding.gid)
    /\ UNCHANGED <<gadgets, tracked>>

-----------------------------------------------------------------------------
(* execute of check and error models, and the tasks that follow their      *)
(* remote references.  That all check models are loaded before     *)
(* the outcomes is left to the client.                                     *)

\* Without error models there is nothing to wait for.
Ready(g) == {g} \ program.errors

Start(g, kind) ==
    tasks' = IF config.async_expand THEN [tasks EXCEPT ![<<g, kind>>] = "new"] ELSE tasks

ExecuteCheckModel(g) ==
    /\ Unlocked /\ ~resetting
    /\ g \in (gadgets \cap program.checks) \ bound
    /\ bound' = bound \cup {g}
    /\ attached' = attached \cup Ready(g)
    /\ Start(g, "check")
    /\ UNCHANGED <<program, config, tables, expanded, outcomes, frames, decoders,
                   control, calls>>

ExecuteErrorModel(g) ==
    /\ Unlocked /\ ~resetting
    /\ g \in (gadgets \cap bound \cap program.errors) \ attached
    /\ attached' = attached \cup {g}
    /\ Start(g, "error")
    /\ UNCHANGED <<program, config, tables, bound, expanded, outcomes, frames,
                   decoders, control, calls>>

\* The gadgets behind the references are there; those of an error model are bound.
Reachable(x) ==
    IF x[2] = "check" THEN program.measured[x[1]] \subseteq tracked
                      ELSE program.touched[x[1]] \subseteq bound

\* A task writes its result into the model, if that is still in the tables.
Expanded(x, result) ==
    /\ tasks' = [tasks EXCEPT ![x] = "none"]
    /\ expanded' = IF x[1] \in gadgets THEN [expanded EXCEPT ![x] = result]
                                       ELSE expanded

Expand(x) ==
    /\ Unlocked /\ tasks[x] # "none" /\ Reachable(x)
    /\ Expanded(x, "whole")
    /\ UNCHANGED <<program, config, tables, bound, attached, outcomes, frames,
                   decoders, control, calls>>

\* The gadget behind a reference was never added: it is named all the same, but whoever
\* looks for it, for its next port or its check model, unwraps it and dies.
References(x) == IF x[2] = "check" THEN program.measured[x[1]] ELSE program.touched[x[1]]

ExpandLost(x) ==
    /\ Unlocked /\ tasks[x] # "none"
    /\ References(x) \cap (placed \ tracked) # {}
    /\ \/ /\ x[2] = "error" \/ x[1] \in program.chained
          /\ tasks' = [tasks EXCEPT ![x] = "none"] /\ UNCHANGED expanded
       \/ x[2] = "check" /\ References(x) \subseteq placed /\ Expanded(x, "whole")
    /\ UNCHANGED <<program, config, tables, bound, attached, outcomes, frames, decoders,
                   control, calls>>

\* The first port without a peer makes the task wait for it, or for the token.
AwaitPort(x) ==
    /\ Unlocked /\ tasks[x] = "new" /\ ~Reachable(x)
    /\ tasks' = [tasks EXCEPT ![x] = "waiting"]
    /\ UNCHANGED <<program, config, tables, bound, attached, expanded, outcomes,
                   frames, decoders, control, calls>>

\* The token wins: references are missing in the result, or the task unwraps a
\* missing one and dies.
ExpandCut(x) ==
    /\ Unlocked /\ tasks[x] = "waiting" /\ token
    /\ IF x[1] \in program.chained
       THEN tasks' = [tasks EXCEPT ![x] = "none"] /\ UNCHANGED expanded
       ELSE Expanded(x, "cut")
    /\ UNCHANGED <<program, config, tables, bound, attached, outcomes, frames,
                   decoders, control, calls>>

-----------------------------------------------------------------------------
(* decode, up to the wait for its readouts.                                *)

Goto(c, from, to) == pc[c] = from /\ pc' = [pc EXCEPT ![c] = to]

\* Admission and await_error_models.
BeginDecode(c) ==
    LET g == c[1]
    IN  /\ Unlocked /\ ~resetting
        /\ c[2] = 2 => g \in program.retried
        /\ g \in tracked /\ (g \in program.checks => g \in bound)
        /\ Goto(c, "idle", CASE g \notin gadgets -> "failed"
                             [] g \in gadgets \ bound -> "load"
                             [] OTHER -> "models")
        /\ UNCHANGED <<program, config, tables, models, outcomes, frames, decoders,
                       control, work, channel>>

AwaitErrorModels(c) ==
    /\ Unlocked
    /\ token \/ c[1] \in attached
    /\ Goto(c, "models", IF token THEN "failed" ELSE "load")
    /\ UNCHANGED <<program, config, tables, models, outcomes, frames, decoders,
                   control, work, channel>>

\* The outcomes are stored and counted once, under locks that are held until the frame
\* tracker has them, too.
IsFinal(n) == n.num_unloaded_gadgets = 0 /\ n.num_unconnected_outputs = 0

LoadableAgain(g) == g \in gadgets
Loadable(g) == g \in gadgets \ outcomes

LoadOutcomes(c) ==
    LET g == c[1]  r == root[g]
    IN  /\ Unlocked /\ Loadable(g)
        /\ node' = [node EXCEPT ![r].num_unloaded_gadgets = @ - 1]
        /\ outcomes' = outcomes \cup {g}
        /\ Goto(c, "load", "raw")
        /\ UNCHANGED <<program, config, gadgets, placed, linked, root, adding, tracked,
                       models, frames, decoders, control, work, channel>>

\* load_raw.  The last outcomes of a connected part make their call responsible for it.
LoadRaw(c) ==
    /\ Goto(c, "raw", IF IsFinal(node[root[c[1]]]) THEN "take" ELSE "wait")
    /\ UNCHANGED <<program, config, tables, models, outcomes, frames, decoders, control,
                   work, channel>>

\* Not found, or already loaded, or the outcomes do not fit the gadget.
LoadRefused(c) ==
    /\ Unlocked
    /\ ~Loadable(c[1]) \/ config.faults
    /\ Goto(c, "load", "failed")
    /\ UNCHANGED <<program, config, tables, models, outcomes, frames, decoders,
                   control, work, channel>>

-----------------------------------------------------------------------------
(* decode_subgraph, by the call that is responsible.                       *)

\* The peers of a gadget: behind its connectors, and behind its output ports.
PeersOf ==
    [g \in Gids |-> Peers(g) \cup
        {h \in placed : \E i \in DOMAIN program.inputs[h] : program.inputs[h][i].gid = g}]

GetSubgraphOfInputs(g) == Closure({g}, [x \in Gids |-> Peers(x)])
GetSubgraph(g) == Closure({g}, PeersOf)

Open(S) == (UNION {{[gid |-> g, port |-> k] : k \in program.outputs[g]} : g \in S}) \ linked

ModelsOf(S) == {x \in Models : /\ x[1] \in S \cap bound
                               /\ x[2] = "error" => x[1] \in program.errors}

\* A call that unwinds, or whose future is dropped, drops the senders it has taken.
Unwind(c, end) ==
    /\ pc' = [pc EXCEPT ![c] = end]
    /\ work' = [work EXCEPT ![c] = {}]
    /\ channel' = [g \in Gids |-> IF g \in work[c] THEN "closed" ELSE channel[g]]

\* take_subgraph: wait for the tasks, then take everything out of the tables.  A
\* port without a peer or a gadget that is gone is unwrapped.
TakeSubgraph(c) ==
    LET S == GetSubgraph(c[1])
    IN  /\ Unlocked /\ pc[c] = "take"
        /\ config.async_expand =>
              token \/ \A x \in ModelsOf(S) : expanded[x] # "unset"
        /\ IF Open(S) = {} /\ S \subseteq gadgets
           THEN /\ Goto(c, "take", "expand")
                /\ gadgets' = gadgets \ S
                /\ work' = [work EXCEPT ![c] = S]
                /\ UNCHANGED channel
           ELSE Unwind(c, "panicked") /\ UNCHANGED gadgets
        /\ UNCHANGED <<program, config, placed, linked, root, node, adding, tracked,
                       models, outcomes, frames, decoders, control>>

\* The references of the models that were taken; batch_expand looks for them now.
Reference(x) == CASE config.async_expand -> expanded[x]
                  [] ~config.async_expand /\ Reachable(x) -> "whole"
                  [] OTHER -> "cut"

\* get_syndrome and decoding_hypergraph unwrap the references of checks and errors.
GetSyndromePanics(S) == \E x \in ModelsOf(S) : x[2] = "check" /\ Reference(x) = "cut"
DecodingHypergraphPanics(S) ==
    \E x \in ModelsOf(S) : x[2] = "error" /\ Reference(x) = "cut"

\* References that never came end the work without an answer.
AssembleProgram(c) ==
    LET S == work[c]
        missing == \E x \in ModelsOf(S) : Reference(x) = "unset"
        panics == GetSyndromePanics(S) \/ DecodingHypergraphPanics(S)
    IN  /\ pc[c] = "expand"
        /\ \/ missing /\ token /\ Unwind(c, "wait")
           \/ ~missing /\ panics /\ (config.async_expand \/ token) /\ Unwind(c, "panicked")
           \/ ~missing /\ ~panics /\ Goto(c, "expand", "decoder") /\ UNCHANGED <<work, channel>>
        /\ UNCHANGED <<program, config, tables, models, outcomes, frames, decoders,
                       control>>

-----------------------------------------------------------------------------
(* decode_parity_factor: the loaded decoder, or a new one.                 *)

ShapeOf(c) == program.shape[c[1]]

FindDecoder(c) ==
    /\ Goto(c, "decoder", IF config.persistent_decoder /\ ShapeOf(c) \notin cache
                          THEN "hypergraph" ELSE "decode")
    /\ UNCHANGED <<program, config, tables, models, outcomes, frames, decoders,
                   control, work, channel>>

LoadHypergraph(c) ==
    /\ Goto(c, "hypergraph", "decode")
    /\ loaded' = loaded \cup {ShapeOf(c)}
    /\ cache' = cache \cup {ShapeOf(c)}
    /\ UNCHANGED <<program, config, tables, models, outcomes, frames, control, work,
                   channel>>

DecodeLoaded(c) ==
    /\ config.persistent_decoder /\ ShapeOf(c) \in loaded
    /\ Goto(c, "decode", "frame")
    /\ UNCHANGED <<program, config, tables, models, outcomes, frames, decoders,
                   control, work, channel>>

\* Without a persistent decoder every shot ships its whole hypergraph.
DecodeOnce(c) ==
    /\ ~config.persistent_decoder
    /\ Goto(c, "decode", "frame")
    /\ UNCHANGED <<program, config, tables, models, outcomes, frames, decoders,
                   control, work, channel>>

\* An error of the decoder is the answer to all calls of the subgraph.
DecoderFails(c) ==
    /\ pc[c] \in {"hypergraph", "decode"}
    /\ config.faults \/ (pc[c] = "decode" /\ config.persistent_decoder
                                   /\ ShapeOf(c) \notin loaded)
    /\ channel' = [g \in Gids |-> IF g \in work[c] THEN "error" ELSE channel[g]]
    /\ pc' = [pc EXCEPT ![c] = "wait"] /\ work' = [work EXCEPT ![c] = {}]
    /\ UNCHANGED <<program, config, tables, models, outcomes, frames, decoders,
                   control>>

-----------------------------------------------------------------------------
(* update_pauli_frame.  The tracker has the frame of a gadget once the      *)
(* gadget and all before it have corrections and none of them is frameless  *)
(* (see PauliFrameTracker).                                                 *)

Needs(g) == Peers(g) \cup program.readouts[g]
Past(g) == LET before == [x \in Gids |-> Needs(x)] IN Closure(Needs(g), before)
Framed(S) == LET T == S \ frameless IN {g \in T : Past(g) \subseteq T}

\* The gadgets that propagate_from has come to, of which it unwraps the raw readouts.
Reached(S) == {g \in S : Needs(g) \subseteq Framed(S)}

\* The corrections S are loaded in the order of the gids: those before and up to g.
Below(S, g) == corrected \cup {h \in S : h < g}
Upto(S, g) == corrected \cup {h \in S : h <= g}
UnwrapsRaw(S, g) == frameless \cap (Reached(Upto(S, g)) \ Reached(Below(S, g))) # {}

\* Each is expected to give its gadget a frame at once.
Unframed(S) == {g \in S : g \notin Framed(Upto(S, g)) \/ UnwrapsRaw(S, g)}

UpdatePauliFrame(c) ==
    LET S == work[c]
    IN  /\ Goto(c, "frame", "wait")
        /\ S \subseteq tracked /\ Unframed(S) = {}
        /\ corrected' = corrected \cup S
        /\ channel' = [g \in Gids |-> IF g \in S THEN "readouts" ELSE channel[g]]
        /\ work' = [work EXCEPT ![c] = {}]
        /\ UNCHANGED <<program, config, tables, models, outcomes, frameless, decoders,
                       control>>

\* The unwrap of the update, or of the propagation: that ends before it has come to
\* all that follow, and does not come back to them.
Skipped(S, g) == {h \in Framed(Upto(S, g)) \ Framed(Below(S, g)) : h # g /\ UnwrapsRaw(S, g)}

UpdatePauliFrameFails(c) ==
    LET S == work[c]
    IN  \E g \in Unframed(S) :
          /\ pc[c] = "frame" /\ \A h \in Unframed(S) : g <= h
          /\ Unwind(c, "panicked")
          /\ corrected' = Upto(S, g)
          /\ \E skipped \in SUBSET Skipped(S, g) : frameless' = frameless \cup skipped
          /\ UNCHANGED <<program, config, tables, models, outcomes, decoders, control>>

-----------------------------------------------------------------------------
(* The end of a call, cancellation and reset.                              *)

Receive(c) ==
    /\ channel[c[1]] # "empty"
    /\ Goto(c, "wait", IF channel[c[1]] = "readouts" THEN "returned" ELSE "failed")
    /\ UNCHANGED <<program, config, tables, models, outcomes, frames, decoders,
                   control, work, channel>>

CallIgnoresToken(c) ==
    /\ token /\ channel[c[1]] # "empty" /\ Goto(c, "wait", "failed")
    /\ UNCHANGED <<program, config, tables, models, outcomes, frames, decoders,
                   control, work, channel>>
CallCancelled(c) ==
    /\ token /\ Goto(c, "wait", "failed")
    /\ UNCHANGED <<program, config, tables, models, outcomes, frames, decoders,
                   control, work, channel>>

\* While decode awaits the frame tracker, the raw readouts are lost with the call.
DropCall(c) ==
    /\ config.faults /\ pc[c] \notin Ended
    /\ Unwind(c, "dropped")
    /\ frameless' = frameless \cup {g \in {c[1]} : pc[c] = "raw"}
    /\ UNCHANGED <<program, config, tables, models, outcomes, corrected, decoders,
                   control>>

\* The service shuts down: the token is cancelled and stays so.
CancelPending ==
    /\ config.faults /\ ~token
    /\ token' = TRUE
    /\ UNCHANGED <<program, config, tables, models, outcomes, frames, decoders,
                   resetting, calls>>

BeginReset ==
    /\ config.faults /\ ~resetting
    /\ resetting' = TRUE /\ token' = TRUE
    /\ UNCHANGED <<program, config, tables, models, outcomes, frames, decoders,
                   calls>>

\* The flags say whether the loaded decoders and the hypergraphs of the decoder
\* service go, too; the reset of the service may fail.
Flush(library, service) ==
    /\ cache' = IF library \/ service THEN {} ELSE cache
    /\ loaded' \in {loaded, IF service THEN {} ELSE loaded}

FinishReset ==
    /\ resetting /\ Unlocked
    /\ \A c \in Calls : pc[c] \in Ended
    /\ \A x \in Models : tasks[x] = "none"
    /\ gadgets' = {} /\ placed' = {} /\ linked' = {} /\ tracked' = {}
    /\ root' = [g \in Gids |-> g] /\ node' = [g \in Gids |-> NewNode]
    /\ bound' = {} /\ attached' = {} /\ expanded' = NoExpansion
    /\ outcomes' = {} /\ corrected' = {} /\ frameless' = {}
    /\ token' = FALSE /\ resetting' = FALSE
    /\ pc' = NoCall /\ work' = NoWork /\ channel' = NoMessage
    /\ \E library, service \in BOOLEAN : Flush(library, service)
    /\ UNCHANGED <<program, config, adding, tasks>>

-----------------------------------------------------------------------------

Execute(g) == BeginExecuteGadget(g) \/ ExecuteCheckModel(g) \/ ExecuteErrorModel(g)
Locked == Connect \/ FinishExecuteGadget
Task(x) == Expand(x) \/ ExpandLost(x) \/ AwaitPort(x) \/ ExpandCut(x)

Decode(c) ==
    \/ AwaitErrorModels(c) \/ LoadOutcomes(c) \/ LoadRaw(c) \/ LoadRefused(c)
    \/ TakeSubgraph(c) \/ AssembleProgram(c)
    \/ FindDecoder(c) \/ LoadHypergraph(c) \/ DecodeLoaded(c) \/ DecodeOnce(c)
    \/ UpdatePauliFrame(c) \/ UpdatePauliFrameFails(c)
    \/ Receive(c) \/ CallCancelled(c)

AllEnded == /\ \A g \in program.gids : pc[<<g, 1>>] \in Ended \ {"idle"}
            /\ UNCHANGED vars

Next ==
    \/ \E g \in Gids : Execute(g)
    \/ Locked \/ DropExecute
    \/ \E x \in Models : Task(x)
    \/ \E c \in Calls : BeginDecode(c) \/ Decode(c) \/ DecoderFails(c) \/ DropCall(c)
    \/ CancelPending \/ BeginReset \/ FinishReset
    \/ AllEnded

Spec == Init /\ [][Next]_vars

\* The runtime polls every task and call that can go on, the client runs its
\* program to the end.
FairSpec ==
    /\ Spec
    /\ WF_vars(Locked) /\ WF_vars(FinishReset)
    /\ \A g \in Gids : WF_vars(Execute(g)) /\ WF_vars(BeginDecode(<<g, 1>>))
    /\ \A x \in Models : WF_vars(Task(x))
    /\ \A c \in Calls : WF_vars(Decode(c))

-----------------------------------------------------------------------------
(* Properties                                                              *)

\* The types of the tables, models, channels and calls.
TypeOK ==
    /\ <<program, config>> \in Setups
    /\ placed \subseteq Gids /\ tracked \subseteq placed /\ gadgets \subseteq tracked
    /\ linked \subseteq [gid : Gids, port : Nat]
    /\ root \in [Gids -> Gids]
    /\ node \in [Gids -> [set_size : Nat, num_unloaded_gadgets : Nat,
                          num_unconnected_outputs : Nat]]
    /\ adding \in [gid : Gids \cup {None}, next : Nat]
    /\ bound \subseteq tracked /\ attached \subseteq bound
    /\ expanded \in [Models -> {"unset", "whole", "cut"}]
    /\ tasks \in [Models -> {"none", "new", "waiting"}]
    /\ outcomes \subseteq tracked /\ {corrected, frameless} \subseteq SUBSET tracked
    /\ cache \subseteq Shapes /\ loaded \subseteq Shapes
    /\ token \in BOOLEAN /\ resetting \in BOOLEAN
    /\ pc \in [Calls -> PC] /\ work \in [Calls -> SUBSET tracked]
    /\ channel \in [Gids -> {"empty", "readouts", "error", "closed"}]

\* The counters at a root of the union-find structure are what decode takes them
\* for: the gadgets of the connected part without outcomes, and its output ports
\* without a peer.  While a gadget is being added, its unions are ahead of them.
Part(r) == {g \in placed : root[g] = r}
Ahead(r) == IF Adding /\ root[adding.gid] = r THEN adding.next - 1 ELSE 0

CountersExact ==
    \A g \in placed :
        LET r == root[g]
        IN  /\ node[r].num_unloaded_gadgets = Cardinality(Part(r) \ outcomes)
            /\ node[r].num_unconnected_outputs = Cardinality(Open(Part(r))) + Ahead(r)

\* A decoder in the cache is one the decoder service knows, whatever reset flushed
\* and wherever it failed.
CacheLive == cache \subseteq loaded

\* The tables: types, counters, cached decoders.
TablesExact == TypeOK /\ CountersExact /\ CacheLive

\* "Decodes the entire connected decoding hypergraph as a whole, when all gadgets
\* within this connected subgraph are loaded with measurements and all output ports
\* are connected", and each once: execute, decode and reset implement that.
Whole == INSTANCE WholeDecoding
            WITH inputs <- program.inputs, outputs <- program.outputs,
                 executed <- placed, measured <- outcomes,
                 decoded <- tracked \ gadgets
ImplementsWholeDecoding == Whole!Spec

\* The readouts a call returns are those of a frame with all its past corrected,
\* and at most one call gets them.  "We're expecting one return value per update
\* because the gadgets are in order": in a program whose gids follow its connections,
\* and whose corrections read gadgets of their own connected part, no call unwraps a
\* missing peer, gadget, reference or frame, but for two exceptions: the token cut it
\* off, or a decode of its part was dropped while it waited for the frame tracker, which
\* then lacks the raw readouts it unwraps.
Neighbours == [g \in Gids |-> Peers(g) \cup {h \in program.gids : g \in Peers(h)}]
InOrder ==
    \A g \in program.gids :
        /\ \A h \in Past(g) : h <= g
        /\ program.readouts[g] \subseteq Closure({g}, Neighbours)
ReadoutsFinal ==
    /\ \A c \in Calls : pc[c] = "panicked" =>
          \/ token \/ ~InOrder
          \/ \E d \in Calls : pc[d] = "dropped" /\ d[1] \in frameless /\ root[d[1]] = root[c[1]]
    /\ \A c \in Calls : pc[c] = "returned" => c[1] \in Framed(corrected)
    /\ \A c, d \in Calls : (pc[c] = "returned" /\ pc[d] = "returned" /\ c[1] = d[1])
                              => c = d

\* Every gadget of a program that is run to its end gets its readouts; a reset ends,
\* whatever calls and tasks it found and whoever dropped the call that the others
\* wait for.
CallsEnd ==
    /\ \A g \in Gids :
          (~config.faults /\ g \in program.gids)
              ~> (\E c \in Calls : c[1] = g /\ pc[c] = "returned")
    /\ resetting ~> ~resetting
=============================================================================

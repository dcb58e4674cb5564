--------------------------- MODULE JitController ---------------------------
(***************************************************************************)
(* The JIT controller (controller/jit_controller.rs) with its compiler.    *)
(* execute compiles a gadget, sends it and its check model to the          *)
(* coordinator, and leaves the error model to a task that waits until the  *)
(* gadgets behind the output ports are there.  Calls hold the cancellation *)
(* lock for reading; reset cancels their token and takes it for writing.   *)
(*                                                                         *)
(* A step is what the code does between two awaits on another component.   *)
(* The coordinator is external: it stores what it is sent, answers decodes *)
(* once it has the whole program, and its reset may fail before or after   *)
(* clearing.  It panics where a gadget's type or peers are missing.        *)
(***************************************************************************)
EXTENDS JitCompiler

CONSTANTS Gids, Types, Setups

\* A program: the gadgets with their types and connectors [gid, port], the set that
\* is executed (and decoded) as a batch.  late: the types of a library that is loaded
\* at run time, the others are there from the start.  faults: may calls be dropped or
\* fail, the service shut down, and resets come, and how many of them at most?
IsSetup(s) ==
    /\ s.gids \subseteq Gids /\ s.batch \subseteq s.gids /\ s.late \subseteq DOMAIN Types
    /\ s.gtype \in [s.gids -> DOMAIN Types]
    /\ \A g \in s.gids : /\ s.connectors[g] \in Seq([gid : s.gids, port : Nat])
                         /\ Len(s.connectors[g]) = Len(Types[s.gtype[g]].inputs)
    /\ {s.cache_enabled, s.faults} \subseteq BOOLEAN /\ s.resets \in Nat

ASSUME JitAssumption ==
    /\ Gids \subseteq Nat \ {0} /\ IsFiniteSet(Gids)
    /\ DOMAIN Types \subseteq Nat /\ IsFiniteSet(DOMAIN Types)
    /\ \A t \in DOMAIN Types : IsGadgetType(Types[t])
    /\ \A s \in Setups : IsSetup(s)

\* What the compiler asserts of a library and a program, where it needs it.  The
\* measurements of a check are of the gadget or of an input port; the unfinished checks
\* are those of the output ports; errors name checks there are, a finished one at most
\* once (an error without unfinished ones is copied as it is); a finished check names
\* each virtual check at most once (an error's set is not toggled there).
NamesInputs(t, check) ==
    \A j \in DOMAIN check.measurements :
       LET m == check.measurements[j]
       IN  m.port # Local => m.port \in DOMAIN t.inputs /\ m.index \in 1 .. t.inputs[m.port]
NamesOnce(check) ==
    \A j, k \in DOMAIN check.measurements :
       LET m == check.measurements
       IN  m[j] = m[k] /\ m[j].port # Local => j = k
IsWellFormedType(t) ==
    /\ \A i \in DOMAIN t.finished : NamesInputs(t, t.finished[i]) /\ NamesOnce(t.finished[i])
    /\ \A i \in DOMAIN t.unfinished : NamesInputs(t, t.unfinished[i])
    /\ DOMAIN t.unfinished = 1 .. Before(t, Len(t.outputs) + 1)
    /\ \A i \in DOMAIN t.errors :
          LET e == t.errors[i]
          IN  /\ \A j \in DOMAIN e.finished : e.finished[j] \in DOMAIN t.finished
              /\ \A j \in DOMAIN e.unfinished : e.unfinished[j] \in DOMAIN t.unfinished
              /\ \A j, k \in DOMAIN e.finished : e.finished[j] = e.finished[k] => j = k

\* The gadgets can be executed one after the other, each when its peers are there; a
\* connector's port is one of its peer's, of the same size, and has no other connector.
IsWellFormed(s) ==
    /\ \E order \in [s.gids -> 1 .. Cardinality(s.gids)] :
          \A g \in s.gids : \A i \in DOMAIN s.connectors[g] :
             order[s.connectors[g][i].gid] < order[g]
    /\ \A g \in s.gids : \A i \in DOMAIN s.connectors[g] :
          LET c == s.connectors[g][i]
              peer == Types[s.gtype[c.gid]]
          IN  /\ c.port \in DOMAIN peer.outputs
              /\ peer.outputs[c.port] = Types[s.gtype[g]].inputs[i]
    /\ \A g, h \in s.gids :
          \A i \in DOMAIN s.connectors[g], j \in DOMAIN s.connectors[h] :
             s.connectors[g][i] = s.connectors[h][j] => g = h /\ i = j

ASSUME ModelsAssumption ==
    /\ \A t \in DOMAIN Types : IsWellFormedType(Types[t])
    /\ \A s \in Setups : IsWellFormed(s)

VARIABLES setup,
          outputs,                \* compiler: of a gadget's output ports, the connector there
          checks,                 \*   its expanded output_checks
          virtual,                \*   published output_virtual_checks; <<>>: not yet
          known, registered,      \*   keys of `gadgets` and of jit_gadget_types
          ctypes, etypes,         \* TypeCache: id of a key
          terminal,               \* terminal_etypes
          next,                   \* next_ctype and next_etype
          undecoded,
          token,                  \* is the installed token cancelled?
          ex, batch,              \* execute calls (tasks of the batch), the batch call
          em, resolving,          \* error-model tasks; the ports and checks they have resolved
          built,                  \* what a task or call is about to send
          dc, ld,                 \* decode calls, the load_library call
          rs, flags,              \* reset call; does it reset the library?
          resets, shut,           \* history: resets begun, cancel_pending called,
          failed, broken,         \*   the last reset failed, a library load or reset failed
          coord                   \* the coordinator

compiler == <<outputs, checks, virtual, known, registered>>
types == <<ctypes, etypes, terminal, next>>
calls == <<ex, batch, em, resolving, built, dc, ld>>
history == <<resets, shut, failed, broken>>
vars == <<setup, compiler, types, undecoded, token, calls, rs, flags, history, coord>>

TypeOf(g) == Types[setup.gtype[g]]
Connectors(g) == {setup.connectors[g][i] : i \in DOMAIN setup.connectors[g]}
Peers(g) == {c.gid : c \in Connectors(g)}
All(v) == [g \in Gids |-> v]
Nothing == [type |-> <<>>, id |-> 0, remote |-> <<>>]
Unresolved == [ports |-> 0, checks |-> <<>>]

\* register_terminal_types: a new etype for each gadget type T of a library.
Rank(t, T) == Cardinality({u \in T : u < t})
TerminalTypes(T, first) == [t \in T |-> first + Rank(t, T)]
TerminalEntries(T, first) ==
    {<<first + Rank(t, T), TerminalErrorModelType(Types[t])>> : t \in T}
Initial == DOMAIN Types \ setup.late

\* start: the library is registered with the compiler and sent to the coordinator.
Init ==
    /\ setup \in Setups
    /\ outputs = All(<<>>) /\ checks = All(<<>>) /\ virtual = All(<<>>)
    /\ known = {} /\ registered = Initial
    /\ ctypes = {} /\ etypes = {} /\ terminal = TerminalTypes(Initial, 1)
    /\ next = [ctype |-> 1, etype |-> 1 + Cardinality(Initial)]
    /\ undecoded = {} /\ token = FALSE
    /\ ex = All("idle") /\ batch = "idle" /\ em = All("idle") /\ dc = All("idle")
    /\ ld = "idle" /\ resolving = All(Unresolved)
    /\ built = [check |-> All(Nothing), error |-> All(Nothing)]
    /\ rs = "idle" /\ flags = FALSE
    /\ resets = 0 /\ shut = FALSE /\ failed = FALSE /\ broken = FALSE
    /\ coord = [library |-> Initial, ctypes |-> {}, etypes |-> TerminalEntries(Initial, 1),
                gadgets |-> {}, models |-> {}, errors |-> {}]

Admitting == rs = "idle"        \* a queued writer keeps new readers out
Running == {"waiting", "compiled", "sent", "typed"}

-----------------------------------------------------------------------------
(* load_library at run time: first the compiler, then the coordinator.     *)

\* The compiler asserts that the types are new.
RegisterLibrary ==
    /\ Admitting /\ setup.late # {} /\ ld \in {"idle", "failed"}
    /\ \/ /\ setup.late \cap registered = {}
          /\ ld' = "registered" /\ registered' = registered \cup setup.late
          /\ terminal' = [t \in DOMAIN terminal \cup setup.late |->
                IF t \in setup.late THEN TerminalTypes(setup.late, next.etype)[t]
                                    ELSE terminal[t]]
          /\ next' = [next EXCEPT !.etype = @ + Cardinality(setup.late)]
       \/ /\ setup.late \cap registered # {}
          /\ ld' = "panicked" /\ UNCHANGED <<registered, terminal, next>>
    /\ UNCHANGED <<setup, outputs, checks, virtual, known, ctypes, etypes, undecoded,
                   token, ex, batch, em, resolving, built, dc, rs, flags, history, coord>>

SendLibrary ==
    /\ ld = "registered"
    /\ ld' = "done"
    /\ coord' = [coord EXCEPT
          !.library = @ \cup setup.late,
          !.etypes = @ \cup {<<terminal[t], TerminalErrorModelType(Types[t])>> : t \in setup.late}]
    /\ UNCHANGED <<setup, compiler, types, undecoded, token, ex, batch, em, resolving,
                   built, dc, rs, flags, history>>

SendLibraryFails ==
    /\ setup.faults /\ ld = "registered"
    /\ ld' = "failed" /\ broken' = TRUE
    /\ UNCHANGED <<setup, compiler, types, undecoded, token, ex, batch, em, resolving,
                   built, dc, rs, flags, resets, shut, failed, coord>>

-----------------------------------------------------------------------------
(* compile                                                                 *)

InputChecks(g) ==
    [i \in DOMAIN setup.connectors[g] |->
        LET c == setup.connectors[g][i] IN checks[c.gid][c.port]]
FinishedChecks(g) ==
    [i \in DOMAIN TypeOf(g).finished |->
        ExpandCheckMeasurements(TypeOf(g).finished[i], InputChecks(g), g)]
Pairs(S) == {<<m.gid, m.index>> : m \in S}

Compile(g) ==
    LET inputs == InputChecks(g)
        finished == FinishedChecks(g)
        sets == [i \in DOMAIN finished |-> Pairs(finished[i].measurements)]
        \* the connectors of input ports, as their peers see them
        At(h, p) == {i \in DOMAIN setup.connectors[g] :
                        setup.connectors[g][i] = [gid |-> h, port |-> p]}
    IN  /\ outputs' = [h \in Gids |->
              IF h = g THEN [p \in DOMAIN TypeOf(g).outputs |-> <<>>]
              ELSE [p \in DOMAIN outputs[h] |->
                      IF At(h, p) = {} THEN outputs[h][p]
                      ELSE <<[gid |-> g, port |-> CHOOSE i \in At(h, p) : TRUE]>>]]
        /\ checks' = [h \in Gids |->
              IF h = g THEN OutputChecks(TypeOf(g), inputs, g)
              ELSE [p \in DOMAIN checks[h] |->
                      IF At(h, p) = {} THEN checks[h][p] ELSE <<>>]]
        /\ virtual' = [virtual EXCEPT ![g] = <<>>]
        /\ known' = known \cup {g} /\ UNCHANGED registered
        /\ \E order \in Sequencings(sets, g) :
              built' = [built EXCEPT !.check[g] =
                  [type |-> [gtype |-> setup.gtype[g],
                             checks |-> ToBin(sets, order, g),
                             flipped |-> [i \in DOMAIN finished |-> finished[i].flipped]],
                   id |-> 0, remote |-> RemoteList(sets, order)]]

\* execute_with_token up to the first call of the coordinator.  Without a terminal
\* type for the gadget the call panics, with the gadget compiled.
Start(g, from) ==
    /\ ex[g] = from
    /\ Compile(g)
    /\ ex' = [ex EXCEPT ![g] = IF setup.gtype[g] \in DOMAIN terminal THEN "compiled"
                                                                   ELSE "panicked"]
    /\ undecoded' = IF setup.gtype[g] \in DOMAIN terminal THEN undecoded \cup {g}
                                                         ELSE undecoded
    /\ UNCHANGED <<setup, ld, types, token, batch, em, resolving, dc, rs, flags, history,
                   coord>>

\* The client waits for the answers to the peers' calls.
Execute(g) ==
    /\ Admitting
    /\ g \in setup.gids \ setup.batch
    /\ setup.gtype[g] \in setup.late => ld = "done"
    /\ \A h \in Peers(g) : ex[h] = "done"
    /\ Start(g, "idle")

-----------------------------------------------------------------------------
(* batch_execute: a task for each gadget, after the gadgets it depends on. *)

\* Dependencies outside of the batch must be compiled.
Missing == (UNION {Peers(g) : g \in setup.batch}) \ (setup.batch \cup known)

BatchRejected ==
    /\ Admitting /\ batch = "idle" /\ Missing # {}
    /\ batch' = "rejected"
    /\ UNCHANGED <<setup, ld, compiler, types, undecoded, token, ex, em, resolving, built,
                   dc, rs, flags, history, coord>>

BeginBatch ==
    /\ Admitting /\ batch \in {"idle", "rejected"}
    /\ setup.batch # {} /\ Missing = {}
    /\ \A h \in (UNION {Peers(g) : g \in setup.batch}) \ setup.batch : ex[h] = "done"
    /\ (\E g \in setup.batch : setup.gtype[g] \in setup.late) => ld = "done"
    /\ batch' = "running"
    /\ ex' = [g \in Gids |-> IF g \in setup.batch THEN "waiting" ELSE ex[g]]
    /\ UNCHANGED <<setup, ld, compiler, types, undecoded, token, em, resolving, built, dc,
                   rs, flags, history, coord>>

DependenciesCompiled(g) == Peers(g) \cap setup.batch \subseteq known
DependenciesDone(g) == \A h \in Peers(g) \cap setup.batch : ex[h] = "done"
BatchTask(g) == g \in setup.batch /\ DependenciesDone(g) /\ Start(g, "waiting")

TaskCancelled(g) ==
    /\ g \in setup.batch /\ token /\ ex[g] \in Running
    /\ ex' = [ex EXCEPT ![g] = "cancelled"]
    /\ UNCHANGED <<setup, ld, compiler, types, undecoded, token, batch, em, resolving, built,
                   dc, rs, flags, history, coord>>

\* join_all
AllTasksEnded == \A g \in setup.batch : ex[g] \notin Running

\* The gids are the answer, also when tasks were cancelled; a task that panicked
\* makes the call panic.
AnswerBatch ==
    /\ batch = "running" /\ AllTasksEnded
    /\ batch' = IF \E g \in setup.batch : ex[g] = "panicked" THEN "panicked"
                                                           ELSE "answered"
    /\ UNCHANGED <<setup, ld, compiler, types, undecoded, token, ex, em, resolving, built,
                   dc, rs, flags, history, coord>>

-----------------------------------------------------------------------------
(* The rest of execute_with_token.                                         *)

\* The coordinator panics without the types and the peers of the gadget.
SendGadget(g) ==
    /\ ex[g] = "compiled"
    /\ \/ /\ setup.gtype[g] \in coord.library
          /\ ex' = [ex EXCEPT ![g] = "sent"]
          /\ coord' = [coord EXCEPT !.gadgets = @ \cup {g}]
       \/ /\ setup.gtype[g] \notin coord.library
          /\ ex' = [ex EXCEPT ![g] = "panicked"] /\ UNCHANGED coord
    /\ UNCHANGED <<setup, ld, compiler, types, undecoded, token, batch, em, resolving, built,
                   dc, rs, flags, history>>

\* The cache stays locked until the coordinator has the type.
Cached(cache, key) == {id \in {c[2] : c \in cache} : setup.cache_enabled /\ <<key, id>> \in cache}

GetOrLoadCtype(g) ==
    LET key == built.check[g].type
        cached == Cached(ctypes, key)
    IN  /\ ex[g] = "sent"
        /\ ex' = [ex EXCEPT ![g] = "typed"]
        /\ \/ /\ cached # {}
              /\ built' = [built EXCEPT !.check[g].id = CHOOSE id \in cached : TRUE]
              /\ UNCHANGED <<ctypes, next, coord>>
           \/ /\ cached = {}
              /\ built' = [built EXCEPT !.check[g].id = next.ctype]
              /\ next' = [next EXCEPT !.ctype = @ + 1]
              /\ coord' = [coord EXCEPT !.ctypes = @ \cup {<<next.ctype, key>>}]
              /\ ctypes' = IF setup.cache_enabled THEN ctypes \cup {<<key, next.ctype>>}
                                                  ELSE ctypes
        /\ UNCHANGED <<setup, ld, compiler, etypes, terminal, undecoded, token, batch, em,
                       resolving, dc, rs, flags, history>>

SendCheckModel(g) ==
    /\ ex[g] = "typed"
    /\ ex' = [ex EXCEPT ![g] = "done"]
    /\ coord' = [coord EXCEPT !.models = @ \cup {[gid |-> g, type |-> built.check[g].id,
                                                  remote |-> built.check[g].remote]}]
    /\ em' = [em EXCEPT ![g] = "resolving"]
    /\ built' = [built EXCEPT !.check[g] = Nothing]
    /\ UNCHANGED <<setup, ld, compiler, types, undecoded, token, batch, resolving, dc, rs,
                   flags, history>>

\* The client of a call goes away: its future is dropped.  Tasks of a batch go on.
DropExecute(g) ==
    /\ setup.faults /\ g \notin setup.batch /\ ex[g] \in Running
    /\ ex' = [ex EXCEPT ![g] = "dropped"]
    /\ UNCHANGED <<setup, ld, compiler, types, undecoded, token, batch, em, resolving, built,
                   dc, rs, flags, history, coord>>
DropBatch ==
    /\ setup.faults /\ batch = "running"
    /\ batch' = "dropped"
    /\ UNCHANGED <<setup, ld, compiler, types, undecoded, token, ex, em, resolving, built,
                   dc, rs, flags, history, coord>>

-----------------------------------------------------------------------------
(* The error-model task of a gadget.                                       *)

\* The virtual checks of the next output port, once it is connected and, if its peer
\* passes one on, the peer has published its own.
ResolvePort(g) ==
    LET port == resolving[g].ports + 1
    IN  /\ em[g] = "resolving"
        /\ port \in DOMAIN TypeOf(g).outputs
        /\ outputs[g][port] # <<>>
        /\ LET c == outputs[g][port][1]
               map == InputVirtualCheckMap(TypeOf(c.gid))[c.port]
               later == \E k \in DOMAIN map : \E u \in DOMAIN map[k].unfinished :
                           map[k].unfinished[u] > 0
           IN  /\ later => virtual[c.gid] # <<>>
               /\ resolving' = [resolving EXCEPT ![g] =
                     [ports |-> port,
                      checks |-> resolving[g].checks \o
                         [k \in DOMAIN map |->
                            ResolveVirtualCheck(map[k], c.gid, virtual[c.gid])]]]
        /\ UNCHANGED <<setup, ld, compiler, types, undecoded, token, ex, batch, em, built, dc,
                       rs, flags, history, coord>>

PublishForgotten(g) == UNCHANGED virtual
Publish(g) == virtual' = [virtual EXCEPT ![g] = resolving[g].checks]

\* All ports are resolved: publish them for the gadgets before, build the model.
PublishAndBuild(g) ==
    LET sets == [i \in DOMAIN TypeOf(g).errors |->
                    {<<x.cid, x.index>> :
                        x \in ExpandErrorChecks(TypeOf(g).errors[i], resolving[g].checks, g)}]
    IN  /\ em[g] = "resolving"
        /\ resolving[g].ports = Len(TypeOf(g).outputs)
        /\ em' = [em EXCEPT ![g] = "resolved"]
        /\ Publish(g)
        /\ \E order \in Sequencings(sets, g) :
              built' = [built EXCEPT !.error[g] =
                  [type |-> ToBin(sets, order, g), id |-> 0, remote |-> RemoteList(sets, order)]]
        /\ UNCHANGED <<setup, ld, outputs, checks, known, registered, types, undecoded, token, ex, batch,
                       resolving, dc, rs, flags, history, coord>>

ErrorModelCancelled(g) ==
    /\ em[g] = "resolving" /\ token
    /\ em' = [em EXCEPT ![g] = "cancelled"]
    /\ UNCHANGED <<setup, ld, compiler, types, undecoded, token, ex, batch, resolving, built,
                   dc, rs, flags, history, coord>>

GetOrLoadEtype(g) ==
    LET key == built.error[g].type
        cached == Cached(etypes, key)
    IN  /\ em[g] = "resolved"
        /\ em' = [em EXCEPT ![g] = "typed"]
        /\ \/ /\ cached # {}
              /\ built' = [built EXCEPT !.error[g].id = CHOOSE id \in cached : TRUE]
              /\ UNCHANGED <<etypes, next, coord>>
           \/ /\ cached = {}
              /\ built' = [built EXCEPT !.error[g].id = next.etype]
              /\ next' = [next EXCEPT !.etype = @ + 1]
              /\ coord' = [coord EXCEPT !.etypes = @ \cup {<<next.etype, key>>}]
              /\ etypes' = IF setup.cache_enabled THEN etypes \cup {<<key, next.etype>>}
                                                  ELSE etypes
        /\ UNCHANGED <<setup, ld, compiler, ctypes, terminal, undecoded, token, ex, batch,
                       resolving, dc, rs, flags, history>>

SendErrorModel(g) ==
    /\ em[g] = "typed"
    /\ em' = [em EXCEPT ![g] = "done"]
    /\ coord' = [coord EXCEPT !.errors = @ \cup {[gid |-> g, type |-> built.error[g].id,
                                                  remote |-> built.error[g].remote]}]
    /\ built' = [built EXCEPT !.error[g] = Nothing]
    /\ UNCHANGED <<setup, ld, compiler, types, undecoded, token, ex, batch, resolving, dc, rs,
                   flags, history>>

-----------------------------------------------------------------------------
(* decode_single and batch_decode                                          *)

\* The gid is consumed before the coordinator is asked.
Consume(g) ==
    /\ dc' = [dc EXCEPT ![g] = IF g \in undecoded THEN "waiting" ELSE "refused"]
    /\ undecoded' = undecoded \ {g}

DecodeSingle(g) ==
    /\ Admitting
    /\ g \in setup.gids \ setup.batch /\ ex[g] = "done" /\ dc[g] = "idle"
    /\ Consume(g)
    /\ UNCHANGED <<setup, ld, compiler, types, token, ex, batch, em, resolving, built, rs,
                   flags, history, coord>>

BatchDecode ==
    /\ Admitting /\ batch = "answered"
    /\ \A g \in setup.batch : dc[g] = "idle"
    /\ dc' = [g \in Gids |-> IF g \in setup.batch THEN "queued" ELSE dc[g]]
    /\ UNCHANGED <<setup, ld, compiler, types, undecoded, token, ex, batch, em, resolving,
                   built, rs, flags, history, coord>>

DecodeTask(g) ==
    /\ dc[g] = "queued"
    /\ Consume(g)
    /\ UNCHANGED <<setup, ld, compiler, types, token, ex, batch, em, resolving, built, rs,
                   flags, history, coord>>

Complete == /\ {x.gid : x \in coord.models} = setup.gids
            /\ {x.gid : x \in coord.errors} = setup.gids

DecodeReturns(g) ==
    /\ dc[g] = "waiting" /\ Complete
    /\ dc' = [dc EXCEPT ![g] = "returned"]
    /\ UNCHANGED <<setup, ld, compiler, types, undecoded, token, ex, batch, em, resolving,
                   built, rs, flags, history, coord>>

DecodeCancelled(g) ==
    /\ dc[g] \in {"waiting", "queued"} /\ token
    /\ dc' = [dc EXCEPT ![g] = "failed"]
    /\ UNCHANGED <<setup, ld, compiler, types, undecoded, token, ex, batch, em, resolving,
                   built, rs, flags, history, coord>>

-----------------------------------------------------------------------------
(* cancel_pending and reset                                                *)

CancelPending ==
    /\ setup.faults /\ Admitting /\ ~token
    /\ token' = TRUE /\ shut' = TRUE
    /\ UNCHANGED <<setup, compiler, types, undecoded, calls, rs, flags, resets, failed,
                   broken, coord>>

BeginReset ==
    /\ setup.faults /\ rs = "idle" /\ resets < setup.resets
    /\ rs' = "queued" /\ token' = TRUE
    /\ flags' \in BOOLEAN
    /\ resets' = resets + 1
    /\ UNCHANGED <<setup, compiler, types, undecoded, calls, shut, failed, broken, coord>>

\* The calls that hold the lock for reading, and the tasks of the counter.
Reading == \/ batch = "running" \/ ld = "registered"
           \/ \E g \in Gids : dc[g] \in {"waiting", "queued"}
           \/ \E g \in Gids \ setup.batch : ex[g] \in Running
Counted == \E g \in Gids : \/ em[g] \in {"resolving", "resolved", "typed"}
                           \/ g \in setup.batch /\ ex[g] \in Running
                           \/ g \in setup.batch /\ dc[g] \in {"waiting", "queued"}
Drained == ~Reading /\ ~Counted

ClearUndecoded == undecoded' = {}

ClearTypes == terminal' = <<>> /\ ctypes' = {} /\ etypes' = {}

ResetController ==
    /\ rs = "queued" /\ Drained
    /\ rs' = "coordinator"
    /\ outputs' = All(<<>>) /\ checks' = All(<<>>) /\ virtual' = All(<<>>) /\ known' = {}
    /\ ClearUndecoded
    /\ IF flags
       THEN ClearTypes /\ registered' = Initial /\ ld' = "idle"
       ELSE UNCHANGED <<terminal, ctypes, etypes, registered, ld>>
    /\ ex' = All("idle") /\ batch' = "idle" /\ em' = All("idle") /\ dc' = All("idle")
    /\ resolving' = All(Unresolved)
    /\ built' = [check |-> All(Nothing), error |-> All(Nothing)]
    /\ UNCHANGED <<setup, next, token, flags, history, coord>>

\* The coordinator's side of a reset.
Cleared == [coord EXCEPT !.gadgets = {}, !.models = {}, !.errors = {},
                         !.library = IF flags THEN {} ELSE @,
                         !.ctypes = IF flags THEN {} ELSE @,
                         !.etypes = IF flags THEN {} ELSE @]

\* The library is sent again, its ids start from one.
ReloadWithoutTerminal ==
    /\ coord' = [Cleared EXCEPT !.library = Initial, !.etypes = TerminalEntries(Initial, 1)]
    /\ next' = [ctype |-> 1, etype |-> 1 + Cardinality(Initial)]
    /\ UNCHANGED terminal
ReloadLibrary ==
    /\ coord' = [Cleared EXCEPT !.library = Initial, !.etypes = TerminalEntries(Initial, 1)]
    /\ terminal' = TerminalTypes(Initial, 1)
    /\ next' = [ctype |-> 1, etype |-> 1 + Cardinality(Initial)]

FreshToken == token' = FALSE

ResetCoordinator ==
    /\ rs = "coordinator"
    /\ rs' = "idle" /\ flags' = FALSE /\ failed' = FALSE /\ shut' = FALSE
    /\ FreshToken
    /\ IF flags THEN ReloadLibrary /\ broken' = FALSE
                ELSE coord' = Cleared /\ UNCHANGED <<terminal, next, broken>>
    /\ UNCHANGED <<setup, compiler, ctypes, etypes, undecoded, calls, resets>>

\* The coordinator refuses, or fails at the end of its own reset: the controller
\* returns at once.
ResetFails ==
    /\ rs = "coordinator"
    /\ rs' = "idle" /\ flags' = FALSE /\ failed' = TRUE /\ broken' = (broken \/ flags)
    /\ coord' \in {coord, Cleared}
    /\ UNCHANGED <<setup, compiler, types, undecoded, token, calls, resets, shut>>

-----------------------------------------------------------------------------

Call(g) == \/ BatchTask(g) \/ TaskCancelled(g)
           \/ SendGadget(g) \/ GetOrLoadCtype(g) \/ SendCheckModel(g)
ErrorTask(g) == \/ ResolvePort(g) \/ PublishAndBuild(g) \/ ErrorModelCancelled(g)
                \/ GetOrLoadEtype(g) \/ SendErrorModel(g)
Decode(g) == DecodeTask(g) \/ DecodeReturns(g) \/ DecodeCancelled(g)
Client(g) == Execute(g) \/ DecodeSingle(g)
ClientBatch == BeginBatch \/ BatchDecode
Reset == ResetController \/ ResetCoordinator \/ ResetFails

Progress ==
    \/ \E g \in Gids : Client(g) \/ Call(g) \/ ErrorTask(g) \/ Decode(g)
    \/ ClientBatch \/ AnswerBatch \/ RegisterLibrary \/ SendLibrary \/ Reset
Faults ==
    \/ \E g \in Gids : DropExecute(g)
    \/ BatchRejected \/ DropBatch \/ SendLibraryFails \/ CancelPending \/ BeginReset

Finished == /\ \A g \in setup.gids : dc[g] \notin {"idle", "waiting", "queued"} \/ setup.faults
            /\ UNCHANGED vars

Next == Progress \/ Faults \/ Finished

Spec == Init /\ [][Next]_vars

\* The runtime polls what can go on, and the client runs its program to the end.
\* That something goes on while something can is all the properties need.
FairSpec == Spec /\ WF_vars(Progress)

-----------------------------------------------------------------------------
(* Properties                                                              *)

\* Types of the calls and tables; ids are below the counters.
TypeOK ==
    /\ setup \in Setups /\ known \subseteq Gids /\ undecoded \subseteq known
    /\ {token, flags, shut, failed, broken} \subseteq BOOLEAN
    /\ ex \in [Gids -> Running \cup {"idle", "done", "cancelled", "panicked", "dropped"}]
    /\ em \in [Gids -> {"idle", "resolving", "resolved", "typed", "done", "cancelled"}]
    /\ dc \in [Gids -> {"idle", "queued", "waiting", "returned", "refused", "failed"}]
    /\ batch \in {"idle", "rejected", "running", "answered", "panicked", "dropped"}
    /\ ld \in {"idle", "registered", "done", "failed", "panicked"}
    /\ registered \subseteq DOMAIN Types /\ DOMAIN terminal \subseteq registered
    /\ rs \in {"idle", "queued", "coordinator"} /\ resets \in 0 .. setup.resets
    /\ \A c \in ctypes : c[2] < next.ctype
    /\ \A c \in etypes : c[2] < next.etype

\* A gadget reaches the coordinator after the gadgets behind its connectors (which
\* the coordinator looks up), whatever the order of the tasks of a batch.
PeersFirst == \A g \in coord.gadgets : Peers(g) \subseteq coord.gadgets

\* An id the coordinator has means one type, an id in the caches is one that the
\* coordinator has with that very content: also after resets of which steps failed.
TypesInStep ==
    /\ \A x, y \in coord.ctypes : x[1] = y[1] => x = y
    /\ \A x, y \in coord.etypes : x[1] = y[1] => x = y
    /\ ~broken /\ rs = "idle" => /\ \A c \in ctypes : <<c[2], c[1]>> \in coord.ctypes
                                 /\ \A c \in etypes : <<c[2], c[1]>> \in coord.etypes
                                 /\ (ld # "registered" => DOMAIN terminal = coord.library)

\* A batch that is answered while its token is alive has executed all its gadgets.
BatchComplete ==
    batch = "answered" /\ ~token =>
        \A g \in setup.batch : ex[g] = "done" /\ \E x \in coord.models : x.gid = g

\* What the controller takes the coordinator to have: the types, the gadgets before a
\* gadget, the gadgets of an answered batch.
InStep == TypeOK /\ PeersFirst /\ TypesInStep /\ BatchComplete

\* Reference: a virtual check is <<"virtual", gid, k>>, the k-th of the gadget's output
\* ports.  What a check consists of, in virtual checks and measurements of the whole
\* program, with multiplicity mod 2.  (The recursion runs along the connectors.)
ChecksOf(s) ==
    UNION {{<<g, kind, i>> : i \in DOMAIN Types[s.gtype[g]][kind]} :
              g \in s.gids, kind \in {"finished", "unfinished"}}
Named(s, g, m) ==
    LET c == s.connectors[g][m.port]
    IN  <<c.gid, Before(Types[s.gtype[c.gid]], c.port) + m.index>>
Part(s, includes, g, m) ==
    IF m.port = Local THEN {<<"measurement", g, m.index>>}
    ELSE LET v == Named(s, g, m)
         IN  Xor({<<"virtual", v[1], v[2]>>}, includes[<<v[1], "unfinished", v[2]>>])
Measurements(s, x) == Types[s.gtype[x[1]]][x[2]][x[3]].measurements
Includes(s) ==
    LET includes[x \in ChecksOf(s)] ==
            XorAll(Len(Measurements(s, x)),
                   LAMBDA i : Part(s, includes, x[1], Measurements(s, x)[i]))
    IN  includes
Reference ==
    [s \in Setups |->
        LET includes == Includes(s)
        IN  [g \in s.gids |->
                [i \in DOMAIN Types[s.gtype[g]].finished |-> includes[<<g, "finished", i>>]]]]

Read(entries, x) == LET t == CHOOSE t \in entries : t[1] = x.type IN t[2]

\* The check models say what the checks of the program say: read back through the
\* cached types, the remote lists and the biases, each check has exactly the
\* measurements it includes.
ChecksExact ==
    \A x \in coord.models :
        LET t == Read(coord.ctypes, x)
            read == FromBin(t.checks, x.remote, x.gid)
        IN  \A i \in DOMAIN TypeOf(x.gid).finished :
               {<<"measurement", p[1], p[2]>> : p \in read[i]}
                  = {v \in Reference[setup][x.gid][i] : v[1] = "measurement"}

\* The error models are the transpose of that: an error flips a finished check,
\* wherever it is, if the check includes an odd number of what the error flips.
FinishedOf == UNION {{<<h, i>> : i \in DOMAIN TypeOf(h).finished} : h \in setup.gids}
Flips(g, e, h, i) ==
    LET V == Reference[setup][h][i]
    IN  Odd(Len(e.unfinished), LAMBDA u : <<"virtual", g, e.unfinished[u]>> \in V)
           # (h = g /\ Odd(Len(e.finished), LAMBDA u : e.finished[u] = i))
ErrorsExact ==
    \A x \in coord.errors :
        LET read == FromBin(Read(coord.etypes, x), x.remote, x.gid)
        IN  \A k \in DOMAIN TypeOf(x.gid).errors :
               read[k] = {v \in FinishedOf : Flips(x.gid, TypeOf(x.gid).errors[k], v[1], v[2])}

\* Both models of a program.
ModelsExact == ChecksExact /\ ErrorsExact

\* A call panics only after a load or a reset of the library has failed, until a reset
\* of the library succeeds; nothing is cancelled but by a reset in progress, one that
\* failed or a shutdown.
BrokenForCause ==
    /\ ld = "panicked" \/ (\E g \in Gids : ex[g] = "panicked") => broken
    /\ token => rs # "idle" \/ failed \/ shut

\* Without faults every gadget of the program gets its readouts: no error-model task
\* waits for one that waits for it.  A reset ends, whatever calls and tasks it finds.
CallsEnd ==
    /\ ~setup.faults ~> \A g \in setup.gids : dc[g] = "returned"
    /\ rs # "idle" ~> rs = "idle"
=============================================================================

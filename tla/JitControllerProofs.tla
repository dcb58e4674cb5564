------------------------ MODULE JitControllerProofs ------------------------
(***************************************************************************)
(* The controller and the coordinator stay in step, and calls panic or are *)
(* cancelled for a cause only, for every library and every program; and    *)
(* for every one that is well-formed the models that are sent say what the *)
(* program says.                                                           *)
(*                                                                         *)
(* The parts: IInv, the invariant of calls, types and ids, and its steps;  *)
(* the sequencers; parity, ports, and what the checks of a program include *)
(* (the reference, a recursion along the connectors); what the compiler's  *)
(* operators make of it; MInv, the invariant of the tables and the models, *)
(* and its steps.                                                          *)
(***************************************************************************)
EXTENDS JitController, WindowGeometryProofs, FiniteSetTheorems, SequenceTheorems, TLAPS

\* The counters are numbers, the coordinator keeps its six tables.
Shapes ==
    /\ next \in [ctype : Nat, etype : Nat]
    /\ coord = [library |-> coord.library, ctypes |-> coord.ctypes,
                etypes |-> coord.etypes, gadgets |-> coord.gadgets,
                models |-> coord.models, errors |-> coord.errors]

\* Where a library load stands decides which types the compiler has; unless a load or
\* a reset of the library has failed, or one is half way, it decides which of them
\* have a terminal type, and which of them the coordinator has.
LibraryInStep ==
    /\ ld = "idle" => registered = Initial
    /\ ld \in {"registered", "done", "failed"} => registered = Initial \cup setup.late
    /\ ld \in {"failed", "panicked"} => broken
    /\ ld = "registered" => setup.late \subseteq DOMAIN terminal
    /\ ~broken /\ ~(rs = "coordinator" /\ flags) =>
          /\ DOMAIN terminal = registered
          /\ coord.library = IF ld = "registered" THEN Initial ELSE registered

\* The entries of a cache are entries of the coordinator.
Cache(cache, entries) == \A c \in cache : <<c[2], c[1]>> \in entries
\* Ids are unique and below the counter.
Below(entries, n) == \A x \in entries : x[1] \in Nat /\ x[1] < n
Unique(entries) == \A x, y \in entries : x[1] = y[1] => x = y

\* The terminal types a load has registered and not yet sent have ids of their own.
Reserved ==
    ld = "registered" =>
        /\ \A t \in setup.late : terminal[t] \in Nat /\ terminal[t] < next.etype
        /\ \A t, u \in setup.late : terminal[t] = terminal[u] => t = u
        /\ \A t \in setup.late : \A x \in coord.etypes : x[1] # terminal[t]

IdsInStep ==
    /\ Cache(ctypes, coord.ctypes) /\ Cache(etypes, coord.etypes)
    /\ Below(coord.ctypes, next.ctype) /\ Below(coord.etypes, next.etype)
    /\ Unique(coord.ctypes) /\ Unique(coord.etypes)
    /\ Reserved

\* While the coordinator resets, nothing else goes on; what a reset of the library
\* clears is clear.
Quiet ==
    rs = "coordinator" =>
        /\ \A g \in Gids : ex[g] = "idle" /\ em[g] = "idle"
        /\ batch = "idle" /\ ld # "registered"
        /\ flags => ld = "idle" /\ registered = Initial /\ ctypes = {} /\ etypes = {}

\* What is known of a call by where it stands.
CallInStep(g) ==
    /\ ex[g] # "idle" => g \in setup.gids
    /\ ex[g] \in Running /\ setup.gtype[g] \in setup.late => ld = "done"
    /\ ex[g] = "waiting" =>
          g \in setup.batch /\ Peers(g) \ setup.batch \subseteq coord.gadgets
    /\ ex[g] \in {"compiled", "sent", "typed", "done"} => Peers(g) \subseteq coord.gadgets
    /\ ex[g] \in {"sent", "typed", "done"} => g \in coord.gadgets
    /\ ex[g] = "done" => \E x \in coord.models : x.gid = g
    /\ ex[g] = "cancelled" => token
    /\ ex[g] = "panicked" => broken
CallsInStep == \A g \in Gids : CallInStep(g)

BatchInStep ==
    /\ batch = "running" => \A g \in setup.batch : ex[g] \notin {"idle", "dropped"}
    /\ batch = "answered" => \A g \in setup.batch : ex[g] \in {"done", "cancelled"}

TokenForCause == token => rs # "idle" \/ failed \/ shut

IInv == /\ TypeOK /\ Shapes /\ LibraryInStep /\ IdsInStep /\ Quiet
        /\ CallsInStep /\ BatchInStep /\ TokenForCause /\ PeersFirst

-----------------------------------------------------------------------------
(* Setups, and the ids register_terminal_types gives.                      *)

LEMMA SequenceElement ==
    ASSUME NEW T, NEW q \in Seq(T)
    PROVE  /\ Len(q) \in Nat /\ DOMAIN q = 1 .. Len(q)
           /\ \A i \in DOMAIN q : q[i] \in T
OBVIOUS

\* What IsSetup says of the program at hand.
LEMMA Programs ==
    ASSUME setup \in Setups
    PROVE  /\ setup.gids \subseteq Gids /\ setup.batch \subseteq setup.gids
           /\ setup.late \subseteq DOMAIN Types
           /\ \A g \in setup.gids : /\ setup.gtype[g] \in DOMAIN Types
                                    /\ Peers(g) \subseteq setup.gids
           /\ setup.resets \in Nat
<1>1. IsSetup(setup)
  BY JitAssumption
<1>2. \A g \in setup.gids : Peers(g) \subseteq setup.gids
  <2>1. SUFFICES ASSUME NEW g \in setup.gids, NEW i \in DOMAIN setup.connectors[g]
                 PROVE  setup.connectors[g][i].gid \in setup.gids
    BY DEF Peers, Connectors
  <2>2. setup.connectors[g] \in Seq([gid : setup.gids, port : Nat])
    BY <1>1 DEF IsSetup
  <2>3. setup.connectors[g][i] \in [gid : setup.gids, port : Nat]
    BY <2>1, <2>2, SequenceElement
  <2> QED
    BY <2>3
<1> QED
  BY <1>1, <1>2 DEF IsSetup

\* Ranks are different, and below the number of types.
LEMMA Ranks ==
    ASSUME NEW T \in SUBSET Nat, IsFiniteSet(T)
    PROVE  /\ Cardinality(T) \in Nat
           /\ \A t \in T : Rank(t, T) \in Nat /\ Rank(t, T) < Cardinality(T)
           /\ \A t, u \in T : Rank(t, T) = Rank(u, T) => t = u
<1>1. Cardinality(T) \in Nat
  BY FS_CardinalityType
<1>2. ASSUME NEW t \in T
      PROVE  /\ IsFiniteSet({u \in T : u < t})
             /\ Rank(t, T) \in Nat /\ Rank(t, T) < Cardinality(T)
  <2>1. {u \in T : u < t} \subseteq T /\ {u \in T : u < t} # T
    OBVIOUS
  <2>2. IsFiniteSet({u \in T : u < t})
    BY <2>1, FS_Subset
  <2>3. Cardinality({u \in T : u < t}) <= Cardinality(T)
        /\ Cardinality({u \in T : u < t}) # Cardinality(T)
    BY <2>1, FS_Subset
  <2>4. Cardinality({u \in T : u < t}) \in Nat
    BY <2>2, FS_CardinalityType
  <2> QED
    BY <1>1, <2>2, <2>3, <2>4 DEF Rank
<1>3. ASSUME NEW t \in T, NEW u \in T, t < u
      PROVE  Rank(t, T) # Rank(u, T)
  <2>1. /\ {v \in T : v < t} \subseteq {v \in T : v < u}
        /\ {v \in T : v < t} # {v \in T : v < u}
    <3>1. \A v \in T : v < t => v < u
      BY <1>3
    <3>2. t \in {v \in T : v < u} /\ t \notin {v \in T : v < t}
      BY <1>3
    <3> QED
      BY <3>1, <3>2
  <2>2. IsFiniteSet({v \in T : v < u})
    BY <1>2
  <2> QED
    BY <2>1, <2>2, FS_Subset DEF Rank
<1>4. \A t, u \in T : t = u \/ t < u \/ u < t
  OBVIOUS
<1> QED
  BY <1>1, <1>2, <1>3, <1>4

\* The types of a library are given the numbers from `first` on.
LEMMA TerminalIds ==
    ASSUME NEW T \in SUBSET DOMAIN Types, NEW first \in Nat
    PROVE  /\ Cardinality(T) \in Nat
           /\ DOMAIN TerminalTypes(T, first) = T
           /\ \A t \in T : /\ TerminalTypes(T, first)[t] \in Nat
                           /\ first <= TerminalTypes(T, first)[t]
                           /\ TerminalTypes(T, first)[t] < first + Cardinality(T)
           /\ \A t, u \in T :
                 TerminalTypes(T, first)[t] = TerminalTypes(T, first)[u] => t = u
           /\ TerminalEntries(T, first) =
                 {<<TerminalTypes(T, first)[t], TerminalErrorModelType(Types[t])>> : t \in T}
<1>1. T \in SUBSET Nat /\ IsFiniteSet(T)
  BY JitAssumption, FS_Subset
<1>2. /\ Cardinality(T) \in Nat
      /\ \A t \in T : Rank(t, T) \in Nat /\ Rank(t, T) < Cardinality(T)
      /\ \A t, u \in T : Rank(t, T) = Rank(u, T) => t = u
  BY <1>1, Ranks
<1>3. \A t \in T : TerminalTypes(T, first)[t] = first + Rank(t, T)
  BY DEF TerminalTypes
<1>4. TerminalEntries(T, first) =
         {<<TerminalTypes(T, first)[t], TerminalErrorModelType(Types[t])>> : t \in T}
  BY <1>3 DEF TerminalEntries
<1>5. DOMAIN TerminalTypes(T, first) = T
  BY DEF TerminalTypes
<1> QED
  BY <1>2, <1>3, <1>4, <1>5

\* The initial library fills the first numbers.
LEMMA InitialEntries ==
    ASSUME NEW T \in SUBSET DOMAIN Types
    PROVE  /\ Cardinality(T) \in Nat
           /\ DOMAIN TerminalTypes(T, 1) = T
           /\ Below(TerminalEntries(T, 1), 1 + Cardinality(T))
           /\ Unique(TerminalEntries(T, 1))
<1> DEFINE ids == TerminalTypes(T, 1)
<1>0. 1 \in Nat
  OBVIOUS
<1>2. \A x \in TerminalEntries(T, 1) : \E t \in T :
         x = <<ids[t], TerminalErrorModelType(Types[t])>>
  BY DEF TerminalEntries, TerminalTypes
<1>1. /\ Cardinality(T) \in Nat /\ DOMAIN ids = T
      /\ \A t \in T : ids[t] \in Nat /\ ids[t] < 1 + Cardinality(T)
      /\ \A t, u \in T : ids[t] = ids[u] => t = u
  BY <1>0, TerminalIds, Zenon
<1> HIDE DEF ids
<1>3. Below(TerminalEntries(T, 1), 1 + Cardinality(T))
  BY <1>1, <1>2 DEF Below
<1>4. Unique(TerminalEntries(T, 1))
  <2>1. SUFFICES ASSUME NEW x \in TerminalEntries(T, 1), NEW y \in TerminalEntries(T, 1),
                        x[1] = y[1]
                 PROVE  x = y
    BY DEF Unique
  <2>2. PICK t \in T : x = <<ids[t], TerminalErrorModelType(Types[t])>>
    BY <1>2
  <2>3. PICK u \in T : y = <<ids[u], TerminalErrorModelType(Types[u])>>
    BY <1>2
  <2>4. t = u
    BY <1>1, <2>1, <2>2, <2>3
  <2> QED
    BY <2>2, <2>3, <2>4
<1> QED
  BY <1>1, <1>3, <1>4 DEF ids

-----------------------------------------------------------------------------
(* What leaves the parts of the invariant alone.                           *)

LEMMA LibraryFrame ==
    ASSUME LibraryInStep, UNCHANGED <<setup, registered, terminal, ld, rs, flags, broken>>,
           coord'.library = coord.library
    PROVE  LibraryInStep'
BY DEF LibraryInStep, Initial

LEMMA IdsFrame ==
    ASSUME IdsInStep, UNCHANGED <<setup, ctypes, etypes, terminal, next, ld>>,
           coord'.ctypes = coord.ctypes, coord'.etypes = coord.etypes
    PROVE  IdsInStep'
BY DEF IdsInStep, Reserved, Cache, Below, Unique

LEMMA QuietFrame ==
    ASSUME Quiet, UNCHANGED <<setup, ex, batch, ld, registered, ctypes, etypes, rs, flags>>,
           em' = em \/ rs # "coordinator"
    PROVE  Quiet'
BY DEF Quiet, Initial

\* The program does not change.
LEMMA PeersFixed ==
    ASSUME UNCHANGED setup
    PROVE  \A g : Peers(g)' = Peers(g)
BY DEF Peers, Connectors

\* A call that does not move stays in step while the coordinator gains gadgets and
\* models.
LEMMA CallFrame ==
    ASSUME NEW g, CallInStep(g), ex'[g] = ex[g], UNCHANGED <<setup, ld>>,
           token => token', broken => broken',
           coord.gadgets \subseteq coord'.gadgets, coord.models \subseteq coord'.models
    PROVE  CallInStep(g)'
<1>1. Peers(g)' = Peers(g)
  BY PeersFixed
<1> QED
  BY <1>1 DEF CallInStep

\* The peers of the gadgets come first as long as no gadget comes.
LEMMA PeersFrame ==
    ASSUME PeersFirst, UNCHANGED setup, coord'.gadgets = coord.gadgets
    PROVE  PeersFirst'
BY PeersFixed DEF PeersFirst

LEMMA BatchFrame ==
    ASSUME BatchInStep, UNCHANGED <<setup, ex, batch>>
    PROVE  BatchInStep'
BY DEF BatchInStep

LEMMA TokenFrame ==
    ASSUME TokenForCause, UNCHANGED <<token, rs, failed, shut>>
    PROVE  TokenForCause'
BY DEF TokenForCause

\* What the invariant names, but for the types of the decode calls and the compiler.
core == <<setup, registered, ctypes, etypes, terminal, next, token, ex, batch, ld,
          rs, flags, shut, failed, broken, coord>>

\* A step that leaves them alone keeps the invariant if it keeps the types.
LEMMA Frame ==
    ASSUME IInv, UNCHANGED core, em' = em \/ rs # "coordinator", TypeOK'
    PROVE  IInv'
<1> USE DEF core
<1>1. Shapes'
  BY DEF IInv, Shapes
<1>2. LibraryInStep' /\ IdsInStep' /\ Quiet' /\ PeersFirst'
  BY LibraryFrame, IdsFrame, QuietFrame, PeersFrame DEF IInv
<1>3. BatchInStep' /\ TokenForCause'
  BY BatchFrame, TokenFrame DEF IInv
<1>4. CallsInStep'
  BY CallFrame DEF IInv, CallsInStep
<1> QED
  BY <1>1, <1>2, <1>3, <1>4 DEF IInv

-----------------------------------------------------------------------------
(* The steps of the error-model tasks and of the decode calls: of what the *)
(* invariant names they change no more than the decodes.                   *)

LEMMA ErrorTaskSteps ==
    ASSUME IInv, NEW g \in Gids,
           ResolvePort(g) \/ PublishAndBuild(g) \/ ErrorModelCancelled(g)
    PROVE  IInv'
<1>1. UNCHANGED core /\ UNCHANGED <<known, undecoded, dc, resets>>
  BY DEF ResolvePort, PublishAndBuild, ErrorModelCancelled, core, types, compiler, history
<1>2. em' = em \/ em' = [em EXCEPT ![g] = "resolved"] \/ em' = [em EXCEPT ![g] = "cancelled"]
  BY DEF ResolvePort, PublishAndBuild, ErrorModelCancelled
<1>3. rs # "coordinator"
  BY DEF IInv, Quiet, ResolvePort, PublishAndBuild, ErrorModelCancelled
<1>4. TypeOK'
  BY <1>1, <1>2 DEF IInv, TypeOK, core
<1> QED
  BY <1>1, <1>3, <1>4, Frame

LEMMA DecodeSteps ==
    ASSUME IInv, NEW g \in Gids,
           DecodeSingle(g) \/ DecodeTask(g) \/ DecodeReturns(g) \/ DecodeCancelled(g)
    PROVE  IInv'
<1>1. UNCHANGED core /\ UNCHANGED <<known, em, resets>>
  BY DEF DecodeSingle, DecodeTask, DecodeReturns, DecodeCancelled, core, types, compiler,
         history
<1>2. /\ undecoded' \subseteq undecoded
      /\ \E v \in {"waiting", "refused", "returned", "failed"} : dc' = [dc EXCEPT ![g] = v]
  BY DEF DecodeSingle, DecodeTask, DecodeReturns, DecodeCancelled, Consume
<1>3. TypeOK'
  BY <1>1, <1>2 DEF IInv, TypeOK, core
<1> QED
  BY <1>1, <1>3, Frame

LEMMA BatchDecodeStep ==
    ASSUME IInv, BatchDecode
    PROVE  IInv'
<1>1. UNCHANGED core /\ UNCHANGED <<known, undecoded, em, resets>>
  BY DEF BatchDecode, core, types, compiler, history
<1>2. TypeOK'
  BY <1>1 DEF IInv, TypeOK, core, BatchDecode
<1> QED
  BY <1>1, <1>2, Frame

LEMMA Stutter ==
    ASSUME IInv, UNCHANGED vars
    PROVE  IInv'
<1>1. UNCHANGED core /\ UNCHANGED <<known, undecoded, em, dc, resets>>
  BY DEF vars, core, types, compiler, calls, history
<1>2. TypeOK'
  BY <1>1 DEF IInv, TypeOK, core
<1> QED
  BY <1>1, <1>2, Frame

-----------------------------------------------------------------------------
(* The batch call and its tasks.                                           *)

LEMMA BatchSteps ==
    ASSUME IInv, BatchRejected \/ DropBatch \/ AnswerBatch
    PROVE  IInv'
<1> USE DEF types, compiler, history
<1>1. /\ UNCHANGED <<setup, known, undecoded, token, flags, shut, failed, broken, ex, em, dc,
                     ld, registered, terminal, rs, resets, ctypes, etypes, next, coord>>
      /\ rs # "coordinator"
      /\ batch' \in {"rejected", "dropped", "panicked", "answered"}
  <2>1. CASE BatchRejected
    BY <2>1 DEF BatchRejected, Admitting
  <2>2. CASE DropBatch
    BY <2>2 DEF DropBatch, IInv, Quiet
  <2>3. CASE AnswerBatch
    BY <2>3 DEF AnswerBatch, IInv, Quiet
  <2> QED
    BY <2>1, <2>2, <2>3
<1>2. TypeOK' /\ Shapes'
  BY <1>1 DEF IInv, TypeOK, Shapes
<1>3. LibraryInStep' /\ IdsInStep' /\ PeersFirst' /\ TokenForCause'
  BY <1>1, LibraryFrame, IdsFrame, PeersFrame, TokenFrame DEF IInv
<1>4. Quiet'
  BY <1>1 DEF Quiet
<1>5. CallsInStep'
  BY <1>1, CallFrame DEF IInv, CallsInStep
<1>6. BatchInStep'
  <2>1. ASSUME batch' = "answered", NEW g \in setup.batch
        PROVE  ex[g] \in {"done", "cancelled"}
    <3>1. AnswerBatch
      BY <2>1 DEF BatchRejected, DropBatch
    <3>2. g \in Gids
      BY Programs DEF IInv, TypeOK
    <3>3. /\ ex[g] \notin Running /\ ex[g] # "panicked"
          /\ ex[g] \notin {"idle", "dropped"}
      BY <2>1, <3>1 DEF AnswerBatch, AllTasksEnded, IInv, BatchInStep
    <3> QED
      BY <3>2, <3>3 DEF IInv, TypeOK
  <2> QED
    BY <1>1, <2>1 DEF BatchInStep
<1> QED
  BY <1>2, <1>3, <1>4, <1>5, <1>6 DEF IInv

LEMMA BeginBatchStep ==
    ASSUME IInv, BeginBatch
    PROVE  IInv'
<1> USE DEF types, compiler, history
<1>p. /\ setup.gids \subseteq Gids /\ setup.batch \subseteq setup.gids
      /\ \A g \in setup.gids : Peers(g) \subseteq setup.gids
  BY Programs DEF IInv, TypeOK
<1>1. /\ UNCHANGED <<setup, known, undecoded, token, flags, shut, failed, broken, em, dc,
                     ld, registered, terminal, rs, resets, ctypes, etypes, next, coord>>
      /\ rs = "idle" /\ batch' = "running"
      /\ ex' = [g \in Gids |-> IF g \in setup.batch THEN "waiting" ELSE ex[g]]
  BY DEF BeginBatch, Admitting
<1>2. TypeOK' /\ Shapes'
  BY <1>1 DEF IInv, TypeOK, Shapes, Running
<1>3. LibraryInStep' /\ IdsInStep' /\ PeersFirst' /\ TokenForCause'
  BY <1>1, LibraryFrame, IdsFrame, PeersFrame, TokenFrame DEF IInv
<1>4. Quiet'
  BY <1>1 DEF Quiet
<1>5. ASSUME NEW g \in Gids
      PROVE  CallInStep(g)'
  <2>1. CASE g \notin setup.batch
    BY <1>1, <2>1, CallFrame DEF IInv, CallsInStep
  <2>2. CASE g \in setup.batch
    <3>1. Peers(g) \ setup.batch \subseteq coord.gadgets
      <4>1. SUFFICES ASSUME NEW h \in Peers(g), h \notin setup.batch
                     PROVE  h \in coord.gadgets
        OBVIOUS
      <4>2. ex[h] = "done"
        BY <2>2, <4>1 DEF BeginBatch
      <4>3. h \in Gids
        BY <1>p, <2>2
      <4> QED
        BY <4>2, <4>3 DEF IInv, CallsInStep, CallInStep
    <3>2. setup.gtype[g] \in setup.late => ld = "done"
      BY <2>2 DEF BeginBatch
    <3>3. ex'[g] = "waiting" /\ g \in setup.gids /\ Peers(g)' = Peers(g)
      BY <1>1, <1>p, <2>2, PeersFixed
    <3> QED
      BY <1>1, <2>2, <3>1, <3>2, <3>3 DEF CallInStep
  <2> QED
    BY <2>1, <2>2
<1>6. BatchInStep'
  BY <1>1, <1>p DEF BatchInStep
<1> QED
  BY <1>2, <1>3, <1>4, <1>5, <1>6 DEF IInv, CallsInStep

\* A call ends before its time: its token is cancelled, or its client goes away.
LEMMA CallEndSteps ==
    ASSUME IInv, NEW g \in Gids, TaskCancelled(g) \/ DropExecute(g)
    PROVE  IInv'
<1> USE DEF types, compiler, history
<1>1. /\ UNCHANGED <<setup, known, undecoded, token, flags, shut, failed, broken, em, dc,
                     batch, ld, registered, terminal, rs, resets, ctypes, etypes, next, coord>>
      /\ ex[g] \in Running
      /\ \/ ex' = [ex EXCEPT ![g] = "cancelled"] /\ token
         \/ ex' = [ex EXCEPT ![g] = "dropped"] /\ g \notin setup.batch
  BY DEF TaskCancelled, DropExecute
<1>2. TypeOK' /\ Shapes'
  BY <1>1 DEF IInv, TypeOK, Shapes, Running
<1>3. LibraryInStep' /\ IdsInStep' /\ PeersFirst' /\ TokenForCause'
  BY <1>1, LibraryFrame, IdsFrame, PeersFrame, TokenFrame DEF IInv
<1>4. Quiet'
  BY <1>1 DEF IInv, Quiet, Running
<1>5. ASSUME NEW h \in Gids
      PROVE  CallInStep(h)'
  <2>1. CASE h # g
    BY <1>1, <2>1, CallFrame DEF IInv, CallsInStep, TypeOK
  <2>2. CASE h = g
    <3>1. ex'[g] = "dropped" \/ (ex'[g] = "cancelled" /\ token)
      BY <1>1 DEF IInv, TypeOK
    <3>2. g \in setup.gids
      BY <1>1 DEF IInv, CallsInStep, CallInStep, Running
    <3> QED
      BY <1>1, <2>2, <3>1, <3>2 DEF CallInStep, Running
  <2> QED
    BY <2>1, <2>2
<1>6. BatchInStep'
  <2>1. ASSUME NEW h \in setup.batch
        PROVE  ex'[h] = ex[h] \/ (h = g /\ ex'[h] = "cancelled")
    BY <1>1, Programs DEF IInv, TypeOK
  <2>2. batch = "answered" => g \notin setup.batch
    BY <1>1 DEF IInv, BatchInStep, Running
  <2> QED
    BY <1>1, <2>1, <2>2 DEF IInv, BatchInStep
<1> QED
  BY <1>2, <1>3, <1>4, <1>5, <1>6 DEF IInv, CallsInStep

-----------------------------------------------------------------------------
(* A call starts, and panics only where a library load has failed.         *)

\* A call whose client has waited for the library finds a terminal type.
LEMMA TerminalThere ==
    ASSUME IInv, NEW g \in setup.gids, ~broken, rs # "coordinator",
           setup.gtype[g] \in setup.late => ld = "done"
    PROVE  setup.gtype[g] \in DOMAIN terminal
<1>1. DOMAIN terminal = registered
  BY DEF IInv, LibraryInStep
<1>2. setup.gtype[g] \in Initial \/ (setup.gtype[g] \in setup.late /\ ld = "done")
  BY Programs DEF IInv, TypeOK, Initial
<1>3. Initial \subseteq registered
  BY DEF IInv, LibraryInStep, TypeOK
<1> QED
  BY <1>1, <1>2, <1>3 DEF IInv, LibraryInStep

LEMMA StartStep ==
    ASSUME IInv, NEW g \in setup.gids, NEW from, Start(g, from),
           rs # "coordinator",
           setup.gtype[g] \in setup.late => ld = "done",
           Peers(g) \subseteq coord.gadgets,
           g \in setup.batch => batch # "answered"
    PROVE  IInv'
<1> USE DEF types, compiler, history
<1>1. /\ UNCHANGED <<setup, token, flags, shut, failed, broken, em, dc, batch, ld,
                     registered, terminal, rs, resets, ctypes, etypes, next, coord>>
      /\ known' = known \cup {g}
      /\ undecoded' \in {undecoded, undecoded \cup {g}}
      /\ \/ ex' = [ex EXCEPT ![g] = "compiled"]
         \/ ex' = [ex EXCEPT ![g] = "panicked"] /\ setup.gtype[g] \notin DOMAIN terminal
  BY DEF Start, Compile
<1>2. g \in Gids
  BY Programs DEF IInv, TypeOK
<1>3. TypeOK' /\ Shapes'
  BY <1>1, <1>2 DEF IInv, TypeOK, Shapes, Running
<1>4. LibraryInStep' /\ IdsInStep' /\ PeersFirst' /\ TokenForCause'
  BY <1>1, LibraryFrame, IdsFrame, PeersFrame, TokenFrame DEF IInv
<1>5. Quiet'
  BY <1>1 DEF IInv, Quiet
<1>6. ASSUME NEW h \in Gids
      PROVE  CallInStep(h)'
  <2>1. CASE h # g
    BY <1>1, <2>1, CallFrame DEF IInv, CallsInStep, TypeOK
  <2>2. CASE h = g
    <3>1. ex'[g] = "compiled" \/ (ex'[g] = "panicked" /\ broken)
      BY <1>1, <1>2, TerminalThere DEF IInv, TypeOK
    <3>2. Peers(g)' = Peers(g)
      BY <1>1, PeersFixed
    <3> QED
      BY <1>1, <2>2, <3>1, <3>2 DEF CallInStep
  <2> QED
    BY <2>1, <2>2
<1>7. BatchInStep'
  <2>1. ASSUME NEW h \in setup.batch
        PROVE  ex'[h] = ex[h] \/ ex'[h] \notin {"idle", "dropped"}
    BY <1>1, <1>2, Programs DEF IInv, TypeOK
  <2>2. g \notin setup.batch => \A h \in setup.batch : ex'[h] = ex[h]
    BY <1>1, Programs DEF IInv, TypeOK
  <2> QED
    BY <1>1, <2>1, <2>2 DEF IInv, BatchInStep
<1> QED
  BY <1>3, <1>4, <1>5, <1>6, <1>7 DEF IInv, CallsInStep

LEMMA ExecuteStep ==
    ASSUME IInv, NEW g \in Gids, Execute(g)
    PROVE  IInv'
<1>1. g \in setup.gids /\ g \notin setup.batch /\ rs = "idle"
  BY DEF Execute, Admitting
<1>2. Peers(g) \subseteq coord.gadgets
  <2>1. Peers(g) \subseteq Gids
    BY <1>1, Programs DEF IInv, TypeOK
  <2>2. \A h \in Peers(g) : ex[h] = "done"
    BY DEF Execute
  <2> QED
    BY <2>1, <2>2 DEF IInv, CallsInStep, CallInStep
<1> QED
  BY <1>1, <1>2, StartStep DEF Execute

\* The peers of the batch are done, the others were when it began.
LEMMA BatchTaskStep ==
    ASSUME IInv, NEW g \in Gids, BatchTask(g)
    PROVE  IInv'
<1>1. g \in setup.batch /\ ex[g] = "waiting" /\ Start(g, "waiting")
  BY DEF BatchTask, Start
<1>2. /\ g \in setup.gids
      /\ setup.gtype[g] \in setup.late => ld = "done"
      /\ Peers(g) \ setup.batch \subseteq coord.gadgets
      /\ Peers(g) \subseteq Gids
  BY <1>1, Programs DEF IInv, TypeOK, CallsInStep, CallInStep, Running
<1>3. Peers(g) \subseteq coord.gadgets
  <2>1. \A h \in Peers(g) \cap setup.batch : ex[h] = "done"
    BY DEF BatchTask, DependenciesDone
  <2> QED
    BY <1>2, <2>1 DEF IInv, CallsInStep, CallInStep
<1>4. rs # "coordinator"
  BY <1>1 DEF IInv, Quiet
<1>5. batch # "answered"
  BY <1>1 DEF IInv, BatchInStep
<1> QED
  BY <1>1, <1>2, <1>3, <1>4, <1>5, StartStep

-----------------------------------------------------------------------------
(* What the calls and the error-model tasks send.                          *)

\* A call moves on, away from where it is.
LEMMA ExMoves ==
    ASSUME IInv, NEW g \in Gids, UNCHANGED <<setup, batch>>, ex[g] \in Running,
           NEW v \in {"sent", "typed", "done", "panicked"}, ex' = [ex EXCEPT ![g] = v]
    PROVE  /\ ex' \in [Gids -> Running \cup {"idle", "done", "cancelled", "panicked", "dropped"}]
           /\ ex'[g] = v /\ \A h \in Gids \ {g} : ex'[h] = ex[h]
           /\ g \in setup.gids /\ rs # "coordinator"
           /\ BatchInStep'
<1>1. /\ ex' \in [Gids -> Running \cup {"idle", "done", "cancelled", "panicked", "dropped"}]
      /\ ex'[g] = v /\ \A h \in Gids \ {g} : ex'[h] = ex[h]
  BY DEF IInv, TypeOK, Running
<1>2. g \in setup.gids /\ rs # "coordinator"
  BY DEF IInv, CallsInStep, CallInStep, Running, Quiet
<1>3. setup.batch \subseteq Gids
  BY Programs DEF IInv, TypeOK
<1>4. batch = "answered" => g \notin setup.batch
  BY DEF IInv, BatchInStep, Running
<1>5. BatchInStep'
  BY <1>1, <1>3, <1>4 DEF IInv, BatchInStep
<1> QED
  BY <1>1, <1>2, <1>5

LEMMA SendGadgetStep ==
    ASSUME IInv, NEW g \in Gids, SendGadget(g)
    PROVE  IInv'
<1> USE DEF types, compiler, history
<1>1. /\ UNCHANGED <<setup, known, undecoded, token, flags, shut, failed, broken, em, dc,
                     batch, ld, registered, terminal, rs, resets, ctypes, etypes, next>>
      /\ ex[g] = "compiled"
      /\ \/ /\ ex' = [ex EXCEPT ![g] = "sent"]
            /\ coord' = [coord EXCEPT !.gadgets = @ \cup {g}]
         \/ /\ ex' = [ex EXCEPT ![g] = "panicked"] /\ UNCHANGED coord
            /\ setup.gtype[g] \notin coord.library
  BY DEF SendGadget
<1>2. /\ ex' \in [Gids -> Running \cup {"idle", "done", "cancelled", "panicked", "dropped"}]
      /\ \A h \in Gids \ {g} : ex'[h] = ex[h]
      /\ g \in setup.gids /\ rs # "coordinator"
      /\ BatchInStep'
  BY <1>1, ExMoves DEF Running
<1>3. Peers(g) \subseteq coord.gadgets
  BY <1>1 DEF IInv, CallsInStep, CallInStep
<1>4. /\ coord'.library = coord.library /\ coord'.ctypes = coord.ctypes
      /\ coord'.etypes = coord.etypes /\ coord'.models = coord.models
      /\ coord'.gadgets = coord.gadgets \cup {g} \/ coord'.gadgets = coord.gadgets
      /\ Shapes'
  <2>1. coord' = [coord EXCEPT !.gadgets = @ \cup {g}] \/ coord' = coord
    BY <1>1
  <2> QED
    BY <1>1, <2>1 DEF IInv, Shapes
<1>5. TypeOK'
  BY <1>1, <1>2 DEF IInv, TypeOK
<1>6. LibraryInStep' /\ IdsInStep' /\ TokenForCause'
  BY <1>1, <1>4, LibraryFrame, IdsFrame, TokenFrame DEF IInv
<1>7. Quiet'
  BY <1>1, <1>2 DEF Quiet
<1>8. PeersFirst'
  BY <1>1, <1>3, <1>4, PeersFixed DEF IInv, PeersFirst
<1>9. ASSUME ex'[g] = "panicked", ~broken
      PROVE  FALSE
  <2>1. setup.gtype[g] \notin coord.library
    BY <1>1, <1>9 DEF IInv, TypeOK
  <2>2. setup.gtype[g] \in setup.late => ld = "done"
    BY <1>1 DEF IInv, CallsInStep, CallInStep, Running
  <2>3. coord.library = IF ld = "registered" THEN Initial ELSE registered
    BY <1>2, <1>9 DEF IInv, LibraryInStep
  <2>4. setup.gtype[g] \in registered
    BY <1>2, <1>9, <2>2, TerminalThere DEF IInv, TypeOK
  <2> QED
    BY <2>1, <2>2, <2>3, <2>4 DEF IInv, LibraryInStep
<1>10. ASSUME NEW h \in Gids
       PROVE  CallInStep(h)'
  <2>1. CASE h # g
    BY <1>1, <1>2, <1>4, <2>1, CallFrame DEF IInv, CallsInStep
  <2>2. CASE h = g
    <3>1. Peers(g)' = Peers(g)
      BY <1>1, PeersFixed
    <3>2. \/ ex'[g] = "sent" /\ coord'.gadgets = coord.gadgets \cup {g}
          \/ ex'[g] = "panicked" /\ broken
      BY <1>1, <1>9 DEF IInv, TypeOK, Shapes
    <3>3. setup.gtype[g] \in setup.late => ld = "done"
      BY <1>1 DEF IInv, CallsInStep, CallInStep, Running
    <3> QED
      BY <1>1, <1>2, <1>3, <2>2, <3>1, <3>2, <3>3 DEF CallInStep, Running
  <2> QED
    BY <2>1, <2>2
<1> QED
  BY <1>2, <1>4, <1>5, <1>6, <1>7, <1>8, <1>10 DEF IInv, CallsInStep

\* The next number is a new id.
LEMMA NewId ==
    ASSUME NEW entries, NEW cache, NEW n \in Nat, NEW key,
           Below(entries, n), Unique(entries), Cache(cache, entries)
    PROVE  /\ Below(entries \cup {<<n, key>>}, n + 1)
           /\ Unique(entries \cup {<<n, key>>})
           /\ Cache(cache, entries \cup {<<n, key>>})
           /\ Cache(cache \cup {<<key, n>>}, entries \cup {<<n, key>>})
<1>1. \A x \in entries : x[1] \in Nat /\ x[1] < n /\ x[1] < n + 1 /\ x[1] # n
  BY DEF Below
<1>2. <<n, key>>[1] = n /\ n < n + 1
  OBVIOUS
<1>3. Below(entries \cup {<<n, key>>}, n + 1)
  BY <1>1, <1>2 DEF Below
<1>4. Unique(entries \cup {<<n, key>>})
  BY <1>1, <1>2 DEF Unique
<1>5. /\ Cache(cache, entries \cup {<<n, key>>})
      /\ Cache(cache \cup {<<key, n>>}, entries \cup {<<n, key>>})
  BY DEF Cache
<1> QED
  BY <1>3, <1>4, <1>5

LEMMA CacheBelow ==
    ASSUME NEW entries, NEW cache, NEW n, Below(entries, n), Cache(cache, entries)
    PROVE  \A c \in cache : c[2] < n
BY DEF Cache, Below

LEMMA GetOrLoadCtypeStep ==
    ASSUME IInv, NEW g \in Gids, GetOrLoadCtype(g)
    PROVE  IInv'
<1> USE DEF types, compiler, history
<1>1. /\ UNCHANGED <<setup, known, undecoded, token, flags, shut, failed, broken, em, dc,
                     batch, ld, registered, terminal, rs, resets, etypes>>
      /\ ex[g] = "sent" /\ ex' = [ex EXCEPT ![g] = "typed"]
      /\ \/ UNCHANGED <<ctypes, next, coord>>
         \/ \E key :
               /\ next' = [next EXCEPT !.ctype = @ + 1]
               /\ coord' = [coord EXCEPT !.ctypes = @ \cup {<<next.ctype, key>>}]
               /\ ctypes' \in {ctypes, ctypes \cup {<<key, next.ctype>>}}
  BY DEF GetOrLoadCtype
<1>2. /\ ex' \in [Gids -> Running \cup {"idle", "done", "cancelled", "panicked", "dropped"}]
      /\ ex'[g] = "typed" /\ \A h \in Gids \ {g} : ex'[h] = ex[h]
      /\ g \in setup.gids /\ rs # "coordinator"
      /\ BatchInStep'
  BY <1>1, ExMoves DEF Running
<1>3. /\ coord'.library = coord.library /\ coord'.gadgets = coord.gadgets
      /\ coord'.etypes = coord.etypes /\ coord'.models = coord.models
      /\ next'.etype = next.etype
      /\ Shapes'
  BY <1>1 DEF IInv, Shapes
<1>4. IdsInStep'
  <2>1. CASE UNCHANGED <<ctypes, next, coord>>
    BY <1>1, <2>1, IdsFrame DEF IInv
  <2>2. CASE \E key :
               /\ next' = [next EXCEPT !.ctype = @ + 1]
               /\ coord' = [coord EXCEPT !.ctypes = @ \cup {<<next.ctype, key>>}]
               /\ ctypes' \in {ctypes, ctypes \cup {<<key, next.ctype>>}}
    <3>1. PICK key :
               /\ next' = [next EXCEPT !.ctype = @ + 1]
               /\ coord' = [coord EXCEPT !.ctypes = @ \cup {<<next.ctype, key>>}]
               /\ ctypes' \in {ctypes, ctypes \cup {<<key, next.ctype>>}}
      BY <2>2
    <3>2. /\ next.ctype \in Nat /\ next'.ctype = next.ctype + 1
          /\ coord'.ctypes = coord.ctypes \cup {<<next.ctype, key>>}
      BY <3>1 DEF IInv, Shapes
    <3>3. /\ Below(coord'.ctypes, next'.ctype) /\ Unique(coord'.ctypes)
          /\ Cache(ctypes', coord'.ctypes)
      <4>1. /\ Below(coord.ctypes, next.ctype) /\ Unique(coord.ctypes)
            /\ Cache(ctypes, coord.ctypes)
        BY DEF IInv, IdsInStep
      <4>2. /\ Below(coord.ctypes \cup {<<next.ctype, key>>}, next.ctype + 1)
            /\ Unique(coord.ctypes \cup {<<next.ctype, key>>})
            /\ Cache(ctypes, coord.ctypes \cup {<<next.ctype, key>>})
            /\ Cache(ctypes \cup {<<key, next.ctype>>}, coord.ctypes \cup {<<next.ctype, key>>})
        BY <3>2, <4>1, NewId
      <4>3. Below(coord'.ctypes, next'.ctype) /\ Unique(coord'.ctypes)
        BY <3>2, <4>2
      <4>4. Cache(ctypes', coord'.ctypes)
        BY <3>1, <3>2, <4>2
      <4> QED
        BY <4>3, <4>4
    <3>4. Cache(etypes, coord'.etypes) /\ Below(coord'.etypes, next'.etype)
          /\ Unique(coord'.etypes)
      BY <1>3 DEF IInv, IdsInStep
    <3>5. Reserved'
      BY <1>1, <1>3 DEF IInv, IdsInStep, Reserved
    <3> QED
      BY <1>1, <3>3, <3>4, <3>5 DEF IdsInStep, Cache, Below, Unique
  <2> QED
    BY <1>1, <2>1, <2>2
<1>5. TypeOK'
  <2>1. (\A c \in ctypes' : c[2] < next'.ctype) /\ (\A c \in etypes' : c[2] < next'.etype)
    BY <1>4, CacheBelow DEF IdsInStep, Cache, Below
  <2> QED
    BY <1>1, <1>2, <2>1 DEF IInv, TypeOK
<1>6. LibraryInStep' /\ TokenForCause' /\ PeersFirst'
  BY <1>1, <1>3, LibraryFrame, TokenFrame, PeersFrame DEF IInv
<1>7. Quiet'
  BY <1>1, <1>2 DEF Quiet
<1>8. ASSUME NEW h \in Gids
      PROVE  CallInStep(h)'
  <2>1. CASE h # g
    BY <1>1, <1>2, <1>3, <2>1, CallFrame DEF IInv, CallsInStep
  <2>2. CASE h = g
    BY <1>1, <1>2, <1>3, <2>2, PeersFixed DEF IInv, CallsInStep, CallInStep, Running
  <2> QED
    BY <2>1, <2>2
<1> QED
  BY <1>2, <1>3, <1>4, <1>5, <1>6, <1>7, <1>8 DEF IInv, CallsInStep

LEMMA SendCheckModelStep ==
    ASSUME IInv, NEW g \in Gids, SendCheckModel(g)
    PROVE  IInv'
<1> USE DEF types, compiler, history
<1>1. /\ UNCHANGED <<setup, known, undecoded, token, flags, shut, failed, broken, dc,
                     batch, ld, registered, terminal, rs, resets, ctypes, etypes, next>>
      /\ ex[g] = "typed" /\ ex' = [ex EXCEPT ![g] = "done"]
      /\ em' = [em EXCEPT ![g] = "resolving"]
      /\ coord' = [coord EXCEPT !.models = @ \cup {[gid |-> g, type |-> built.check[g].id,
                                                    remote |-> built.check[g].remote]}]
  BY DEF SendCheckModel
<1>2. /\ ex' \in [Gids -> Running \cup {"idle", "done", "cancelled", "panicked", "dropped"}]
      /\ ex'[g] = "done" /\ \A h \in Gids \ {g} : ex'[h] = ex[h]
      /\ g \in setup.gids /\ rs # "coordinator"
      /\ BatchInStep'
  BY <1>1, ExMoves DEF Running
<1>3. /\ coord'.library = coord.library /\ coord'.gadgets = coord.gadgets
      /\ coord'.etypes = coord.etypes /\ coord'.ctypes = coord.ctypes
      /\ coord'.models = coord.models \cup {[gid |-> g, type |-> built.check[g].id,
                                             remote |-> built.check[g].remote]}
      /\ Shapes'
  BY <1>1 DEF IInv, Shapes
<1>4. TypeOK'
  BY <1>1, <1>2 DEF IInv, TypeOK
<1>5. LibraryInStep' /\ IdsInStep' /\ TokenForCause' /\ PeersFirst'
  BY <1>1, <1>3, LibraryFrame, IdsFrame, TokenFrame, PeersFrame DEF IInv
<1>6. Quiet'
  BY <1>1, <1>2 DEF Quiet
<1>7. ASSUME NEW h \in Gids
      PROVE  CallInStep(h)'
  <2>1. CASE h # g
    BY <1>1, <1>2, <1>3, <2>1, CallFrame DEF IInv, CallsInStep
  <2>2. CASE h = g
    <3>1. \E x \in coord'.models : x.gid = g
      <4>1. [gid |-> g, type |-> built.check[g].id, remote |-> built.check[g].remote]
               \in coord'.models
        BY <1>3
      <4> QED
        BY <4>1
    <3> QED
      BY <1>1, <1>2, <1>3, <2>2, <3>1, PeersFixed
         DEF IInv, CallsInStep, CallInStep, Running
  <2> QED
    BY <2>1, <2>2
<1> QED
  BY <1>2, <1>3, <1>4, <1>5, <1>6, <1>7 DEF IInv, CallsInStep

LEMMA GetOrLoadEtypeStep ==
    ASSUME IInv, NEW g \in Gids, GetOrLoadEtype(g)
    PROVE  IInv'
<1> USE DEF types, compiler, history
<1>1. /\ UNCHANGED <<setup, known, undecoded, token, flags, shut, failed, broken, ex, dc,
                     batch, ld, registered, terminal, rs, resets, ctypes>>
      /\ em[g] = "resolved" /\ em' = [em EXCEPT ![g] = "typed"]
      /\ \/ UNCHANGED <<etypes, next, coord>>
         \/ \E key :
               /\ next' = [next EXCEPT !.etype = @ + 1]
               /\ coord' = [coord EXCEPT !.etypes = @ \cup {<<next.etype, key>>}]
               /\ etypes' \in {etypes, etypes \cup {<<key, next.etype>>}}
  BY DEF GetOrLoadEtype
<1>2. /\ coord'.library = coord.library /\ coord'.gadgets = coord.gadgets
      /\ coord'.ctypes = coord.ctypes /\ coord'.models = coord.models
      /\ next'.ctype = next.ctype
      /\ Shapes'
  BY <1>1 DEF IInv, Shapes
<1>r. rs # "coordinator"
  BY <1>1 DEF IInv, Quiet
<1>3. CASE UNCHANGED <<etypes, next, coord>>
  <2>1. TypeOK'
    BY <1>1, <1>3 DEF IInv, TypeOK
  <2> QED
    BY <1>1, <1>r, <1>3, <2>1, Frame DEF core
<1>4. CASE \E key :
               /\ next' = [next EXCEPT !.etype = @ + 1]
               /\ coord' = [coord EXCEPT !.etypes = @ \cup {<<next.etype, key>>}]
               /\ etypes' \in {etypes, etypes \cup {<<key, next.etype>>}}
  <2>1. PICK key :
               /\ next' = [next EXCEPT !.etype = @ + 1]
               /\ coord' = [coord EXCEPT !.etypes = @ \cup {<<next.etype, key>>}]
               /\ etypes' \in {etypes, etypes \cup {<<key, next.etype>>}}
    BY <1>4
  <2>2. /\ next.etype \in Nat /\ next'.etype = next.etype + 1
        /\ coord'.etypes = coord.etypes \cup {<<next.etype, key>>}
    BY <2>1 DEF IInv, Shapes
  <2>3. /\ Below(coord'.etypes, next'.etype) /\ Unique(coord'.etypes)
        /\ Cache(etypes', coord'.etypes)
    <3>1. /\ Below(coord.etypes, next.etype) /\ Unique(coord.etypes)
          /\ Cache(etypes, coord.etypes)
      BY DEF IInv, IdsInStep
    <3>2. /\ Below(coord.etypes \cup {<<next.etype, key>>}, next.etype + 1)
          /\ Unique(coord.etypes \cup {<<next.etype, key>>})
          /\ Cache(etypes, coord.etypes \cup {<<next.etype, key>>})
          /\ Cache(etypes \cup {<<key, next.etype>>}, coord.etypes \cup {<<next.etype, key>>})
      BY <2>2, <3>1, NewId
    <3>3. Below(coord'.etypes, next'.etype) /\ Unique(coord'.etypes)
      BY <2>2, <3>2
    <3>4. Cache(etypes', coord'.etypes)
      BY <2>1, <2>2, <3>2
    <3> QED
      BY <3>3, <3>4
  <2>4. /\ Cache(ctypes, coord'.ctypes) /\ Below(coord'.ctypes, next'.ctype)
        /\ Unique(coord'.ctypes)
    BY <1>2 DEF IInv, IdsInStep
  <2>5. Reserved'
    <3>1. ASSUME ld = "registered"
          PROVE  /\ \A t \in setup.late : terminal[t] \in Nat /\ terminal[t] < next.etype
                 /\ \A t, u \in setup.late : terminal[t] = terminal[u] => t = u
                 /\ \A t \in setup.late : \A x \in coord.etypes : x[1] # terminal[t]
      BY <3>1 DEF IInv, IdsInStep, Reserved
    <3>2. ASSUME ld = "registered"
          PROVE  \A t \in setup.late : terminal[t] < next'.etype /\ terminal[t] # next.etype
      BY <2>2, <3>1, <3>2
    <3>3. ASSUME ld = "registered", NEW t \in setup.late, NEW x \in coord'.etypes
          PROVE  x[1] # terminal[t]
      <4>1. x \in coord.etypes \/ x[1] = next.etype
        BY <2>2
      <4> QED
        BY <3>1, <3>2, <3>3, <4>1
    <3> QED
      BY <1>1, <3>1, <3>2, <3>3 DEF Reserved
  <2>6. IdsInStep'
    BY <1>1, <2>3, <2>4, <2>5 DEF IdsInStep, Cache, Below, Unique
  <2>7. TypeOK'
    <3>1. (\A c \in ctypes' : c[2] < next'.ctype) /\ (\A c \in etypes' : c[2] < next'.etype)
      BY <2>6, CacheBelow DEF IdsInStep, Cache, Below
    <3> QED
      BY <1>1, <3>1 DEF IInv, TypeOK
  <2>8. LibraryInStep' /\ TokenForCause' /\ PeersFirst' /\ BatchInStep'
    BY <1>1, <1>2, LibraryFrame, TokenFrame, PeersFrame, BatchFrame DEF IInv
  <2>9. Quiet'
    BY <1>1, <1>r DEF Quiet
  <2>10. CallsInStep'
    BY <1>1, <1>2, CallFrame DEF IInv, CallsInStep
  <2> QED
    BY <1>2, <2>6, <2>7, <2>8, <2>9, <2>10 DEF IInv
<1> QED
  BY <1>1, <1>3, <1>4

LEMMA SendErrorModelStep ==
    ASSUME IInv, NEW g \in Gids, SendErrorModel(g)
    PROVE  IInv'
<1> USE DEF types, compiler, history
<1>1. /\ UNCHANGED <<setup, known, undecoded, token, flags, shut, failed, broken, ex, dc,
                     batch, ld, registered, terminal, rs, resets, ctypes, etypes, next>>
      /\ em[g] = "typed" /\ em' = [em EXCEPT ![g] = "done"]
      /\ coord' = [coord EXCEPT !.errors = @ \cup {[gid |-> g, type |-> built.error[g].id,
                                                    remote |-> built.error[g].remote]}]
  BY DEF SendErrorModel
<1>2. /\ coord'.library = coord.library /\ coord'.gadgets = coord.gadgets
      /\ coord'.ctypes = coord.ctypes /\ coord'.models = coord.models
      /\ coord'.etypes = coord.etypes
      /\ Shapes'
  BY <1>1 DEF IInv, Shapes
<1>3. rs # "coordinator"
  BY <1>1 DEF IInv, Quiet
<1>4. TypeOK'
  BY <1>1 DEF IInv, TypeOK
<1>5. LibraryInStep' /\ IdsInStep' /\ TokenForCause' /\ PeersFirst' /\ BatchInStep'
  BY <1>1, <1>2, LibraryFrame, IdsFrame, TokenFrame, PeersFrame, BatchFrame DEF IInv
<1>6. Quiet'
  BY <1>1, <1>3 DEF Quiet
<1>7. CallsInStep'
  BY <1>1, <1>2, CallFrame DEF IInv, CallsInStep
<1> QED
  BY <1>2, <1>4, <1>5, <1>6, <1>7 DEF IInv

-----------------------------------------------------------------------------
(* The library.                                                            *)

LEMMA RegisterLibraryStep ==
    ASSUME IInv, RegisterLibrary
    PROVE  IInv'
<1> USE DEF types, compiler, history
<1>1. /\ UNCHANGED <<setup, known, ctypes, etypes, undecoded, token, ex, batch, em, dc, rs,
                     flags, resets, shut, failed, broken, coord>>
      /\ rs = "idle" /\ ld \in {"idle", "failed"}
  BY DEF RegisterLibrary, Admitting
<1>p. setup.late \subseteq DOMAIN Types
  BY Programs DEF IInv, TypeOK
<1>2. /\ PeersFirst' /\ BatchInStep' /\ Quiet'
      /\ TokenForCause'
  BY <1>1, PeersFrame, BatchFrame, TokenFrame DEF IInv, Quiet
<1>3. CallsInStep'
  <2>1. SUFFICES ASSUME NEW g \in Gids PROVE CallInStep(g)'
    BY DEF CallsInStep
  <2>2. CallInStep(g) /\ ~(ex[g] \in Running /\ setup.gtype[g] \in setup.late)
    BY <1>1 DEF IInv, CallsInStep, CallInStep
  <2> QED
    BY <1>1, <2>2, PeersFixed DEF CallInStep
<1>4. CASE ld' = "panicked"
  <2>1. setup.late \cap registered # {} /\ UNCHANGED <<registered, terminal, next>>
    BY <1>4 DEF RegisterLibrary
  <2>2. broken
    BY <1>1, <2>1 DEF IInv, LibraryInStep, Initial
  <2>3. TypeOK' /\ Shapes'
    BY <1>1, <1>4, <2>1 DEF IInv, TypeOK, Shapes
  <2>4. LibraryInStep' /\ IdsInStep'
    BY <1>1, <1>4, <2>1, <2>2
       DEF IInv, LibraryInStep, IdsInStep, Cache, Below, Unique, Reserved
  <2> QED
    BY <1>2, <1>3, <2>3, <2>4 DEF IInv
<1>5. CASE ld' = "registered"
  <2>1. /\ setup.late \cap registered = {}
        /\ registered' = registered \cup setup.late
        /\ terminal' = [t \in DOMAIN terminal \cup setup.late |->
                IF t \in setup.late THEN TerminalTypes(setup.late, next.etype)[t]
                                    ELSE terminal[t]]
        /\ next' = [next EXCEPT !.etype = @ + Cardinality(setup.late)]
    BY <1>5 DEF RegisterLibrary
  <2>2. next.etype \in Nat /\ next.ctype \in Nat
    BY DEF IInv, Shapes
  <2>3. /\ Cardinality(setup.late) \in Nat
        /\ \A t \in setup.late : /\ TerminalTypes(setup.late, next.etype)[t] \in Nat
                           /\ next.etype <= TerminalTypes(setup.late, next.etype)[t]
                           /\ TerminalTypes(setup.late, next.etype)[t]
                                 < next.etype + Cardinality(setup.late)
        /\ \A t, u \in setup.late :
              TerminalTypes(setup.late, next.etype)[t]
                 = TerminalTypes(setup.late, next.etype)[u] => t = u
    BY <1>p, <2>2, TerminalIds
  <2>4. /\ next'.etype = next.etype + Cardinality(setup.late) /\ next'.ctype = next.ctype
        /\ next' \in [ctype : Nat, etype : Nat]
    BY <2>1, <2>2, <2>3 DEF IInv, Shapes
  <2>5. /\ DOMAIN terminal' = DOMAIN terminal \cup setup.late
        /\ \A t \in setup.late : terminal'[t] = TerminalTypes(setup.late, next.etype)[t]
    BY <2>1
  <2>6. /\ Below(coord.etypes, next.etype) /\ Cache(etypes, coord.etypes)
        /\ Below(coord.ctypes, next.ctype) /\ Cache(ctypes, coord.ctypes)
        /\ Unique(coord.ctypes) /\ Unique(coord.etypes)
    BY DEF IInv, IdsInStep
  <2>7. Below(coord.etypes, next'.etype)
    BY <2>2, <2>3, <2>4, <2>6 DEF Below
  <2>8. Reserved'
    <3>1. ASSUME NEW t \in setup.late
          PROVE  terminal'[t] \in Nat /\ terminal'[t] < next'.etype
      BY <2>3, <2>4, <2>5
    <3>2. ASSUME NEW t \in setup.late, NEW x \in coord.etypes
          PROVE  x[1] # terminal'[t]
      <4>1. x[1] \in Nat /\ x[1] < next.etype
        BY <2>6 DEF Below
      <4>2. next.etype <= terminal'[t] /\ terminal'[t] \in Nat
        BY <2>3, <2>5
      <4> QED
        BY <2>2, <4>1, <4>2
    <3>3. ASSUME NEW t \in setup.late, NEW u \in setup.late, terminal'[t] = terminal'[u]
          PROVE  t = u
      BY <2>3, <2>5, <3>3
    <3> QED
      BY <1>1, <3>1, <3>2, <3>3 DEF Reserved
  <2>9. IdsInStep'
    BY <1>1, <2>4, <2>6, <2>7, <2>8 DEF IdsInStep, Cache, Below, Unique
  <2>10. TypeOK'
    <3>1. (\A c \in ctypes' : c[2] < next'.ctype) /\ (\A c \in etypes' : c[2] < next'.etype)
      BY <2>9, CacheBelow DEF IdsInStep, Cache, Below
    <3>2. registered' \subseteq DOMAIN Types /\ DOMAIN terminal' \subseteq registered'
      BY <1>p, <2>1, <2>5 DEF IInv, TypeOK
    <3> QED
      BY <1>1, <1>5, <3>1, <3>2 DEF IInv, TypeOK
  <2>11. LibraryInStep'
    <3>1. registered' = Initial \cup setup.late
      <4>1. CASE ld = "idle"
        BY <2>1, <4>1 DEF IInv, LibraryInStep
      <4>2. CASE ld = "failed"
        BY <2>1, <4>2 DEF IInv, LibraryInStep
      <4> QED
        BY <1>1, <4>1, <4>2
    <3> QED
      BY <1>1, <1>5, <2>1, <2>5, <3>1 DEF IInv, LibraryInStep, Initial
  <2>12. Shapes'
    BY <1>1, <2>4 DEF IInv, Shapes
  <2> QED
    BY <1>2, <1>3, <2>9, <2>10, <2>11, <2>12 DEF IInv
<1> QED
  BY <1>4, <1>5 DEF RegisterLibrary

LEMMA SendLibraryStep ==
    ASSUME IInv, SendLibrary
    PROVE  IInv'
<1> USE DEF types, compiler, history
<1> DEFINE New == {<<terminal[t], TerminalErrorModelType(Types[t])>> : t \in setup.late}
<1>1. /\ UNCHANGED <<setup, known, registered, terminal, next, ctypes, etypes, undecoded,
                     token, ex, batch, em, dc, rs, flags, resets, shut, failed, broken>>
      /\ ld = "registered" /\ ld' = "done"
      /\ coord' = [coord EXCEPT !.library = @ \cup setup.late, !.etypes = @ \cup New]
  BY DEF SendLibrary
<1>2. rs # "coordinator"
  BY <1>1 DEF IInv, Quiet
<1>3. /\ coord'.library = coord.library \cup setup.late
      /\ coord'.etypes = coord.etypes \cup New
      /\ coord'.ctypes = coord.ctypes /\ coord'.gadgets = coord.gadgets
      /\ coord'.models = coord.models
      /\ Shapes'
  <2> HIDE DEF New
  <2> QED
    BY <1>1 DEF IInv, Shapes
<1>4. /\ PeersFirst' /\ BatchInStep' /\ Quiet' /\ TokenForCause'
  BY <1>1, <1>2, <1>3, PeersFrame, BatchFrame, TokenFrame DEF IInv, Quiet
<1>5. CallsInStep'
  <2>1. SUFFICES ASSUME NEW g \in Gids PROVE CallInStep(g)'
    BY DEF CallsInStep
  <2>2. CallInStep(g) /\ Peers(g)' = Peers(g)
    BY <1>1, PeersFixed DEF IInv, CallsInStep
  <2> QED
    BY <1>1, <1>3, <2>2 DEF CallInStep
<1>6. LibraryInStep'
  BY <1>1, <1>2, <1>3 DEF IInv, LibraryInStep, Initial
<1>7. IdsInStep'
  <2>1. /\ \A t \in setup.late : terminal[t] \in Nat /\ terminal[t] < next.etype
        /\ \A t, u \in setup.late : terminal[t] = terminal[u] => t = u
        /\ \A t \in setup.late : \A x \in coord.etypes : x[1] # terminal[t]
    BY <1>1 DEF IInv, IdsInStep, Reserved
  <2>2. \A x \in New : \E t \in setup.late :
            x = <<terminal[t], TerminalErrorModelType(Types[t])>>
    OBVIOUS
  <2>3. /\ Below(coord.etypes, next.etype) /\ Cache(etypes, coord.etypes)
        /\ Below(coord.ctypes, next.ctype) /\ Cache(ctypes, coord.ctypes)
        /\ Unique(coord.ctypes) /\ Unique(coord.etypes)
    BY DEF IInv, IdsInStep
  <2> HIDE DEF New
  <2>4. Below(coord'.etypes, next.etype)
    <3>1. \A x \in New : x[1] \in Nat /\ x[1] < next.etype
      BY <2>1, <2>2
    <3> QED
      BY <1>3, <2>3, <3>1 DEF Below
  <2>5. Cache(etypes, coord'.etypes)
    BY <1>3, <2>3 DEF Cache
  <2>6. Unique(coord'.etypes)
    <3>1. ASSUME NEW x \in New, NEW y \in New, x[1] = y[1]
          PROVE  x = y
      <4>1. PICK t \in setup.late : x = <<terminal[t], TerminalErrorModelType(Types[t])>>
        BY <2>2
      <4>2. PICK u \in setup.late : y = <<terminal[u], TerminalErrorModelType(Types[u])>>
        BY <2>2
      <4>3. t = u
        BY <2>1, <3>1, <4>1, <4>2
      <4> QED
        BY <4>1, <4>2, <4>3
    <3>2. \A x \in New, y \in coord.etypes : x[1] # y[1]
      BY <2>1, <2>2
    <3> QED
      BY <1>3, <2>3, <3>1, <3>2 DEF Unique
  <2> QED
    BY <1>1, <1>3, <2>3, <2>4, <2>5, <2>6 DEF IdsInStep, Cache, Below, Unique, Reserved
<1>8. TypeOK'
  BY <1>1 DEF IInv, TypeOK
<1> QED
  BY <1>3, <1>4, <1>5, <1>6, <1>7, <1>8 DEF IInv

LEMMA SendLibraryFailsStep ==
    ASSUME IInv, SendLibraryFails
    PROVE  IInv'
<1> USE DEF types, compiler, history
<1>1. /\ UNCHANGED <<setup, known, registered, terminal, next, ctypes, etypes, undecoded,
                     token, ex, batch, em, dc, rs, flags, resets, shut, failed, coord>>
      /\ ld = "registered" /\ ld' = "failed" /\ broken' = TRUE
  BY DEF SendLibraryFails
<1>2. /\ PeersFirst' /\ BatchInStep' /\ TokenForCause'
  BY <1>1, PeersFrame, BatchFrame, TokenFrame DEF IInv
<1>3. Quiet' /\ LibraryInStep'
  BY <1>1 DEF IInv, Quiet, LibraryInStep, Initial
<1>4. CallsInStep'
  <2>1. SUFFICES ASSUME NEW g \in Gids PROVE CallInStep(g)'
    BY DEF CallsInStep
  <2>2. CallInStep(g) /\ Peers(g)' = Peers(g)
    BY <1>1, PeersFixed DEF IInv, CallsInStep
  <2> QED
    BY <1>1, <2>2 DEF CallInStep
<1>5. IdsInStep'
  BY <1>1 DEF IInv, IdsInStep, Cache, Below, Unique, Reserved
<1>6. TypeOK' /\ Shapes'
  BY <1>1 DEF IInv, TypeOK, Shapes
<1> QED
  BY <1>2, <1>3, <1>4, <1>5, <1>6 DEF IInv

-----------------------------------------------------------------------------
(* Cancelling and resetting.                                               *)

LEMMA CancelSteps ==
    ASSUME IInv, CancelPending \/ BeginReset
    PROVE  IInv'
<1> USE DEF types, compiler, calls, history
<1>1. /\ UNCHANGED <<setup, known, registered, terminal, next, ctypes, etypes, undecoded,
                     ex, batch, em, dc, ld, failed, broken, coord>>
      /\ rs = "idle" /\ rs' \in {"idle", "queued"} /\ token' = TRUE
      /\ flags' \in BOOLEAN /\ shut' \in BOOLEAN /\ resets' \in 0 .. setup.resets
      /\ shut' = TRUE \/ rs' = "queued"
  <2>1. CASE CancelPending
    BY <2>1 DEF CancelPending, Admitting, IInv, TypeOK
  <2>2. CASE BeginReset
    <3>1. resets + 1 \in 0 .. setup.resets
      BY <2>2, Programs DEF BeginReset, IInv, TypeOK
    <3> QED
      BY <2>2, <3>1 DEF BeginReset, IInv, TypeOK
  <2> QED
    BY <2>1, <2>2
<1>2. PeersFirst' /\ BatchInStep' /\ IdsInStep'
  BY <1>1, PeersFrame, BatchFrame, IdsFrame DEF IInv
<1>3. Quiet' /\ TokenForCause'
  BY <1>1 DEF Quiet, TokenForCause
<1>4. LibraryInStep'
  BY <1>1 DEF IInv, LibraryInStep, Initial
<1>5. CallsInStep'
  BY <1>1, CallFrame DEF IInv, CallsInStep
<1>6. TypeOK' /\ Shapes'
  BY <1>1 DEF IInv, TypeOK, Shapes
<1> QED
  BY <1>2, <1>3, <1>4, <1>5, <1>6 DEF IInv

\* The controller's side: nothing goes on when the lock is taken.
LEMMA ResetControllerStep ==
    ASSUME IInv, ResetController
    PROVE  IInv'
<1> USE DEF types, compiler, history
<1>1. /\ UNCHANGED <<setup, next, token, flags, resets, shut, failed, broken, coord>>
      /\ rs = "queued" /\ rs' = "coordinator"
      /\ known' = {} /\ undecoded' = {}
      /\ ex' = All("idle") /\ batch' = "idle" /\ em' = All("idle") /\ dc' = All("idle")
      /\ ld # "registered"
  BY DEF ResetController, ClearUndecoded, Drained, Reading
<1>2. /\ ex' \in [Gids -> {"idle"}] /\ em' \in [Gids -> {"idle"}] /\ dc' \in [Gids -> {"idle"}]
      /\ \A g \in Gids : ex'[g] = "idle" /\ em'[g] = "idle"
  BY <1>1 DEF All
<1>3. \/ /\ flags /\ terminal' = <<>> /\ ctypes' = {} /\ etypes' = {}
         /\ registered' = Initial /\ ld' = "idle"
      \/ ~flags /\ UNCHANGED <<terminal, ctypes, etypes, registered, ld>>
  BY DEF ResetController, ClearTypes
<1>4. /\ Cache(ctypes', coord.ctypes) /\ Cache(etypes', coord.etypes)
      /\ Below(coord.ctypes, next.ctype) /\ Below(coord.etypes, next.etype)
      /\ Unique(coord.ctypes) /\ Unique(coord.etypes)
  BY <1>3 DEF IInv, IdsInStep, Cache
<1>5. IdsInStep'
  BY <1>1, <1>3, <1>4 DEF IdsInStep, Cache, Below, Unique, Reserved
<1>6. TypeOK'
  <2>1. (\A c \in ctypes' : c[2] < next'.ctype) /\ (\A c \in etypes' : c[2] < next'.etype)
    BY <1>5, CacheBelow DEF IdsInStep, Cache, Below
  <2>2. registered' \subseteq DOMAIN Types /\ DOMAIN terminal' \subseteq registered'
    BY <1>3 DEF IInv, TypeOK, Initial
  <2>3. ld' \in {"idle", "registered", "done", "failed", "panicked"}
    BY <1>3 DEF IInv, TypeOK
  <2> QED
    BY <1>1, <1>2, <2>1, <2>2, <2>3 DEF IInv, TypeOK
<1>7. LibraryInStep'
  BY <1>1, <1>3 DEF IInv, LibraryInStep, Initial
<1>8. Quiet'
  BY <1>1, <1>2, <1>3 DEF Quiet, Initial
<1>9. CallsInStep' /\ BatchInStep'
  BY <1>1, <1>2 DEF CallsInStep, CallInStep, BatchInStep, Running
<1>10. TokenForCause' /\ Shapes' /\ PeersFirst'
  BY <1>1, PeersFrame DEF IInv, TokenForCause, Shapes
<1> QED
  BY <1>5, <1>6, <1>7, <1>8, <1>9, <1>10 DEF IInv

\* Calls that are idle are in step with whatever the coordinator has.
LEMMA IdleCalls ==
    ASSUME IInv, rs = "coordinator", UNCHANGED <<setup, ex, batch>>
    PROVE  CallsInStep' /\ BatchInStep'
BY DEF IInv, Quiet, CallsInStep, CallInStep, BatchInStep, Running

\* What Cleared leaves.
LEMMA ClearedCoordinator ==
    ASSUME Shapes
    PROVE  /\ Cleared = [library |-> Cleared.library, ctypes |-> Cleared.ctypes,
                         etypes |-> Cleared.etypes, gadgets |-> {}, models |-> {},
                         errors |-> {}]
           /\ Cleared.library = IF flags THEN {} ELSE coord.library
           /\ Cleared.ctypes = IF flags THEN {} ELSE coord.ctypes
           /\ Cleared.etypes = IF flags THEN {} ELSE coord.etypes
<1> SUFFICES ASSUME NEW c, c = Cleared
             PROVE  /\ c = [library |-> c.library, ctypes |-> c.ctypes, etypes |-> c.etypes,
                            gadgets |-> {}, models |-> {}, errors |-> {}]
                    /\ c.library = IF flags THEN {} ELSE coord.library
                    /\ c.ctypes = IF flags THEN {} ELSE coord.ctypes
                    /\ c.etypes = IF flags THEN {} ELSE coord.etypes
  OBVIOUS
<1>1. c = [library |-> c.library, ctypes |-> c.ctypes, etypes |-> c.etypes,
           gadgets |-> c.gadgets, models |-> c.models, errors |-> c.errors]
  BY DEF Shapes, Cleared
<1>2. /\ c.library = IF flags THEN {} ELSE coord.library
      /\ c.ctypes = IF flags THEN {} ELSE coord.ctypes
      /\ c.etypes = IF flags THEN {} ELSE coord.etypes
      /\ c.gadgets = {} /\ c.models = {} /\ c.errors = {}
  BY DEF Shapes, Cleared
<1> QED
  BY <1>1, <1>2

LEMMA ResetFailsStep ==
    ASSUME IInv, ResetFails
    PROVE  IInv'
<1> USE DEF types, compiler, calls
<1>1. /\ UNCHANGED <<setup, known, registered, terminal, next, ctypes, etypes, undecoded,
                     ex, batch, em, dc, ld, token, resets, shut>>
      /\ rs = "coordinator" /\ rs' = "idle" /\ flags' = FALSE /\ failed' = TRUE
      /\ broken' = (broken \/ flags)
      /\ coord' = coord \/ coord' = Cleared
  BY DEF ResetFails
<1>2. ld # "registered" /\ (flags => ctypes = {} /\ etypes = {})
  BY <1>1 DEF IInv, Quiet
<1>3. /\ Shapes'
      /\ coord'.gadgets \in {coord.gadgets, {}}
      /\ coord'.library = coord.library \/ flags
      /\ coord'.ctypes = coord.ctypes \/ (coord'.ctypes = {} /\ flags)
      /\ coord'.etypes = coord.etypes \/ (coord'.etypes = {} /\ flags)
  <2>1. CASE coord' = coord
    BY <1>1, <2>1 DEF IInv, Shapes
  <2>2. CASE coord' = Cleared
    BY <1>1, <2>2, ClearedCoordinator DEF IInv, Shapes
  <2> QED
    BY <1>1, <2>1, <2>2
<1>4. IdsInStep'
  <2>1. /\ Cache(ctypes, coord'.ctypes) /\ Cache(etypes, coord'.etypes)
        /\ Below(coord'.ctypes, next.ctype) /\ Below(coord'.etypes, next.etype)
        /\ Unique(coord'.ctypes) /\ Unique(coord'.etypes)
    BY <1>2, <1>3 DEF IInv, IdsInStep, Cache, Below, Unique
  <2> QED
    BY <1>1, <1>2, <2>1 DEF IdsInStep, Cache, Below, Unique, Reserved
<1>5. TypeOK'
  BY <1>1 DEF IInv, TypeOK
<1>6. LibraryInStep'
  BY <1>1, <1>3 DEF IInv, LibraryInStep, Initial
<1>7. CallsInStep' /\ BatchInStep'
  BY <1>1, IdleCalls
<1>8. PeersFirst'
  BY <1>1, <1>3, PeersFixed DEF IInv, PeersFirst
<1>9. Quiet' /\ TokenForCause'
  BY <1>1 DEF Quiet, TokenForCause
<1> QED
  BY <1>3, <1>4, <1>5, <1>6, <1>7, <1>8, <1>9 DEF IInv

LEMMA ResetCoordinatorStep ==
    ASSUME IInv, ResetCoordinator
    PROVE  IInv'
<1> USE DEF types, compiler, calls
<1>1. /\ UNCHANGED <<setup, known, registered, ctypes, etypes, undecoded, ex, batch, em, dc,
                     ld, resets>>
      /\ rs = "coordinator" /\ rs' = "idle" /\ flags' = FALSE /\ failed' = FALSE
      /\ shut' = FALSE /\ token' = FALSE
  BY DEF ResetCoordinator, FreshToken
<1>2. /\ ld # "registered"
      /\ flags => ld = "idle" /\ registered = Initial /\ ctypes = {} /\ etypes = {}
  BY <1>1 DEF IInv, Quiet
<1>3. CallsInStep' /\ BatchInStep' /\ Quiet' /\ TokenForCause'
  BY <1>1, IdleCalls DEF Quiet, TokenForCause
<1>4. CASE flags
  <2>1. /\ coord' = [Cleared EXCEPT !.library = Initial,
                                    !.etypes = TerminalEntries(Initial, 1)]
        /\ terminal' = TerminalTypes(Initial, 1)
        /\ next' = [ctype |-> 1, etype |-> 1 + Cardinality(Initial)]
        /\ broken' = FALSE
    BY <1>4 DEF ResetCoordinator, ReloadLibrary
  <2>2. /\ coord'.library = Initial /\ coord'.ctypes = {} /\ coord'.gadgets = {}
        /\ coord'.etypes = TerminalEntries(Initial, 1)
        /\ coord' = [library |-> coord'.library, ctypes |-> coord'.ctypes,
                     etypes |-> coord'.etypes, gadgets |-> coord'.gadgets,
                     models |-> coord'.models, errors |-> coord'.errors]
    <3>1. Cleared = [library |-> {}, ctypes |-> {}, etypes |-> {}, gadgets |-> {},
                     models |-> {}, errors |-> {}]
      BY <1>4, ClearedCoordinator DEF IInv
    <3>2. coord' = [library |-> Initial, ctypes |-> {}, etypes |-> TerminalEntries(Initial, 1),
                    gadgets |-> {}, models |-> {}, errors |-> {}]
      BY <2>1, <3>1
    <3> QED
      BY <3>2
  <2>3. Initial \subseteq DOMAIN Types
    BY DEF Initial
  <2>4. /\ Cardinality(Initial) \in Nat
        /\ DOMAIN terminal' = Initial
        /\ Below(coord'.etypes, next'.etype) /\ Unique(coord'.etypes)
    BY <2>1, <2>2, <2>3, InitialEntries
  <2>5. Shapes'
    BY <2>1, <2>2, <2>4 DEF Shapes
  <2>6. IdsInStep'
    BY <1>1, <1>2, <1>4, <2>2, <2>4 DEF IdsInStep, Cache, Below, Unique, Reserved
  <2>7. TypeOK'
    BY <1>1, <1>2, <1>4, <2>1, <2>4 DEF IInv, TypeOK
  <2>8. LibraryInStep'
    BY <1>1, <1>2, <1>4, <2>2, <2>4 DEF LibraryInStep, Initial
  <2>9. PeersFirst'
    BY <2>2 DEF PeersFirst
  <2> QED
    BY <1>3, <2>5, <2>6, <2>7, <2>8, <2>9 DEF IInv
<1>5. CASE ~flags
  <2>1. coord' = Cleared /\ UNCHANGED <<terminal, next, broken>>
    BY <1>5 DEF ResetCoordinator
  <2>2. /\ coord'.library = coord.library /\ coord'.ctypes = coord.ctypes
        /\ coord'.etypes = coord.etypes /\ coord'.gadgets = {}
        /\ Shapes'
    BY <1>5, <2>1, ClearedCoordinator DEF IInv, Shapes
  <2>3. IdsInStep'
    BY <1>1, <2>1, <2>2, IdsFrame DEF IInv
  <2>4. TypeOK'
    BY <1>1, <2>1 DEF IInv, TypeOK
  <2>5. LibraryInStep'
    BY <1>1, <1>2, <1>5, <2>1, <2>2 DEF IInv, LibraryInStep, Initial
  <2>6. PeersFirst'
    BY <2>2 DEF PeersFirst
  <2> QED
    BY <1>3, <2>2, <2>3, <2>4, <2>5, <2>6 DEF IInv
<1> QED
  BY <1>4, <1>5

-----------------------------------------------------------------------------
(* The invariant.                                                          *)

LEMMA InitialState == Init => IInv
<1> SUFFICES ASSUME Init PROVE IInv
  OBVIOUS
<1> USE DEF Init
<1>1. ex \in [Gids -> {"idle"}] /\ em \in [Gids -> {"idle"}] /\ dc \in [Gids -> {"idle"}]
  BY DEF All
<1>2. Initial \subseteq DOMAIN Types
  BY DEF Initial
<1>3. /\ Cardinality(Initial) \in Nat
      /\ DOMAIN TerminalTypes(Initial, 1) = Initial
      /\ Below(TerminalEntries(Initial, 1), 1 + Cardinality(Initial))
      /\ Unique(TerminalEntries(Initial, 1))
  BY <1>2, InitialEntries
<1>4. TypeOK
  <2>1. setup \in Setups /\ setup.resets \in Nat
    BY Programs
  <2>2. resets \in 0 .. setup.resets
    BY <2>1
  <2>3. registered \subseteq DOMAIN Types /\ DOMAIN terminal \subseteq registered
    BY <1>2, <1>3
  <2> QED
    BY <1>1, <2>1, <2>2, <2>3 DEF TypeOK
<1>5. Shapes
  BY <1>3 DEF Shapes
<1>6. LibraryInStep
  BY <1>3 DEF LibraryInStep
<1>7. IdsInStep
  BY <1>3 DEF IdsInStep, Cache, Below, Unique, Reserved
<1>8. CallsInStep
  BY <1>1 DEF CallsInStep, CallInStep, Running
<1>9. Quiet /\ BatchInStep /\ TokenForCause /\ PeersFirst
  BY DEF Quiet, BatchInStep, TokenForCause, PeersFirst
<1> QED
  BY <1>4, <1>5, <1>6, <1>7, <1>8, <1>9 DEF IInv

LEMMA Inductive == IInv /\ [Next]_vars => IInv'
<1> SUFFICES ASSUME IInv, [Next]_vars PROVE IInv'
  OBVIOUS
<1>1. ASSUME NEW g \in Gids, Client(g) \/ Call(g) \/ ErrorTask(g) \/ Decode(g) \/ DropExecute(g)
      PROVE  IInv'
  <2>1. CASE Client(g)
    BY <2>1, ExecuteStep, DecodeSteps DEF Client
  <2>2. CASE Call(g)
    BY <2>2, BatchTaskStep, CallEndSteps, SendGadgetStep, GetOrLoadCtypeStep,
       SendCheckModelStep DEF Call
  <2>3. CASE ErrorTask(g)
    BY <2>3, ErrorTaskSteps, GetOrLoadEtypeStep, SendErrorModelStep DEF ErrorTask
  <2>4. CASE Decode(g)
    BY <2>4, DecodeSteps DEF Decode
  <2>5. CASE DropExecute(g)
    BY <2>5, CallEndSteps
  <2> QED
    BY <1>1, <2>1, <2>2, <2>3, <2>4, <2>5
<1>2. CASE ClientBatch \/ AnswerBatch \/ BatchRejected \/ DropBatch
  BY <1>2, BeginBatchStep, BatchDecodeStep, BatchSteps DEF ClientBatch
<1>3. CASE RegisterLibrary \/ SendLibrary \/ SendLibraryFails
  BY <1>3, RegisterLibraryStep, SendLibraryStep, SendLibraryFailsStep
<1>4. CASE CancelPending \/ BeginReset \/ Reset
  BY <1>4, CancelSteps, ResetControllerStep, ResetCoordinatorStep, ResetFailsStep DEF Reset
<1>5. CASE UNCHANGED vars
  BY <1>5, Stutter
<1> QED
  BY <1>1, <1>2, <1>3, <1>4, <1>5 DEF Next, Progress, Faults, Finished

THEOREM Invariance == Spec => []IInv
BY InitialState, Inductive, PTL DEF Spec

\* The controller and the coordinator agree: on the types there are and on what an id
\* stands for, also after resets of which a step failed; a gadget arrives after those
\* it is connected to; a batch that is answered with its token alive is complete.
THEOREM StaysInStep == Spec => []InStep
<1>1. IInv => InStep
  <2> SUFFICES ASSUME IInv PROVE InStep
    OBVIOUS
  <2>1. TypesInStep
    <3>1. ~broken /\ rs = "idle" /\ ld # "registered" => DOMAIN terminal = coord.library
      BY DEF IInv, LibraryInStep
    <3> QED
      BY <3>1 DEF IInv, IdsInStep, Cache, Unique, TypesInStep
  <2>2. BatchComplete
    <3>1. setup.batch \subseteq Gids
      BY Programs DEF IInv, TypeOK
    <3> QED
      BY <3>1 DEF IInv, BatchComplete, BatchInStep, CallsInStep, CallInStep
  <2> QED
    BY <2>1, <2>2 DEF IInv, InStep
<1> QED
  BY <1>1, Invariance, PTL

\* A call panics only after a load or a reset of the library has failed, and a token is
\* cancelled only by a reset in progress, by one that failed or by a shutdown.
THEOREM CallsBreakForCause == Spec => []BrokenForCause
<1>1. IInv => BrokenForCause
  BY DEF IInv, BrokenForCause, LibraryInStep, CallsInStep, CallInStep, TokenForCause
<1> QED
  BY <1>1, Invariance, PTL

-----------------------------------------------------------------------------
(* The sequencers.                                                         *)

\* The references of a gadget's checks or errors.
IsReferences(sets) ==
    /\ sets = [i \in DOMAIN sets |-> sets[i]]
    /\ \A i \in DOMAIN sets : sets[i] \subseteq (Nat \ {Local}) \X Nat

\* The bias is the least index used of a gadget.
LEMMA BiasLeast ==
    ASSUME NEW sets, IsReferences(sets), NEW i \in DOMAIN sets, NEW x \in sets[i]
    PROVE  /\ Bias(sets, x[1]) \in Nat /\ Bias(sets, x[1]) <= x[2]
<1> DEFINE all == UNION {sets[j] : j \in DOMAIN sets}
           used == {y[2] : y \in {y \in all : y[1] = x[1]}}
<1>1. \A j \in DOMAIN sets : \A y \in sets[j] : y[2] \in Nat /\ y \in all
  BY DEF IsReferences
<1>2. x[2] \in used /\ used \subseteq Nat
  BY <1>1 DEF IsReferences
<1>3. \A j \in DOMAIN sets : \A y \in sets[j] : y[1] = x[1] => y[2] \in used
  BY <1>1
<1>4. Bias(sets, x[1]) = CHOOSE b \in used : \A j \in DOMAIN sets : \A y \in sets[j] :
                                                  y[1] = x[1] => b <= y[2]
  BY Zenon DEF Bias
<1> HIDE DEF used
<1>5. PICK b \in used : \A c \in used : b <= c
  BY <1>2, LeastNumber
<1>6. \E c \in used : \A j \in DOMAIN sets : \A y \in sets[j] : y[1] = x[1] => c <= y[2]
  BY <1>3, <1>5
<1>7. /\ Bias(sets, x[1]) \in used
      /\ \A j \in DOMAIN sets : \A y \in sets[j] : y[1] = x[1] => Bias(sets, x[1]) <= y[2]
  BY <1>4, <1>6
<1> QED BY <1>2, <1>7

\* A sequencing gives each remote gadget one index.
LEMMA SequencingComplete ==
    ASSUME NEW sets, NEW gid, IsFiniteSet(Remote(sets, gid)),
           NEW order \in Sequencings(sets, gid)
    PROVE  /\ DOMAIN order \subseteq Nat \ {Local}
           /\ \A g \in Remote(sets, gid) : \E r \in DOMAIN order : order[r] = g
<1> DEFINE R == Remote(sets, gid)
           n == Cardinality(R)
<1>1. /\ order \in [1 .. n -> R]
      /\ \A i, j \in 1 .. n : i # j => order[i] # order[j]
  BY DEF Sequencings
<1>2. n \in Nat
  BY FS_CardinalityType
<1>3. IsFiniteSet(1 .. n) /\ Cardinality(1 .. n) = n
  <2>1. IsFiniteSet(1 .. n) /\ Cardinality(1 .. n) = IF 1 > n THEN 0 ELSE n - 1 + 1
    BY <1>2, FS_Interval
  <2> QED BY <1>2, <2>1
<1> HIDE DEF R
<1>4. order \in Injection(1 .. n, R)
  BY <1>1 DEF Injection, IsInjective
<1>5. order \in Surjection(1 .. n, R)
  <2> HIDE DEF n
  <2>1. Cardinality(1 .. n) = Cardinality(R)
    BY <1>3 DEF n
  <2> QED BY <1>3, <1>4, <2>1, FS_Injection DEF R
<1>6. \A g \in R : \E r \in 1 .. n : order[r] = g
  BY <1>5 DEF Surjection
<1>7. DOMAIN order \subseteq Nat \ {Local}
  BY <1>1, <1>2 DEF Local
<1> QED BY <1>1, <1>6, <1>7 DEF R

\* Whatever order a hash set yields the remote gadgets in, what is read back from the
\* type and the remote list is what was compiled, and no relative index is negative
\* (RemoteGadgetSequencer, RemoteCheckModelSequencer).
THEOREM EncodingExact ==
    ASSUME NEW gid \in Nat \ {Local}, NEW sets, IsReferences(sets),
           IsFiniteSet(Remote(sets, gid)), NEW order \in Sequencings(sets, gid)
    PROVE  /\ FromBin(ToBin(sets, order, gid), RemoteList(sets, order), gid) = sets
           /\ \A i \in DOMAIN sets : ToBin(sets, order, gid)[i] \subseteq Nat \X Nat
<1> DEFINE at(x) == CHOOSE r \in DOMAIN order : order[r] = x[1]
           bin(x) == IF x[1] = gid THEN <<Local, x[2]>>
                     ELSE <<at(x), x[2] - Bias(sets, x[1])>>
           list == RemoteList(sets, order)
           back(y) == IF y[1] = Local THEN <<gid, y[2]>>
                      ELSE <<list[y[1]].gid, y[2] + list[y[1]].bias>>
<1>1. \A i \in DOMAIN sets : ToBin(sets, order, gid)[i] = {bin(x) : x \in sets[i]}
  BY Zenon DEF ToBin
<1>2. DOMAIN ToBin(sets, order, gid) = DOMAIN sets
  BY Zenon DEF ToBin
<1>3. FromBin(ToBin(sets, order, gid), list, gid)
         = [i \in DOMAIN sets |-> {back(y) : y \in ToBin(sets, order, gid)[i]}]
  BY <1>2, Zenon DEF FromBin
<1>4. ASSUME NEW i \in DOMAIN sets, NEW x \in sets[i]
      PROVE  back(bin(x)) = x /\ bin(x) \in Nat \X Nat
  <2>1. x[1] \in Nat \ {Local} /\ x[2] \in Nat /\ x = <<x[1], x[2]>>
    BY DEF IsReferences
  <2>2. CASE x[1] = gid
    BY <2>1, <2>2 DEF Local
  <2>3. CASE x[1] # gid
    <3>1. x[1] \in Remote(sets, gid)
      BY <2>3 DEF Remote
    <3>2. \E r \in DOMAIN order : order[r] = x[1]
      BY <3>1, SequencingComplete
    <3>3. at(x) \in DOMAIN order /\ order[at(x)] = x[1]
      BY <3>2
    <3>4. at(x) \in Nat /\ at(x) # Local
      BY <3>3, SequencingComplete
    <3>5. list[at(x)] = [gid |-> x[1], bias |-> Bias(sets, x[1])]
      BY <3>3 DEF RemoteList
    <3>6. Bias(sets, x[1]) \in Nat /\ Bias(sets, x[1]) <= x[2]
      BY BiasLeast
    <3> HIDE DEF at, list
    <3>7. bin(x) = <<at(x), x[2] - Bias(sets, x[1])>>
      BY <2>3
    <3>8. back(bin(x)) = <<x[1], (x[2] - Bias(sets, x[1])) + Bias(sets, x[1])>>
      BY <3>4, <3>5, <3>7
    <3>9. (x[2] - Bias(sets, x[1])) + Bias(sets, x[1]) = x[2] /\ x[2] - Bias(sets, x[1]) \in Nat
      BY <2>1, <3>6
    <3> QED BY <2>1, <3>4, <3>7, <3>8, <3>9
  <2> QED BY <2>2, <2>3
<1> HIDE DEF bin, back, list, at
<1>5. ASSUME NEW i \in DOMAIN sets
      PROVE  /\ {back(y) : y \in ToBin(sets, order, gid)[i]} = sets[i]
             /\ ToBin(sets, order, gid)[i] \subseteq Nat \X Nat
  BY <1>1, <1>4
<1>6. FromBin(ToBin(sets, order, gid), list, gid) = sets
  BY <1>3, <1>5 DEF IsReferences
<1> QED BY <1>5, <1>6 DEF list

-----------------------------------------------------------------------------
(* Parity.  The size of a finite set mod 2 adds up over exclusive ors, and  *)
(* counting the odd rows of a relation is counting its odd columns.         *)

LEMMA ParityOfOne ==
    /\ ~OddSet({})
    /\ \A x : OddSet({x})
<1>1. Cardinality({}) = 0
  BY FS_EmptySet
<1>2. \A x : Cardinality({x}) = 1
  BY FS_Singleton
<1> QED
  BY <1>1, <1>2 DEF OddSet

LEMMA ParityAdded ==
    ASSUME NEW S, IsFiniteSet(S), NEW x
    PROVE  /\ x \notin S => (OddSet(S \cup {x}) <=> ~OddSet(S))
           /\ x \in S => (OddSet(S \ {x}) <=> ~OddSet(S))
<1>1. Cardinality(S) \in Nat
  BY FS_CardinalityType
<1>2. x \notin S => Cardinality(S \cup {x}) = Cardinality(S) + 1
  BY FS_AddElement
<1>3. ASSUME x \in S
      PROVE  /\ Cardinality(S \ {x}) \in Nat
             /\ Cardinality(S) = Cardinality(S \ {x}) + 1
  <2>1. IsFiniteSet(S \ {x}) /\ Cardinality(S \ {x}) = Cardinality(S) - 1
    BY <1>3, FS_RemoveElement
  <2>2. Cardinality(S \ {x}) \in Nat
    BY <2>1, FS_CardinalityType
  <2> QED
    BY <1>1, <2>1, <2>2
<1>4. \A n \in Nat : (n + 1) % 2 = 1 <=> ~(n % 2 = 1)
  OBVIOUS
<1>5. x \notin S => (OddSet(S \cup {x}) <=> ~OddSet(S))
  BY <1>1, <1>2, <1>4 DEF OddSet
<1>6. x \in S => (OddSet(S \ {x}) <=> ~OddSet(S))
  BY <1>3, <1>4 DEF OddSet
<1> QED
  BY <1>5, <1>6

\* Of two sets without a common element.
LEMMA ParityOfUnion ==
    ASSUME NEW S, NEW T, IsFiniteSet(S), IsFiniteSet(T), S \cap T = {}
    PROVE  OddSet(S \cup T) <=> (OddSet(S) # OddSet(T))
<1>1. Cardinality(S) \in Nat /\ Cardinality(T) \in Nat
  BY FS_CardinalityType
<1>2. Cardinality(S \cup T) = Cardinality(S) + Cardinality(T) - Cardinality(S \cap T)
  BY FS_Union
<1>3. Cardinality(S \cup T) = Cardinality(S) + Cardinality(T)
  BY <1>1, <1>2, FS_EmptySet
<1>4. \A m, n \in Nat : (m + n) % 2 = 1 <=> ((m % 2 = 1) # (n % 2 = 1))
  OBVIOUS
<1> QED
  BY <1>1, <1>3, <1>4 DEF OddSet

LEMMA ParityOfXor ==
    ASSUME NEW S, NEW T, IsFiniteSet(S), IsFiniteSet(T)
    PROVE  OddSet(Xor(S, T)) <=> (OddSet(S) # OddSet(T))
<1>1. IsFiniteSet(S \ T) /\ IsFiniteSet(T \ S) /\ IsFiniteSet(S \cap T)
  BY FS_Subset
<1>2. OddSet(S) <=> (OddSet(S \ T) # OddSet(S \cap T))
  <2>1. (S \ T) \cup (S \cap T) = S /\ (S \ T) \cap (S \cap T) = {}
    OBVIOUS
  <2>2. OddSet((S \ T) \cup (S \cap T)) <=> (OddSet(S \ T) # OddSet(S \cap T))
    BY <1>1, <2>1, ParityOfUnion
  <2> QED
    BY <2>1, <2>2
<1>3. OddSet(T) <=> (OddSet(T \ S) # OddSet(S \cap T))
  <2>1. (T \ S) \cup (S \cap T) = T /\ (T \ S) \cap (S \cap T) = {}
    OBVIOUS
  <2>2. OddSet((T \ S) \cup (S \cap T)) <=> (OddSet(T \ S) # OddSet(S \cap T))
    BY <1>1, <2>1, ParityOfUnion
  <2> QED
    BY <2>1, <2>2
<1>4. OddSet(Xor(S, T)) <=> (OddSet(S \ T) # OddSet(T \ S))
  <2>1. (S \ T) \cap (T \ S) = {}
    OBVIOUS
  <2> QED
    BY <1>1, <2>1, ParityOfUnion, Zenon DEF Xor
<1>5. /\ OddSet(S) \in BOOLEAN /\ OddSet(T) \in BOOLEAN
      /\ OddSet(S \ T) \in BOOLEAN /\ OddSet(T \ S) \in BOOLEAN
      /\ OddSet(S \cap T) \in BOOLEAN /\ OddSet(Xor(S, T)) \in BOOLEAN
  BY DEF OddSet
<1> QED
  BY <1>2, <1>3, <1>4, <1>5

\* The rows (columns) of a relation between A and B with an odd number of entries.
OddRows(A, B, R) == {a \in A : OddSet({b \in B : <<a, b>> \in R})}
OddColumns(A, B, R) == {b \in B : OddSet({a \in A : <<a, b>> \in R})}

LEMMA OneMoreRow ==
    ASSUME NEW A, NEW B, NEW R, IsFiniteSet(A), IsFiniteSet(B), NEW a, a \notin A,
           OddSet(OddRows(A, B, R)) <=> OddSet(OddColumns(A, B, R))
    PROVE  OddSet(OddRows(A \cup {a}, B, R)) <=> OddSet(OddColumns(A \cup {a}, B, R))
<1> DEFINE row == {b \in B : <<a, b>> \in R}
<1>1. /\ IsFiniteSet(row) /\ IsFiniteSet(OddRows(A, B, R))
      /\ IsFiniteSet(OddColumns(A, B, R))
  BY FS_Subset DEF OddRows, OddColumns
<1>2. OddSet(OddRows(A \cup {a}, B, R)) <=> (OddSet(OddRows(A, B, R)) # OddSet(row))
  <2>1. a \notin OddRows(A, B, R)
    BY DEF OddRows
  <2>2. CASE OddSet(row)
    <3>1. OddRows(A \cup {a}, B, R) = OddRows(A, B, R) \cup {a}
      BY <2>2 DEF OddRows
    <3>2. OddSet(OddRows(A, B, R) \cup {a}) <=> ~OddSet(OddRows(A, B, R))
      BY <1>1, <2>1, ParityAdded, Zenon
    <3> QED
      BY <2>2, <3>1, <3>2 DEF OddSet
  <2>3. CASE ~OddSet(row)
    <3>1. OddRows(A \cup {a}, B, R) = OddRows(A, B, R)
      BY <2>3 DEF OddRows
    <3> QED
      BY <2>3, <3>1 DEF OddSet
  <2> QED
    BY <2>2, <2>3
<1>3. OddColumns(A \cup {a}, B, R) = Xor(OddColumns(A, B, R), row)
  <2>1. ASSUME NEW b \in B
        PROVE  b \in OddColumns(A \cup {a}, B, R) <=> b \in Xor(OddColumns(A, B, R), row)
    <3> DEFINE column == {c \in A : <<c, b>> \in R}
    <3>1. IsFiniteSet(column) /\ a \notin column
      BY FS_Subset
    <3>2. CASE <<a, b>> \in R
      <4>1. {c \in A \cup {a} : <<c, b>> \in R} = column \cup {a}
        BY <3>2
      <4>2. OddSet({c \in A \cup {a} : <<c, b>> \in R}) <=> ~OddSet(column)
        <5> HIDE DEF column
        <5>1. OddSet(column \cup {a}) <=> ~OddSet(column)
          BY <3>1, ParityAdded, Zenon
        <5> QED
          BY <4>1, <5>1
      <4> QED
        BY <3>2, <4>2 DEF OddColumns, Xor
    <3>3. CASE <<a, b>> \notin R
      <4>1. {c \in A \cup {a} : <<c, b>> \in R} = column
        BY <3>3
      <4> QED
        BY <3>3, <4>1 DEF OddColumns, Xor
    <3> QED
      BY <3>2, <3>3
  <2>2. /\ OddColumns(A \cup {a}, B, R) \subseteq B
        /\ Xor(OddColumns(A, B, R), row) \subseteq B
    BY DEF OddColumns, Xor
  <2> QED
    BY <2>1, <2>2
<1>4. OddSet(Xor(OddColumns(A, B, R), row)) <=> (OddSet(OddColumns(A, B, R)) # OddSet(row))
  BY <1>1, ParityOfXor
<1> QED
  BY <1>2, <1>3, <1>4 DEF OddSet

\* Counting by rows is counting by columns.
LEMMA RowsAndColumns ==
    ASSUME NEW A, NEW B, IsFiniteSet(A), IsFiniteSet(B), NEW R
    PROVE  OddSet(OddRows(A, B, R)) <=> OddSet(OddColumns(A, B, R))
<1> DEFINE Counted2(S) == OddSet(OddRows(S, B, R)) <=> OddSet(OddColumns(S, B, R))
           Bad == {n \in Nat : \E S \in SUBSET A : Cardinality(S) = n /\ ~Counted2(S)}
<1>1. SUFFICES ASSUME ~Counted2(A) PROVE FALSE
  OBVIOUS
<1> HIDE DEF Counted2
<1>2. Cardinality(A) \in Bad
  BY <1>1, FS_CardinalityType
<1>3. PICK n \in Bad : \A k \in Bad : n <= k
  BY <1>2, LeastNumber
<1>4. PICK S \in SUBSET A : Cardinality(S) = n /\ ~Counted2(S)
  BY <1>3
<1>5. IsFiniteSet(S)
  BY FS_Subset
<1>6. S # {}
  <2>1. ASSUME S = {} PROVE Counted2(S)
    <3>1. OddRows(S, B, R) = {}
      BY <2>1 DEF OddRows
    <3>2. OddColumns(S, B, R) = {}
      <4>1. \A b \in B : {a \in S : <<a, b>> \in R} = {}
        BY <2>1
      <4> QED
        BY <4>1, ParityOfOne DEF OddColumns
    <3> QED
      BY <3>1, <3>2 DEF Counted2
  <2> QED
    BY <1>4, <2>1
<1>7. PICK a \in S : TRUE
  BY <1>6
<1>8. /\ IsFiniteSet(S \ {a}) /\ Cardinality(S \ {a}) = n - 1
      /\ Cardinality(S \ {a}) \in Nat /\ a \notin S \ {a} /\ (S \ {a}) \cup {a} = S
  BY <1>4, <1>5, FS_RemoveElement, FS_CardinalityType
<1>9. n \in Nat /\ n - 1 \in Nat /\ ~(n <= n - 1)
  BY <1>3, <1>8
<1>10. Counted2(S \ {a})
  <2>1. n - 1 \notin Bad
    BY <1>3, <1>9
  <2> QED
    BY <1>8, <1>9, <2>1
<1>11. Counted2((S \ {a}) \cup {a})
  BY <1>8, <1>10, OneMoreRow DEF Counted2
<1> QED
  BY <1>4, <1>8, <1>11

-----------------------------------------------------------------------------
(* The virtual checks of the output ports lie one after the other.         *)

Slots(t, p) == UNION {{q} \X (1 .. t.outputs[q]) : q \in 1 .. p - 1}

LEMMA Interval ==
    \A n \in Nat : IsFiniteSet(1 .. n) /\ Cardinality(1 .. n) = n
<1> TAKE n \in Nat
<1>1. 1 \in Int /\ n \in Int
  OBVIOUS
<1>2. IsFiniteSet(1 .. n) /\ Cardinality(1 .. n) = IF 1 > n THEN 0 ELSE n - 1 + 1
  BY <1>1, FS_Interval, Zenon
<1> QED
  BY <1>2

LEMMA PortNumbers ==
    ASSUME NEW t, t.outputs \in Seq(Nat)
    PROVE  /\ Len(t.outputs) \in Nat
           /\ \A p : p \in DOMAIN t.outputs <=> p \in Nat \ {0} /\ p <= Len(t.outputs)
           /\ \A p \in DOMAIN t.outputs : p + 1 \in Nat \ {0} /\ t.outputs[p] \in Nat
<1>1. /\ Len(t.outputs) \in Nat /\ DOMAIN t.outputs = 1 .. Len(t.outputs)
      /\ \A p \in DOMAIN t.outputs : t.outputs[p] \in Nat
  BY SequenceElement
<1> QED
  BY <1>1

LEMMA SlotsFinite ==
    ASSUME NEW t, t.outputs \in Seq(Nat), NEW p \in Nat \ {0}, p <= Len(t.outputs) + 1
    PROVE  IsFiniteSet(Slots(t, p)) /\ Before(t, p) = Cardinality(Slots(t, p))
<1> DEFINE slot == [q \in 1 .. p - 1 |-> {q} \X (1 .. t.outputs[q])]
           image == {slot[q] : q \in 1 .. p - 1}
<1>1. p - 1 \in Nat /\ \A q \in 1 .. p - 1 : q \in DOMAIN t.outputs /\ t.outputs[q] \in Nat
  BY PortNumbers
<1>2. IsFiniteSet(1 .. p - 1)
  BY <1>1, Interval
<1>3. slot \in Surjection(1 .. p - 1, image)
  BY DEF Surjection
<1>4. IsFiniteSet(image)
  <2> HIDE DEF slot, image
  <2> QED
    BY <1>2, <1>3, FS_Surjection
<1>5. \A T \in image : IsFiniteSet(T)
  <2>1. SUFFICES ASSUME NEW q \in 1 .. p - 1
                 PROVE  IsFiniteSet({q} \X (1 .. t.outputs[q]))
    OBVIOUS
  <2>2. IsFiniteSet(1 .. t.outputs[q]) /\ IsFiniteSet({q})
    BY <1>1, Interval, FS_Singleton
  <2> QED
    BY <2>2, FS_Product
<1>6. UNION image = Slots(t, p)
  BY DEF Slots
<1>7. IsFiniteSet(UNION image)
  <2> HIDE DEF image
  <2> QED
    BY <1>4, <1>5, FS_UNION
<1> QED
  BY <1>6, <1>7 DEF Slots, Before

LEMMA OneMorePort ==
    ASSUME NEW t, t.outputs \in Seq(Nat), NEW p \in DOMAIN t.outputs
    PROVE  Before(t, p + 1) = Before(t, p) + t.outputs[p]
<1> DEFINE slot == {p} \X (1 .. t.outputs[p])
<1>0. /\ p \in Nat \ {0} /\ p <= Len(t.outputs) /\ t.outputs[p] \in Nat
      /\ Len(t.outputs) \in Nat
  BY PortNumbers
<1>1. /\ p \in Nat \ {0} /\ p <= Len(t.outputs) + 1 /\ t.outputs[p] \in Nat
      /\ p + 1 \in Nat \ {0} /\ p + 1 <= Len(t.outputs) + 1 /\ (p + 1) - 1 = p
  BY <1>0
<1>p. \A i : i \in 1 .. p <=> i \in 1 .. p - 1 \/ i = p
  BY <1>0
<1>2. /\ IsFiniteSet(Slots(t, p)) /\ Before(t, p) = Cardinality(Slots(t, p))
      /\ Before(t, p + 1) = Cardinality(Slots(t, p + 1))
  BY <1>1, SlotsFinite
<1>3. Slots(t, p + 1) = Slots(t, p) \cup slot
  BY <1>1, <1>p DEF Slots
<1>4. Slots(t, p) \cap slot = {}
  <2>1. \A q \in 1 .. p - 1 : q # p
    BY <1>1
  <2> QED
    BY <2>1 DEF Slots
<1>5. IsFiniteSet(slot) /\ Cardinality(slot) = t.outputs[p]
  <2>1. IsFiniteSet({p}) /\ Cardinality({p}) = 1
    BY FS_Singleton
  <2>2. IsFiniteSet(1 .. t.outputs[p]) /\ Cardinality(1 .. t.outputs[p]) = t.outputs[p]
    BY <1>1, Interval
  <2>3. IsFiniteSet(slot)
        /\ Cardinality(slot) = Cardinality({p}) * Cardinality(1 .. t.outputs[p])
    BY <2>1, <2>2, FS_Product, Zenon
  <2> QED
    BY <1>1, <2>1, <2>2, <2>3
<1> HIDE DEF slot
<1>6. Cardinality(Slots(t, p) \cup slot) = Cardinality(Slots(t, p)) + Cardinality(slot)
  <2>1. Cardinality(Slots(t, p) \cup slot) = Cardinality(Slots(t, p)) + Cardinality(slot)
                                                 - Cardinality(Slots(t, p) \cap slot)
    BY <1>2, <1>5, FS_Union, Zenon
  <2>2. Cardinality(Slots(t, p)) \in Nat /\ Cardinality(Slots(t, p) \cap slot) = 0
    BY <1>2, <1>4, FS_CardinalityType, FS_EmptySet
  <2>3. Cardinality(slot) \in Nat
    BY <1>1, <1>5
  <2> QED
    BY <2>1, <2>2, <2>3
<1> QED
  BY <1>2, <1>3, <1>5, <1>6

LEMMA PortsBefore ==
    ASSUME NEW t, t.outputs \in Seq(Nat)
    PROVE  /\ Before(t, 1) = 0
           /\ \A p \in DOMAIN t.outputs : Before(t, p) \in Nat /\ Before(t, p + 1) \in Nat
           /\ \A p, q \in DOMAIN t.outputs : p < q => Before(t, p + 1) <= Before(t, q)
           /\ \A p \in DOMAIN t.outputs : Before(t, p + 1) <= Before(t, Len(t.outputs) + 1)
<1>1. Before(t, 1) = 0
  <2>1. 1 .. 1 - 1 = {}
    OBVIOUS
  <2>2. UNION {{q} \X (1 .. t.outputs[q]) : q \in 1 .. 1 - 1} = {}
    BY <2>1
  <2> QED
    BY <2>2, FS_EmptySet DEF Before
<1>2. \A p \in DOMAIN t.outputs : Before(t, p) \in Nat /\ Before(t, p + 1) \in Nat
  <2> SUFFICES ASSUME NEW p \in DOMAIN t.outputs
               PROVE  Before(t, p) \in Nat /\ Before(t, p + 1) \in Nat
    OBVIOUS
  <2>1. /\ p \in Nat \ {0} /\ p <= Len(t.outputs) + 1 /\ t.outputs[p] \in Nat
    BY PortNumbers
  <2>2. Before(t, p) \in Nat
    BY <2>1, SlotsFinite, FS_CardinalityType
  <2> QED
    BY <2>1, <2>2, OneMorePort
<1>3. ASSUME NEW p \in Nat \ {0}, NEW q \in Nat \ {0}, p <= q, q <= Len(t.outputs) + 1
      PROVE  Before(t, p) <= Before(t, q)
  <2>1. p <= Len(t.outputs) + 1
    BY <1>3, PortNumbers
  <2>2. Slots(t, p) \subseteq Slots(t, q)
    <3>1. 1 .. p - 1 \subseteq 1 .. q - 1
      BY <1>3
    <3> QED
      BY <3>1 DEF Slots
  <2> QED
    BY <1>3, <2>1, <2>2, SlotsFinite, FS_Subset
<1>4. \A p \in DOMAIN t.outputs : p \in Nat \ {0} /\ p + 1 \in Nat \ {0} /\ p <= Len(t.outputs)
  BY PortNumbers
<1>5. ASSUME NEW p \in DOMAIN t.outputs, NEW q \in DOMAIN t.outputs, p < q
      PROVE  Before(t, p + 1) <= Before(t, q)
  <2>1. /\ p + 1 \in Nat \ {0} /\ q \in Nat \ {0} /\ p \in Nat /\ q <= Len(t.outputs)
        /\ Len(t.outputs) \in Nat
    BY PortNumbers
  <2>2. p + 1 <= q /\ q <= Len(t.outputs) + 1
    BY <1>5, <2>1
  <2> QED
    BY <1>3, <2>1, <2>2
<1>6. ASSUME NEW p \in DOMAIN t.outputs
      PROVE  Before(t, p + 1) <= Before(t, Len(t.outputs) + 1)
  <2>1. /\ p + 1 \in Nat \ {0} /\ p \in Nat /\ p <= Len(t.outputs)
        /\ Len(t.outputs) \in Nat
    BY PortNumbers
  <2>2. Len(t.outputs) + 1 \in Nat \ {0} /\ p + 1 <= Len(t.outputs) + 1
    BY <2>1
  <2>3. Len(t.outputs) + 1 <= Len(t.outputs) + 1
    BY <2>2
  <2> QED
    BY <1>3, <2>1, <2>2, <2>3
<1> QED
  BY <1>1, <1>2, <1>5, <1>6

\* A place is that of one virtual check only.
LEMMA PlacesDiffer ==
    ASSUME NEW t, t.outputs \in Seq(Nat), NEW p \in DOMAIN t.outputs, NEW q \in DOMAIN t.outputs,
           NEW j \in 1 .. t.outputs[p], NEW k \in 1 .. t.outputs[q],
           Before(t, p) + j = Before(t, q) + k
    PROVE  p = q /\ j = k
<1>1. /\ t.outputs[p] \in Nat /\ t.outputs[q] \in Nat /\ p \in Nat /\ q \in Nat
      /\ Before(t, p) \in Nat /\ Before(t, q) \in Nat
      /\ Before(t, p + 1) = Before(t, p) + t.outputs[p]
      /\ Before(t, q + 1) = Before(t, q) + t.outputs[q]
  BY PortNumbers, PortsBefore, OneMorePort
<1>4. /\ p < q => Before(t, p + 1) <= Before(t, q)
      /\ q < p => Before(t, q + 1) <= Before(t, p)
  BY PortsBefore
<1>5. j \in Nat /\ k \in Nat /\ 1 <= j /\ 1 <= k /\ j <= t.outputs[p] /\ k <= t.outputs[q]
  <2>1. \A m \in Nat : \A i \in 1 .. m : i \in Nat /\ 1 <= i /\ i <= m
    OBVIOUS
  <2>2. t.outputs[p] \in Nat /\ t.outputs[q] \in Nat
    BY <1>1
  <2> QED
    BY <2>1, <2>2, Zenon
<1> DEFINE a == Before(t, p)
           b == Before(t, q)
           m == t.outputs[p]
           n == t.outputs[q]
<1>6. /\ a \in Nat /\ b \in Nat /\ m \in Nat /\ n \in Nat /\ a + j = b + k
      /\ p < q => a + m <= b
      /\ q < p => b + n <= a
  BY <1>1, <1>4
<1>7. j <= m /\ k <= n
  BY <1>5
<1> HIDE DEF a, b, m, n
<1>2. ~(p < q)
  BY <1>5, <1>6, <1>7
<1>3. ~(q < p)
  BY <1>5, <1>6, <1>7
<1>8. p = q
  BY <1>1, <1>2, <1>3
<1>9. a = b
  BY <1>8 DEF a, b
<1>10. j = k
  BY <1>5, <1>6, <1>9
<1> QED
  BY <1>8, <1>10

\* A place is one of the unfinished checks'.
LEMMA PlaceThere ==
    ASSUME NEW t, t.outputs \in Seq(Nat), NEW p \in DOMAIN t.outputs, NEW j \in 1 .. t.outputs[p]
    PROVE  Before(t, p) + j \in 1 .. Before(t, Len(t.outputs) + 1)
<1>1. /\ t.outputs[p] \in Nat /\ Before(t, p) \in Nat
      /\ Before(t, p + 1) = Before(t, p) + t.outputs[p]
      /\ Before(t, p + 1) <= Before(t, Len(t.outputs) + 1)
  BY PortNumbers, PortsBefore, OneMorePort
<1>2. Before(t, Len(t.outputs) + 1) \in Nat
  <2>1. Len(t.outputs) + 1 \in Nat \ {0} /\ Len(t.outputs) + 1 <= Len(t.outputs) + 1
    <3>1. Len(t.outputs) \in Nat
      BY PortNumbers
    <3> QED
      BY <3>1
  <2> QED
    BY <2>1, SlotsFinite, FS_CardinalityType
<1> QED
  BY <1>1, <1>2

-----------------------------------------------------------------------------
(* What the checks of a program include: the recursion has a solution.     *)

TypeIn(s, g) == Types[s.gtype[g]]

\* What IsSetup and IsWellFormed say of a program.
LEMMA ProgramShape ==
    ASSUME NEW s \in Setups
    PROVE  /\ s.gids \subseteq Gids
           /\ \A g \in s.gids :
                 /\ s.gtype[g] \in DOMAIN Types
                 /\ IsGadgetType(TypeIn(s, g)) /\ IsWellFormedType(TypeIn(s, g))
                 /\ DOMAIN s.connectors[g] = DOMAIN TypeIn(s, g).inputs
                 /\ \A i \in DOMAIN s.connectors[g] :
                       /\ s.connectors[g][i] \in [gid : s.gids, port : Nat]
                       /\ s.connectors[g][i].port
                             \in DOMAIN TypeIn(s, s.connectors[g][i].gid).outputs
                       /\ TypeIn(s, s.connectors[g][i].gid).outputs[s.connectors[g][i].port]
                             = TypeIn(s, g).inputs[i]
           /\ \A g, h \in s.gids :
                 \A i \in DOMAIN s.connectors[g], j \in DOMAIN s.connectors[h] :
                    s.connectors[g][i] = s.connectors[h][j] => g = h /\ i = j
<1>1. IsSetup(s) /\ IsWellFormed(s)
  BY JitAssumption, ModelsAssumption
<1>2. s.gids \subseteq Gids /\ \A g \in s.gids : s.gtype[g] \in DOMAIN Types
  BY <1>1 DEF IsSetup
<1>3. ASSUME NEW g \in s.gids
      PROVE  IsGadgetType(TypeIn(s, g)) /\ IsWellFormedType(TypeIn(s, g))
  BY <1>2, JitAssumption, ModelsAssumption DEF TypeIn
<1>4. ASSUME NEW g \in s.gids
      PROVE  /\ DOMAIN s.connectors[g] = DOMAIN TypeIn(s, g).inputs
             /\ \A i \in DOMAIN s.connectors[g] : s.connectors[g][i] \in [gid : s.gids, port : Nat]
  <2>1. /\ s.connectors[g] \in Seq([gid : s.gids, port : Nat])
        /\ Len(s.connectors[g]) = Len(TypeIn(s, g).inputs)
    BY <1>1 DEF IsSetup, TypeIn
  <2>2. TypeIn(s, g).inputs \in Seq(Nat)
    BY <1>3 DEF IsGadgetType
  <2>3. /\ DOMAIN s.connectors[g] = 1 .. Len(s.connectors[g])
        /\ \A i \in DOMAIN s.connectors[g] : s.connectors[g][i] \in [gid : s.gids, port : Nat]
    <3> DEFINE q == s.connectors[g]
               T == [gid : s.gids, port : Nat]
    <3>1. q \in Seq(T)
      BY <2>1
    <3> HIDE DEF q, T
    <3>2. DOMAIN q = 1 .. Len(q) /\ \A i \in DOMAIN q : q[i] \in T
      BY <3>1, SequenceElement
    <3> QED
      BY <3>2 DEF q, T
  <2>4. DOMAIN TypeIn(s, g).inputs = 1 .. Len(TypeIn(s, g).inputs)
    BY <2>2, SequenceElement
  <2> QED
    BY <2>1, <2>3, <2>4
<1>5. ASSUME NEW g \in s.gids, NEW i \in DOMAIN s.connectors[g]
      PROVE  /\ s.connectors[g][i].port
                             \in DOMAIN TypeIn(s, s.connectors[g][i].gid).outputs
             /\ TypeIn(s, s.connectors[g][i].gid).outputs[s.connectors[g][i].port]
                             = TypeIn(s, g).inputs[i]
  BY <1>1, Zenon DEF IsWellFormed, TypeIn
<1>6. \A g, h \in s.gids :
         \A i \in DOMAIN s.connectors[g], j \in DOMAIN s.connectors[h] :
            s.connectors[g][i] = s.connectors[h][j] => g = h /\ i = j
  BY <1>1, Zenon DEF IsWellFormed
<1> QED
  BY <1>2, <1>3, <1>4, <1>5, <1>6

LEMMA CheckPlaces ==
    ASSUME NEW s, NEW x
    PROVE  x \in ChecksOf(s) <=>
              \E g \in s.gids, kind \in {"finished", "unfinished"} :
                 \E i \in DOMAIN TypeIn(s, g)[kind] : x = <<g, kind, i>>
<1> DEFINE of(g, kind) == {<<g, kind, i>> : i \in DOMAIN TypeIn(s, g)[kind]}
<1>1. ChecksOf(s) = UNION {of(g, kind) : g \in s.gids, kind \in {"finished", "unfinished"}}
  BY DEF ChecksOf, TypeIn
<1>2. ASSUME NEW g \in s.gids, NEW kind \in {"finished", "unfinished"}
      PROVE  x \in of(g, kind) <=> \E i \in DOMAIN TypeIn(s, g)[kind] : x = <<g, kind, i>>
  OBVIOUS
<1> HIDE DEF of
<1>3. x \in ChecksOf(s) <=>
         \E g \in s.gids, kind \in {"finished", "unfinished"} : x \in of(g, kind)
  BY <1>1
<1> QED
  BY <1>2, <1>3

\* A check, its measurements, and the virtual checks they name.
LEMMA CheckShape ==
    ASSUME NEW s \in Setups, NEW x \in ChecksOf(s)
    PROVE  /\ x[1] \in s.gids /\ x[2] \in {"finished", "unfinished"}
           /\ x[3] \in DOMAIN TypeIn(s, x[1])[x[2]] /\ x = <<x[1], x[2], x[3]>>
           /\ Len(Measurements(s, x)) \in Nat
           /\ DOMAIN Measurements(s, x) = 1 .. Len(Measurements(s, x))
           /\ \A j \in DOMAIN Measurements(s, x) :
                 /\ Measurements(s, x)[j].port \in Nat /\ Measurements(s, x)[j].index \in Nat
                 /\ Measurements(s, x)[j].port # Local =>
                       /\ Measurements(s, x)[j].port \in DOMAIN s.connectors[x[1]]
                       /\ Measurements(s, x)[j].index
                             \in 1 .. TypeIn(s, x[1]).inputs[Measurements(s, x)[j].port]
<1>1. PICK g \in s.gids, kind \in {"finished", "unfinished"} :
           \E i \in DOMAIN TypeIn(s, g)[kind] : x = <<g, kind, i>>
  BY CheckPlaces
<1>2. PICK i \in DOMAIN TypeIn(s, g)[kind] : x = <<g, kind, i>>
  BY <1>1
<1>3. /\ IsCheck(TypeIn(s, g)[kind][i]) /\ NamesInputs(TypeIn(s, g), TypeIn(s, g)[kind][i])
      /\ DOMAIN s.connectors[g] = DOMAIN TypeIn(s, g).inputs
  <2>1. /\ IsGadgetType(TypeIn(s, g)) /\ IsWellFormedType(TypeIn(s, g))
        /\ DOMAIN s.connectors[g] = DOMAIN TypeIn(s, g).inputs
    BY ProgramShape
  <2>2. CASE kind = "finished"
    BY <1>2, <2>1, <2>2 DEF IsGadgetType, IsWellFormedType
  <2>3. CASE kind = "unfinished"
    BY <1>2, <2>1, <2>3 DEF IsGadgetType, IsWellFormedType
  <2> QED
    BY <2>2, <2>3
<1>4. Measurements(s, x) = TypeIn(s, g)[kind][i].measurements
  BY <1>2 DEF Measurements, TypeIn
<1> DEFINE ms == TypeIn(s, g)[kind][i].measurements
<1>5. ms \in Seq([port : Nat, index : Nat])
  BY <1>3 DEF IsCheck
<1>6. /\ Len(ms) \in Nat /\ DOMAIN ms = 1 .. Len(ms)
      /\ \A j \in DOMAIN ms : ms[j] \in [port : Nat, index : Nat]
  BY <1>5, SequenceElement
<1>7. \A j \in DOMAIN ms : /\ ms[j].port \in Nat /\ ms[j].index \in Nat
                           /\ ms[j].port # Local =>
                                 /\ ms[j].port \in DOMAIN s.connectors[g]
                                 /\ ms[j].index \in 1 .. TypeIn(s, g).inputs[ms[j].port]
  BY <1>3, <1>6, Zenon DEF NamesInputs
<1> QED
  BY <1>2, <1>4, <1>6, <1>7

LEMMA NamedShape ==
    ASSUME NEW s \in Setups, NEW x \in ChecksOf(s), NEW j \in DOMAIN Measurements(s, x),
           Measurements(s, x)[j].port # Local,
           NEW v, v = Named(s, x[1], Measurements(s, x)[j])
    PROVE  /\ v = <<v[1], v[2]>> /\ v[1] \in s.gids
           /\ Measurements(s, x)[j].port \in DOMAIN s.connectors[x[1]]
           /\ v[1] = s.connectors[x[1]][Measurements(s, x)[j].port].gid
           /\ v[2] \in DOMAIN TypeIn(s, v[1]).unfinished /\ v[2] \in Nat
           /\ <<v[1], "unfinished", v[2]>> \in ChecksOf(s)
<1> DEFINE m == Measurements(s, x)[j]
           c == s.connectors[x[1]][m.port]
           t == TypeIn(s, c.gid)
<1>1. /\ x[1] \in s.gids /\ m.port \in DOMAIN s.connectors[x[1]]
      /\ m.index \in 1 .. TypeIn(s, x[1]).inputs[m.port]
  BY CheckShape
<1>2. /\ c \in [gid : s.gids, port : Nat] /\ c.port \in DOMAIN t.outputs
      /\ t.outputs[c.port] = TypeIn(s, x[1]).inputs[m.port]
  BY <1>1, ProgramShape
<1>3. IsGadgetType(t) /\ IsWellFormedType(t) /\ c.gid \in s.gids
  <2>1. c.gid \in s.gids
    BY <1>2
  <2> QED
    BY <2>1, ProgramShape
<1>4. v = <<c.gid, Before(t, c.port) + m.index>>
  BY Zenon DEF Named, TypeIn
<1> HIDE DEF m, c, t
<1>5. t.outputs \in Seq(Nat) /\ DOMAIN t.unfinished = 1 .. Before(t, Len(t.outputs) + 1)
  BY <1>3 DEF IsGadgetType, IsWellFormedType
<1>6. Before(t, c.port) + m.index \in 1 .. Before(t, Len(t.outputs) + 1)
  BY <1>1, <1>2, <1>5, PlaceThere
<1>7. v[1] = c.gid /\ v[2] \in DOMAIN t.unfinished /\ v = <<v[1], v[2]>>
  BY <1>4, <1>5, <1>6
<1>8. v[2] \in Nat
  <2>1. Before(t, Len(t.outputs) + 1) \in Nat
    <3>1. Len(t.outputs) \in Nat
      BY <1>5, PortNumbers
    <3>2. Len(t.outputs) + 1 \in Nat \ {0} /\ Len(t.outputs) + 1 <= Len(t.outputs) + 1
      BY <3>1
    <3> QED
      BY <1>5, <3>2, SlotsFinite, FS_CardinalityType
  <2> QED
    BY <1>4, <1>6, <2>1
<1>9. <<v[1], "unfinished", v[2]>> \in ChecksOf(s)
  <2>1. v[2] \in DOMAIN TypeIn(s, v[1])["unfinished"]
    BY <1>7 DEF t
  <2> QED
    BY <1>3, <1>7, <2>1, CheckPlaces
<1>10. /\ Measurements(s, x)[j].port \in DOMAIN s.connectors[x[1]]
       /\ v[1] = s.connectors[x[1]][Measurements(s, x)[j].port].gid
  BY <1>1, <1>7 DEF m, c
<1>11. v[1] \in s.gids /\ v[2] \in DOMAIN TypeIn(s, v[1]).unfinished
  BY <1>3, <1>7 DEF t
<1> QED
  BY <1>7, <1>8, <1>9, <1>10, <1>11

\* The right-hand side of the recursion.
Combined(s, f, x) ==
    XorAll(Len(Measurements(s, x)), LAMBDA i : Part(s, f, x[1], Measurements(s, x)[i]))

\* What is in it is in an odd number of the parts.
LEMMA InCombined ==
    ASSUME NEW s, NEW f, NEW x, NEW v
    PROVE  v \in Combined(s, f, x) <=>
              OddSet({i \in 1 .. Len(Measurements(s, x)) :
                         v \in Part(s, f, x[1], Measurements(s, x)[i])})
<1> DEFINE n == Len(Measurements(s, x))
           part(i) == Part(s, f, x[1], Measurements(s, x)[i])
<1>1. Combined(s, f, x) = {w \in UNION {part(i) : i \in 1 .. n} : OddSet({i \in 1 .. n : w \in part(i)})}
  BY DEF Combined, XorAll, Odd
<1> HIDE DEF part, n
<1>2. ASSUME OddSet({i \in 1 .. n : v \in part(i)})
      PROVE  v \in UNION {part(i) : i \in 1 .. n}
  <2>1. {i \in 1 .. n : v \in part(i)} # {}
    BY <1>2, ParityOfOne
  <2> QED
    BY <2>1
<1>3. v \in Combined(s, f, x) <=> OddSet({i \in 1 .. n : v \in part(i)})
  BY <1>1, <1>2
<1> QED
  BY <1>3 DEF part, n

\* It depends on the virtual checks the measurements name only.
LEMMA CombinedSame ==
    ASSUME NEW s \in Setups, NEW x \in ChecksOf(s), NEW f, NEW h,
           \A j \in DOMAIN Measurements(s, x) : \A v :
              Measurements(s, x)[j].port # Local /\ v = Named(s, x[1], Measurements(s, x)[j])
                 => f[<<v[1], "unfinished", v[2]>>] = h[<<v[1], "unfinished", v[2]>>]
    PROVE  Combined(s, f, x) = Combined(s, h, x)
<1> DEFINE n == Len(Measurements(s, x))
           F(i) == Part(s, f, x[1], Measurements(s, x)[i])
           H(i) == Part(s, h, x[1], Measurements(s, x)[i])
<1>1. \A i \in 1 .. n : F(i) = H(i)
  BY CheckShape DEF Part
<1>2. /\ Combined(s, f, x) = {w \in UNION {F(i) : i \in 1 .. n} : OddSet({i \in 1 .. n : w \in F(i)})}
      /\ Combined(s, h, x) = {w \in UNION {H(i) : i \in 1 .. n} : OddSet({i \in 1 .. n : w \in H(i)})}
  BY DEF Combined, XorAll, Odd
<1> HIDE DEF F, H, n
<1>3. \A w : {i \in 1 .. n : w \in F(i)} = {i \in 1 .. n : w \in H(i)}
  BY <1>1
<1>4. UNION {F(i) : i \in 1 .. n} = UNION {H(i) : i \in 1 .. n}
  BY <1>1
<1> QED
  BY <1>2, <1>3, <1>4

\* What a check includes is what its measurements name and, through its virtual checks,
\* what those include: the recursion has a solution, as gadgets are executed after their
\* peers.  (A solution for the gadgets up to some place of that order can be extended to
\* the next place.)
THEOREM IncludesSolved ==
    ASSUME NEW s \in Setups
    PROVE  Includes(s) = [x \in ChecksOf(s) |-> Combined(s, Includes(s), x)]
<1>1. PICK order \in [s.gids -> 1 .. Cardinality(s.gids)] :
         \A g \in s.gids : \A i \in DOMAIN s.connectors[g] :
            order[s.connectors[g][i].gid] < order[g]
  BY ModelsAssumption, Zenon DEF IsWellFormed
<1>2. Cardinality(s.gids) \in Nat
  BY ProgramShape, JitAssumption, FS_Subset, FS_CardinalityType
<1>3. \A g \in s.gids : order[g] \in Nat /\ 1 <= order[g] /\ order[g] <= Cardinality(s.gids)
  BY <1>1, <1>2
<1> DEFINE Upto(n) == {x \in ChecksOf(s) : order[x[1]] <= n}
           Solution(f, n) == f = [x \in Upto(n) |-> Combined(s, f, x)]
           Bad == {n \in Nat : ~\E f : Solution(f, n)}
<1>4. Upto(0) = {}
  BY <1>3, CheckShape
<1>5. \E f : Solution(f, 0)
  <2>1. [x \in {} |-> {}] = [x \in Upto(0) |-> Combined(s, [y \in {} |-> {}], x)]
    BY <1>4
  <2> QED
    BY <2>1
<1>6. ASSUME NEW n \in Nat, \E f : Solution(f, n)
      PROVE  \E f : Solution(f, n + 1)
  <2>1. PICK f : Solution(f, n)
    BY <1>6
  <2> DEFINE h == [x \in Upto(n + 1) |-> Combined(s, f, x)]
  <2>2. ASSUME NEW x \in Upto(n + 1), NEW j \in DOMAIN Measurements(s, x), NEW v,
               Measurements(s, x)[j].port # Local, v = Named(s, x[1], Measurements(s, x)[j])
        PROVE  f[<<v[1], "unfinished", v[2]>>] = h[<<v[1], "unfinished", v[2]>>]
    <3> DEFINE y == <<v[1], "unfinished", v[2]>>
    <3>1. x \in ChecksOf(s) /\ x[1] \in s.gids /\ order[x[1]] <= n + 1
      BY CheckShape
    <3>2. /\ y \in ChecksOf(s) /\ v[1] \in s.gids
          /\ Measurements(s, x)[j].port \in DOMAIN s.connectors[x[1]]
          /\ v[1] = s.connectors[x[1]][Measurements(s, x)[j].port].gid
      BY <2>2, <3>1, NamedShape
    <3>3. order[v[1]] < order[x[1]]
      BY <1>1, <3>1, <3>2
    <3>4. order[v[1]] <= n /\ order[v[1]] <= n + 1
      BY <1>3, <3>1, <3>2, <3>3
    <3>5. y[1] = v[1]
      OBVIOUS
    <3>6. y \in Upto(n) /\ y \in Upto(n + 1)
      BY <3>2, <3>4, <3>5
    <3>7. f[y] = Combined(s, f, y)
      <4> HIDE DEF y, Upto
      <4>1. f = [z \in Upto(n) |-> Combined(s, f, z)]
        BY <2>1
      <4>2. \A ff : ff = f => ff[y] = [z \in Upto(n) |-> Combined(s, f, z)][y]
        BY <4>1
      <4> QED
        BY <3>6, <4>2
    <3>8. h[y] = Combined(s, f, y)
      <4> HIDE DEF y, Upto
      <4> QED
        BY <3>6
    <3> QED
      BY <3>7, <3>8
  <2>3. \A x \in Upto(n + 1) : Combined(s, f, x) = Combined(s, h, x)
    <3> TAKE x \in Upto(n + 1)
    <3>1. x \in ChecksOf(s)
      OBVIOUS
    <3> HIDE DEF h, Upto
    <3> QED
      BY <2>2, <3>1, CombinedSame
  <2>4. h = [x \in Upto(n + 1) |-> Combined(s, h, x)]
    <3> HIDE DEF Upto
    <3> DEFINE k == [x \in Upto(n + 1) |-> Combined(s, h, x)]
    <3>1. k = h
      <4> SUFFICES [x \in Upto(n + 1) |-> Combined(s, h, x)] = [x \in Upto(n + 1) |-> Combined(s, f, x)]
        OBVIOUS
      <4> HIDE DEF h
      <4> QED
        BY <2>3
    <3> QED
      BY <3>1
  <2> QED
    BY <2>4
<1> HIDE DEF Solution, Upto
<1>7. Bad = {}
  <2>1. SUFFICES ASSUME Bad # {} PROVE FALSE
    OBVIOUS
  <2>2. PICK n \in Bad : \A m \in Bad : n <= m
    BY <2>1, LeastNumber
  <2>3. n \in Nat /\ n # 0
    BY <1>5, <2>2
  <2>4. n - 1 \in Nat /\ (n - 1) + 1 = n /\ ~(n <= n - 1)
    BY <2>3
  <2>5. n - 1 \notin Bad
    BY <2>2, <2>4
  <2>6. \E f : Solution(f, n - 1)
    BY <2>4, <2>5
  <2>7. \E f : Solution(f, (n - 1) + 1)
    BY <1>6, <2>4, <2>6
  <2> QED
    BY <2>2, <2>4, <2>7
<1>8. \E f : Solution(f, Cardinality(s.gids))
  BY <1>2, <1>7
<1>9. Upto(Cardinality(s.gids)) = ChecksOf(s)
  BY <1>3, CheckShape DEF Upto
<1>10. Includes(s) = CHOOSE f : f = [x \in ChecksOf(s) |-> Combined(s, f, x)]
  BY Zenon DEF Includes, Combined
<1>11. \E f : f = [x \in ChecksOf(s) |-> Combined(s, f, x)]
  BY <1>8, <1>9 DEF Solution
<1> QED
  BY <1>10, <1>11, Zenon

\* Of any checks, some name none of the others: the first in the order of the gadgets.
LEMMA FirstCheck ==
    ASSUME NEW s \in Setups, NEW P \in SUBSET ChecksOf(s), P # {}
    PROVE  \E x \in P : \A j \in DOMAIN Measurements(s, x) : \A v :
              Measurements(s, x)[j].port # Local /\ v = Named(s, x[1], Measurements(s, x)[j])
                 => <<v[1], "unfinished", v[2]>> \notin P
<1>1. PICK order \in [s.gids -> 1 .. Cardinality(s.gids)] :
         \A g \in s.gids : \A i \in DOMAIN s.connectors[g] :
            order[s.connectors[g][i].gid] < order[g]
  BY ModelsAssumption, Zenon DEF IsWellFormed
<1>2. Cardinality(s.gids) \in Nat
  BY ProgramShape, JitAssumption, FS_Subset, FS_CardinalityType
<1>3. \A g \in s.gids : order[g] \in Nat
  BY <1>1, <1>2
<1> DEFINE places == {order[x[1]] : x \in P}
<1>4. places \subseteq Nat /\ places # {}
  BY <1>3, CheckShape
<1>5. PICK n \in places : \A m \in places : n <= m
  BY <1>4, LeastNumber
<1>6. PICK x \in P : n = order[x[1]]
  BY <1>5
<1>7. SUFFICES ASSUME NEW j \in DOMAIN Measurements(s, x), NEW v,
                      Measurements(s, x)[j].port # Local,
                      v = Named(s, x[1], Measurements(s, x)[j]),
                      <<v[1], "unfinished", v[2]>> \in P
               PROVE  FALSE
  BY <1>6
<1>8. /\ v[1] \in s.gids /\ x[1] \in s.gids
      /\ Measurements(s, x)[j].port \in DOMAIN s.connectors[x[1]]
      /\ v[1] = s.connectors[x[1]][Measurements(s, x)[j].port].gid
  BY <1>7, NamedShape, CheckShape
<1>9. order[v[1]] < order[x[1]]
  BY <1>1, <1>8
<1>10. order[v[1]] \in places
  <2>1. <<v[1], "unfinished", v[2]>>[1] = v[1]
    OBVIOUS
  <2> QED
    BY <1>7, <2>1
<1>11. n <= order[v[1]]
  BY <1>5, <1>10
<1>12. order[v[1]] \in Nat /\ order[x[1]] \in Nat
  BY <1>3, <1>8
<1> QED
  BY <1>6, <1>9, <1>11, <1>12

IsMeasurement(s, w) == \E g \in s.gids, n \in Nat : w = <<"measurement", g, n>>
IsVirtual(s, w) == \E v : w = <<"virtual", v[1], v[2]>> /\ v[1] \in s.gids /\ v[2] \in Nat
                          /\ <<v[1], "unfinished", v[2]>> \in ChecksOf(s)

LEMMA IncludedShape ==
    ASSUME NEW s \in Setups, NEW x \in ChecksOf(s), NEW w \in Includes(s)[x]
    PROVE  IsMeasurement(s, w) \/ IsVirtual(s, w)
<1> DEFINE Good(y) == \A u \in Includes(s)[y] : IsMeasurement(s, u) \/ IsVirtual(s, u)
           P == {y \in ChecksOf(s) : ~Good(y)}
<1>1. SUFFICES ASSUME P # {} PROVE FALSE
  OBVIOUS
<1>2. PICK y \in P : \A j \in DOMAIN Measurements(s, y) : \A v :
          Measurements(s, y)[j].port # Local /\ v = Named(s, y[1], Measurements(s, y)[j])
             => <<v[1], "unfinished", v[2]>> \notin P
  <2>1. P \in SUBSET ChecksOf(s)
    OBVIOUS
  <2> HIDE DEF P
  <2> QED
    BY <1>1, <2>1, FirstCheck
<1>3. PICK u \in Includes(s)[y] : ~IsMeasurement(s, u) /\ ~IsVirtual(s, u)
  OBVIOUS
<1>4. u \in Combined(s, Includes(s), y)
  BY IncludesSolved
<1>5. PICK i \in 1 .. Len(Measurements(s, y)) :
          u \in Part(s, Includes(s), y[1], Measurements(s, y)[i])
  <2>1. OddSet({i \in 1 .. Len(Measurements(s, y)) :
                   u \in Part(s, Includes(s), y[1], Measurements(s, y)[i])})
    BY <1>4, InCombined
  <2> QED
    BY <2>1, ParityOfOne
<1>6. i \in DOMAIN Measurements(s, y) /\ y \in ChecksOf(s)
  BY CheckShape
<1>7. CASE Measurements(s, y)[i].port = Local
  <2>1. u = <<"measurement", y[1], Measurements(s, y)[i].index>>
    BY <1>5, <1>7 DEF Part
  <2>2. y[1] \in s.gids /\ Measurements(s, y)[i].index \in Nat
    BY <1>6, CheckShape
  <2> QED
    BY <1>3, <2>1, <2>2 DEF IsMeasurement
<1>8. CASE Measurements(s, y)[i].port # Local
  <2> DEFINE v == Named(s, y[1], Measurements(s, y)[i])
  <2>1. /\ v[1] \in s.gids /\ v[2] \in Nat /\ <<v[1], "unfinished", v[2]>> \in ChecksOf(s)
    BY <1>6, <1>8, NamedShape
  <2>2. <<v[1], "unfinished", v[2]>> \notin P
    BY <1>2, <1>6, <1>8
  <2>3. u = <<"virtual", v[1], v[2]>> \/ u \in Includes(s)[<<v[1], "unfinished", v[2]>>]
    BY <1>5, <1>8 DEF Part, Xor
  <2> HIDE DEF v
  <2>4. CASE u = <<"virtual", v[1], v[2]>>
    BY <1>3, <2>1, <2>4 DEF IsVirtual
  <2>5. CASE u \in Includes(s)[<<v[1], "unfinished", v[2]>>]
    BY <1>3, <2>1, <2>2, <2>5
  <2> QED
    BY <2>3, <2>4, <2>5
<1> QED
  BY <1>7, <1>8

-----------------------------------------------------------------------------
(* The virtual checks that a check names itself, and those it includes.    *)

Virtuals(s) == {v \in s.gids \X Nat : <<v[1], "unfinished", v[2]>> \in ChecksOf(s)}
Unfinished(v) == <<v[1], "unfinished", v[2]>>
Naming2(s, x, v) ==
    {j \in 1 .. Len(Measurements(s, x)) :
        Measurements(s, x)[j].port # Local /\ Named(s, x[1], Measurements(s, x)[j]) = v}
Direct(s, x) == {v \in Virtuals(s) : OddSet(Naming2(s, x, v))}
Deep(s, x) == {v \in Virtuals(s) : <<"virtual", v[1], v[2]>> \in Includes(s)[x]}

LEMMA VirtualsFinite ==
    ASSUME NEW s \in Setups
    PROVE  IsFiniteSet(Virtuals(s))
<1> DEFINE of == [g \in s.gids |-> {g} \X DOMAIN TypeIn(s, g).unfinished]
           image == {of[g] : g \in s.gids}
<1>1. IsFiniteSet(s.gids)
  BY ProgramShape, JitAssumption, FS_Subset
<1>2. of \in Surjection(s.gids, image)
  BY DEF Surjection
<1>3. IsFiniteSet(image)
  <2> HIDE DEF of, image
  <2> QED
    BY <1>1, <1>2, FS_Surjection
<1>4. ASSUME NEW T \in image
      PROVE  IsFiniteSet(T)
  <2>1. PICK g \in s.gids : T = {g} \X DOMAIN TypeIn(s, g).unfinished
    OBVIOUS
  <2>2. /\ TypeIn(s, g).outputs \in Seq(Nat)
        /\ DOMAIN TypeIn(s, g).unfinished
              = 1 .. Before(TypeIn(s, g), Len(TypeIn(s, g).outputs) + 1)
    BY ProgramShape DEF IsGadgetType, IsWellFormedType
  <2>3. Before(TypeIn(s, g), Len(TypeIn(s, g).outputs) + 1) \in Nat
    <3>1. Len(TypeIn(s, g).outputs) \in Nat
      BY <2>2, PortNumbers
    <3>2. /\ Len(TypeIn(s, g).outputs) + 1 \in Nat \ {0}
          /\ Len(TypeIn(s, g).outputs) + 1 <= Len(TypeIn(s, g).outputs) + 1
      BY <3>1
    <3> QED
      BY <2>2, <3>2, SlotsFinite, FS_CardinalityType
  <2>4. IsFiniteSet(DOMAIN TypeIn(s, g).unfinished) /\ IsFiniteSet({g})
    BY <2>2, <2>3, Interval, FS_Singleton
  <2> QED
    BY <2>1, <2>4, FS_Product
<1>5. IsFiniteSet(UNION image)
  <2> HIDE DEF image
  <2> QED
    BY <1>3, <1>4, FS_UNION
<1>6. Virtuals(s) \subseteq UNION image
  <2> SUFFICES ASSUME NEW v \in Virtuals(s) PROVE v \in UNION image
    OBVIOUS
  <2>1. v \in s.gids \X Nat /\ <<v[1], "unfinished", v[2]>> \in ChecksOf(s)
    BY DEF Virtuals
  <2>2. v[2] \in DOMAIN TypeIn(s, v[1])["unfinished"]
    BY <2>1, CheckShape
  <2>3. v \in of[v[1]] /\ v[1] \in s.gids
    BY <2>1, <2>2
  <2> HIDE DEF of
  <2> QED
    BY <2>3
<1> QED
  BY <1>5, <1>6, FS_Subset

LEMMA NamedVirtual ==
    ASSUME NEW s \in Setups, NEW x \in ChecksOf(s), NEW j \in DOMAIN Measurements(s, x),
           Measurements(s, x)[j].port # Local
    PROVE  Named(s, x[1], Measurements(s, x)[j]) \in Virtuals(s)
<1> DEFINE v == Named(s, x[1], Measurements(s, x)[j])
<1>1. /\ v = <<v[1], v[2]>> /\ v[1] \in s.gids /\ v[2] \in Nat
      /\ <<v[1], "unfinished", v[2]>> \in ChecksOf(s)
  BY NamedShape
<1> HIDE DEF v
<1>2. v \in Virtuals(s)
  BY <1>1 DEF Virtuals
<1> QED
  BY <1>2 DEF v

\* A check includes what it names itself and, mod 2, what these virtual checks include.
LEMMA DeepFromWithin ==
    ASSUME NEW s \in Setups, NEW x \in ChecksOf(s), NEW y \in Virtuals(s)
    PROVE  y \in Deep(s, x) <=>
              ((y \in Direct(s, x)) # OddSet({z \in Direct(s, x) : y \in Deep(s, Unfinished(z))}))
<1> DEFINE n == Len(Measurements(s, x))
           I == 1 .. n
           m(i) == Measurements(s, x)[i]
           named(i) == Named(s, x[1], m(i))
           remote(i) == m(i).port # Local
           tag == <<"virtual", y[1], y[2]>>
           Here == {i \in I : remote(i) /\ named(i) = y}
           Below2 == {i \in I : remote(i) /\ y \in Deep(s, Unfinished(named(i)))}
           R == {r \in I \X Virtuals(s) : remote(r[1]) /\ named(r[1]) = r[2]
                                             /\ y \in Deep(s, Unfinished(r[2]))}
<1>1. n \in Nat /\ I = DOMAIN Measurements(s, x) /\ IsFiniteSet(I)
  BY CheckShape, Interval
<1>2. IsFiniteSet(Here) /\ IsFiniteSet(Below2)
  BY <1>1, FS_Subset
<1>3. \A i \in I : remote(i) => named(i) \in Virtuals(s)
  BY <1>1, NamedVirtual
<1>4. ASSUME NEW i \in I
      PROVE  tag \in Part(s, Includes(s), x[1], m(i)) <=> i \in Xor(Here, Below2)
  <2>1. CASE ~remote(i)
    BY <2>1 DEF Part, Xor
  <2>2. CASE remote(i)
    <3> DEFINE v == named(i)
    <3>1. Part(s, Includes(s), x[1], m(i))
            = Xor({<<"virtual", v[1], v[2]>>}, Includes(s)[<<v[1], "unfinished", v[2]>>])
      BY <2>2, Zenon DEF Part
    <3>2. v \in s.gids \X Nat /\ y \in s.gids \X Nat
      BY <1>3, <2>2 DEF Virtuals
    <3> HIDE DEF v, n, I, m
    <3>3. tag = <<"virtual", v[1], v[2]>> <=> v = y
      BY <3>2
    <3>4. tag \in Includes(s)[<<v[1], "unfinished", v[2]>>] <=> y \in Deep(s, Unfinished(v))
      BY DEF Deep, Unfinished
    <3>5. tag \in Xor({<<"virtual", v[1], v[2]>>}, Includes(s)[<<v[1], "unfinished", v[2]>>])
             <=> ((v = y) # (y \in Deep(s, Unfinished(v))))
      BY <3>3, <3>4 DEF Xor
    <3>6. i \in Xor(Here, Below2) <=> ((v = y) # (y \in Deep(s, Unfinished(v))))
      <4>1. (i \in Here <=> v = y) /\ (i \in Below2 <=> y \in Deep(s, Unfinished(v)))
        BY <2>2 DEF v
      <4> HIDE DEF Here, Below2
      <4> QED
        BY <4>1 DEF Xor
    <3> QED
      BY <3>1, <3>5, <3>6
  <2> QED
    BY <2>1, <2>2
<1>5. y \in Deep(s, x) <=> OddSet(Xor(Here, Below2))
  <2>1. y \in Deep(s, x) <=> tag \in Combined(s, Includes(s), x)
    BY IncludesSolved DEF Deep
  <2>2. {i \in I : tag \in Part(s, Includes(s), x[1], m(i))} = Xor(Here, Below2)
    <3>1. Xor(Here, Below2) \subseteq I
      BY DEF Xor
    <3> HIDE DEF Here, Below2, I, tag, m
    <3> QED
      BY <1>4, <3>1
  <2>3. tag \in Combined(s, Includes(s), x)
           <=> OddSet({i \in I : tag \in Part(s, Includes(s), x[1], m(i))})
    <3>1. \A w : w \in Combined(s, Includes(s), x)
             <=> OddSet({i \in 1 .. Len(Measurements(s, x)) :
                           w \in Part(s, Includes(s), x[1], Measurements(s, x)[i])})
      BY InCombined
    <3> HIDE DEF tag
    <3> QED
      BY <3>1
  <2> HIDE DEF Here, Below2, I, tag, m
  <2> QED
    BY <2>1, <2>2, <2>3
<1>6. OddSet(Here) <=> y \in Direct(s, x)
  BY Zenon DEF Direct, Naming2
<1>7. OddRows(I, Virtuals(s), R) = Below2
  <2>1. ASSUME NEW i \in I
        PROVE  OddSet({v \in Virtuals(s) : <<i, v>> \in R}) <=> i \in Below2
    <3>1. CASE i \in Below2
      <4>1. {v \in Virtuals(s) : <<i, v>> \in R} = {named(i)}
        <5>1. named(i) \in Virtuals(s)
          BY <1>3, <3>1
        <5> HIDE DEF named, I
        <5> QED
          BY <3>1, <5>1
      <4>2. OddSet({named(i)})
        BY ParityOfOne
      <4> HIDE DEF named, R, I
      <4> QED
        BY <3>1, <4>1, <4>2
    <3>2. CASE i \notin Below2
      <4>1. {v \in Virtuals(s) : <<i, v>> \in R} = {}
        <5> HIDE DEF named, I
        <5> QED
          BY <3>2
      <4> QED
        BY <3>2, <4>1, ParityOfOne
    <3> QED
      BY <3>1, <3>2
  <2>2. Below2 \subseteq I
    OBVIOUS
  <2> HIDE DEF Below2, R, I
  <2> QED
    BY <2>1, <2>2 DEF OddRows
<1>8. OddColumns(I, Virtuals(s), R) = {z \in Direct(s, x) : y \in Deep(s, Unfinished(z))}
  <2>1. ASSUME NEW z \in Virtuals(s)
        PROVE  OddSet({i \in I : <<i, z>> \in R})
                  <=> z \in Direct(s, x) /\ y \in Deep(s, Unfinished(z))
    <3>1. CASE y \in Deep(s, Unfinished(z))
      <4>1. {i \in I : <<i, z>> \in R} = Naming2(s, x, z)
        BY <3>1 DEF Naming2
      <4> QED
        BY <3>1, <4>1 DEF Direct
    <3>2. CASE y \notin Deep(s, Unfinished(z))
      <4>1. {i \in I : <<i, z>> \in R} = {}
        BY <3>2
      <4> QED
        BY <3>2, <4>1, ParityOfOne
    <3> QED
      BY <3>1, <3>2
  <2>2. Direct(s, x) \subseteq Virtuals(s)
    BY DEF Direct
  <2> HIDE DEF R, I
  <2> QED
    BY <2>1, <2>2 DEF OddColumns
<1>9. OddSet(OddRows(I, Virtuals(s), R)) <=> OddSet(OddColumns(I, Virtuals(s), R))
  <2> HIDE DEF R, I
  <2> QED
    BY <1>1, VirtualsFinite, RowsAndColumns
<1>10. OddSet(Xor(Here, Below2)) <=> (OddSet(Here) # OddSet(Below2))
  BY <1>2, ParityOfXor
<1> HIDE DEF Here, Below2, I, R
<1>11. OddSet(Below2) <=> OddSet({z \in Direct(s, x) : y \in Deep(s, Unfinished(z))})
  BY <1>7, <1>8, <1>9
<1>12. /\ OddSet(Here) \in BOOLEAN /\ OddSet(Below2) \in BOOLEAN
       /\ OddSet({z \in Direct(s, x) : y \in Deep(s, Unfinished(z))}) \in BOOLEAN
  BY DEF OddSet
<1> QED
  BY <1>5, <1>6, <1>10, <1>11, <1>12

\* The same from the other end: what a check includes and, mod 2, what the virtual
\* checks it includes name themselves.
LEMMA DeepFromBeyond ==
    ASSUME NEW s \in Setups, NEW y \in Virtuals(s)
    PROVE  \A x \in ChecksOf(s) :
              y \in Deep(s, x) <=>
                 ((y \in Direct(s, x)) # OddSet({w \in Deep(s, x) : y \in Direct(s, Unfinished(w))}))
<1> DEFINE Claim(x) ==
              y \in Deep(s, x) <=>
                 ((y \in Direct(s, x)) # OddSet({w \in Deep(s, x) : y \in Direct(s, Unfinished(w))}))
           P == {x \in ChecksOf(s) : ~Claim(x)}
<1>1. SUFFICES ASSUME P # {} PROVE FALSE
  OBVIOUS
<1>2. PICK x \in P : \A j \in DOMAIN Measurements(s, x) : \A v :
          Measurements(s, x)[j].port # Local /\ v = Named(s, x[1], Measurements(s, x)[j])
             => <<v[1], "unfinished", v[2]>> \notin P
  <2>1. P \in SUBSET ChecksOf(s)
    OBVIOUS
  <2> HIDE DEF P
  <2> QED
    BY <1>1, <2>1, FirstCheck
<1>3. x \in ChecksOf(s) /\ ~Claim(x)
  OBVIOUS
<1> DEFINE D == Direct(s, x)
           V == Virtuals(s)
           A == {z \in D : y \in Direct(s, Unfinished(z))}
           B == {w \in Deep(s, x) : y \in Direct(s, Unfinished(w))}
           C == {z \in D : y \in Deep(s, Unfinished(z))}
           R == {r \in D \X V : r[2] \in Deep(s, Unfinished(r[1])) /\ y \in Direct(s, Unfinished(r[2]))}
<1>4. /\ D \subseteq V /\ Deep(s, x) \subseteq V /\ IsFiniteSet(V) /\ IsFiniteSet(D)
      /\ IsFiniteSet(A) /\ IsFiniteSet(OddRows(D, V, R)) /\ IsFiniteSet(OddColumns(D, V, R))
  <2>1. D \subseteq V /\ Deep(s, x) \subseteq V /\ IsFiniteSet(V)
    BY VirtualsFinite DEF Direct, Deep
  <2>2. IsFiniteSet(D)
    BY <2>1, FS_Subset
  <2>3. A \subseteq D /\ OddRows(D, V, R) \subseteq D /\ OddColumns(D, V, R) \subseteq V
    BY DEF OddRows, OddColumns
  <2> HIDE DEF A, D, V, R
  <2> QED
    BY <2>1, <2>2, <2>3, FS_Subset
<1>5. ASSUME NEW z \in D
      PROVE  Claim(Unfinished(z))
  <2>1. Naming2(s, x, z) # {}
    BY ParityOfOne DEF Direct
  <2>2. PICK j \in 1 .. Len(Measurements(s, x)) :
            Measurements(s, x)[j].port # Local /\ Named(s, x[1], Measurements(s, x)[j]) = z
    BY <2>1 DEF Naming2
  <2>3. j \in DOMAIN Measurements(s, x)
    BY <1>3, CheckShape
  <2>4. <<z[1], "unfinished", z[2]>> \notin P
    BY <1>2, <2>2, <2>3
  <2>5. <<z[1], "unfinished", z[2]>> \in ChecksOf(s)
    BY <1>4 DEF Virtuals
  <2> HIDE DEF Claim, D
  <2> QED
    BY <2>4, <2>5 DEF Unfinished
<1>6. C = Xor(A, OddRows(D, V, R))
  <2>1. ASSUME NEW z \in D
        PROVE  z \in C <=> z \in Xor(A, OddRows(D, V, R))
    <3>1. {w \in V : <<z, w>> \in R} = {w \in Deep(s, Unfinished(z)) : y \in Direct(s, Unfinished(w))}
      <4>1. Deep(s, Unfinished(z)) \subseteq V
        BY DEF Deep
      <4> HIDE DEF D, V
      <4> QED
        BY <4>1
    <3>2. z \in OddRows(D, V, R)
             <=> OddSet({w \in Deep(s, Unfinished(z)) : y \in Direct(s, Unfinished(w))})
      <4> HIDE DEF D, V, R
      <4> QED
        BY <3>1 DEF OddRows
    <3>3. (z \in C <=> y \in Deep(s, Unfinished(z))) /\ (z \in A <=> y \in Direct(s, Unfinished(z)))
      OBVIOUS
    <3>4. Claim(Unfinished(z))
      BY <1>5
    <3>5. OddSet({w \in Deep(s, Unfinished(z)) : y \in Direct(s, Unfinished(w))}) \in BOOLEAN
      BY DEF OddSet
    <3> HIDE DEF A, C, D, V, R
    <3> QED
      BY <3>2, <3>3, <3>4, <3>5 DEF Xor
  <2>2. C \subseteq D /\ Xor(A, OddRows(D, V, R)) \subseteq D
    BY DEF Xor, OddRows
  <2> HIDE DEF A, C, D, V, R
  <2> QED
    BY <2>1, <2>2
<1>7. B = Xor(A, OddColumns(D, V, R))
  <2>1. ASSUME NEW w \in V
        PROVE  w \in B <=> w \in Xor(A, OddColumns(D, V, R))
    <3> DEFINE E == {z \in D : w \in Deep(s, Unfinished(z))}
    <3>1. w \in Deep(s, x) <=> ((w \in D) # OddSet(E))
      BY <1>3, DeepFromWithin
    <3>2. y \in Direct(s, Unfinished(w)) => {z \in D : <<z, w>> \in R} = E
      <4> HIDE DEF D, V
      <4> QED
        OBVIOUS
    <3>3. ~(y \in Direct(s, Unfinished(w))) => {z \in D : <<z, w>> \in R} = {}
      <4> HIDE DEF D, V
      <4> QED
        OBVIOUS
    <3>4. w \in OddColumns(D, V, R) <=> OddSet({z \in D : <<z, w>> \in R})
      BY DEF OddColumns
    <3>5. ~OddSet({}) /\ OddSet(E) \in BOOLEAN
      BY ParityOfOne DEF OddSet
    <3>6. /\ w \in B <=> w \in Deep(s, x) /\ y \in Direct(s, Unfinished(w))
          /\ w \in A <=> w \in D /\ y \in Direct(s, Unfinished(w))
      OBVIOUS
    <3> HIDE DEF A, B, D, V, R, E
    <3>7. w \in Xor(A, OddColumns(D, V, R)) <=> ((w \in A) # (w \in OddColumns(D, V, R)))
      BY DEF Xor
    <3>8. CASE y \in Direct(s, Unfinished(w))
      <4>1. w \in OddColumns(D, V, R) <=> OddSet(E)
        BY <3>2, <3>4, <3>8
      <4> QED
        BY <3>1, <3>5, <3>6, <3>7, <3>8, <4>1
    <3>9. CASE ~(y \in Direct(s, Unfinished(w)))
      <4>1. ~(w \in OddColumns(D, V, R))
        BY <3>3, <3>4, <3>5, <3>9
      <4> QED
        BY <3>6, <3>7, <3>9, <4>1
    <3> QED
      BY <3>8, <3>9
  <2>2. B \subseteq V /\ Xor(A, OddColumns(D, V, R)) \subseteq V
    <3>1. A \subseteq V /\ B \subseteq V
      BY <1>4
    <3> HIDE DEF A, B
    <3> QED
      BY <3>1 DEF Xor, OddColumns
  <2> HIDE DEF A, B, D, V, R
  <2> QED
    BY <2>1, <2>2
<1>8. OddSet(OddRows(D, V, R)) <=> OddSet(OddColumns(D, V, R))
  <2> HIDE DEF D, V, R
  <2> QED
    BY <1>4, RowsAndColumns
<1>9. y \in Deep(s, x) <=> ((y \in D) # OddSet(C))
  BY <1>3, DeepFromWithin
<1>10. /\ OddSet(Xor(A, OddRows(D, V, R))) <=> (OddSet(A) # OddSet(OddRows(D, V, R)))
       /\ OddSet(Xor(A, OddColumns(D, V, R))) <=> (OddSet(A) # OddSet(OddColumns(D, V, R)))
  <2> HIDE DEF A, D, V, R
  <2> QED
    BY <1>4, ParityOfXor
<1>11. OddSet(B) <=> OddSet(C)
  <2> HIDE DEF A, B, C, D, V, R
  <2>1. OddSet(B) <=> (OddSet(A) # OddSet(OddColumns(D, V, R)))
    BY <1>7, <1>10
  <2>2. OddSet(C) <=> (OddSet(A) # OddSet(OddRows(D, V, R)))
    BY <1>6, <1>10
  <2>3. OddSet(OddRows(D, V, R)) \in BOOLEAN /\ OddSet(OddColumns(D, V, R)) \in BOOLEAN
    BY DEF OddSet
  <2> QED
    BY <1>8, <2>1, <2>2, <2>3
<1>12. ~(y \in Deep(s, x) <=> ((y \in D) # OddSet(B)))
  BY <1>3
<1>13. OddSet(B) \in BOOLEAN /\ OddSet(C) \in BOOLEAN
  BY DEF OddSet
<1> HIDE DEF B, C, D
<1> QED
  BY <1>9, <1>11, <1>12, <1>13

-----------------------------------------------------------------------------
(* What a virtual check resolves to: the finished checks that include it.  *)

Resolves(s, v) ==
    {[cid |-> x[1], index |-> x[3]] :
        x \in {x \in ChecksOf(s) : x[2] = "finished" /\ v \in Deep(s, x)}}

LEMMA InResolves ==
    ASSUME NEW s \in Setups, NEW v, NEW r
    PROVE  r \in Resolves(s, v) <=>
              /\ r = [cid |-> r.cid, index |-> r.index]
              /\ <<r.cid, "finished", r.index>> \in ChecksOf(s)
              /\ v \in Deep(s, <<r.cid, "finished", r.index>>)
<1>1. ASSUME r \in Resolves(s, v)
      PROVE  /\ r = [cid |-> r.cid, index |-> r.index]
             /\ <<r.cid, "finished", r.index>> \in ChecksOf(s)
             /\ v \in Deep(s, <<r.cid, "finished", r.index>>)
  <2>1. PICK x \in ChecksOf(s) : /\ x[2] = "finished" /\ v \in Deep(s, x)
                                 /\ r = [cid |-> x[1], index |-> x[3]]
    BY <1>1 DEF Resolves
  <2>2. x = <<r.cid, "finished", r.index>>
    <3>1. x = <<x[1], x[2], x[3]>>
      BY CheckShape
    <3>2. r.cid = x[1] /\ r.index = x[3]
      BY <2>1
    <3> QED
      BY <2>1, <3>1, <3>2
  <2>3. r = [cid |-> r.cid, index |-> r.index]
    BY <2>1
  <2> QED
    BY <2>1, <2>2, <2>3
<1>2. ASSUME /\ r = [cid |-> r.cid, index |-> r.index]
             /\ <<r.cid, "finished", r.index>> \in ChecksOf(s)
             /\ v \in Deep(s, <<r.cid, "finished", r.index>>)
      PROVE  r \in Resolves(s, v)
  <2> DEFINE x == <<r.cid, "finished", r.index>>
  <2>1. x \in ChecksOf(s) /\ x[2] = "finished" /\ v \in Deep(s, x)
        /\ x[1] = r.cid /\ x[3] = r.index
    BY <1>2
  <2> HIDE DEF x
  <2>2. r = [cid |-> x[1], index |-> x[3]]
    BY <1>2, <2>1
  <2> QED
    BY <2>1, <2>2 DEF Resolves
<1> QED
  BY <1>1, <1>2

\* The virtual check k of port p of gadget g, as its peer's connector has it.
VirtualOf(s, g, p, k) == <<g, Before(TypeIn(s, g), p) + k>>

\* Who names a virtual check: the gadget whose connector is at its port.
LEMMA NamedByConsumer ==
    ASSUME NEW s \in Setups, NEW h \in s.gids, NEW q \in DOMAIN s.connectors[h],
           NEW k \in 1 .. TypeIn(s, h).inputs[q],
           NEW x \in ChecksOf(s), NEW j \in DOMAIN Measurements(s, x),
           Measurements(s, x)[j].port # Local
    PROVE  Named(s, x[1], Measurements(s, x)[j])
              = VirtualOf(s, s.connectors[h][q].gid, s.connectors[h][q].port, k)
           <=> x[1] = h /\ Measurements(s, x)[j] = [port |-> q, index |-> k]
<1> DEFINE m == Measurements(s, x)[j]
           c == s.connectors[x[1]][m.port]
           d == s.connectors[h][q]
           t == TypeIn(s, c.gid)
           u == TypeIn(s, d.gid)
<1>1. /\ x[1] \in s.gids /\ m.port \in DOMAIN s.connectors[x[1]]
      /\ m.index \in 1 .. TypeIn(s, x[1]).inputs[m.port]
      /\ m \in [port : Nat, index : Nat]
  <2>1. /\ x[1] \in s.gids /\ m.port \in DOMAIN s.connectors[x[1]]
        /\ m.index \in 1 .. TypeIn(s, x[1]).inputs[m.port]
    BY CheckShape
  <2>2. m \in [port : Nat, index : Nat]
    <3>1. IsCheck(TypeIn(s, x[1])[x[2]][x[3]])
      <4>1. /\ x[1] \in s.gids /\ x[2] \in {"finished", "unfinished"}
            /\ x[3] \in DOMAIN TypeIn(s, x[1])[x[2]]
        BY CheckShape
      <4>2. IsGadgetType(TypeIn(s, x[1]))
        BY <4>1, ProgramShape
      <4> QED
        BY <4>1, <4>2 DEF IsGadgetType
    <3>2. Measurements(s, x) \in Seq([port : Nat, index : Nat])
      <4>1. Measurements(s, x) = TypeIn(s, x[1])[x[2]][x[3]].measurements
        BY Zenon DEF Measurements, TypeIn
      <4> QED
        BY <3>1, <4>1 DEF IsCheck
    <3> QED
      BY <3>2, SequenceElement
  <2> QED
    BY <2>1, <2>2
<1>2. /\ c.gid \in s.gids /\ c.port \in DOMAIN t.outputs /\ c \in [gid : s.gids, port : Nat]
      /\ t.outputs[c.port] = TypeIn(s, x[1]).inputs[m.port]
      /\ d.gid \in s.gids /\ d.port \in DOMAIN u.outputs /\ d \in [gid : s.gids, port : Nat]
      /\ u.outputs[d.port] = TypeIn(s, h).inputs[q]
  BY <1>1, ProgramShape
<1>3. IsGadgetType(t)
  <2>1. \A i \in s.gids : IsGadgetType(TypeIn(s, i))
    BY ProgramShape
  <2> HIDE DEF c
  <2> QED
    BY <1>2, <2>1
<1>4. Named(s, x[1], m) = <<c.gid, Before(t, c.port) + m.index>>
  BY Zenon DEF Named, TypeIn
<1>5. VirtualOf(s, d.gid, d.port, k) = <<d.gid, Before(u, d.port) + k>>
  BY Zenon DEF VirtualOf
<1>6. ASSUME x[1] = h, m = [port |-> q, index |-> k]
      PROVE  c = d /\ m.index = k
  BY <1>6
<1>7. ASSUME c.gid = d.gid, Before(t, c.port) + m.index = Before(u, d.port) + k
      PROVE  x[1] = h /\ m = [port |-> q, index |-> k]
  <2>1. t = u
    BY <1>7
  <2>2. c.port = d.port /\ m.index = k
    <3> HIDE DEF c, d, t, u, m
    <3>1. t.outputs \in Seq(Nat)
      BY <1>3 DEF IsGadgetType
    <3>2. /\ c.port \in DOMAIN t.outputs /\ d.port \in DOMAIN t.outputs
          /\ m.index \in 1 .. t.outputs[c.port] /\ k \in 1 .. t.outputs[d.port]
          /\ Before(t, c.port) + m.index = Before(t, d.port) + k
      BY <1>1, <1>2, <1>7, <2>1
    <3> QED
      BY <3>1, <3>2, PlacesDiffer
  <2>3. c = d
    <3> HIDE DEF c, d
    <3> QED
      BY <1>2, <1>7, <2>2
  <2>4. x[1] = h /\ m.port = q
    BY <1>1, <2>3, ProgramShape
  <2> HIDE DEF m
  <2> QED
    BY <1>1, <2>2, <2>4
<1> HIDE DEF c, d, t, u, m
<1>8. Named(s, x[1], m) = VirtualOf(s, d.gid, d.port, k)
         <=> c.gid = d.gid /\ Before(t, c.port) + m.index = Before(u, d.port) + k
  BY <1>4, <1>5
<1>9. Named(s, x[1], m) = VirtualOf(s, d.gid, d.port, k)
         <=> x[1] = h /\ m = [port |-> q, index |-> k]
  <2>1. c = d => t = u
    BY DEF t, u
  <2> QED
    BY <1>6, <1>7, <1>8, <2>1
<1> QED
  BY <1>9 DEF m, d

LEMMA VirtualThere ==
    ASSUME NEW s \in Setups, NEW g \in s.gids, NEW p \in DOMAIN TypeIn(s, g).outputs,
           NEW k \in 1 .. TypeIn(s, g).outputs[p]
    PROVE  /\ VirtualOf(s, g, p, k) \in Virtuals(s)
           /\ Before(TypeIn(s, g), p) + k \in DOMAIN TypeIn(s, g).unfinished
           /\ Before(TypeIn(s, g), p) + k \in Nat
<1> DEFINE t == TypeIn(s, g)
           b == Before(t, p) + k
<1>1. /\ t.outputs \in Seq(Nat) /\ DOMAIN t.unfinished = 1 .. Before(t, Len(t.outputs) + 1)
      /\ p \in DOMAIN t.outputs /\ k \in 1 .. t.outputs[p]
  BY ProgramShape DEF IsGadgetType, IsWellFormedType
<1>2. b \in 1 .. Before(t, Len(t.outputs) + 1)
  <2> HIDE DEF t
  <2> QED
    BY <1>1, PlaceThere
<1>3. b \in Nat
  <2>1. /\ Before(t, p) \in Nat /\ t.outputs[p] \in Nat
    <3> HIDE DEF t
    <3> QED
      BY <1>1, PortsBefore, PortNumbers
  <2>2. \A n \in Nat : \A i \in 1 .. n : i \in Nat
    OBVIOUS
  <2>3. k \in Nat
    <3> DEFINE n == t.outputs[p]
    <3>1. n \in Nat /\ k \in 1 .. n
      BY <2>1
    <3> HIDE DEF n
    <3> QED
      BY <2>2, <3>1
  <2>4. \A a \in Nat : a + k \in Nat
    BY <2>3
  <2> HIDE DEF t
  <2> QED
    BY <2>1, <2>4
<1>4. <<g, "unfinished", b>> \in ChecksOf(s)
  <2>1. b \in DOMAIN t["unfinished"]
    BY <1>1, <1>2
  <2> HIDE DEF b
  <2> QED
    BY <2>1, CheckPlaces
<1>5. VirtualOf(s, g, p, k) = <<g, b>>
  BY Zenon DEF VirtualOf
<1>6. b \in DOMAIN t.unfinished
  BY <1>1, <1>2
<1> HIDE DEF b
<1>7. <<g, b>> \in Virtuals(s)
  BY <1>3, <1>4 DEF Virtuals
<1> QED
  BY <1>3, <1>5, <1>6, <1>7 DEF b, t

\* Only the gadget behind a port names its virtual checks, as often as the map says.
LEMMA NamingCounts ==
    ASSUME NEW s \in Setups, NEW h \in s.gids, NEW q \in DOMAIN s.connectors[h],
           NEW k \in 1 .. TypeIn(s, h).inputs[q], NEW v,
           v = VirtualOf(s, s.connectors[h][q].gid, s.connectors[h][q].port, k)
    PROVE  /\ v \in Virtuals(s)
           /\ \A x \in ChecksOf(s) : v \in Direct(s, x) => x[1] = h
           /\ \A kind \in {"finished", "unfinished"} : \A i \in DOMAIN TypeIn(s, h)[kind] :
                 /\ <<h, kind, i>> \in ChecksOf(s)
                 /\ Naming(TypeIn(s, h)[kind], q, k)[i] = Cardinality(Naming2(s, <<h, kind, i>>, v))
                 /\ IsFiniteSet(Naming2(s, <<h, kind, i>>, v))
                 /\ \A j \in Naming2(s, <<h, kind, i>>, v) :
                       TypeIn(s, h)[kind][i].measurements[j] = [port |-> q, index |-> k]
<1> DEFINE d == s.connectors[h][q]
<1>1. v \in Virtuals(s)
  <2>1. /\ d.gid \in s.gids /\ d.port \in DOMAIN TypeIn(s, d.gid).outputs
        /\ k \in 1 .. TypeIn(s, d.gid).outputs[d.port]
    BY ProgramShape
  <2> HIDE DEF d
  <2>2. VirtualOf(s, d.gid, d.port, k) \in Virtuals(s)
    BY <2>1, VirtualThere
  <2> QED
    BY <2>2 DEF d
<1>2. \A x \in ChecksOf(s) : \A j \in DOMAIN Measurements(s, x) :
         Measurements(s, x)[j].port # Local =>
            (Named(s, x[1], Measurements(s, x)[j]) = v
               <=> x[1] = h /\ Measurements(s, x)[j] = [port |-> q, index |-> k])
  BY NamedByConsumer
<1>3. ASSUME NEW x \in ChecksOf(s)
      PROVE  /\ Naming2(s, x, v) = {j \in DOMAIN Measurements(s, x) :
                    x[1] = h /\ Measurements(s, x)[j] = [port |-> q, index |-> k]}
             /\ IsFiniteSet(Naming2(s, x, v))
  <2>1. /\ Len(Measurements(s, x)) \in Nat
        /\ DOMAIN Measurements(s, x) = 1 .. Len(Measurements(s, x))
    BY CheckShape
  <2>2. q \in Nat /\ q # Local
    <3>1. TypeIn(s, h).inputs \in Seq(Nat) /\ DOMAIN s.connectors[h] = DOMAIN TypeIn(s, h).inputs
      BY ProgramShape DEF IsGadgetType
    <3>2. /\ Len(TypeIn(s, h).inputs) \in Nat
          /\ DOMAIN TypeIn(s, h).inputs = 1 .. Len(TypeIn(s, h).inputs)
      BY <3>1, SequenceElement
    <3>3. \A n \in Nat : \A i \in 1 .. n : i \in Nat /\ i # 0
      OBVIOUS
    <3> QED
      BY <3>1, <3>2, <3>3 DEF Local
  <2>3. \A j \in DOMAIN Measurements(s, x) :
           Measurements(s, x)[j] = [port |-> q, index |-> k] => Measurements(s, x)[j].port # Local
    BY <2>2
  <2>4. Naming2(s, x, v) = {j \in DOMAIN Measurements(s, x) :
                    x[1] = h /\ Measurements(s, x)[j] = [port |-> q, index |-> k]}
    BY <1>2, <2>1, <2>3 DEF Naming2
  <2>5. IsFiniteSet(1 .. Len(Measurements(s, x)))
    BY <2>1, Interval
  <2>6. Naming2(s, x, v) \subseteq 1 .. Len(Measurements(s, x))
    BY DEF Naming2
  <2> QED
    BY <2>4, <2>5, <2>6, FS_Subset
<1>4. ASSUME NEW x \in ChecksOf(s), v \in Direct(s, x)
      PROVE  x[1] = h
  <2>1. Naming2(s, x, v) # {}
    BY <1>4, ParityOfOne DEF Direct
  <2> QED
    BY <1>3, <2>1
<1>5. ASSUME NEW kind \in {"finished", "unfinished"}, NEW i \in DOMAIN TypeIn(s, h)[kind]
      PROVE  /\ <<h, kind, i>> \in ChecksOf(s)
             /\ Naming(TypeIn(s, h)[kind], q, k)[i] = Cardinality(Naming2(s, <<h, kind, i>>, v))
             /\ IsFiniteSet(Naming2(s, <<h, kind, i>>, v))
             /\ \A j \in Naming2(s, <<h, kind, i>>, v) :
                   TypeIn(s, h)[kind][i].measurements[j] = [port |-> q, index |-> k]
  <2> DEFINE x == <<h, kind, i>>
             ms == TypeIn(s, h)[kind][i].measurements
  <2>1. x \in ChecksOf(s)
    BY CheckPlaces
  <2>2. Measurements(s, x) = ms /\ x[1] = h
    BY DEF Measurements, TypeIn
  <2>3. Naming(TypeIn(s, h)[kind], q, k)[i]
           = Cardinality({j \in DOMAIN ms : ms[j] = [port |-> q, index |-> k]})
    <3> DEFINE checksOf == TypeIn(s, h)[kind]
    <3>1. Naming(checksOf, q, k)
            = [a \in DOMAIN checksOf |-> Cardinality({j \in DOMAIN checksOf[a].measurements :
                  checksOf[a].measurements[j] = [port |-> q, index |-> k]})]
      BY Zenon DEF Naming
    <3> HIDE DEF checksOf
    <3>2. i \in DOMAIN checksOf
      BY DEF checksOf
    <3>3. Naming(checksOf, q, k)[i]
            = Cardinality({j \in DOMAIN checksOf[i].measurements :
                  checksOf[i].measurements[j] = [port |-> q, index |-> k]})
      BY <3>1, <3>2
    <3> QED
      BY <3>3 DEF checksOf
  <2>4. Naming2(s, x, v) = {j \in DOMAIN ms : ms[j] = [port |-> q, index |-> k]}
    <3> HIDE DEF x, ms
    <3> QED
      BY <1>3, <2>1, <2>2
  <2>5. IsFiniteSet(Naming2(s, x, v))
    BY <1>3, <2>1
  <2> HIDE DEF ms, x
  <2>6. \A j \in Naming2(s, x, v) : ms[j] = [port |-> q, index |-> k]
    BY <2>4
  <2> QED
    BY <2>1, <2>3, <2>4, <2>5, <2>6 DEF x, ms
<1> QED
  BY <1>1, <1>4, <1>5

\* resolve_virtual_check: from what the gadget behind the port published of the virtual
\* checks it passes on, a task gets exactly the finished checks of the whole program that
\* include the virtual check, an odd number of times.
THEOREM ResolveExact ==
    ASSUME NEW s \in Setups, NEW h \in s.gids, NEW q \in DOMAIN s.connectors[h],
           NEW k \in 1 .. TypeIn(s, h).inputs[q], NEW entry,
           entry = InputVirtualCheckMap(TypeIn(s, h))[q][k], NEW resolved,
           \A u \in DOMAIN entry.unfinished :
              entry.unfinished[u] > 0 => resolved[u] = Resolves(s, <<h, u>>)
    PROVE  ResolveVirtualCheck(entry, h, resolved)
              = Resolves(s, VirtualOf(s, s.connectors[h][q].gid, s.connectors[h][q].port, k))
<1> DEFINE v == VirtualOf(s, s.connectors[h][q].gid, s.connectors[h][q].port, k)
           fin == TypeIn(s, h).finished
           unf == TypeIn(s, h).unfinished
           now == {[cid |-> h, index |-> i] : i \in {i \in DOMAIN entry.finished : entry.finished[i] > 0}}
           later == {u \in DOMAIN entry.unfinished : entry.unfinished[u] % 2 = 1}
           through == {x \in UNION {resolved[u] : u \in later} : OddSet({u \in later : x \in resolved[u]})}
<1>1. /\ v \in Virtuals(s)
      /\ \A x \in ChecksOf(s) : v \in Direct(s, x) => x[1] = h
      /\ \A kind \in {"finished", "unfinished"} : \A i \in DOMAIN TypeIn(s, h)[kind] :
            /\ <<h, kind, i>> \in ChecksOf(s)
            /\ Naming(TypeIn(s, h)[kind], q, k)[i] = Cardinality(Naming2(s, <<h, kind, i>>, v))
            /\ IsFiniteSet(Naming2(s, <<h, kind, i>>, v))
            /\ \A j \in Naming2(s, <<h, kind, i>>, v) :
                  TypeIn(s, h)[kind][i].measurements[j] = [port |-> q, index |-> k]
  BY NamingCounts
<1>2. entry = [finished |-> Naming(fin, q, k), unfinished |-> Naming(unf, q, k)]
  <2>1. q \in DOMAIN TypeIn(s, h).inputs
    BY ProgramShape
  <2>2. InputVirtualCheckMap(TypeIn(s, h))[q][k]
           = [finished |-> Naming(TypeIn(s, h).finished, q, k),
              unfinished |-> Naming(TypeIn(s, h).unfinished, q, k)]
    BY <2>1 DEF InputVirtualCheckMap
  <2> QED
    BY <2>2
<1>3. /\ entry.finished = Naming(fin, q, k) /\ entry.unfinished = Naming(unf, q, k)
      /\ DOMAIN entry.finished = DOMAIN fin /\ DOMAIN entry.unfinished = DOMAIN unf
  <2>1. \A f : DOMAIN Naming(f, q, k) = DOMAIN f
    BY DEF Naming
  <2> HIDE DEF fin, unf
  <2> QED
    BY <1>2, <2>1
<1>4. ASSUME NEW i \in DOMAIN fin
      PROVE  entry.finished[i] > 0 <=> v \in Direct(s, <<h, "finished", i>>)
  <2> DEFINE N == Naming2(s, <<h, "finished", i>>, v)
  <2>1. /\ entry.finished[i] = Cardinality(N) /\ IsFiniteSet(N)
        /\ \A j \in N : fin[i].measurements[j] = [port |-> q, index |-> k]
    BY <1>1, <1>3
  <2>2. \A j, l \in N : j = l
    <3>1. NamesOnce(fin[i]) /\ IsCheck(fin[i])
      BY ProgramShape DEF IsGadgetType, IsWellFormedType
    <3>2. \A j \in N : j \in DOMAIN fin[i].measurements /\ fin[i].measurements[j].port # Local
      <4>1. Measurements(s, <<h, "finished", i>>) = fin[i].measurements
        BY DEF Measurements, TypeIn
      <4>2. fin[i].measurements \in Seq([port : Nat, index : Nat])
        BY <3>1 DEF IsCheck
      <4>3. DOMAIN fin[i].measurements = 1 .. Len(fin[i].measurements)
        <5> DEFINE ms == fin[i].measurements
        <5>1. ms \in Seq([port : Nat, index : Nat])
          BY <4>2
        <5> HIDE DEF ms
        <5>2. DOMAIN ms = 1 .. Len(ms)
          BY <5>1, SequenceElement
        <5> QED
          BY <5>2 DEF ms
      <4> QED
        BY <4>1, <4>3, Zenon DEF Naming2
    <3> HIDE DEF fin, N
    <3> QED
      BY <2>1, <3>1, <3>2 DEF NamesOnce
  <2>3. v \in Direct(s, <<h, "finished", i>>) <=> OddSet(N)
    BY <1>1 DEF Direct
  <2>4. Cardinality(N) > 0 <=> OddSet(N)
    <3> HIDE DEF N
    <3>1. CASE N = {}
      BY <3>1, FS_EmptySet DEF OddSet
    <3>2. CASE N # {}
      <4>1. PICK j \in N : N = {j}
        BY <2>2, <3>2
      <4>2. Cardinality({j}) = 1
        BY FS_Singleton
      <4> QED
        BY <4>1, <4>2 DEF OddSet
    <3> QED
      BY <3>1, <3>2
  <2> QED
    BY <2>1, <2>3, <2>4
<1>5. ASSUME NEW u \in DOMAIN unf
      PROVE  /\ entry.unfinished[u] % 2 = 1 <=> v \in Direct(s, Unfinished(<<h, u>>))
             /\ entry.unfinished[u] % 2 = 1 => resolved[u] = Resolves(s, <<h, u>>)
             /\ Unfinished(<<h, u>>) \in ChecksOf(s)
  <2> DEFINE N == Naming2(s, <<h, "unfinished", u>>, v)
  <2>1. /\ entry.unfinished[u] = Cardinality(N) /\ IsFiniteSet(N)
        /\ <<h, "unfinished", u>> \in ChecksOf(s)
    BY <1>1, <1>3
  <2>2. Unfinished(<<h, u>>) = <<h, "unfinished", u>>
    BY DEF Unfinished
  <2>3. v \in Direct(s, <<h, "unfinished", u>>) <=> OddSet(N)
    BY <1>1 DEF Direct
  <2>4. Cardinality(N) \in Nat
    BY <2>1, FS_CardinalityType
  <2>5. \A n \in Nat : n % 2 = 1 => n > 0
    OBVIOUS
  <2> HIDE DEF N
  <2>6. entry.unfinished[u] % 2 = 1 => entry.unfinished[u] > 0
    BY <2>1, <2>4, <2>5
  <2> QED
    BY <1>3, <2>1, <2>2, <2>3, <2>6 DEF OddSet
<1>6. later = {u \in DOMAIN unf : v \in Direct(s, Unfinished(<<h, u>>))}
  BY <1>3, <1>5
<1>7. ASSUME NEW r
      PROVE  r \in now <=> /\ r = [cid |-> r.cid, index |-> r.index]
                           /\ <<r.cid, "finished", r.index>> \in ChecksOf(s)
                           /\ v \in Direct(s, <<r.cid, "finished", r.index>>)
  <2>1. ASSUME r \in now
        PROVE  /\ r = [cid |-> r.cid, index |-> r.index]
               /\ <<r.cid, "finished", r.index>> \in ChecksOf(s)
               /\ v \in Direct(s, <<r.cid, "finished", r.index>>)
    <3>1. PICK i \in DOMAIN fin : entry.finished[i] > 0 /\ r = [cid |-> h, index |-> i]
      BY <1>3, <2>1
    <3>2. /\ <<h, "finished", i>> \in ChecksOf(s) /\ v \in Direct(s, <<h, "finished", i>>)
      BY <1>1, <1>4, <3>1
    <3> QED
      BY <3>1, <3>2
  <2>2. ASSUME /\ r = [cid |-> r.cid, index |-> r.index]
               /\ <<r.cid, "finished", r.index>> \in ChecksOf(s)
               /\ v \in Direct(s, <<r.cid, "finished", r.index>>)
        PROVE  r \in now
    <3> DEFINE x == <<r.cid, "finished", r.index>>
    <3>1. x[1] = r.cid /\ x[2] = "finished" /\ x[3] = r.index
      OBVIOUS
    <3>2. x[1] = h
      <4> HIDE DEF x, v
      <4>1. x \in ChecksOf(s) /\ v \in Direct(s, x)
        BY <2>2 DEF x
      <4> QED
        BY <1>1, <4>1
    <3>3. x[3] \in DOMAIN TypeIn(s, x[1])[x[2]]
      <4>1. x \in ChecksOf(s)
        BY <2>2
      <4> HIDE DEF x
      <4> QED
        BY <4>1, CheckShape
    <3>4. r.index \in DOMAIN fin
      BY <3>1, <3>2, <3>3
    <3>5. entry.finished[r.index] > 0
      BY <1>4, <2>2, <3>1, <3>2, <3>4
    <3> HIDE DEF x, fin, v
    <3> QED
      BY <1>3, <2>2, <3>1, <3>2, <3>4, <3>5
  <2> QED
    BY <2>1, <2>2
<1>8. ASSUME NEW r
      PROVE  r \in through <=> OddSet({u \in later : r \in Resolves(s, <<h, u>>)})
  <2>1. {u \in later : r \in resolved[u]} = {u \in later : r \in Resolves(s, <<h, u>>)}
    BY <1>3, <1>5
  <2> HIDE DEF later
  <2>2. ASSUME OddSet({u \in later : r \in resolved[u]})
        PROVE  r \in UNION {resolved[u] : u \in later}
    <3>1. {u \in later : r \in resolved[u]} # {}
      BY <2>2, ParityOfOne
    <3> QED
      BY <3>1
  <2> QED
    BY <2>1, <2>2
<1>9. ASSUME NEW r, r = [cid |-> r.cid, index |-> r.index],
             <<r.cid, "finished", r.index>> \in ChecksOf(s)
      PROVE  r \in Xor(now, through) <=> r \in Resolves(s, v)
  <2> DEFINE x == <<r.cid, "finished", r.index>>
             W == {w \in Deep(s, x) : v \in Direct(s, Unfinished(w))}
             U == {u \in later : r \in Resolves(s, <<h, u>>)}
  <2>1. v \in Deep(s, x) <=> ((v \in Direct(s, x)) # OddSet(W))
    <3> HIDE DEF v
    <3> QED
      BY <1>1, <1>9, DeepFromBeyond
  <2>2. \A u : u \in U <=> u \in DOMAIN unf /\ <<h, u>> \in W
    <3>1. ASSUME NEW u \in U
          PROVE  u \in DOMAIN unf /\ <<h, u>> \in W
      <4>1. u \in DOMAIN unf /\ v \in Direct(s, Unfinished(<<h, u>>)) /\ r \in Resolves(s, <<h, u>>)
        BY <1>6
      <4>2. <<h, u>> \in Deep(s, x)
        BY <4>1, InResolves
      <4> QED
        BY <4>1, <4>2
    <3>2. ASSUME NEW u, u \in DOMAIN unf, <<h, u>> \in W
          PROVE  u \in U
      <4>1. <<h, u>> \in Deep(s, x) /\ v \in Direct(s, Unfinished(<<h, u>>))
        BY <3>2
      <4>2. r \in Resolves(s, <<h, u>>)
        BY <1>9, <4>1, InResolves
      <4>3. u \in later
        BY <1>6, <3>2, <4>1
      <4> HIDE DEF later
      <4> QED
        BY <4>2, <4>3
    <3> QED
      BY <3>1, <3>2
  <2>3. \A w \in W : w = <<h, w[2]>> /\ w[2] \in DOMAIN unf
    <3> SUFFICES ASSUME NEW w \in W PROVE w = <<h, w[2]>> /\ w[2] \in DOMAIN unf
      OBVIOUS
    <3>1. w \in Virtuals(s) /\ v \in Direct(s, Unfinished(w))
      BY DEF Deep
    <3>2. w = <<w[1], w[2]>> /\ Unfinished(w) \in ChecksOf(s) /\ Unfinished(w) = <<w[1], "unfinished", w[2]>>
      BY <3>1 DEF Virtuals, Unfinished
    <3>3. Unfinished(w)[1] = h
      BY <1>1, <3>1, <3>2
    <3>4. Unfinished(w)[3] \in DOMAIN TypeIn(s, Unfinished(w)[1])[Unfinished(w)[2]]
      BY <3>2, CheckShape
    <3>5. w[1] = h
      BY <3>2, <3>3
    <3> QED
      BY <3>2, <3>3, <3>4, <3>5
  <2>4. OddSet(U) <=> OddSet(W)
    <3> HIDE DEF U, W, v, unf
    <3>1. IsFiniteSet(W)
      <4>1. W \subseteq Virtuals(s)
        BY DEF W, Deep
      <4> QED
        BY <4>1, VirtualsFinite, FS_Subset
    <3> DEFINE second == [w \in W |-> w[2]]
    <3>2. second \in Injection(W, U) /\ second \in Surjection(W, U)
      <4>1. \A w \in W : w[2] \in U
        BY <2>2, <2>3
      <4>2. \A u \in U : <<h, u>> \in W /\ <<h, u>>[2] = u
        BY <2>2
      <4>3. \A w, z \in W : w[2] = z[2] => w = z
        BY <2>3
      <4> QED
        BY <4>1, <4>2, <4>3 DEF Injection, IsInjective, Surjection
    <3>3. Cardinality(U) = Cardinality(W)
      <4> HIDE DEF second
      <4>1. IsFiniteSet(U) /\ Cardinality(U) <= Cardinality(W)
        BY <3>1, <3>2, FS_Surjection
      <4>2. Cardinality(W) <= Cardinality(U)
        BY <3>1, <3>2, <4>1, FS_Injection
      <4>3. Cardinality(U) \in Nat /\ Cardinality(W) \in Nat
        BY <3>1, <4>1, FS_CardinalityType
      <4> QED
        BY <4>1, <4>2, <4>3
    <3> QED
      BY <3>3 DEF OddSet
  <2>5. r \in now <=> v \in Direct(s, x)
    BY <1>7, <1>9
  <2>6. r \in through <=> OddSet(U)
    BY <1>8
  <2>7. r \in Resolves(s, v) <=> v \in Deep(s, x)
    BY <1>9, InResolves
  <2> HIDE DEF now, through, W, U, x, v
  <2>8. r \in Xor(now, through) <=> ((r \in now) # (r \in through))
    BY DEF Xor
  <2>9. OddSet(U) \in BOOLEAN /\ OddSet(W) \in BOOLEAN
    BY DEF OddSet
  <2> QED
    BY <2>1, <2>4, <2>5, <2>6, <2>7, <2>8, <2>9
<1>10. ASSUME NEW r, r \in Xor(now, through) \/ r \in Resolves(s, v)
       PROVE  r = [cid |-> r.cid, index |-> r.index] /\ <<r.cid, "finished", r.index>> \in ChecksOf(s)
  <2>1. CASE r \in now
    BY <1>7, <2>1
  <2>2. CASE r \in through
    <3>1. {u \in later : r \in Resolves(s, <<h, u>>)} # {}
      BY <1>8, <2>2, ParityOfOne
    <3>2. \E u : r \in Resolves(s, <<h, u>>)
      BY <3>1
    <3> QED
      BY <3>2, InResolves
  <2>3. CASE r \in Resolves(s, v)
    BY <2>3, InResolves
  <2> HIDE DEF now, through
  <2> QED
    BY <1>10, <2>1, <2>2, <2>3 DEF Xor
<1>11. ResolveVirtualCheck(entry, h, resolved) = Xor(now, through)
  BY Zenon DEF ResolveVirtualCheck
<1> HIDE DEF now, through
<1> HIDE DEF v
<1>12. Xor(now, through) = Resolves(s, v)
  <2>1. ASSUME NEW r
        PROVE  r \in Xor(now, through) <=> r \in Resolves(s, v)
    <3>1. CASE r \in Xor(now, through) \/ r \in Resolves(s, v)
      <4>1. /\ r = [cid |-> r.cid, index |-> r.index]
            /\ <<r.cid, "finished", r.index>> \in ChecksOf(s)
        BY <1>10, <3>1
      <4> QED
        BY <1>9, <4>1
    <3> QED
      BY <3>1
  <2> QED
    BY <2>1
<1> QED
  BY <1>11, <1>12 DEF v

-----------------------------------------------------------------------------
(* Errors: their finished checks, and what their virtual checks resolve to. *)

LEMMA InFinishedOf ==
    ASSUME setup \in Setups, NEW v
    PROVE  v \in FinishedOf <=> /\ v = <<v[1], v[2]>>
                                /\ <<v[1], "finished", v[2]>> \in ChecksOf(setup)
<1> DEFINE of(h) == {<<h, i>> : i \in DOMAIN TypeOf(h).finished}
<1>1. FinishedOf = UNION {of(h) : h \in setup.gids}
  BY DEF FinishedOf
<1>2. ASSUME v \in FinishedOf
      PROVE  v = <<v[1], v[2]>> /\ <<v[1], "finished", v[2]>> \in ChecksOf(setup)
  <2>1. PICK h \in setup.gids : v \in of(h)
    BY <1>1, <1>2
  <2>2. PICK i \in DOMAIN TypeIn(setup, h)["finished"] : v = <<h, i>>
    BY <2>1 DEF TypeOf, TypeIn
  <2>3. <<h, "finished", i>> \in ChecksOf(setup)
    BY <2>1, <2>2, CheckPlaces
  <2> QED
    BY <2>2, <2>3
<1>3. ASSUME v = <<v[1], v[2]>>, <<v[1], "finished", v[2]>> \in ChecksOf(setup)
      PROVE  v \in FinishedOf
  <2> DEFINE x == <<v[1], "finished", v[2]>>
  <2>1. x[1] \in setup.gids /\ x[3] \in DOMAIN TypeIn(setup, x[1])[x[2]]
    <3>1. x \in ChecksOf(setup)
      BY <1>3
    <3> HIDE DEF x
    <3> QED
      BY <3>1, CheckShape
  <2>2. x[1] = v[1] /\ x[2] = "finished" /\ x[3] = v[2]
    OBVIOUS
  <2>3. v[1] \in setup.gids /\ v[2] \in DOMAIN TypeOf(v[1]).finished
    BY <2>1, <2>2 DEF TypeOf, TypeIn
  <2>4. v \in of(v[1])
    BY <1>3, <2>3
  <2> HIDE DEF of
  <2> QED
    BY <1>1, <2>3, <2>4
<1> QED
  BY <1>2, <1>3

LEMMA FinishedIncludes ==
    ASSUME setup \in Setups, NEW h, NEW i, <<h, "finished", i>> \in ChecksOf(setup)
    PROVE  Reference[setup][h][i] = Includes(setup)[<<h, "finished", i>>]
<1> DEFINE x == <<h, "finished", i>>
<1>1. h \in setup.gids /\ i \in DOMAIN Types[setup.gtype[h]].finished
  <2>1. x \in ChecksOf(setup) /\ x[1] = h /\ x[2] = "finished" /\ x[3] = i
    OBVIOUS
  <2> HIDE DEF x
  <2>2. x[1] \in setup.gids /\ x[3] \in DOMAIN TypeIn(setup, x[1])[x[2]]
    BY <2>1, CheckShape
  <2> QED
    BY <2>1, <2>2 DEF TypeIn
<1>2. Reference[setup] = [g \in setup.gids |->
          [j \in DOMAIN Types[setup.gtype[g]].finished |-> Includes(setup)[<<g, "finished", j>>]]]
  BY DEF Reference
<1> QED
  BY <1>1, <1>2

LEMMA ErrorExpanded ==
    ASSUME setup \in Setups, NEW g \in setup.gids, NEW k \in DOMAIN TypeOf(g).errors, NEW e,
           e = TypeOf(g).errors[k], NEW resolved,
           \A u \in DOMAIN TypeOf(g).unfinished : resolved[u] = Resolves(setup, <<g, u>>)
    PROVE  /\ {<<x.cid, x.index>> : x \in ExpandErrorChecks(e, resolved, g)}
                 = {v \in FinishedOf : Flips(g, e, v[1], v[2])}
           /\ \A u \in DOMAIN e.unfinished : e.unfinished[u] \in DOMAIN TypeOf(g).unfinished
<1> DEFINE t == TypeOf(g)
           m == Len(e.finished)
           n == Len(e.unfinished)
           F == XorAll(m, LAMBDA i : {[cid |-> g, index |-> e.finished[i]]})
           U == XorAll(n, LAMBDA i : resolved[e.unfinished[i]])
<1>1. /\ t = TypeIn(setup, g) /\ IsGadgetType(t) /\ IsWellFormedType(t)
  <2>1. t = TypeIn(setup, g)
    BY DEF TypeOf, TypeIn
  <2>2. IsGadgetType(TypeIn(setup, g)) /\ IsWellFormedType(TypeIn(setup, g))
    BY ProgramShape
  <2> QED
    BY <2>1, <2>2
<1>2. /\ e.finished \in Seq(Nat) /\ e.unfinished \in Seq(Nat)
      /\ \A j \in DOMAIN e.finished : e.finished[j] \in DOMAIN t.finished
      /\ \A j \in DOMAIN e.unfinished : e.unfinished[j] \in DOMAIN t.unfinished
  BY <1>1 DEF IsGadgetType, IsError, IsWellFormedType
<1>3. /\ DOMAIN e.finished = 1 .. m /\ DOMAIN e.unfinished = 1 .. n
      /\ \A j \in 1 .. n : e.unfinished[j] \in Nat
  BY <1>2, SequenceElement
<1>4. ASSUME NEW r
      PROVE  r \in F <=> OddSet({i \in 1 .. m : r = [cid |-> g, index |-> e.finished[i]]})
  <2> DEFINE f(i) == {[cid |-> g, index |-> e.finished[i]]}
  <2>1. F = {x \in UNION {f(i) : i \in 1 .. m} : OddSet({i \in 1 .. m : x \in f(i)})}
    BY DEF XorAll, Odd
  <2>2. {i \in 1 .. m : r \in f(i)} = {i \in 1 .. m : r = [cid |-> g, index |-> e.finished[i]]}
    OBVIOUS
  <2> HIDE DEF f, F, m
  <2>3. ASSUME OddSet({i \in 1 .. m : r \in f(i)})
        PROVE  r \in UNION {f(i) : i \in 1 .. m}
    <3>1. {i \in 1 .. m : r \in f(i)} # {}
      BY <2>3, ParityOfOne
    <3> QED
      BY <3>1
  <2> QED
    BY <2>1, <2>2, <2>3
<1>5. ASSUME NEW r
      PROVE  r \in U <=> OddSet({i \in 1 .. n : r \in Resolves(setup, <<g, e.unfinished[i]>>)})
  <2> DEFINE f(i) == resolved[e.unfinished[i]]
  <2>1. U = {x \in UNION {f(i) : i \in 1 .. n} : OddSet({i \in 1 .. n : x \in f(i)})}
    BY DEF XorAll, Odd
  <2>2. {i \in 1 .. n : r \in f(i)} = {i \in 1 .. n : r \in Resolves(setup, <<g, e.unfinished[i]>>)}
    BY <1>2, <1>3
  <2> HIDE DEF f, U, n
  <2>3. ASSUME OddSet({i \in 1 .. n : r \in f(i)})
        PROVE  r \in UNION {f(i) : i \in 1 .. n}
    <3>1. {i \in 1 .. n : r \in f(i)} # {}
      BY <2>3, ParityOfOne
    <3> QED
      BY <3>1
  <2> QED
    BY <2>1, <2>2, <2>3
<1>6. ASSUME NEW v, v = <<v[1], v[2]>>, <<v[1], "finished", v[2]>> \in ChecksOf(setup),
             NEW r, r = [cid |-> v[1], index |-> v[2]]
      PROVE  r \in Xor(F, U) <=> Flips(g, e, v[1], v[2])
  <2> DEFINE V == Reference[setup][v[1]][v[2]]
             left == {u \in 1 .. n : <<"virtual", g, e.unfinished[u]>> \in V}
             right == {i \in 1 .. m : e.finished[i] = v[2]}
  <2>1. r \in F <=> v[1] = g /\ OddSet(right)
    <3>1. CASE v[1] = g
      <4>1. {i \in 1 .. m : r = [cid |-> g, index |-> e.finished[i]]} = right
        BY <1>6, <3>1
      <4> HIDE DEF F, right, m
      <4> QED
        BY <1>4, <3>1, <4>1
    <3>2. CASE v[1] # g
      <4>1. {i \in 1 .. m : r = [cid |-> g, index |-> e.finished[i]]} = {}
        BY <1>6, <3>2
      <4> HIDE DEF F, right, m
      <4> QED
        BY <1>4, <3>2, <4>1, ParityOfOne
    <3> HIDE DEF F, right
    <3> QED
      BY <3>1, <3>2
  <2>2. ASSUME NEW u \in 1 .. n
        PROVE  r \in Resolves(setup, <<g, e.unfinished[u]>>)
                  <=> <<"virtual", g, e.unfinished[u]>> \in V
    <3> DEFINE w == e.unfinished[u]
               x == <<v[1], "finished", v[2]>>
    <3>1. w \in Nat /\ w \in DOMAIN TypeIn(setup, g)["unfinished"]
      BY <1>1, <1>2, <1>3
    <3>2. <<g, w>> \in Virtuals(setup)
      <4> HIDE DEF w
      <4>1. <<g, "unfinished", w>> \in ChecksOf(setup)
        BY <3>1, CheckPlaces
      <4> QED
        BY <3>1, <4>1 DEF Virtuals
    <3>3. V = Includes(setup)[x]
      BY <1>6, FinishedIncludes
    <3> HIDE DEF w, V
    <3>4. r \in Resolves(setup, <<g, w>>) <=> <<g, w>> \in Deep(setup, x)
      <4>1. r.cid = v[1] /\ r.index = v[2] /\ r = [cid |-> r.cid, index |-> r.index]
        BY <1>6
      <4> QED
        BY <1>6, <4>1, InResolves
    <3> HIDE DEF x
    <3>5. <<g, w>> \in Deep(setup, x) <=> <<"virtual", g, w>> \in Includes(setup)[x]
      BY <3>2 DEF Deep
    <3>6. r \in Resolves(setup, <<g, w>>) <=> <<"virtual", g, w>> \in V
      BY <3>3, <3>4, <3>5
    <3> QED
      BY <3>6 DEF w
  <2>3. r \in U <=> OddSet(left)
    <3>1. {i \in 1 .. n : r \in Resolves(setup, <<g, e.unfinished[i]>>)} = left
      BY <2>2
    <3> HIDE DEF U, left, n
    <3> QED
      BY <1>5, <3>1
  <2>4. Flips(g, e, v[1], v[2]) <=> (OddSet(left) # (v[1] = g /\ OddSet(right)))
    BY Zenon DEF Flips, Odd
  <2> HIDE DEF F, U, left, right
  <2>5. r \in Xor(F, U) <=> ((r \in F) # (r \in U))
    BY DEF Xor
  <2>6. OddSet(left) \in BOOLEAN /\ OddSet(right) \in BOOLEAN
    BY DEF OddSet
  <2> QED
    BY <2>1, <2>3, <2>4, <2>5, <2>6
<1>7. ASSUME NEW r \in Xor(F, U)
      PROVE  /\ r = [cid |-> r.cid, index |-> r.index]
             /\ <<r.cid, "finished", r.index>> \in ChecksOf(setup)
  <2> HIDE DEF F, U
  <2>1. CASE r \in F
    <3>1. {i \in 1 .. m : r = [cid |-> g, index |-> e.finished[i]]} # {}
      BY <1>4, <2>1, ParityOfOne
    <3>2. PICK i \in 1 .. m : r = [cid |-> g, index |-> e.finished[i]]
      BY <3>1
    <3>3. e.finished[i] \in DOMAIN TypeIn(setup, g)["finished"]
      BY <1>1, <1>2, <1>3
    <3>4. <<g, "finished", e.finished[i]>> \in ChecksOf(setup)
      BY <3>3, CheckPlaces
    <3> QED
      BY <3>2, <3>4
  <2>2. CASE r \in U
    <3>1. {i \in 1 .. n : r \in Resolves(setup, <<g, e.unfinished[i]>>)} # {}
      BY <1>5, <2>2, ParityOfOne
    <3>2. \E w : r \in Resolves(setup, w)
      BY <3>1
    <3> QED
      BY <3>2, InResolves
  <2> QED
    BY <1>7, <2>1, <2>2 DEF Xor
<1>8. ExpandErrorChecks(e, resolved, g) = Xor(F, U)
  BY Zenon DEF ExpandErrorChecks
<1> HIDE DEF F, U
<1>9. ASSUME NEW v
      PROVE  v \in {<<x.cid, x.index>> : x \in Xor(F, U)}
                <=> v \in FinishedOf /\ Flips(g, e, v[1], v[2])
  <2>1. ASSUME v \in FinishedOf, Flips(g, e, v[1], v[2])
        PROVE  v \in {<<x.cid, x.index>> : x \in Xor(F, U)}
    <3> DEFINE r == [cid |-> v[1], index |-> v[2]]
    <3>1. v = <<v[1], v[2]>> /\ <<v[1], "finished", v[2]>> \in ChecksOf(setup)
      BY <2>1, InFinishedOf
    <3>2. r \in Xor(F, U)
      BY <1>6, <2>1, <3>1
    <3>3. v = <<r.cid, r.index>>
      BY <3>1
    <3> HIDE DEF r
    <3> QED
      BY <3>2, <3>3
  <2>2. ASSUME NEW r \in Xor(F, U), v = <<r.cid, r.index>>
        PROVE  v \in FinishedOf /\ Flips(g, e, v[1], v[2])
    <3>1. /\ r = [cid |-> r.cid, index |-> r.index]
          /\ <<r.cid, "finished", r.index>> \in ChecksOf(setup)
      BY <1>7
    <3>2. v[1] = r.cid /\ v[2] = r.index /\ v = <<v[1], v[2]>>
      BY <2>2
    <3>3. v \in FinishedOf
      BY <3>1, <3>2, InFinishedOf
    <3> QED
      BY <1>6, <3>1, <3>2, <3>3
  <2> QED
    BY <2>1, <2>2
<1> QED
  BY <1>2, <1>8, <1>9

-----------------------------------------------------------------------------
(* Checks: the measurements they include.                                  *)

Explicit(s, x) ==
    {[gid |-> w[2], index |-> w[3]] : w \in {w \in Includes(s)[x] : w[1] = "measurement"}}

LEMMA InExplicit ==
    ASSUME NEW s \in Setups, NEW x \in ChecksOf(s), NEW r
    PROVE  /\ r \in Explicit(s, x) <=> /\ r = [gid |-> r.gid, index |-> r.index]
                                       /\ <<"measurement", r.gid, r.index>> \in Includes(s)[x]
           /\ r \in Explicit(s, x) => r.gid \in s.gids /\ r.index \in Nat
<1>1. ASSUME r \in Explicit(s, x)
      PROVE  /\ r = [gid |-> r.gid, index |-> r.index]
             /\ <<"measurement", r.gid, r.index>> \in Includes(s)[x]
             /\ r.gid \in s.gids /\ r.index \in Nat
  <2>1. PICK w \in Includes(s)[x] : w[1] = "measurement" /\ r = [gid |-> w[2], index |-> w[3]]
    BY <1>1 DEF Explicit
  <2>2. IsMeasurement(s, w)
    <3>1. IsMeasurement(s, w) \/ IsVirtual(s, w)
      BY IncludedShape
    <3>2. ASSUME NEW v, w = <<"virtual", v[1], v[2]>>
          PROVE  FALSE
      BY <2>1, <3>2
    <3>3. ~IsVirtual(s, w)
      BY <3>2 DEF IsVirtual
    <3> QED
      BY <3>1, <3>3
  <2>3. PICK g \in s.gids, n \in Nat : w = <<"measurement", g, n>>
    BY <2>2 DEF IsMeasurement
  <2>4. r = [gid |-> g, index |-> n]
    BY <2>1, <2>3
  <2> QED
    BY <2>1, <2>3, <2>4
<1>2. ASSUME r = [gid |-> r.gid, index |-> r.index],
             <<"measurement", r.gid, r.index>> \in Includes(s)[x]
      PROVE  r \in Explicit(s, x)
  <2> DEFINE w == <<"measurement", r.gid, r.index>>
  <2>1. w \in Includes(s)[x] /\ w[1] = "measurement" /\ w[2] = r.gid /\ w[3] = r.index
    BY <1>2
  <2> HIDE DEF w
  <2>2. r = [gid |-> w[2], index |-> w[3]]
    BY <1>2, <2>1
  <2> QED
    BY <2>1, <2>2 DEF Explicit
<1> QED
  BY <1>1, <1>2

\* expand_check_measurements: a check expanded with exact inputs has exactly the
\* measurements of the whole program that it includes, an odd number of times.
THEOREM CheckExpanded ==
    ASSUME NEW s \in Setups, NEW h \in s.gids, NEW kind \in {"finished", "unfinished"},
           NEW i \in DOMAIN TypeIn(s, h)[kind], NEW input,
           \A q \in DOMAIN s.connectors[h] : \A k \in 1 .. TypeIn(s, h).inputs[q] :
              input[q][k].measurements
                 = Explicit(s, Unfinished(VirtualOf(s, s.connectors[h][q].gid,
                                                    s.connectors[h][q].port, k)))
    PROVE  ExpandCheckMeasurements(TypeIn(s, h)[kind][i], input, h).measurements
              = Explicit(s, <<h, kind, i>>)
<1> DEFINE x == <<h, kind, i>>
           ms == Measurements(s, x)
           n == Len(ms)
           f(j) == IF ms[j].port = Local THEN {[gid |-> h, index |-> ms[j].index]}
                   ELSE input[ms[j].port][ms[j].index].measurements
           result == ExpandCheckMeasurements(TypeIn(s, h)[kind][i], input, h).measurements
<1>1. x \in ChecksOf(s) /\ ms = TypeIn(s, h)[kind][i].measurements /\ x[1] = h
  <2>1. ms = TypeIn(s, h)[kind][i].measurements
    BY DEF Measurements, TypeIn
  <2>2. x \in ChecksOf(s)
    BY CheckPlaces
  <2> QED
    BY <2>1, <2>2
<1> HIDE DEF ms
<1>2. result = {w \in UNION {f(j) : j \in 1 .. n} : OddSet({j \in 1 .. n : w \in f(j)})}
  <2> DEFINE c == TypeIn(s, h)[kind][i]
             all == {w \in UNION {IF c.measurements[j].port = Local
                                  THEN {[gid |-> h, index |-> c.measurements[j].index]}
                                  ELSE input[c.measurements[j].port][c.measurements[j].index].measurements
                                     : j \in 1 .. Len(c.measurements)} :
                       OddSet({j \in 1 .. Len(c.measurements) :
                          w \in IF c.measurements[j].port = Local
                                THEN {[gid |-> h, index |-> c.measurements[j].index]}
                                ELSE input[c.measurements[j].port][c.measurements[j].index].measurements})}
  <2>1. ms = c.measurements
    BY <1>1
  <2> HIDE DEF c
  <2>2. \E b : ExpandCheckMeasurements(c, input, h) = [measurements |-> all, flipped |-> b]
    BY Zenon DEF ExpandCheckMeasurements, XorAll, Odd
  <2>3. ExpandCheckMeasurements(c, input, h).measurements = all
    <3> HIDE DEF all
    <3> QED
      BY <2>2
  <2>4. all = {w \in UNION {f(j) : j \in 1 .. n} : OddSet({j \in 1 .. n : w \in f(j)})}
    BY <2>1
  <2> HIDE DEF all, f, n
  <2> QED
    BY <2>3, <2>4 DEF c
<1> HIDE DEF x
<1>3. ASSUME NEW r
      PROVE  r \in result <=> OddSet({j \in 1 .. n : r \in f(j)})
  <2> HIDE DEF result, n, f
  <2>1. ASSUME OddSet({j \in 1 .. n : r \in f(j)})
        PROVE  r \in UNION {f(j) : j \in 1 .. n}
    <3>1. {j \in 1 .. n : r \in f(j)} # {}
      BY <2>1, ParityOfOne
    <3> QED
      BY <3>1
  <2> QED
    BY <1>2, <2>1
<1>4. ASSUME NEW j \in 1 .. n, NEW r
      PROVE  r \in f(j) <=> /\ r = [gid |-> r.gid, index |-> r.index]
                            /\ <<"measurement", r.gid, r.index>> \in Part(s, Includes(s), h, ms[j])
  <2>1. CASE ms[j].port = Local
    <3>1. f(j) = {[gid |-> h, index |-> ms[j].index]}
      BY <2>1
    <3>2. Part(s, Includes(s), h, ms[j]) = {<<"measurement", h, ms[j].index>>}
      BY <2>1 DEF Part
    <3> HIDE DEF f
    <3>3. ASSUME r = [gid |-> h, index |-> ms[j].index]
          PROVE  r.gid = h /\ r.index = ms[j].index
      BY <3>3
    <3> QED
      BY <3>1, <3>2, <3>3
  <2>2. CASE ms[j].port # Local
    <3> DEFINE q == ms[j].port
               k == ms[j].index
               v == Named(s, h, ms[j])
    <3>1. j \in DOMAIN ms /\ q \in DOMAIN s.connectors[h] /\ k \in 1 .. TypeIn(s, h).inputs[q]
      BY <1>1, <2>2, CheckShape DEF ms
    <3>2. v = VirtualOf(s, s.connectors[h][q].gid, s.connectors[h][q].port, k)
      BY Zenon DEF Named, VirtualOf, TypeIn
    <3>3. v \in Virtuals(s)
      <4>1. Named(s, x[1], ms[j]) \in Virtuals(s)
        BY <1>1, <2>2, <3>1, NamedVirtual DEF ms
      <4> QED
        BY <1>1, <4>1
    <3>4. f(j) = Explicit(s, Unfinished(v))
      <4>1. f(j) = input[q][k].measurements
        BY <2>2
      <4> HIDE DEF f, q, k, v
      <4> QED
        BY <3>1, <3>2, <4>1
    <3>5. Unfinished(v) \in ChecksOf(s)
      <4> HIDE DEF v
      <4> QED
        BY <3>3 DEF Virtuals, Unfinished
    <3>6. Part(s, Includes(s), h, ms[j])
             = Xor({<<"virtual", v[1], v[2]>>}, Includes(s)[<<v[1], "unfinished", v[2]>>])
      BY <2>2, Zenon DEF Part
    <3> HIDE DEF f, q, k, v
    <3>7. <<"measurement", r.gid, r.index>> \in Part(s, Includes(s), h, ms[j])
             <=> <<"measurement", r.gid, r.index>> \in Includes(s)[Unfinished(v)]
      <4>1. <<"measurement", r.gid, r.index>> # <<"virtual", v[1], v[2]>>
        OBVIOUS
      <4> QED
        BY <3>6, <4>1 DEF Xor, Unfinished
    <3> QED
      BY <3>4, <3>5, <3>7, InExplicit
  <2> QED
    BY <2>1, <2>2
<1>5. ASSUME NEW r, r = [gid |-> r.gid, index |-> r.index]
      PROVE  r \in result <=> r \in Explicit(s, x)
  <2> DEFINE tag == <<"measurement", r.gid, r.index>>
  <2>1. {j \in 1 .. n : r \in f(j)} = {j \in 1 .. n : tag \in Part(s, Includes(s), h, ms[j])}
    <3> HIDE DEF f, n
    <3> QED
      BY <1>4, <1>5
  <2>2. tag \in Includes(s)[x] <=> tag \in Combined(s, Includes(s), x)
    BY <1>1, IncludesSolved
  <2>3. \A w : w \in Combined(s, Includes(s), x)
                 <=> OddSet({j \in 1 .. n : w \in Part(s, Includes(s), h, ms[j])})
    <3>1. \A w : w \in Combined(s, Includes(s), x)
             <=> OddSet({j \in 1 .. Len(Measurements(s, x)) :
                           w \in Part(s, Includes(s), x[1], Measurements(s, x)[j])})
      BY InCombined
    <3> QED
      BY <1>1, <3>1, Zenon DEF ms
  <2>4. r \in Explicit(s, x) <=> tag \in Includes(s)[x]
    BY <1>1, <1>5, InExplicit
  <2> HIDE DEF result, f, n, tag
  <2> QED
    BY <1>3, <2>1, <2>2, <2>3, <2>4
<1>6. ASSUME NEW r, r \in result \/ r \in Explicit(s, x)
      PROVE  r = [gid |-> r.gid, index |-> r.index]
  <2>1. CASE r \in result
    <3>1. {j \in 1 .. n : r \in f(j)} # {}
      <4> HIDE DEF result, f, n
      <4> QED
        BY <1>3, <2>1, ParityOfOne
    <3>2. PICK j \in 1 .. n : r \in f(j)
      BY <3>1
    <3> HIDE DEF f, n
    <3> QED
      BY <1>4, <3>2
  <2> HIDE DEF result
  <2> QED
    BY <1>1, <1>6, <2>1, InExplicit
<1> HIDE DEF result
<1>7. \A r : r \in result <=> r \in Explicit(s, x)
  BY <1>5, <1>6
<1>8. result = Explicit(s, x)
  BY <1>7
<1> QED
  BY <1>8 DEF result, x

-----------------------------------------------------------------------------
(* The invariant: what the compiler keeps, what the error-model tasks have  *)
(* resolved and what is sent says what the program says.                    *)

\* What a task has resolved when it has been through p ports.
ResolvedUpto(s, g, p) ==
    [k \in 1 .. Before(TypeIn(s, g), p + 1) |-> Resolves(s, <<g, k>>)]
AllResolved(s, g) == ResolvedUpto(s, g, Len(TypeIn(s, g).outputs))

\* What is to be read from a check model and from an error model.
CheckReferences(s, g) ==
    [i \in DOMAIN TypeIn(s, g).finished |-> Pairs(Explicit(s, <<g, "finished", i>>))]
ErrorReferences(g) ==
    [k \in DOMAIN TypeOf(g).errors |->
        {v \in FinishedOf : Flips(g, TypeOf(g).errors[k], v[1], v[2])}]

Tables ==
    /\ DOMAIN outputs = Gids /\ DOMAIN checks = Gids /\ DOMAIN virtual = Gids
    /\ DOMAIN resolving = Gids
    /\ built = [check |-> built.check, error |-> built.error]
    /\ DOMAIN built.check = Gids /\ DOMAIN built.error = Gids
    /\ \A g \in Gids :
          /\ built.check[g] = [type |-> built.check[g].type, id |-> built.check[g].id,
                               remote |-> built.check[g].remote]
          /\ built.error[g] = [type |-> built.error[g].type, id |-> built.error[g].id,
                               remote |-> built.error[g].remote]

\* Which gadgets are compiled: the peers before a gadget, none twice.
KnownInStep ==
    /\ known \subseteq setup.gids /\ \A g \in known : Peers(g) \subseteq known
    /\ \A g \in Gids : /\ ex[g] \in {"idle", "waiting"} => g \notin known
                       /\ ex[g] \in {"compiled", "sent", "typed", "done", "panicked"} => g \in known
                       /\ ex[g] = "waiting" => Peers(g) \subseteq setup.batch \cup known
                       /\ em[g] # "idle" => g \in known
    /\ batch \in {"idle", "rejected"} => \A g \in setup.batch : ex[g] = "idle"

\* An output port knows its peer, or it still has its checks.
PortExact(h, p) ==
    /\ outputs[h][p] # <<>> =>
          \E g \in known : \E q \in DOMAIN setup.connectors[g] :
             /\ outputs[h][p] = <<[gid |-> g, port |-> q]>>
             /\ setup.connectors[g][q] = [gid |-> h, port |-> p]
    /\ (\A g \in known : [gid |-> h, port |-> p] \notin Connectors(g)) =>
          \A k \in 1 .. TypeIn(setup, h).outputs[p] :
             checks[h][p][k].measurements
                = Explicit(setup, Unfinished(VirtualOf(setup, h, p, k)))
CompilerExact ==
    \A h \in known :
       /\ DOMAIN outputs[h] = DOMAIN TypeIn(setup, h).outputs
       /\ DOMAIN checks[h] = DOMAIN TypeIn(setup, h).outputs
       /\ \A p \in DOMAIN TypeIn(setup, h).outputs : PortExact(h, p)

ResolvedExact ==
    \A g \in setup.gids :
       /\ resolving[g].ports \in Nat /\ resolving[g].ports <= Len(TypeIn(setup, g).outputs)
       /\ resolving[g].checks = ResolvedUpto(setup, g, resolving[g].ports)
       /\ virtual[g] # <<>> => virtual[g] = AllResolved(setup, g)

BuiltExact ==
    \A g \in Gids :
       /\ ex[g] \in {"compiled", "sent", "typed"} =>
             FromBin(built.check[g].type.checks, built.check[g].remote, g) = CheckReferences(setup, g)
       /\ ex[g] = "typed" => <<built.check[g].id, built.check[g].type>> \in coord.ctypes
       /\ em[g] \in {"resolved", "typed"} =>
             FromBin(built.error[g].type, built.error[g].remote, g) = ErrorReferences(g)
       /\ em[g] = "typed" => <<built.error[g].id, built.error[g].type>> \in coord.etypes

SentExact ==
    /\ \A x \in coord.models :
          /\ x.gid \in setup.gids
          /\ \E t \in coord.ctypes :
                t[1] = x.type /\ FromBin(t[2].checks, x.remote, x.gid) = CheckReferences(setup, x.gid)
    /\ \A x \in coord.errors :
          /\ x.gid \in setup.gids
          /\ \E t \in coord.etypes :
                t[1] = x.type /\ FromBin(t[2], x.remote, x.gid) = ErrorReferences(x.gid)

MInv == Tables /\ KnownInStep /\ CompilerExact /\ ResolvedExact /\ BuiltExact /\ SentExact

-----------------------------------------------------------------------------
(* Port after port.                                                        *)

LEMMA PortResolved ==
    ASSUME NEW s \in Setups, NEW g \in s.gids, NEW p \in DOMAIN TypeIn(s, g).outputs
    PROVE  ResolvedUpto(s, g, p - 1)
              \o [k \in 1 .. TypeIn(s, g).outputs[p] |-> Resolves(s, VirtualOf(s, g, p, k))]
           = ResolvedUpto(s, g, p)
<1> DEFINE t == TypeIn(s, g)
           a == Before(t, p)
           n == t.outputs[p]
           F(k) == Resolves(s, <<g, k>>)
           S == {F(k) : k \in Nat}
           q == [k \in 1 .. a |-> F(k)]
           r == [k \in 1 .. n |-> F(a + k)]
           w == [k \in 1 .. a + n |-> F(k)]
<1>1. t.outputs \in Seq(Nat)
  BY ProgramShape DEF IsGadgetType
<1>2. /\ p \in Nat \ {0} /\ a \in Nat /\ n \in Nat /\ Before(t, p + 1) = a + n
      /\ (p - 1) + 1 = p
  <2>1. p \in DOMAIN t.outputs
    OBVIOUS
  <2> HIDE DEF t
  <2> QED
    BY <1>1, <2>1, PortNumbers, PortsBefore, OneMorePort
<1>3. ResolvedUpto(s, g, p - 1) = q /\ ResolvedUpto(s, g, p) = w
  BY <1>2 DEF ResolvedUpto
<1>4. [k \in 1 .. t.outputs[p] |-> Resolves(s, VirtualOf(s, g, p, k))] = r
  BY DEF VirtualOf
<1> HIDE DEF a, n, F, t
<1>5. q \in Seq(S) /\ Len(q) = a
  BY <1>2
<1>6. r \in Seq(S) /\ Len(r) = n
  BY <1>2
<1>7. q \o r = w
  <2>1. \A k \in 1 .. a : q[k] = F(k)
    OBVIOUS
  <2>2. \A k \in 1 .. n : r[k] = F(a + k)
    OBVIOUS
  <2>3. w \in Seq(S) /\ Len(w) = a + n /\ \A k \in 1 .. a + n : w[k] = F(k)
    BY <1>2
  <2> HIDE DEF q, r, w, S
  <2>4. q \o r \in Seq(S) /\ Len(q \o r) = a + n
    BY <1>2, <1>5, <1>6
  <2>5. ASSUME NEW k \in 1 .. a + n
        PROVE  (q \o r)[k] = w[k]
    <3>1. CASE k \in 1 .. a
      BY <1>2, <1>5, <1>6, <2>1, <2>3, <3>1
    <3>2. CASE k \notin 1 .. a
      <4>1. k - a \in 1 .. n /\ a + (k - a) = k
        BY <1>2, <3>2
      <4>3. \A i \in 1 .. Len(q) + Len(r) : ~(i <= Len(q)) => (q \o r)[i] = r[i - Len(q)]
        BY <1>5, <1>6, ConcatProperties, Zenon
      <4>4. k \in 1 .. Len(q) + Len(r) /\ ~(k <= Len(q)) /\ k - a = k - Len(q)
        BY <1>2, <1>5, <1>6, <3>2
      <4>2. (q \o r)[k] = r[k - a]
        BY <4>3, <4>4
      <4> QED
        BY <2>2, <2>3, <4>1, <4>2
    <3> QED
      BY <3>1, <3>2
  <2> QED
    BY <1>2, <2>3, <2>4, <2>5
<1> QED
  BY <1>3, <1>4, <1>7 DEF t

LEMMA NothingResolved ==
    ASSUME NEW s \in Setups, NEW g \in s.gids
    PROVE  ResolvedUpto(s, g, 0) = <<>>
<1>1. Before(TypeIn(s, g), 1) = 0
  <2>1. TypeIn(s, g).outputs \in Seq(Nat)
    BY ProgramShape DEF IsGadgetType
  <2> QED
    BY <2>1, PortsBefore
<1>2. 0 + 1 = 1 /\ 1 .. 0 = {}
  OBVIOUS
<1> QED
  BY <1>1, <1>2 DEF ResolvedUpto

LEMMA AllAreResolved ==
    ASSUME NEW s \in Setups, NEW g \in s.gids
    PROVE  /\ Len(TypeIn(s, g).outputs) \in Nat
           /\ DOMAIN TypeIn(s, g).outputs = 1 .. Len(TypeIn(s, g).outputs)
           /\ \A u \in DOMAIN TypeIn(s, g).unfinished : AllResolved(s, g)[u] = Resolves(s, <<g, u>>)
<1>1. /\ TypeIn(s, g).outputs \in Seq(Nat)
      /\ DOMAIN TypeIn(s, g).unfinished = 1 .. Before(TypeIn(s, g), Len(TypeIn(s, g).outputs) + 1)
  BY ProgramShape DEF IsGadgetType, IsWellFormedType
<1>2. AllResolved(s, g) = [k \in DOMAIN TypeIn(s, g).unfinished |-> Resolves(s, <<g, k>>)]
  BY <1>1 DEF AllResolved, ResolvedUpto
<1> QED
  BY <1>1, <1>2, SequenceElement

\* What is compiled of a program is read back.
LEMMA Encoded ==
    ASSUME NEW s \in Setups, NEW g \in s.gids, NEW sets,
           sets = [i \in DOMAIN sets |-> sets[i]],
           \A i \in DOMAIN sets : sets[i] \subseteq s.gids \X Nat,
           NEW order \in Sequencings(sets, g)
    PROVE  FromBin(ToBin(sets, order, g), RemoteList(sets, order), g) = sets
<1>1. s.gids \subseteq Nat \ {Local} /\ IsFiniteSet(s.gids)
  BY ProgramShape, JitAssumption, FS_Subset DEF Local
<1>2. IsReferences(sets)
  BY <1>1 DEF IsReferences
<1>3. IsFiniteSet(Remote(sets, g))
  <2>1. Remote(sets, g) \subseteq s.gids
    BY DEF Remote
  <2> QED
    BY <1>1, <2>1, FS_Subset
<1> QED
  BY <1>1, <1>2, <1>3, EncodingExact

LEMMA CheckReferencesShape ==
    ASSUME NEW s \in Setups, NEW g \in s.gids
    PROVE  /\ CheckReferences(s, g) = [i \in DOMAIN CheckReferences(s, g) |-> CheckReferences(s, g)[i]]
           /\ \A i \in DOMAIN CheckReferences(s, g) : CheckReferences(s, g)[i] \subseteq s.gids \X Nat
<1>1. ASSUME NEW i \in DOMAIN TypeIn(s, g).finished
      PROVE  Pairs(Explicit(s, <<g, "finished", i>>)) \subseteq s.gids \X Nat
  <2>1. <<g, "finished", i>> \in ChecksOf(s)
    <3>1. i \in DOMAIN TypeIn(s, g)["finished"]
      OBVIOUS
    <3> QED
      BY <3>1, CheckPlaces
  <2>2. \A r \in Explicit(s, <<g, "finished", i>>) : r.gid \in s.gids /\ r.index \in Nat
    BY <2>1, InExplicit
  <2> QED
    BY <2>2 DEF Pairs
<1> QED
  BY <1>1 DEF CheckReferences

LEMMA ErrorReferencesShape ==
    ASSUME setup \in Setups, NEW g \in setup.gids
    PROVE  /\ ErrorReferences(g) = [k \in DOMAIN ErrorReferences(g) |-> ErrorReferences(g)[k]]
           /\ \A k \in DOMAIN ErrorReferences(g) : ErrorReferences(g)[k] \subseteq setup.gids \X Nat
<1>1. ASSUME NEW v \in FinishedOf
      PROVE  v \in setup.gids \X Nat
  <2>1. v = <<v[1], v[2]>> /\ <<v[1], "finished", v[2]>> \in ChecksOf(setup)
    BY InFinishedOf
  <2> DEFINE x == <<v[1], "finished", v[2]>>
  <2>2. x[1] \in setup.gids /\ x[3] \in DOMAIN TypeIn(setup, x[1])[x[2]]
    <3>1. x \in ChecksOf(setup)
      BY <2>1
    <3> HIDE DEF x
    <3> QED
      BY <3>1, CheckShape
  <2>3. v[1] \in setup.gids /\ v[2] \in DOMAIN TypeIn(setup, v[1]).finished
    BY <2>2
  <2>4. DOMAIN TypeIn(setup, v[1]).finished \subseteq Nat
    BY <2>3, ProgramShape DEF IsGadgetType
  <2> QED
    BY <2>1, <2>3, <2>4
<1>2. \A k \in DOMAIN TypeOf(g).errors : ErrorReferences(g)[k] \subseteq FinishedOf
  BY DEF ErrorReferences
<1>3. FinishedOf \subseteq setup.gids \X Nat
  BY <1>1
<1>4. DOMAIN ErrorReferences(g) = DOMAIN TypeOf(g).errors
  BY DEF ErrorReferences
<1>5. ErrorReferences(g) = [k \in DOMAIN ErrorReferences(g) |-> ErrorReferences(g)[k]]
  BY DEF ErrorReferences
<1> QED
  BY <1>2, <1>3, <1>4, <1>5

\* What an execute call builds when its inputs are exact.
LEMMA CompiledExact ==
    ASSUME setup \in Setups, NEW g \in setup.gids,
           \A q \in DOMAIN setup.connectors[g] : \A k \in 1 .. TypeIn(setup, g).inputs[q] :
              InputChecks(g)[q][k].measurements
                 = Explicit(setup, Unfinished(VirtualOf(setup, setup.connectors[g][q].gid,
                                                        setup.connectors[g][q].port, k)))
    PROVE  /\ [i \in DOMAIN FinishedChecks(g) |-> Pairs(FinishedChecks(g)[i].measurements)]
                 = CheckReferences(setup, g)
           /\ DOMAIN OutputChecks(TypeOf(g), InputChecks(g), g) = DOMAIN TypeIn(setup, g).outputs
           /\ \A p \in DOMAIN TypeIn(setup, g).outputs :
                 \A k \in 1 .. TypeIn(setup, g).outputs[p] :
                    OutputChecks(TypeOf(g), InputChecks(g), g)[p][k].measurements
                       = Explicit(setup, Unfinished(VirtualOf(setup, g, p, k)))
<1>1. TypeOf(g) = TypeIn(setup, g)
  BY DEF TypeOf, TypeIn
<1>2. ASSUME NEW kind \in {"finished", "unfinished"}, NEW i \in DOMAIN TypeIn(setup, g)[kind]
      PROVE  ExpandCheckMeasurements(TypeIn(setup, g)[kind][i], InputChecks(g), g).measurements
                = Explicit(setup, <<g, kind, i>>)
  <2> DEFINE input == InputChecks(g)
  <2>1. \A q \in DOMAIN setup.connectors[g] : \A k \in 1 .. TypeIn(setup, g).inputs[q] :
              input[q][k].measurements
                 = Explicit(setup, Unfinished(VirtualOf(setup, setup.connectors[g][q].gid,
                                                        setup.connectors[g][q].port, k)))
    OBVIOUS
  <2> HIDE DEF input
  <2>2. ExpandCheckMeasurements(TypeIn(setup, g)[kind][i], input, g).measurements
                = Explicit(setup, <<g, kind, i>>)
    BY <2>1, CheckExpanded
  <2> QED
    BY <2>2 DEF input
<1>3. [i \in DOMAIN FinishedChecks(g) |-> Pairs(FinishedChecks(g)[i].measurements)]
         = CheckReferences(setup, g)
  <2>1. FinishedChecks(g) = [i \in DOMAIN TypeIn(setup, g).finished |->
            ExpandCheckMeasurements(TypeIn(setup, g).finished[i], InputChecks(g), g)]
    BY <1>1 DEF FinishedChecks
  <2>2. \A i \in DOMAIN TypeIn(setup, g).finished :
           ExpandCheckMeasurements(TypeIn(setup, g).finished[i], InputChecks(g), g).measurements
              = Explicit(setup, <<g, "finished", i>>)
    BY <1>2
  <2> QED
    BY <2>1, <2>2 DEF CheckReferences
<1>4. ASSUME NEW p \in DOMAIN TypeIn(setup, g).outputs, NEW k \in 1 .. TypeIn(setup, g).outputs[p]
      PROVE  OutputChecks(TypeOf(g), InputChecks(g), g)[p][k].measurements
                = Explicit(setup, Unfinished(VirtualOf(setup, g, p, k)))
  <2> DEFINE b == Before(TypeIn(setup, g), p) + k
  <2>1. b \in DOMAIN TypeIn(setup, g).unfinished
    BY VirtualThere
  <2>2. OutputChecks(TypeOf(g), InputChecks(g), g)[p][k]
           = ExpandCheckMeasurements(TypeIn(setup, g).unfinished[b], InputChecks(g), g)
    BY <1>1 DEF OutputChecks
  <2>3. Unfinished(VirtualOf(setup, g, p, k)) = <<g, "unfinished", b>>
    BY DEF Unfinished, VirtualOf
  <2> HIDE DEF b
  <2> QED
    BY <1>2, <2>1, <2>2, <2>3
<1>5. DOMAIN OutputChecks(TypeOf(g), InputChecks(g), g) = DOMAIN TypeIn(setup, g).outputs
  BY <1>1 DEF OutputChecks
<1> QED
  BY <1>3, <1>4, <1>5

\* What an error-model task builds when all its virtual checks are exact.
LEMMA ErrorsExpanded ==
    ASSUME setup \in Setups, NEW g \in setup.gids, NEW resolved, resolved = AllResolved(setup, g)
    PROVE  [k \in DOMAIN TypeOf(g).errors |->
               {<<x.cid, x.index>> : x \in ExpandErrorChecks(TypeOf(g).errors[k], resolved, g)}]
              = ErrorReferences(g)
<1>1. \A u \in DOMAIN TypeOf(g).unfinished : resolved[u] = Resolves(setup, <<g, u>>)
  BY AllAreResolved DEF TypeOf, TypeIn
<1>2. ASSUME NEW k \in DOMAIN TypeOf(g).errors
      PROVE  {<<x.cid, x.index>> : x \in ExpandErrorChecks(TypeOf(g).errors[k], resolved, g)}
                = {v \in FinishedOf : Flips(g, TypeOf(g).errors[k], v[1], v[2])}
  BY <1>1, ErrorExpanded
<1> QED
  BY <1>2 DEF ErrorReferences

-----------------------------------------------------------------------------
(* What leaves the parts of the invariant alone.                           *)

LEMMA KnownFrame ==
    ASSUME KnownInStep, UNCHANGED <<setup, known, ex, em, batch>>
    PROVE  KnownInStep'
BY PeersFixed DEF KnownInStep

LEMMA CompilerFrame ==
    ASSUME CompilerExact, UNCHANGED <<setup, known, outputs, checks>>
    PROVE  CompilerExact'
<1>1. \A g : Connectors(g)' = Connectors(g)
  BY DEF Connectors
<1>2. ASSUME NEW h, NEW p, PortExact(h, p)
      PROVE  PortExact(h, p)'
  <2>1. (outputs[h][p] # <<>> =>
          \E g \in known : \E q \in DOMAIN setup.connectors[g] :
             /\ outputs[h][p] = <<[gid |-> g, port |-> q]>>
             /\ setup.connectors[g][q] = [gid |-> h, port |-> p])'
    BY <1>2 DEF PortExact
  <2>2. ASSUME \A g \in known : [gid |-> h, port |-> p] \notin Connectors(g)'
        PROVE  (\A k \in 1 .. TypeIn(setup, h).outputs[p] :
             checks[h][p][k].measurements
                = Explicit(setup, Unfinished(VirtualOf(setup, h, p, k))))'
    <3>1. \A g \in known : [gid |-> h, port |-> p] \notin Connectors(g)
      BY <1>1, <2>2
    <3>2. \A k \in 1 .. TypeIn(setup, h).outputs[p] :
             checks[h][p][k].measurements
                = Explicit(setup, Unfinished(VirtualOf(setup, h, p, k)))
      BY <1>2, <3>1 DEF PortExact
    <3> QED
      BY <3>2
  <2> QED
    BY <2>1, <2>2 DEF PortExact
<1> QED
  BY <1>2 DEF CompilerExact

LEMMA ResolvedFrame ==
    ASSUME ResolvedExact, UNCHANGED <<setup, resolving, virtual>>
    PROVE  ResolvedExact'
BY DEF ResolvedExact

LEMMA ReferencesFixed ==
    ASSUME UNCHANGED setup
    PROVE  \A g : /\ ErrorReferences(g)' = ErrorReferences(g)
                  /\ CheckReferences(setup, g)' = CheckReferences(setup, g)
<1>1. ASSUME NEW g
      PROVE  CheckReferences(setup, g)' = CheckReferences(setup, g)
  OBVIOUS
<1>2. \A g : ErrorReferences(g)' = ErrorReferences(g)
  <2>1. FinishedOf' = FinishedOf /\ \A g : TypeOf(g)' = TypeOf(g)
    BY DEF FinishedOf, TypeOf
  <2>2. ASSUME NEW g, NEW e, NEW h, NEW i
        PROVE  Flips(g, e, h, i)' = Flips(g, e, h, i)
    BY DEF Flips, Odd
  <2>3. ASSUME NEW g
        PROVE  ErrorReferences(g)' = ErrorReferences(g)
    <3>1. \A k : {v \in FinishedOf : Flips(g, TypeOf(g).errors[k], v[1], v[2])}'
                   = {v \in FinishedOf : Flips(g, TypeOf(g).errors[k], v[1], v[2])}
      BY <2>1, <2>2
    <3> QED
      BY <2>1, <3>1 DEF ErrorReferences
  <2> QED
    BY <2>3
<1> QED
  BY <1>1, <1>2

LEMMA BuiltFrame ==
    ASSUME BuiltExact, UNCHANGED <<setup, built>>,
           \A g \in Gids : ex'[g] = ex[g] \/ ex'[g] \notin {"compiled", "sent", "typed"},
           \A g \in Gids : em'[g] = em[g] \/ em'[g] \notin {"resolved", "typed"},
           coord.ctypes \subseteq coord'.ctypes, coord.etypes \subseteq coord'.etypes
    PROVE  BuiltExact'
BY ReferencesFixed DEF BuiltExact

LEMMA SentFrame ==
    ASSUME SentExact, UNCHANGED setup, coord'.models = coord.models, coord'.errors = coord.errors,
           coord.ctypes \subseteq coord'.ctypes, coord.etypes \subseteq coord'.etypes
    PROVE  SentExact'
<1>1. setup' = setup
  OBVIOUS
<1>2. \A x \in coord.models :
          /\ x.gid \in setup.gids
          /\ \E t \in coord'.ctypes :
                t[1] = x.type /\ FromBin(t[2].checks, x.remote, x.gid) = CheckReferences(setup, x.gid)
  BY DEF SentExact
<1>3. \A x \in coord.errors :
          /\ x.gid \in setup.gids
          /\ \E t \in coord'.etypes :
                t[1] = x.type /\ FromBin(t[2], x.remote, x.gid) = ErrorReferences(x.gid)'
  BY ReferencesFixed DEF SentExact
<1> QED
  BY <1>2, <1>3, ReferencesFixed DEF SentExact

LEMMA TablesFrame ==
    ASSUME Tables, UNCHANGED <<outputs, checks, virtual, resolving, built>>
    PROVE  Tables'
BY DEF Tables

\* What the invariant names but for the coordinator.
models == <<setup, known, ex, em, batch, outputs, checks, virtual, resolving, built>>

LEMMA ModelsFrame ==
    ASSUME MInv, UNCHANGED models, coord'.models = coord.models, coord'.errors = coord.errors,
           coord.ctypes \subseteq coord'.ctypes, coord.etypes \subseteq coord'.etypes
    PROVE  MInv'
BY TablesFrame, KnownFrame, CompilerFrame, ResolvedFrame, BuiltFrame, SentFrame DEF MInv, models

LEMMA ModelsInitially ==
    Init => MInv
<1> SUFFICES ASSUME Init PROVE MInv
  OBVIOUS
<1>1. Tables
  <2>1. \A v : DOMAIN All(v) = Gids /\ \A g \in Gids : All(v)[g] = v
    BY DEF All
  <2>2. Nothing = [type |-> Nothing.type, id |-> Nothing.id, remote |-> Nothing.remote]
    BY DEF Nothing
  <2> QED
    BY <2>1, <2>2 DEF Init, Tables
<1>2. setup \in Setups /\ setup.batch \subseteq Gids
  BY Programs DEF Init
<1>3. KnownInStep
  BY <1>2 DEF Init, KnownInStep, All
<1>4. CompilerExact
  BY DEF Init, CompilerExact
<1>5. ResolvedExact
  <2> SUFFICES ASSUME NEW g \in setup.gids
               PROVE  /\ resolving[g].ports = 0 /\ resolving[g].checks = <<>> /\ virtual[g] = <<>>
                      /\ Len(TypeIn(setup, g).outputs) \in Nat
                      /\ ResolvedUpto(setup, g, 0) = <<>>
    BY DEF ResolvedExact
  <2>1. g \in Gids
    BY <1>2, Programs
  <2> QED
    BY <1>2, <2>1, NothingResolved, AllAreResolved DEF Init, All, Unresolved
<1>6. BuiltExact
  BY DEF Init, BuiltExact, All
<1>7. SentExact
  BY DEF Init, SentExact
<1> QED
  BY <1>1, <1>3, <1>4, <1>5, <1>6, <1>7 DEF MInv

LEMMA OtherSteps ==
    ASSUME IInv, MInv,
           \/ \E g \in Gids : DecodeSingle(g) \/ Decode(g)
           \/ BatchDecode \/ RegisterLibrary \/ SendLibrary \/ SendLibraryFails
           \/ CancelPending \/ BeginReset \/ UNCHANGED vars
    PROVE  MInv'
<1>1. CASE SendLibrary
  <2>1. /\ coord'.models = coord.models /\ coord'.errors = coord.errors
        /\ coord'.ctypes = coord.ctypes /\ coord.etypes \subseteq coord'.etypes
    BY <1>1 DEF SendLibrary, IInv, Shapes
  <2>2. UNCHANGED models
    BY <1>1 DEF SendLibrary, models, compiler
  <2> QED
    BY <2>1, <2>2, ModelsFrame
<1>2. ASSUME UNCHANGED models, coord' = coord
      PROVE  MInv'
  BY <1>2, ModelsFrame
<1>3. ASSUME NEW g \in Gids, DecodeSingle(g) \/ Decode(g)
      PROVE  UNCHANGED models /\ coord' = coord
  BY <1>3 DEF DecodeSingle, Decode, DecodeTask, DecodeReturns, DecodeCancelled, models, compiler
<1>4. CASE BatchDecode
  BY <1>2, <1>4 DEF BatchDecode, models, compiler
<1>5. CASE RegisterLibrary
  BY <1>2, <1>5 DEF RegisterLibrary, models
<1>6. CASE SendLibraryFails
  BY <1>2, <1>6 DEF SendLibraryFails, models, compiler
<1>7. CASE CancelPending \/ BeginReset
  BY <1>2, <1>7 DEF CancelPending, BeginReset, models, compiler, calls
<1>8. CASE UNCHANGED vars
  BY <1>2, <1>8 DEF vars, models, compiler, calls
<1> QED
  BY <1>1, <1>2, <1>3, <1>4, <1>5, <1>6, <1>7, <1>8

\* The batch call moves on.
LEMMA BatchModels ==
    ASSUME IInv, MInv, BatchRejected \/ DropBatch \/ AnswerBatch \/ BeginBatch
    PROVE  MInv'
<1> USE DEF compiler
<1>0. /\ setup.batch \subseteq Gids /\ setup.gids \subseteq Gids
  BY Programs DEF IInv, TypeOK
<1>1. /\ UNCHANGED <<setup, known, em, outputs, checks, virtual, resolving, built, coord>>
      /\ BeginBatch \/ ex' = ex
  BY DEF BatchRejected, DropBatch, AnswerBatch, BeginBatch
<1>2. BeginBatch => /\ \A g \in setup.batch : ex[g] = "idle" /\ ex'[g] = "waiting"
                                                /\ Peers(g) \subseteq setup.batch \cup known
                    /\ \A g \in Gids : g \notin setup.batch => ex'[g] = ex[g]
                    /\ batch' = "running"
  BY <1>0 DEF BeginBatch, Missing, MInv, KnownInStep
<1>3. ~BeginBatch => (batch' \in {"idle", "rejected"} => batch \in {"idle", "rejected"})
  BY DEF BatchRejected, DropBatch, AnswerBatch
<1>4. KnownInStep'
  <2>1. CASE ex' = ex /\ ~BeginBatch
    BY <1>1, <1>3, <2>1, PeersFixed DEF MInv, KnownInStep
  <2>2. CASE BeginBatch
    <3>1. \A g \in Gids : /\ ex'[g] \in {"idle", "waiting"} => g \notin known
                          /\ ex'[g] \in {"compiled", "sent", "typed", "done", "panicked"} => g \in known
                          /\ ex'[g] = "waiting" => Peers(g) \subseteq setup.batch \cup known
                          /\ em[g] # "idle" => g \in known
      BY <1>2, <2>2 DEF MInv, KnownInStep
    <3>2. known \subseteq setup.gids /\ \A g \in known : Peers(g) \subseteq known
      BY DEF MInv, KnownInStep
    <3> QED
      BY <1>1, <1>2, <2>2, <3>1, <3>2, PeersFixed DEF KnownInStep
  <2> QED
    BY <1>1, <2>1, <2>2
<1>5. \A g \in Gids : ex'[g] = ex[g] \/ ex'[g] \notin {"compiled", "sent", "typed"}
  BY <1>1, <1>2
<1>6. BuiltExact'
  BY <1>1, <1>5, BuiltFrame DEF MInv
<1> QED
  BY <1>1, <1>4, <1>6, TablesFrame, CompilerFrame, ResolvedFrame, SentFrame DEF MInv

\* A call or a task ends before its time.
LEMMA EndedModels ==
    ASSUME IInv, MInv, NEW g \in Gids, TaskCancelled(g) \/ DropExecute(g) \/ ErrorModelCancelled(g)
    PROVE  MInv'
<1> USE DEF compiler
<1>1. /\ UNCHANGED <<setup, known, batch, outputs, checks, virtual, resolving, built, coord>>
      /\ \/ ex[g] \in Running /\ em' = em /\ \E v \in {"cancelled", "dropped"} : ex' = [ex EXCEPT ![g] = v]
         \/ em[g] # "idle" /\ ex' = ex /\ em' = [em EXCEPT ![g] = "cancelled"]
  BY DEF TaskCancelled, DropExecute, ErrorModelCancelled
<1>2. DOMAIN ex = Gids /\ DOMAIN em = Gids /\ setup.batch \subseteq Gids
  BY Programs DEF IInv, TypeOK
<1>3. /\ \A h \in Gids : ex'[h] = ex[h] \/ (h = g /\ ex[h] \in Running /\ ex'[h] \in {"cancelled", "dropped"})
      /\ \A h \in Gids : em'[h] = em[h] \/ (em[h] # "idle" /\ em'[h] = "cancelled")
  BY <1>1, <1>2
<1>4. KnownInStep'
  <2>1. \A h \in Gids : /\ ex'[h] \in {"idle", "waiting"} => h \notin known
                        /\ ex'[h] \in {"compiled", "sent", "typed", "done", "panicked"} => h \in known
                        /\ ex'[h] = "waiting" => Peers(h) \subseteq setup.batch \cup known
                        /\ em'[h] # "idle" => h \in known
    BY <1>3 DEF MInv, KnownInStep
  <2>2. batch \in {"idle", "rejected"} => \A h \in setup.batch : ex'[h] = "idle"
    BY <1>2, <1>3 DEF MInv, KnownInStep, Running
  <2> QED
    BY <1>1, <2>1, <2>2, PeersFixed DEF MInv, KnownInStep
<1>5. BuiltExact'
  BY <1>1, <1>3, BuiltFrame DEF MInv
<1> QED
  BY <1>1, <1>4, <1>5, TablesFrame, CompilerFrame, ResolvedFrame, SentFrame DEF MInv

-----------------------------------------------------------------------------
(* A call starts: the checks of its peers' ports are still there.          *)

LEMMA CheckReplaced ==
    ASSUME Tables, NEW g \in Gids, NEW b, b = [type |-> b.type, id |-> b.id, remote |-> b.remote],
           built' = [built EXCEPT !.check[g] = b]
    PROVE  /\ built' = [check |-> built'.check, error |-> built'.error]
           /\ built'.error = built.error /\ DOMAIN built'.check = Gids
           /\ built'.check[g] = b /\ \A h \in Gids : h # g => built'.check[h] = built.check[h]
BY DEF Tables

LEMMA ErrorReplaced ==
    ASSUME Tables, NEW g \in Gids, NEW b, b = [type |-> b.type, id |-> b.id, remote |-> b.remote],
           built' = [built EXCEPT !.error[g] = b]
    PROVE  /\ built' = [check |-> built'.check, error |-> built'.error]
           /\ built'.check = built.check /\ DOMAIN built'.error = Gids
           /\ built'.error[g] = b /\ \A h \in Gids : h # g => built'.error[h] = built.error[h]
BY DEF Tables

LEMMA InputsExact ==
    ASSUME setup \in Setups, MInv, NEW g \in setup.gids, g \notin known, Peers(g) \subseteq known
    PROVE  \A q \in DOMAIN setup.connectors[g] : \A k \in 1 .. TypeIn(setup, g).inputs[q] :
              InputChecks(g)[q][k].measurements
                 = Explicit(setup, Unfinished(VirtualOf(setup, setup.connectors[g][q].gid,
                                                        setup.connectors[g][q].port, k)))
<1> SUFFICES ASSUME NEW q \in DOMAIN setup.connectors[g], NEW k \in 1 .. TypeIn(setup, g).inputs[q]
             PROVE  InputChecks(g)[q][k].measurements
                 = Explicit(setup, Unfinished(VirtualOf(setup, setup.connectors[g][q].gid,
                                                        setup.connectors[g][q].port, k)))
  OBVIOUS
<1> DEFINE c == setup.connectors[g][q]
<1>1. /\ c \in [gid : setup.gids, port : Nat] /\ c.port \in DOMAIN TypeIn(setup, c.gid).outputs
      /\ k \in 1 .. TypeIn(setup, c.gid).outputs[c.port]
  BY ProgramShape
<1>2. c.gid \in known
  BY DEF Peers, Connectors
<1>3. PortExact(c.gid, c.port)
  <2> HIDE DEF c
  <2> QED
    BY <1>1, <1>2 DEF MInv, CompilerExact
<1>4. ASSUME NEW h \in known
      PROVE  [gid |-> c.gid, port |-> c.port] \notin Connectors(h)
  <2>1. SUFFICES ASSUME NEW i \in DOMAIN setup.connectors[h], setup.connectors[h][i] = c
                 PROVE  FALSE
    <3>1. [gid |-> c.gid, port |-> c.port] = c
      <4> HIDE DEF c
      <4> QED
        BY <1>1
    <3> HIDE DEF c
    <3> QED
      BY <3>1 DEF Connectors
  <2>2. h \in setup.gids
    BY DEF MInv, KnownInStep
  <2>3. h = g
    BY <2>1, <2>2, ProgramShape
  <2> QED
    BY <2>3
<1>5. InputChecks(g)[q] = checks[c.gid][c.port]
  BY DEF InputChecks
<1> HIDE DEF c
<1>6. checks[c.gid][c.port][k].measurements
         = Explicit(setup, Unfinished(VirtualOf(setup, c.gid, c.port, k)))
  BY <1>1, <1>3, <1>4 DEF PortExact
<1> QED
  BY <1>5, <1>6 DEF c

\* What an execute call leaves in the compiler's tables.
LEMMA CompiledTables ==
    ASSUME setup \in Setups, MInv, NEW g \in setup.gids, g \notin known, Peers(g) \subseteq known,
           Compile(g), setup' = setup
    PROVE  CompilerExact'
<1> DEFINE at(h, p) == {i \in DOMAIN setup.connectors[g] :
                          setup.connectors[g][i] = [gid |-> h, port |-> p]}
<1>1. outputs' = [h \in Gids |->
              IF h = g THEN [p \in DOMAIN TypeOf(g).outputs |-> <<>>]
              ELSE [p \in DOMAIN outputs[h] |->
                      IF at(h, p) = {} THEN outputs[h][p]
                      ELSE <<[gid |-> g, port |-> CHOOSE i \in at(h, p) : TRUE]>>]]
  BY Zenon DEF Compile
<1>2. checks' = [h \in Gids |->
              IF h = g THEN OutputChecks(TypeOf(g), InputChecks(g), g)
              ELSE [p \in DOMAIN checks[h] |->
                      IF at(h, p) = {} THEN checks[h][p] ELSE <<>>]]
  BY Zenon DEF Compile
<1>3. known' = known \cup {g}
  BY DEF Compile
<1>4. setup.gids \subseteq Gids /\ known \subseteq setup.gids /\ TypeOf(g) = TypeIn(setup, g)
  <2>1. setup.gids \subseteq Gids
    BY ProgramShape
  <2>2. known \subseteq setup.gids
    BY DEF MInv, KnownInStep
  <2>3. TypeOf(g) = TypeIn(setup, g)
    BY DEF TypeOf, TypeIn
  <2> QED
    BY <2>1, <2>2, <2>3
<1>5. \A h, p : at(h, p) # {} <=> [gid |-> h, port |-> p] \in Connectors(g)
  BY DEF Connectors
<1>6. ASSUME NEW h, NEW p, at(h, p) # {}
      PROVE  \E i \in DOMAIN setup.connectors[g] :
                i = (CHOOSE j \in at(h, p) : TRUE) /\ setup.connectors[g][i] = [gid |-> h, port |-> p]
  <2> DEFINE i == CHOOSE j \in at(h, p) : TRUE
  <2>1. i \in at(h, p)
    <3> HIDE DEF at
    <3> QED
      BY <1>6
  <2> HIDE DEF i
  <2>2. i \in DOMAIN setup.connectors[g] /\ setup.connectors[g][i] = [gid |-> h, port |-> p]
    BY <2>1
  <2> QED
    BY <2>2 DEF i
<1> HIDE DEF at
<1>7. ASSUME NEW h \in known \cup {g}
      PROVE  /\ DOMAIN outputs'[h] = DOMAIN TypeIn(setup, h).outputs
             /\ DOMAIN checks'[h] = DOMAIN TypeIn(setup, h).outputs
  <2>1. CASE h = g
    <3>1. outputs'[h] = [p \in DOMAIN TypeOf(g).outputs |-> <<>>]
          /\ checks'[h] = OutputChecks(TypeOf(g), InputChecks(g), g)
      BY <1>1, <1>2, <1>4, <2>1
    <3> QED
      BY <1>4, <2>1, <3>1 DEF OutputChecks
  <2>2. CASE h # g
    BY <1>1, <1>2, <1>4, <2>2 DEF MInv, CompilerExact
  <2> QED
    BY <2>1, <2>2
<1>8. ASSUME NEW h \in known \cup {g}, NEW p \in DOMAIN TypeIn(setup, h).outputs,
             outputs'[h][p] # <<>>
      PROVE  \E f \in known \cup {g} : \E q \in DOMAIN setup.connectors[f] :
                /\ outputs'[h][p] = <<[gid |-> f, port |-> q]>>
                /\ setup.connectors[f][q] = [gid |-> h, port |-> p]
  <2>1. h # g
    <3>1. CASE h = g
      <4>1. outputs'[h] = [r \in DOMAIN TypeOf(g).outputs |-> <<>>]
        BY <1>1, <1>4, <3>1
      <4> QED
        BY <1>4, <1>8, <3>1, <4>1
    <3> QED
      BY <3>1
  <2>2. /\ DOMAIN outputs[h] = DOMAIN TypeIn(setup, h).outputs
        /\ outputs'[h] = [r \in DOMAIN outputs[h] |->
                      IF at(h, r) = {} THEN outputs[h][r]
                      ELSE <<[gid |-> g, port |-> CHOOSE i \in at(h, r) : TRUE]>>]
    BY <1>1, <1>4, <2>1 DEF MInv, CompilerExact
  <2>3. CASE at(h, p) = {}
    <3>1. outputs'[h][p] = outputs[h][p]
      BY <2>2, <2>3
    <3>2. PortExact(h, p)
      BY <2>1 DEF MInv, CompilerExact
    <3> QED
      BY <1>8, <3>1, <3>2 DEF PortExact
  <2>4. CASE at(h, p) # {}
    <3>1. outputs'[h][p] = <<[gid |-> g, port |-> CHOOSE i \in at(h, p) : TRUE]>>
      BY <2>2, <2>4
    <3> QED
      <4>1. PICK i \in DOMAIN setup.connectors[g] :
               i = (CHOOSE j \in at(h, p) : TRUE) /\ setup.connectors[g][i] = [gid |-> h, port |-> p]
        BY <1>6, <2>4
      <4>2. outputs'[h][p] = <<[gid |-> g, port |-> i]>>
        BY <3>1, <4>1
      <4> QED
        BY <4>1, <4>2
  <2> QED
    BY <2>3, <2>4
<1>9. ASSUME NEW h \in known \cup {g}, NEW p \in DOMAIN TypeIn(setup, h).outputs,
             \A f \in known \cup {g} : [gid |-> h, port |-> p] \notin Connectors(f),
             NEW k \in 1 .. TypeIn(setup, h).outputs[p]
      PROVE  checks'[h][p][k].measurements = Explicit(setup, Unfinished(VirtualOf(setup, h, p, k)))
  <2>1. CASE h = g
    <3>1. checks'[h] = OutputChecks(TypeOf(g), InputChecks(g), g)
      BY <1>2, <1>4, <2>1
    <3> QED
      BY <2>1, <3>1, InputsExact, CompiledExact
  <2>2. CASE h # g
    <3>1. at(h, p) = {}
      BY <1>5, <1>9
    <3>2. /\ DOMAIN checks[h] = DOMAIN TypeIn(setup, h).outputs
          /\ checks'[h] = [r \in DOMAIN checks[h] |->
                      IF at(h, r) = {} THEN checks[h][r] ELSE <<>>]
      BY <1>2, <1>4, <2>2 DEF MInv, CompilerExact
    <3>3. checks'[h][p] = checks[h][p]
      BY <3>1, <3>2
    <3>4. PortExact(h, p)
      BY <2>2 DEF MInv, CompilerExact
    <3> QED
      BY <1>9, <3>3, <3>4 DEF PortExact
  <2> QED
    BY <2>1, <2>2
<1>10. \A f : Connectors(f)' = Connectors(f)
  BY DEF Connectors
<1>11. ASSUME NEW h \in known', NEW p \in DOMAIN TypeIn(setup', h).outputs
       PROVE  PortExact(h, p)'
  <2>1. h \in known \cup {g} /\ p \in DOMAIN TypeIn(setup, h).outputs
    BY <1>3
  <2>2. (outputs[h][p] # <<>> =>
          \E f \in known : \E q \in DOMAIN setup.connectors[f] :
             /\ outputs[h][p] = <<[gid |-> f, port |-> q]>>
             /\ setup.connectors[f][q] = [gid |-> h, port |-> p])'
    <3>1. SUFFICES ASSUME outputs'[h][p] # <<>>
                   PROVE  \E f \in known' : \E q \in DOMAIN setup'.connectors[f] :
                             /\ outputs'[h][p] = <<[gid |-> f, port |-> q]>>
                             /\ setup'.connectors[f][q] = [gid |-> h, port |-> p]
      OBVIOUS
    <3>2. \E f \in known \cup {g} : \E q \in DOMAIN setup.connectors[f] :
                /\ outputs'[h][p] = <<[gid |-> f, port |-> q]>>
                /\ setup.connectors[f][q] = [gid |-> h, port |-> p]
      BY <1>8, <2>1, <3>1
    <3> QED
      BY <1>3, <3>2
  <2>3. ASSUME \A f \in known' : [gid |-> h, port |-> p] \notin Connectors(f)'
        PROVE  (\A k \in 1 .. TypeIn(setup, h).outputs[p] :
             checks[h][p][k].measurements
                = Explicit(setup, Unfinished(VirtualOf(setup, h, p, k))))'
    <3>1. \A f \in known \cup {g} : [gid |-> h, port |-> p] \notin Connectors(f)
      BY <1>3, <1>10, <2>3
    <3>2. \A k \in 1 .. TypeIn(setup, h).outputs[p] :
             checks'[h][p][k].measurements
                = Explicit(setup, Unfinished(VirtualOf(setup, h, p, k)))
      BY <1>9, <2>1, <3>1
    <3> QED
      BY <3>2
  <2> QED
    BY <2>2, <2>3 DEF PortExact
<1> QED
  BY <1>3, <1>7, <1>11 DEF CompilerExact

\* The frame of what is about to be sent: a call and its model move together.
LEMMA BuiltMoves ==
    ASSUME BuiltExact, setup' = setup, NEW g \in Gids,
           \A h \in Gids : h # g =>
              /\ ex'[h] = ex[h] \/ ex'[h] \notin {"compiled", "sent", "typed"}
              /\ em'[h] = em[h] \/ em'[h] \notin {"resolved", "typed"}
              /\ built'.check[h] = built.check[h] /\ built'.error[h] = built.error[h],
           coord.ctypes \subseteq coord'.ctypes, coord.etypes \subseteq coord'.etypes,
           ex'[g] \in {"compiled", "sent", "typed"} =>
              FromBin(built'.check[g].type.checks, built'.check[g].remote, g) = CheckReferences(setup, g),
           ex'[g] = "typed" => <<built'.check[g].id, built'.check[g].type>> \in coord'.ctypes,
           em'[g] \in {"resolved", "typed"} =>
              FromBin(built'.error[g].type, built'.error[g].remote, g) = ErrorReferences(g),
           em'[g] = "typed" => <<built'.error[g].id, built'.error[g].type>> \in coord'.etypes
    PROVE  BuiltExact'
<1>2. ASSUME NEW h \in Gids
      PROVE  /\ ex'[h] \in {"compiled", "sent", "typed"} =>
                   FromBin(built'.check[h].type.checks, built'.check[h].remote, h) = CheckReferences(setup, h)
             /\ ex'[h] = "typed" => <<built'.check[h].id, built'.check[h].type>> \in coord'.ctypes
             /\ em'[h] \in {"resolved", "typed"} =>
                   FromBin(built'.error[h].type, built'.error[h].remote, h) = ErrorReferences(h)
             /\ em'[h] = "typed" => <<built'.error[h].id, built'.error[h].type>> \in coord'.etypes
  <2>1. CASE h = g
    BY <2>1
  <2>2. CASE h # g
    BY <2>2 DEF BuiltExact
  <2> QED
    BY <2>1, <2>2
<1> QED
  BY <1>2, ReferencesFixed DEF BuiltExact

LEMMA StartModels ==
    ASSUME IInv, MInv, NEW g \in setup.gids, NEW from \in {"idle", "waiting"}, Start(g, from),
           Peers(g) \subseteq known, g \in setup.batch => from = "waiting"
    PROVE  MInv'
<1>1. /\ UNCHANGED <<setup, batch, em, resolving, coord>>
      /\ ex[g] = from /\ Compile(g) /\ known' = known \cup {g}
      /\ \/ ex' = [ex EXCEPT ![g] = "compiled"]
         \/ ex' = [ex EXCEPT ![g] = "panicked"]
  BY DEF Start, Compile
<1>2. /\ setup \in Setups /\ setup.gids \subseteq Gids /\ g \in Gids /\ setup.batch \subseteq Gids
      /\ DOMAIN ex = Gids
  BY Programs DEF IInv, TypeOK
<1>3. g \notin known
  BY <1>1, <1>2 DEF MInv, KnownInStep
<1>4. \A h \in Gids : ex'[h] = IF h = g THEN ex'[g] ELSE ex[h]
  BY <1>1, <1>2
<1>5. ex'[g] \in {"compiled", "panicked"}
  BY <1>1, <1>2
<1>6. CompilerExact'
  BY <1>1, <1>2, <1>3, CompiledTables
<1> DEFINE sets == [i \in DOMAIN FinishedChecks(g) |-> Pairs(FinishedChecks(g)[i].measurements)]
           flipped == [i \in DOMAIN FinishedChecks(g) |-> FinishedChecks(g)[i].flipped]
           model(order) == [type |-> [gtype |-> setup.gtype[g],
                                      checks |-> ToBin(sets, order, g), flipped |-> flipped],
                            id |-> 0, remote |-> RemoteList(sets, order)]
<1>7. sets = CheckReferences(setup, g)
  BY <1>2, <1>3, InputsExact, CompiledExact
<1>8. PICK order \in Sequencings(sets, g) : built' = [built EXCEPT !.check[g] = model(order)]
  BY <1>1, Zenon DEF Compile
<1>9. /\ built' = [check |-> built'.check, error |-> built'.error]
      /\ built'.error = built.error /\ DOMAIN built'.check = Gids
      /\ built'.check[g] = model(order) /\ \A h \in Gids : h # g => built'.check[h] = built.check[h]
  <2> DEFINE b == model(order)
  <2>1. b = [type |-> b.type, id |-> b.id, remote |-> b.remote]
    OBVIOUS
  <2>2. built' = [built EXCEPT !.check[g] = b]
    BY <1>8
  <2> HIDE DEF b
  <2>3. Tables
    BY DEF MInv
  <2>4. /\ built' = [check |-> built'.check, error |-> built'.error]
        /\ built'.error = built.error /\ DOMAIN built'.check = Gids
        /\ built'.check[g] = b /\ \A h \in Gids : h # g => built'.check[h] = built.check[h]
    BY <1>2, <2>1, <2>2, <2>3, CheckReplaced
  <2> QED
    BY <2>4 DEF b
<1>10. FromBin(ToBin(sets, order, g), RemoteList(sets, order), g) = sets
  <2>1. /\ sets = [i \in DOMAIN sets |-> sets[i]]
        /\ \A i \in DOMAIN sets : sets[i] \subseteq setup.gids \X Nat
    BY <1>2, <1>7, CheckReferencesShape
  <2> HIDE DEF sets
  <2> QED
    BY <1>2, <2>1, Encoded
<1>11. Tables'
  <2>1. DOMAIN outputs' = Gids /\ DOMAIN checks' = Gids /\ DOMAIN virtual' = Gids
    BY <1>1, Zenon DEF Compile, MInv, Tables
  <2>2. built'.check[g] = [type |-> built'.check[g].type, id |-> built'.check[g].id,
                           remote |-> built'.check[g].remote]
    BY <1>9
  <2> HIDE DEF model
  <2> QED
    BY <1>1, <1>9, <2>1, <2>2 DEF MInv, Tables
<1>12. KnownInStep'
  <2>1. \A h \in Gids : /\ ex'[h] \in {"idle", "waiting"} => h \notin known \cup {g}
                        /\ ex'[h] \in {"compiled", "sent", "typed", "done", "panicked"} => h \in known \cup {g}
                        /\ ex'[h] = "waiting" => Peers(h) \subseteq setup.batch \cup (known \cup {g})
                        /\ em[h] # "idle" => h \in known \cup {g}
    BY <1>4, <1>5 DEF MInv, KnownInStep
  <2>2. known \cup {g} \subseteq setup.gids /\ \A h \in known \cup {g} : Peers(h) \subseteq known \cup {g}
    BY DEF MInv, KnownInStep
  <2>3. batch \in {"idle", "rejected"} => \A h \in setup.batch : ex'[h] = "idle"
    <3>1. batch \in {"idle", "rejected"} => g \notin setup.batch
      BY <1>1 DEF MInv, KnownInStep
    <3>2. batch \in {"idle", "rejected"} => \A h \in setup.batch : ex[h] = "idle" /\ h # g /\ h \in Gids
      BY <1>2, <3>1 DEF MInv, KnownInStep
    <3> QED
      BY <1>4, <3>2
  <2> QED
    BY <1>1, <2>1, <2>2, <2>3, PeersFixed DEF KnownInStep
<1>13. ResolvedExact'
  <2>1. virtual' = [virtual EXCEPT ![g] = <<>>]
    BY <1>1, Zenon DEF Compile
  <2>2. \A h \in setup.gids : virtual'[h] # <<>> => virtual'[h] = virtual[h]
    BY <1>2, <2>1 DEF MInv, Tables
  <2> QED
    BY <1>1, <2>2 DEF MInv, ResolvedExact
<1>14. BuiltExact'
  <2>1. /\ built'.check[g].type.checks = ToBin(sets, order, g)
        /\ built'.check[g].remote = RemoteList(sets, order)
    BY <1>9
  <2> HIDE DEF sets, model
  <2>2. em'[g] = em[g] /\ built'.error[g] = built.error[g]
    BY <1>1, <1>9
  <2>3. FromBin(built'.check[g].type.checks, built'.check[g].remote, g) = CheckReferences(setup, g)
    BY <1>7, <1>10, <2>1
  <2>4. /\ em'[g] \in {"resolved", "typed"} =>
              FromBin(built'.error[g].type, built'.error[g].remote, g) = ErrorReferences(g)
        /\ em'[g] = "typed" => <<built'.error[g].id, built'.error[g].type>> \in coord.etypes
    BY <1>2, <2>2 DEF MInv, BuiltExact
  <2>5. \A h \in Gids : h # g => /\ ex'[h] = ex[h] /\ em'[h] = em[h]
              /\ built'.check[h] = built.check[h] /\ built'.error[h] = built.error[h]
    BY <1>1, <1>4, <1>9
  <2>6. BuiltExact
    BY DEF MInv
  <2> QED
    <3>1. coord.ctypes \subseteq coord'.ctypes /\ coord.etypes \subseteq coord'.etypes
          /\ coord' = coord /\ setup' = setup
      BY <1>1
    <3>2. \A h \in Gids : h # g =>
              /\ ex'[h] = ex[h] \/ ex'[h] \notin {"compiled", "sent", "typed"}
              /\ em'[h] = em[h] \/ em'[h] \notin {"resolved", "typed"}
              /\ built'.check[h] = built.check[h] /\ built'.error[h] = built.error[h]
      BY <2>5
    <3>3. ex'[g] = "typed" => <<built'.check[g].id, built'.check[g].type>> \in coord'.ctypes
      BY <1>5
    <3>4. em'[g] = "typed" => <<built'.error[g].id, built'.error[g].type>> \in coord'.etypes
      BY <2>4, <3>1
    <3> QED
      BY <1>2, <2>3, <2>4, <2>6, <3>1, <3>2, <3>3, <3>4, BuiltMoves
<1>15. SentExact'
  BY <1>1, SentFrame DEF MInv
<1> QED
  BY <1>6, <1>11, <1>12, <1>13, <1>14, <1>15 DEF MInv

LEMMA ExecuteModels ==
    ASSUME IInv, MInv, NEW g \in Gids, Execute(g) \/ BatchTask(g)
    PROVE  MInv'
<1>1. \A h \in Gids : ex[h] = "done" => h \in known
  BY DEF MInv, KnownInStep
<1>2. \A h \in setup.gids : h \in Gids /\ Peers(h) \subseteq Gids
  BY Programs DEF IInv, TypeOK
<1>3. setup.batch \subseteq setup.gids
  BY Programs DEF IInv, TypeOK
<1>4. CASE Execute(g)
  <2>1. g \in setup.gids /\ g \notin setup.batch /\ Start(g, "idle") /\ \A h \in Peers(g) : ex[h] = "done"
    BY <1>4 DEF Execute
  <2>2. Peers(g) \subseteq known
    BY <1>1, <1>2, <2>1
  <2> QED
    BY <2>1, <2>2, StartModels
<1>5. CASE BatchTask(g)
  <2>1. g \in setup.gids /\ Start(g, "waiting") /\ \A h \in Peers(g) \cap setup.batch : ex[h] = "done"
    BY <1>3, <1>5 DEF BatchTask, DependenciesDone
  <2>2. Peers(g) \subseteq setup.batch \cup known
    <3>1. ex[g] = "waiting"
      BY <2>1 DEF Start
    <3> QED
      BY <3>1 DEF MInv, KnownInStep
  <2>3. Peers(g) \subseteq known
    BY <1>1, <1>2, <2>1, <2>2
  <2> QED
    BY <2>1, <2>3, StartModels
<1> QED
  BY <1>4, <1>5

-----------------------------------------------------------------------------
(* The rest of a call.                                                     *)

LEMMA KnownMoves ==
    ASSUME IInv, MInv, NEW g \in Gids, UNCHANGED <<setup, known, batch>>,
           \A h \in Gids : h # g => ex'[h] = ex[h] /\ em'[h] = em[h],
           \/ ex'[g] = ex[g]
           \/ /\ ex[g] \in {"compiled", "sent", "typed"}
              /\ ex'[g] \in {"compiled", "sent", "typed", "done", "panicked"},
           em'[g] # "idle" => g \in known
    PROVE  KnownInStep'
<1>1. \A h \in Gids : /\ ex'[h] \in {"idle", "waiting"} => h \notin known
                      /\ ex'[h] \in {"compiled", "sent", "typed", "done", "panicked"} => h \in known
                      /\ ex'[h] = "waiting" => Peers(h) \subseteq setup.batch \cup known
                      /\ em'[h] # "idle" => h \in known
  <2> SUFFICES ASSUME NEW h \in Gids
               PROVE  /\ ex'[h] \in {"idle", "waiting"} => h \notin known
                      /\ ex'[h] \in {"compiled", "sent", "typed", "done", "panicked"} => h \in known
                      /\ ex'[h] = "waiting" => Peers(h) \subseteq setup.batch \cup known
                      /\ em'[h] # "idle" => h \in known
    OBVIOUS
  <2>1. /\ ex[h] \in {"idle", "waiting"} => h \notin known
        /\ ex[h] \in {"compiled", "sent", "typed", "done", "panicked"} => h \in known
        /\ ex[h] = "waiting" => Peers(h) \subseteq setup.batch \cup known
        /\ em[h] # "idle" => h \in known
    BY DEF MInv, KnownInStep
  <2>2. CASE h = g
    BY <2>1, <2>2
  <2>3. CASE h # g
    BY <2>1, <2>3
  <2> QED
    BY <2>2, <2>3
<1>2. batch \in {"idle", "rejected"} => \A h \in setup.batch : ex'[h] = "idle"
  <2>1. setup.batch \subseteq Gids
    BY Programs DEF IInv, TypeOK
  <2> SUFFICES ASSUME batch \in {"idle", "rejected"}, NEW h \in setup.batch PROVE ex'[h] = "idle"
    OBVIOUS
  <2>2. ex[h] = "idle"
    BY DEF MInv, KnownInStep
  <2> QED
    BY <2>1, <2>2
<1>3. known \subseteq setup.gids /\ \A h \in known : Peers(h) \subseteq known
  BY DEF MInv, KnownInStep
<1> QED
  BY <1>1, <1>2, <1>3, PeersFixed DEF KnownInStep

\* What is to be sent of a gadget, by where its call and its task stand.
LEMMA BuiltOf ==
    ASSUME MInv, NEW g \in Gids
    PROVE  /\ ex[g] \in {"compiled", "sent", "typed"} =>
                FromBin(built.check[g].type.checks, built.check[g].remote, g) = CheckReferences(setup, g)
           /\ ex[g] = "typed" => <<built.check[g].id, built.check[g].type>> \in coord.ctypes
           /\ em[g] \in {"resolved", "typed"} =>
                FromBin(built.error[g].type, built.error[g].remote, g) = ErrorReferences(g)
           /\ em[g] = "typed" => <<built.error[g].id, built.error[g].type>> \in coord.etypes
BY DEF MInv, BuiltExact

LEMMA SendGadgetModels ==
    ASSUME IInv, MInv, NEW g \in Gids, SendGadget(g)
    PROVE  MInv'
<1> USE DEF compiler
<1>1. /\ UNCHANGED <<setup, known, batch, em, outputs, checks, virtual, resolving, built>>
      /\ ex[g] = "compiled"
      /\ \E v \in {"sent", "panicked"} : ex' = [ex EXCEPT ![g] = v]
  BY DEF SendGadget
<1>2. /\ coord'.models = coord.models /\ coord'.errors = coord.errors
      /\ coord'.ctypes = coord.ctypes /\ coord'.etypes = coord.etypes
  BY DEF SendGadget, IInv, Shapes
<1>3. DOMAIN ex = Gids
  BY DEF IInv, TypeOK
<1>4. ex'[g] \in {"sent", "panicked"} /\ \A h \in Gids : h # g => ex'[h] = ex[h]
  BY <1>1, <1>3
<1>5. g \in known
  BY <1>1 DEF MInv, KnownInStep
<1>6. KnownInStep'
  BY <1>1, <1>4, <1>5, KnownMoves
<1>7. BuiltExact'
  <2>1. BuiltExact /\ setup' = setup /\ coord.ctypes \subseteq coord'.ctypes
        /\ coord.etypes \subseteq coord'.etypes
    BY <1>1, <1>2 DEF MInv
  <2>2. FromBin(built'.check[g].type.checks, built'.check[g].remote, g) = CheckReferences(setup, g)
    BY <1>1, BuiltOf
  <2>3. \A h \in Gids : h # g => /\ ex'[h] = ex[h] /\ em'[h] = em[h]
              /\ built'.check[h] = built.check[h] /\ built'.error[h] = built.error[h]
    BY <1>1, <1>4
  <2>4. /\ em'[g] \in {"resolved", "typed"} =>
              FromBin(built'.error[g].type, built'.error[g].remote, g) = ErrorReferences(g)
        /\ em'[g] = "typed" => <<built'.error[g].id, built'.error[g].type>> \in coord'.etypes
    BY <1>1, <1>2, BuiltOf
  <2>5. ex'[g] # "typed"
    BY <1>4
  <2> QED
    BY <2>1, <2>2, <2>3, <2>4, <2>5, BuiltMoves
<1> QED
  BY <1>1, <1>2, <1>6, <1>7, TablesFrame, CompilerFrame, ResolvedFrame, SentFrame DEF MInv

LEMMA CheckNumbered ==
    ASSUME Tables, NEW g \in Gids, NEW id, built' = [built EXCEPT !.check[g].id = id]
    PROVE  /\ built' = [check |-> built'.check, error |-> built'.error]
           /\ built'.error = built.error /\ DOMAIN built'.check = Gids
           /\ built'.check[g] = [type |-> built.check[g].type, id |-> id, remote |-> built.check[g].remote]
           /\ \A h \in Gids : h # g => built'.check[h] = built.check[h]
<1> DEFINE b == [built.check[g] EXCEPT !.id = id]
<1>1. built.check[g] = [type |-> built.check[g].type, id |-> built.check[g].id,
                        remote |-> built.check[g].remote]
  BY DEF Tables
<1>2. b = [type |-> built.check[g].type, id |-> id, remote |-> built.check[g].remote]
  BY <1>1
<1>3. b = [type |-> b.type, id |-> b.id, remote |-> b.remote]
  BY <1>2
<1>4. built' = [built EXCEPT !.check[g] = b]
  OBVIOUS
<1> HIDE DEF b
<1> QED
  BY <1>2, <1>3, <1>4, CheckReplaced

LEMMA ErrorNumbered ==
    ASSUME Tables, NEW g \in Gids, NEW id, built' = [built EXCEPT !.error[g].id = id]
    PROVE  /\ built' = [check |-> built'.check, error |-> built'.error]
           /\ built'.check = built.check /\ DOMAIN built'.error = Gids
           /\ built'.error[g] = [type |-> built.error[g].type, id |-> id, remote |-> built.error[g].remote]
           /\ \A h \in Gids : h # g => built'.error[h] = built.error[h]
<1> DEFINE b == [built.error[g] EXCEPT !.id = id]
<1>1. built.error[g] = [type |-> built.error[g].type, id |-> built.error[g].id,
                        remote |-> built.error[g].remote]
  BY DEF Tables
<1>2. b = [type |-> built.error[g].type, id |-> id, remote |-> built.error[g].remote]
  BY <1>1
<1>3. b = [type |-> b.type, id |-> b.id, remote |-> b.remote]
  BY <1>2
<1>4. built' = [built EXCEPT !.error[g] = b]
  OBVIOUS
<1> HIDE DEF b
<1> QED
  BY <1>2, <1>3, <1>4, ErrorReplaced

\* The id of a cached type, or the new one, is that of the type with the coordinator.
LEMMA CtypeOf ==
    ASSUME IInv, NEW g \in Gids, GetOrLoadCtype(g)
    PROVE  /\ \E id : /\ built' = [built EXCEPT !.check[g].id = id]
                      /\ <<id, built.check[g].type>> \in coord'.ctypes
           /\ coord.ctypes \subseteq coord'.ctypes /\ coord'.etypes = coord.etypes
           /\ coord'.models = coord.models /\ coord'.errors = coord.errors
<1> DEFINE key == built.check[g].type
           cached == Cached(ctypes, key)
<1>1. CASE cached # {}
  <2> DEFINE id == CHOOSE id \in cached : TRUE
  <2>1. id \in cached
    BY <1>1
  <2>2. built' = [built EXCEPT !.check[g].id = id] /\ coord' = coord
    BY <1>1 DEF GetOrLoadCtype
  <2> HIDE DEF id
  <2>3. <<key, id>> \in ctypes
    BY <2>1 DEF Cached
  <2>4. <<id, key>> \in coord.ctypes
    <3>1. \A c \in ctypes : <<c[2], c[1]>> \in coord.ctypes
      BY DEF IInv, IdsInStep, Cache
    <3> QED
      BY <2>3, <3>1
  <2> QED
    BY <2>2, <2>4
<1>2. CASE cached = {}
  <2>1. /\ built' = [built EXCEPT !.check[g].id = next.ctype]
        /\ coord' = [coord EXCEPT !.ctypes = @ \cup {<<next.ctype, key>>}]
    BY <1>2 DEF GetOrLoadCtype
  <2> HIDE DEF key
  <2>2. /\ coord'.ctypes = coord.ctypes \cup {<<next.ctype, key>>} /\ coord'.etypes = coord.etypes
        /\ coord'.models = coord.models /\ coord'.errors = coord.errors
    BY <2>1 DEF IInv, Shapes
  <2>3. <<next.ctype, key>> \in coord'.ctypes /\ coord.ctypes \subseteq coord'.ctypes
    BY <2>2
  <2> QED
    BY <2>1, <2>2, <2>3 DEF key
<1> QED
  BY <1>1, <1>2

LEMMA GetOrLoadCtypeModels ==
    ASSUME IInv, MInv, NEW g \in Gids, GetOrLoadCtype(g)
    PROVE  MInv'
<1> USE DEF compiler
<1>1. /\ UNCHANGED <<setup, known, batch, em, outputs, checks, virtual, resolving>>
      /\ ex[g] = "sent" /\ ex' = [ex EXCEPT ![g] = "typed"]
  BY DEF GetOrLoadCtype
<1>2. PICK id : /\ built' = [built EXCEPT !.check[g].id = id]
                /\ <<id, built.check[g].type>> \in coord'.ctypes
  BY CtypeOf
<1>3. /\ coord.ctypes \subseteq coord'.ctypes /\ coord'.etypes = coord.etypes
      /\ coord'.models = coord.models /\ coord'.errors = coord.errors
  BY CtypeOf
<1>4. Tables
  BY DEF MInv
<1>5. /\ built' = [check |-> built'.check, error |-> built'.error]
      /\ built'.error = built.error /\ DOMAIN built'.check = Gids
      /\ built'.check[g] = [type |-> built.check[g].type, id |-> id, remote |-> built.check[g].remote]
      /\ \A h \in Gids : h # g => built'.check[h] = built.check[h]
  BY <1>2, <1>4, CheckNumbered
<1>6. ex'[g] = "typed" /\ \A h \in Gids : h # g => ex'[h] = ex[h]
  BY <1>1 DEF IInv, TypeOK
<1>7. Tables'
  BY <1>1, <1>4, <1>5 DEF Tables
<1>8. KnownInStep'
  <2>1. g \in known
    BY <1>1 DEF MInv, KnownInStep
  <2> QED
    BY <1>1, <1>6, <2>1, KnownMoves
<1>9. BuiltExact'
  <2>1. BuiltExact /\ setup' = setup /\ coord.ctypes \subseteq coord'.ctypes
        /\ coord.etypes \subseteq coord'.etypes
    BY <1>1, <1>3 DEF MInv
  <2>2. FromBin(built'.check[g].type.checks, built'.check[g].remote, g) = CheckReferences(setup, g)
    <3>1. /\ built'.check[g].type = built.check[g].type /\ built'.check[g].remote = built.check[g].remote
      BY <1>5
    <3> QED
      BY <1>1, <3>1, BuiltOf
  <2>3. \A h \in Gids : h # g => /\ ex'[h] = ex[h] /\ em'[h] = em[h]
              /\ built'.check[h] = built.check[h] /\ built'.error[h] = built.error[h]
    BY <1>1, <1>5, <1>6
  <2>4. /\ em'[g] \in {"resolved", "typed"} =>
              FromBin(built'.error[g].type, built'.error[g].remote, g) = ErrorReferences(g)
        /\ em'[g] = "typed" => <<built'.error[g].id, built'.error[g].type>> \in coord'.etypes
    BY <1>1, <1>3, <1>5, BuiltOf
  <2>5. <<built'.check[g].id, built'.check[g].type>> \in coord'.ctypes
    BY <1>2, <1>5
  <2> QED
    BY <2>1, <2>2, <2>3, <2>4, <2>5, BuiltMoves
<1> QED
  BY <1>1, <1>3, <1>7, <1>8, <1>9, CompilerFrame, ResolvedFrame, SentFrame DEF MInv

LEMMA EtypeOf ==
    ASSUME IInv, NEW g \in Gids, GetOrLoadEtype(g)
    PROVE  /\ \E id : /\ built' = [built EXCEPT !.error[g].id = id]
                      /\ <<id, built.error[g].type>> \in coord'.etypes
           /\ coord.etypes \subseteq coord'.etypes /\ coord'.ctypes = coord.ctypes
           /\ coord'.models = coord.models /\ coord'.errors = coord.errors
<1> DEFINE key == built.error[g].type
           cached == Cached(etypes, key)
<1>1. CASE cached # {}
  <2> DEFINE id == CHOOSE id \in cached : TRUE
  <2>1. id \in cached
    BY <1>1
  <2>2. built' = [built EXCEPT !.error[g].id = id] /\ coord' = coord
    BY <1>1 DEF GetOrLoadEtype
  <2> HIDE DEF id
  <2>3. <<key, id>> \in etypes
    BY <2>1 DEF Cached
  <2>4. <<id, key>> \in coord.etypes
    <3>1. \A c \in etypes : <<c[2], c[1]>> \in coord.etypes
      BY DEF IInv, IdsInStep, Cache
    <3> QED
      BY <2>3, <3>1
  <2> QED
    BY <2>2, <2>4
<1>2. CASE cached = {}
  <2>1. /\ built' = [built EXCEPT !.error[g].id = next.etype]
        /\ coord' = [coord EXCEPT !.etypes = @ \cup {<<next.etype, key>>}]
    BY <1>2 DEF GetOrLoadEtype
  <2> HIDE DEF key
  <2>2. /\ coord'.etypes = coord.etypes \cup {<<next.etype, key>>} /\ coord'.ctypes = coord.ctypes
        /\ coord'.models = coord.models /\ coord'.errors = coord.errors
    BY <2>1 DEF IInv, Shapes
  <2>3. <<next.etype, key>> \in coord'.etypes /\ coord.etypes \subseteq coord'.etypes
    BY <2>2
  <2> QED
    BY <2>1, <2>2, <2>3 DEF key
<1> QED
  BY <1>1, <1>2

LEMMA GetOrLoadEtypeModels ==
    ASSUME IInv, MInv, NEW g \in Gids, GetOrLoadEtype(g)
    PROVE  MInv'
<1> USE DEF compiler
<1>1. /\ UNCHANGED <<setup, known, batch, ex, outputs, checks, virtual, resolving>>
      /\ em[g] = "resolved" /\ em' = [em EXCEPT ![g] = "typed"]
  BY DEF GetOrLoadEtype
<1>2. PICK id : /\ built' = [built EXCEPT !.error[g].id = id]
                /\ <<id, built.error[g].type>> \in coord'.etypes
  BY EtypeOf
<1>3. /\ coord.etypes \subseteq coord'.etypes /\ coord'.ctypes = coord.ctypes
      /\ coord'.models = coord.models /\ coord'.errors = coord.errors
  BY EtypeOf
<1>4. Tables
  BY DEF MInv
<1>5. /\ built' = [check |-> built'.check, error |-> built'.error]
      /\ built'.check = built.check /\ DOMAIN built'.error = Gids
      /\ built'.error[g] = [type |-> built.error[g].type, id |-> id, remote |-> built.error[g].remote]
      /\ \A h \in Gids : h # g => built'.error[h] = built.error[h]
  BY <1>2, <1>4, ErrorNumbered
<1>6. em'[g] = "typed" /\ \A h \in Gids : h # g => em'[h] = em[h]
  BY <1>1 DEF IInv, TypeOK
<1>7. Tables'
  BY <1>1, <1>4, <1>5 DEF Tables
<1>8. KnownInStep'
  <2>1. g \in known
    BY <1>1 DEF MInv, KnownInStep
  <2> QED
    BY <1>1, <1>6, <2>1, KnownMoves
<1>9. BuiltExact'
  <2>1. BuiltExact /\ setup' = setup /\ coord.ctypes \subseteq coord'.ctypes
        /\ coord.etypes \subseteq coord'.etypes
    BY <1>1, <1>3 DEF MInv
  <2>2. FromBin(built'.error[g].type, built'.error[g].remote, g) = ErrorReferences(g)
    <3>1. /\ built'.error[g].type = built.error[g].type /\ built'.error[g].remote = built.error[g].remote
      BY <1>5
    <3> QED
      BY <1>1, <3>1, BuiltOf
  <2>3. \A h \in Gids : h # g => /\ ex'[h] = ex[h] /\ em'[h] = em[h]
              /\ built'.check[h] = built.check[h] /\ built'.error[h] = built.error[h]
    BY <1>1, <1>5, <1>6
  <2>4. /\ ex'[g] \in {"compiled", "sent", "typed"} =>
              FromBin(built'.check[g].type.checks, built'.check[g].remote, g) = CheckReferences(setup, g)
        /\ ex'[g] = "typed" => <<built'.check[g].id, built'.check[g].type>> \in coord'.ctypes
    BY <1>1, <1>3, <1>5, BuiltOf
  <2>5. <<built'.error[g].id, built'.error[g].type>> \in coord'.etypes
    BY <1>2, <1>5
  <2> QED
    BY <2>1, <2>2, <2>3, <2>4, <2>5, BuiltMoves
<1> QED
  BY <1>1, <1>3, <1>7, <1>8, <1>9, CompilerFrame, ResolvedFrame, SentFrame DEF MInv

\* A model that is sent stands for what is to be read from it.
LEMMA SentGrows ==
    ASSUME SentExact, setup' = setup,
           coord'.ctypes = coord.ctypes, coord'.etypes = coord.etypes,
           \A x \in coord'.models : x \notin coord.models =>
              /\ x.gid \in setup.gids
              /\ \E t \in coord.ctypes :
                    t[1] = x.type /\ FromBin(t[2].checks, x.remote, x.gid) = CheckReferences(setup, x.gid),
           \A x \in coord'.errors : x \notin coord.errors =>
              /\ x.gid \in setup.gids
              /\ \E t \in coord.etypes :
                    t[1] = x.type /\ FromBin(t[2], x.remote, x.gid) = ErrorReferences(x.gid)
    PROVE  SentExact'
<1>1. \A x \in coord'.models :
          /\ x.gid \in setup.gids
          /\ \E t \in coord'.ctypes :
                t[1] = x.type /\ FromBin(t[2].checks, x.remote, x.gid) = CheckReferences(setup, x.gid)
  BY DEF SentExact
<1>2. \A x \in coord'.errors :
          /\ x.gid \in setup.gids
          /\ \E t \in coord'.etypes :
                t[1] = x.type /\ FromBin(t[2], x.remote, x.gid) = ErrorReferences(x.gid)'
  BY ReferencesFixed DEF SentExact
<1> QED
  BY <1>1, <1>2, ReferencesFixed DEF SentExact

LEMMA SendCheckModelModels ==
    ASSUME IInv, MInv, NEW g \in Gids, SendCheckModel(g)
    PROVE  MInv'
<1> USE DEF compiler
<1> DEFINE sent == [gid |-> g, type |-> built.check[g].id, remote |-> built.check[g].remote]
<1>1. /\ UNCHANGED <<setup, known, batch, outputs, checks, virtual, resolving>>
      /\ ex[g] = "typed" /\ ex' = [ex EXCEPT ![g] = "done"] /\ em' = [em EXCEPT ![g] = "resolving"]
      /\ coord' = [coord EXCEPT !.models = @ \cup {sent}]
      /\ built' = [built EXCEPT !.check[g] = Nothing]
  BY DEF SendCheckModel
<1>2. /\ coord'.ctypes = coord.ctypes /\ coord'.etypes = coord.etypes
      /\ coord'.models = coord.models \cup {sent} /\ coord'.errors = coord.errors
  <2> HIDE DEF sent
  <2> QED
    BY <1>1 DEF IInv, Shapes
<1>3. Tables
  BY DEF MInv
<1>4. /\ built' = [check |-> built'.check, error |-> built'.error]
      /\ built'.error = built.error /\ DOMAIN built'.check = Gids
      /\ built'.check[g] = Nothing /\ \A h \in Gids : h # g => built'.check[h] = built.check[h]
  <2>1. Nothing = [type |-> Nothing.type, id |-> Nothing.id, remote |-> Nothing.remote]
    BY DEF Nothing
  <2> QED
    BY <1>1, <1>3, <2>1, CheckReplaced
<1>5. ex'[g] = "done" /\ em'[g] = "resolving" /\ \A h \in Gids : h # g => ex'[h] = ex[h] /\ em'[h] = em[h]
  BY <1>1 DEF IInv, TypeOK
<1>6. g \in known /\ g \in setup.gids
  BY <1>1 DEF MInv, KnownInStep
<1>7. Tables'
  <2>1. built'.check[g] = [type |-> built'.check[g].type, id |-> built'.check[g].id,
                           remote |-> built'.check[g].remote]
    BY <1>4 DEF Nothing
  <2> QED
    BY <1>1, <1>3, <1>4, <2>1 DEF Tables
<1>8. KnownInStep'
  BY <1>1, <1>5, <1>6, KnownMoves
<1>9. BuiltExact'
  <2>1. BuiltExact /\ setup' = setup /\ coord.ctypes \subseteq coord'.ctypes
        /\ coord.etypes \subseteq coord'.etypes
    BY <1>1, <1>2 DEF MInv
  <2>2. \A h \in Gids : h # g => /\ ex'[h] = ex[h] /\ em'[h] = em[h]
              /\ built'.check[h] = built.check[h] /\ built'.error[h] = built.error[h]
    BY <1>1, <1>4, <1>5
  <2>3. ex'[g] \notin {"compiled", "sent", "typed"} /\ em'[g] \notin {"resolved", "typed"}
    BY <1>5
  <2> QED
    BY <2>1, <2>2, <2>3, BuiltMoves
<1>10. SentExact'
  <2>1. \E t \in coord.ctypes :
            t[1] = sent.type /\ FromBin(t[2].checks, sent.remote, sent.gid) = CheckReferences(setup, sent.gid)
    <3>1. /\ <<built.check[g].id, built.check[g].type>> \in coord.ctypes
          /\ FromBin(built.check[g].type.checks, built.check[g].remote, g) = CheckReferences(setup, g)
      BY <1>1, BuiltOf
    <3> QED
      BY <3>1
  <2>2. sent.gid \in setup.gids
    BY <1>6
  <2> HIDE DEF sent
  <2>3. SentExact
    BY DEF MInv
  <2>4. \A x \in coord'.models : x \notin coord.models => x = sent
    BY <1>2
  <2> QED
    BY <1>1, <1>2, <2>1, <2>2, <2>3, <2>4, SentGrows
<1> QED
  BY <1>1, <1>7, <1>8, <1>9, <1>10, CompilerFrame, ResolvedFrame DEF MInv

LEMMA SendErrorModelModels ==
    ASSUME IInv, MInv, NEW g \in Gids, SendErrorModel(g)
    PROVE  MInv'
<1> USE DEF compiler
<1> DEFINE sent == [gid |-> g, type |-> built.error[g].id, remote |-> built.error[g].remote]
<1>1. /\ UNCHANGED <<setup, known, batch, ex, outputs, checks, virtual, resolving>>
      /\ em[g] = "typed" /\ em' = [em EXCEPT ![g] = "done"]
      /\ coord' = [coord EXCEPT !.errors = @ \cup {sent}]
      /\ built' = [built EXCEPT !.error[g] = Nothing]
  BY DEF SendErrorModel
<1>2. /\ coord'.ctypes = coord.ctypes /\ coord'.etypes = coord.etypes
      /\ coord'.errors = coord.errors \cup {sent} /\ coord'.models = coord.models
  <2> HIDE DEF sent
  <2> QED
    BY <1>1 DEF IInv, Shapes
<1>3. Tables
  BY DEF MInv
<1>4. /\ built' = [check |-> built'.check, error |-> built'.error]
      /\ built'.check = built.check /\ DOMAIN built'.error = Gids
      /\ built'.error[g] = Nothing /\ \A h \in Gids : h # g => built'.error[h] = built.error[h]
  <2>1. Nothing = [type |-> Nothing.type, id |-> Nothing.id, remote |-> Nothing.remote]
    BY DEF Nothing
  <2> QED
    BY <1>1, <1>3, <2>1, ErrorReplaced
<1>5. em'[g] = "done" /\ \A h \in Gids : h # g => em'[h] = em[h]
  BY <1>1 DEF IInv, TypeOK
<1>6. g \in known /\ g \in setup.gids
  BY <1>1 DEF MInv, KnownInStep
<1>7. Tables'
  <2>1. built'.error[g] = [type |-> built'.error[g].type, id |-> built'.error[g].id,
                           remote |-> built'.error[g].remote]
    BY <1>4 DEF Nothing
  <2> QED
    BY <1>1, <1>3, <1>4, <2>1 DEF Tables
<1>8. KnownInStep'
  BY <1>1, <1>5, <1>6, KnownMoves
<1>9. BuiltExact'
  <2>1. BuiltExact /\ setup' = setup /\ coord.ctypes \subseteq coord'.ctypes
        /\ coord.etypes \subseteq coord'.etypes
    BY <1>1, <1>2 DEF MInv
  <2>2. \A h \in Gids : h # g => /\ ex'[h] = ex[h] /\ em'[h] = em[h]
              /\ built'.check[h] = built.check[h] /\ built'.error[h] = built.error[h]
    BY <1>1, <1>4, <1>5
  <2>3. em'[g] \notin {"resolved", "typed"}
    BY <1>5
  <2>4. /\ ex'[g] \in {"compiled", "sent", "typed"} =>
              FromBin(built'.check[g].type.checks, built'.check[g].remote, g) = CheckReferences(setup, g)
        /\ ex'[g] = "typed" => <<built'.check[g].id, built'.check[g].type>> \in coord'.ctypes
    BY <1>1, <1>2, <1>4, BuiltOf
  <2> QED
    BY <2>1, <2>2, <2>3, <2>4, BuiltMoves
<1>10. SentExact'
  <2>1. \E t \in coord.etypes :
            t[1] = sent.type /\ FromBin(t[2], sent.remote, sent.gid) = ErrorReferences(sent.gid)
    <3>1. /\ <<built.error[g].id, built.error[g].type>> \in coord.etypes
          /\ FromBin(built.error[g].type, built.error[g].remote, g) = ErrorReferences(g)
      BY <1>1, BuiltOf
    <3> QED
      BY <3>1
  <2>2. sent.gid \in setup.gids
    BY <1>6
  <2> HIDE DEF sent
  <2>3. SentExact
    BY DEF MInv
  <2>4. \A x \in coord'.errors : x \notin coord.errors => x = sent
    BY <1>2
  <2> QED
    BY <1>1, <1>2, <2>1, <2>2, <2>3, <2>4, SentGrows
<1> QED
  BY <1>1, <1>7, <1>8, <1>9, <1>10, CompilerFrame, ResolvedFrame DEF MInv

-----------------------------------------------------------------------------
(* The error-model task of a gadget.                                       *)

LEMMA ResolvePortModels ==
    ASSUME IInv, MInv, NEW g \in Gids, ResolvePort(g)
    PROVE  MInv'
<1> USE DEF compiler
<1> DEFINE port == resolving[g].ports + 1
           c == outputs[g][port][1]
           map == InputVirtualCheckMap(TypeOf(c.gid))[c.port]
           added == [k \in DOMAIN map |-> ResolveVirtualCheck(map[k], c.gid, virtual[c.gid])]
           later == \E k \in DOMAIN map : \E u \in DOMAIN map[k].unfinished : map[k].unfinished[u] > 0
           new == [ports |-> port, checks |-> resolving[g].checks \o added]
<1>1. /\ UNCHANGED <<setup, known, batch, ex, em, outputs, checks, virtual, built, coord>>
      /\ em[g] = "resolving" /\ port \in DOMAIN TypeOf(g).outputs /\ outputs[g][port] # <<>>
      /\ later => virtual[c.gid] # <<>>
      /\ resolving' = [resolving EXCEPT ![g] = new]
  BY Zenon DEF ResolvePort
<1>2. setup \in Setups /\ g \in known /\ g \in setup.gids /\ setup.gids \subseteq Gids
  BY <1>1, Programs DEF IInv, TypeOK, MInv, KnownInStep
<1>3. \A h : TypeOf(h) = TypeIn(setup, h)
  BY DEF TypeOf, TypeIn
<1>4. port \in DOMAIN TypeIn(setup, g).outputs
  BY <1>1, <1>3
<1>5. PICK f \in known : \E q \in DOMAIN setup.connectors[f] :
             /\ outputs[g][port] = <<[gid |-> f, port |-> q]>>
             /\ setup.connectors[f][q] = [gid |-> g, port |-> port]
  <2>1. PortExact(g, port)
    <3> HIDE DEF port
    <3> QED
      BY <1>2, <1>4 DEF MInv, CompilerExact
  <2> HIDE DEF port
  <2> QED
    BY <1>1, <2>1 DEF PortExact
<1>6. PICK q \in DOMAIN setup.connectors[f] :
             /\ outputs[g][port] = <<[gid |-> f, port |-> q]>>
             /\ setup.connectors[f][q] = [gid |-> g, port |-> port]
  BY <1>5
<1>7. c.gid = f /\ c.port = q
  BY <1>6
<1>8. f \in setup.gids
  BY DEF MInv, KnownInStep
<1>9. /\ resolving[g].ports \in Nat /\ resolving[g].ports <= Len(TypeIn(setup, g).outputs)
      /\ resolving[g].checks = ResolvedUpto(setup, g, resolving[g].ports)
      /\ virtual[f] # <<>> => virtual[f] = AllResolved(setup, f)
  BY <1>2, <1>8 DEF MInv, ResolvedExact
<1>10. added = [k \in 1 .. TypeIn(setup, g).outputs[port] |-> Resolves(setup, VirtualOf(setup, g, port, k))]
  <2>1. map = InputVirtualCheckMap(TypeIn(setup, f))[q]
    BY <1>3, <1>7
  <2>2. added = [k \in DOMAIN map |-> ResolveVirtualCheck(map[k], f, virtual[f])]
    BY <1>7
  <2>3. later => virtual[f] = AllResolved(setup, f)
    BY <1>1, <1>7, <1>9
  <2>4. /\ setup.connectors[f][q].gid = g /\ setup.connectors[f][q].port = port
        /\ q \in DOMAIN TypeIn(setup, f).inputs
        /\ TypeIn(setup, g).outputs[port] = TypeIn(setup, f).inputs[q]
    <3>1. setup.connectors[f][q].gid = g /\ setup.connectors[f][q].port = port
      BY <1>6
    <3> QED
      BY <1>2, <1>6, <1>8, <3>1, ProgramShape
  <2> HIDE DEF map, port, added
  <2>5. /\ DOMAIN map = 1 .. TypeIn(setup, f).inputs[q]
        /\ \A k \in DOMAIN map : DOMAIN map[k].unfinished = DOMAIN TypeIn(setup, f).unfinished
    BY <2>1, <2>4 DEF InputVirtualCheckMap, Naming
  <2>6. ASSUME NEW k \in DOMAIN map
        PROVE  ResolveVirtualCheck(map[k], f, virtual[f]) = Resolves(setup, VirtualOf(setup, g, port, k))
    <3> DEFINE entry == map[k]
               published == virtual[f]
    <3>1. k \in 1 .. TypeIn(setup, f).inputs[q] /\ entry = InputVirtualCheckMap(TypeIn(setup, f))[q][k]
      BY <2>1, <2>5
    <3>2. ASSUME NEW u \in DOMAIN entry.unfinished, entry.unfinished[u] > 0
          PROVE  published[u] = Resolves(setup, <<f, u>>)
      <4>1. published = AllResolved(setup, f)
        BY <2>3, <3>2
      <4>2. u \in DOMAIN TypeIn(setup, f).unfinished
        BY <2>5
      <4> QED
        BY <1>2, <1>8, <4>1, <4>2, AllAreResolved
    <3> HIDE DEF entry, published
    <3>3. ResolveVirtualCheck(entry, f, published)
             = Resolves(setup, VirtualOf(setup, setup.connectors[f][q].gid, setup.connectors[f][q].port, k))
      BY <1>2, <1>6, <1>8, <3>1, <3>2, ResolveExact
    <3> QED
      BY <2>4, <3>3 DEF entry, published
  <2> QED
    BY <2>2, <2>4, <2>5, <2>6
<1>11. new.ports = port /\ new.checks = ResolvedUpto(setup, g, port)
  <2>1. port - 1 = resolving[g].ports
    BY <1>9
  <2>2. resolving[g].checks = ResolvedUpto(setup, g, port - 1)
    BY <1>9, <2>1
  <2>3. new.ports = port /\ new.checks = resolving[g].checks \o added
    BY Zenon
  <2> HIDE DEF port, added, new
  <2> QED
    BY <1>2, <1>4, <1>10, <2>2, <2>3, PortResolved
<1>12. port \in Nat /\ port <= Len(TypeIn(setup, g).outputs)
  BY <1>2, <1>4, <1>9, AllAreResolved
<1> HIDE DEF new, port, added, map, later, c
<1>13. DOMAIN resolving' = Gids /\ \A h \in Gids : resolving'[h] = IF h = g THEN new ELSE resolving[h]
  BY <1>1 DEF MInv, Tables
<1>14. ResolvedExact'
  <2>1. \A h \in setup.gids :
           /\ resolving'[h].ports \in Nat /\ resolving'[h].ports <= Len(TypeIn(setup, h).outputs)
           /\ resolving'[h].checks = ResolvedUpto(setup, h, resolving'[h].ports)
           /\ virtual[h] # <<>> => virtual[h] = AllResolved(setup, h)
    BY <1>2, <1>11, <1>12, <1>13 DEF MInv, ResolvedExact
  <2> QED
    BY <1>1, <2>1 DEF ResolvedExact
<1>15. Tables'
  BY <1>1, <1>13 DEF MInv, Tables
<1> QED
  BY <1>1, <1>14, <1>15, KnownFrame, CompilerFrame, BuiltFrame, SentFrame DEF MInv

LEMMA PublishAndBuildModels ==
    ASSUME IInv, MInv, NEW g \in Gids, PublishAndBuild(g)
    PROVE  MInv'
<1> USE DEF compiler
<1> DEFINE sets == [i \in DOMAIN TypeOf(g).errors |->
                      {<<x.cid, x.index>> :
                          x \in ExpandErrorChecks(TypeOf(g).errors[i], resolving[g].checks, g)}]
           model(order) == [type |-> ToBin(sets, order, g), id |-> 0, remote |-> RemoteList(sets, order)]
<1>1. /\ UNCHANGED <<setup, known, batch, ex, outputs, checks, resolving, coord>>
      /\ em[g] = "resolving" /\ em' = [em EXCEPT ![g] = "resolved"]
      /\ resolving[g].ports = Len(TypeOf(g).outputs)
      /\ virtual' = [virtual EXCEPT ![g] = resolving[g].checks]
  BY Zenon DEF PublishAndBuild, Publish
<1>2. PICK order \in Sequencings(sets, g) : built' = [built EXCEPT !.error[g] = model(order)]
  BY Zenon DEF PublishAndBuild
<1>3. setup \in Setups /\ g \in known /\ g \in setup.gids /\ setup.gids \subseteq Gids
  BY <1>1, Programs DEF IInv, TypeOK, MInv, KnownInStep
<1>4. resolving[g].checks = AllResolved(setup, g)
  <2>1. TypeOf(g) = TypeIn(setup, g)
    BY DEF TypeOf, TypeIn
  <2>2. resolving[g].checks = ResolvedUpto(setup, g, resolving[g].ports)
    BY <1>3 DEF MInv, ResolvedExact
  <2> QED
    BY <1>1, <2>1, <2>2 DEF AllResolved
<1>5. sets = ErrorReferences(g)
  BY <1>3, <1>4, ErrorsExpanded
<1>6. FromBin(ToBin(sets, order, g), RemoteList(sets, order), g) = sets
  <2>1. /\ sets = [i \in DOMAIN sets |-> sets[i]]
        /\ \A i \in DOMAIN sets : sets[i] \subseteq setup.gids \X Nat
    BY <1>3, <1>5, ErrorReferencesShape
  <2>2. order \in Sequencings(sets, g)
    BY <1>2
  <2> HIDE DEF sets
  <2> QED
    BY <1>3, <2>1, <2>2, Encoded
<1>7. Tables
  BY DEF MInv
<1>8. /\ built' = [check |-> built'.check, error |-> built'.error]
      /\ built'.check = built.check /\ DOMAIN built'.error = Gids
      /\ built'.error[g] = model(order) /\ \A h \in Gids : h # g => built'.error[h] = built.error[h]
  <2> DEFINE b == model(order)
  <2>1. b = [type |-> b.type, id |-> b.id, remote |-> b.remote]
    OBVIOUS
  <2>2. built' = [built EXCEPT !.error[g] = b]
    BY <1>2
  <2> HIDE DEF b
  <2>3. /\ built' = [check |-> built'.check, error |-> built'.error]
        /\ built'.check = built.check /\ DOMAIN built'.error = Gids
        /\ built'.error[g] = b /\ \A h \in Gids : h # g => built'.error[h] = built.error[h]
    BY <1>7, <2>1, <2>2, ErrorReplaced
  <2> QED
    BY <2>3 DEF b
<1>9. em'[g] = "resolved" /\ \A h \in Gids : h # g => em'[h] = em[h]
  BY <1>1 DEF IInv, TypeOK
<1>10. /\ built'.error[g].type = ToBin(sets, order, g) /\ built'.error[g].remote = RemoteList(sets, order)
       /\ built'.error[g] = [type |-> built'.error[g].type, id |-> built'.error[g].id,
                             remote |-> built'.error[g].remote]
  BY <1>8
<1> HIDE DEF sets, model
<1>11. Tables'
  <2>1. DOMAIN virtual' = Gids
    BY <1>1, <1>7 DEF Tables
  <2> QED
    BY <1>1, <1>7, <1>8, <1>10, <2>1 DEF Tables
<1>12. KnownInStep'
  BY <1>1, <1>3, <1>9, KnownMoves
<1>13. ResolvedExact'
  <2>1. \A h \in setup.gids : virtual'[h] = virtual[h] \/ virtual'[h] = AllResolved(setup, h)
    BY <1>1, <1>3, <1>4, <1>7 DEF Tables
  <2>2. \A h \in setup.gids :
           /\ resolving[h].ports \in Nat /\ resolving[h].ports <= Len(TypeIn(setup, h).outputs)
           /\ resolving[h].checks = ResolvedUpto(setup, h, resolving[h].ports)
           /\ virtual'[h] # <<>> => virtual'[h] = AllResolved(setup, h)
    BY <2>1 DEF MInv, ResolvedExact
  <2> QED
    BY <1>1, <2>2 DEF ResolvedExact
<1>14. BuiltExact'
  <2>1. BuiltExact /\ setup' = setup /\ coord.ctypes \subseteq coord'.ctypes
        /\ coord.etypes \subseteq coord'.etypes
    BY <1>1 DEF MInv
  <2>2. FromBin(built'.error[g].type, built'.error[g].remote, g) = ErrorReferences(g)
    BY <1>5, <1>6, <1>10
  <2>3. \A h \in Gids : h # g => /\ ex'[h] = ex[h] /\ em'[h] = em[h]
              /\ built'.check[h] = built.check[h] /\ built'.error[h] = built.error[h]
    BY <1>1, <1>8, <1>9
  <2>4. /\ ex'[g] \in {"compiled", "sent", "typed"} =>
              FromBin(built'.check[g].type.checks, built'.check[g].remote, g) = CheckReferences(setup, g)
        /\ ex'[g] = "typed" => <<built'.check[g].id, built'.check[g].type>> \in coord'.ctypes
    BY <1>1, <1>8, BuiltOf
  <2>5. em'[g] # "typed"
    BY <1>9
  <2> QED
    BY <2>1, <2>2, <2>3, <2>4, <2>5, BuiltMoves
<1> QED
  BY <1>1, <1>11, <1>12, <1>13, <1>14, CompilerFrame, SentFrame DEF MInv

-----------------------------------------------------------------------------
(* Resets.                                                                 *)

LEMMA ResetControllerModels ==
    ASSUME IInv, MInv, ResetController
    PROVE  MInv'
<1>1. /\ UNCHANGED <<setup, coord>>
      /\ outputs' = All(<<>>) /\ checks' = All(<<>>) /\ virtual' = All(<<>>) /\ known' = {}
      /\ ex' = All("idle") /\ em' = All("idle") /\ batch' = "idle"
      /\ resolving' = All(Unresolved) /\ built' = [check |-> All(Nothing), error |-> All(Nothing)]
  BY DEF ResetController
<1>2. \A v : DOMAIN All(v) = Gids /\ \A g \in Gids : All(v)[g] = v
  BY DEF All
<1>3. setup \in Setups /\ setup.gids \subseteq Gids /\ setup.batch \subseteq Gids
  BY Programs DEF IInv, TypeOK
<1>4. Tables'
  <2>1. Nothing = [type |-> Nothing.type, id |-> Nothing.id, remote |-> Nothing.remote]
    BY DEF Nothing
  <2>2. /\ built' = [check |-> built'.check, error |-> built'.error]
        /\ built'.check = All(Nothing) /\ built'.error = All(Nothing)
    BY <1>1
  <2> QED
    BY <1>1, <1>2, <2>1, <2>2 DEF Tables
<1>5. KnownInStep'
  <2>1. \A g \in Gids : ex'[g] = "idle" /\ em'[g] = "idle"
    BY <1>1, <1>2
  <2> QED
    BY <1>1, <1>3, <2>1 DEF KnownInStep
<1>6. CompilerExact'
  BY <1>1 DEF CompilerExact
<1>7. ResolvedExact'
  <2>1. ASSUME NEW g \in setup.gids
        PROVE  /\ resolving'[g].ports = 0 /\ resolving'[g].checks = <<>> /\ virtual'[g] = <<>>
               /\ Len(TypeIn(setup, g).outputs) \in Nat
               /\ ResolvedUpto(setup, g, 0) = <<>>
    BY <1>1, <1>2, <1>3, NothingResolved, AllAreResolved DEF Unresolved
  <2>2. \A g \in setup.gids :
           /\ resolving'[g].ports \in Nat /\ resolving'[g].ports <= Len(TypeIn(setup, g).outputs)
           /\ resolving'[g].checks = ResolvedUpto(setup, g, resolving'[g].ports)
           /\ virtual'[g] # <<>> => virtual'[g] = AllResolved(setup, g)
    BY <2>1
  <2> QED
    BY <1>1, <2>2 DEF ResolvedExact
<1>8. BuiltExact'
  <2>1. \A g \in Gids : ex'[g] = "idle" /\ em'[g] = "idle"
    BY <1>1, <1>2
  <2> QED
    BY <2>1 DEF BuiltExact
<1>9. SentExact'
  BY <1>1, SentFrame DEF MInv
<1> QED
  BY <1>4, <1>5, <1>6, <1>7, <1>8, <1>9 DEF MInv

LEMMA ResetModels ==
    ASSUME IInv, MInv, ResetCoordinator \/ ResetFails
    PROVE  MInv'
<1> USE DEF compiler, calls
<1>1. /\ rs = "coordinator"
      /\ UNCHANGED <<setup, known, ex, em, batch, outputs, checks, virtual, resolving, built>>
  BY DEF ResetCoordinator, ResetFails
<1>2. coord' = coord \/ (coord'.models = {} /\ coord'.errors = {})
  <2> DEFINE c == Cleared
  <2>1. c = [library |-> c.library, ctypes |-> c.ctypes, etypes |-> c.etypes,
             gadgets |-> {}, models |-> {}, errors |-> {}]
    BY ClearedCoordinator DEF IInv
  <2>2. \/ coord' = coord \/ coord' = c
        \/ coord' = [c EXCEPT !.library = Initial, !.etypes = TerminalEntries(Initial, 1)]
    BY DEF ResetCoordinator, ResetFails, ReloadLibrary
  <2> HIDE DEF c
  <2>3. c.models = {} /\ c.errors = {}
    BY <2>1
  <2>4. ASSUME NEW d, d = [c EXCEPT !.library = Initial, !.etypes = TerminalEntries(Initial, 1)]
        PROVE  d.models = {} /\ d.errors = {}
    BY <2>1, <2>4
  <2> QED
    BY <2>2, <2>3, <2>4
<1>3. \A g \in Gids : ex'[g] = "idle" /\ em'[g] = "idle"
  BY <1>1 DEF IInv, Quiet
<1>4. BuiltExact'
  BY <1>3 DEF BuiltExact
<1>5. SentExact'
  <2>1. CASE coord' = coord
    BY <1>1, <2>1, SentFrame DEF MInv
  <2>2. CASE coord'.models = {} /\ coord'.errors = {}
    BY <2>2 DEF SentExact
  <2> QED
    BY <1>2, <2>1, <2>2
<1> QED
  BY <1>1, <1>4, <1>5, TablesFrame, KnownFrame, CompilerFrame, ResolvedFrame DEF MInv

LEMMA ModelsInductive == IInv /\ MInv /\ [Next]_vars => MInv'
<1> SUFFICES ASSUME IInv, MInv, [Next]_vars PROVE MInv'
  OBVIOUS
<1>1. ASSUME NEW g \in Gids, Client(g) \/ Call(g) \/ ErrorTask(g) \/ Decode(g) \/ DropExecute(g)
      PROVE  MInv'
  <2>1. CASE Client(g)
    BY <2>1, ExecuteModels, OtherSteps DEF Client
  <2>2. CASE Call(g)
    BY <2>2, ExecuteModels, EndedModels, SendGadgetModels, GetOrLoadCtypeModels,
       SendCheckModelModels DEF Call
  <2>3. CASE ErrorTask(g)
    BY <2>3, ResolvePortModels, PublishAndBuildModels, EndedModels, GetOrLoadEtypeModels,
       SendErrorModelModels DEF ErrorTask
  <2>4. CASE Decode(g)
    BY <2>4, OtherSteps
  <2>5. CASE DropExecute(g)
    BY <2>5, EndedModels
  <2> QED
    BY <1>1, <2>1, <2>2, <2>3, <2>4, <2>5
<1>2. CASE ClientBatch \/ AnswerBatch \/ BatchRejected \/ DropBatch
  BY <1>2, BatchModels, OtherSteps DEF ClientBatch
<1>3. CASE RegisterLibrary \/ SendLibrary \/ SendLibraryFails
  BY <1>3, OtherSteps
<1>4. CASE CancelPending \/ BeginReset \/ Reset
  BY <1>4, OtherSteps, ResetControllerModels, ResetModels DEF Reset
<1>5. CASE UNCHANGED vars
  BY <1>5, OtherSteps
<1> QED
  BY <1>1, <1>2, <1>3, <1>4, <1>5 DEF Next, Progress, Faults, Finished

-----------------------------------------------------------------------------
(* What is sent is what the program says.                                  *)

LEMMA MeasurementsRead ==
    ASSUME NEW s \in Setups, NEW x \in ChecksOf(s)
    PROVE  {<<"measurement", p[1], p[2]>> : p \in Pairs(Explicit(s, x))}
              = {v \in Includes(s)[x] : v[1] = "measurement"}
<1> DEFINE read == {<<"measurement", p[1], p[2]>> : p \in Pairs(Explicit(s, x))}
<1>1. ASSUME NEW v \in read
      PROVE  v \in Includes(s)[x] /\ v[1] = "measurement"
  <2>1. PICK r \in Explicit(s, x) : v = <<"measurement", r.gid, r.index>>
    BY DEF Pairs
  <2> QED
    BY <2>1, InExplicit
<1>2. ASSUME NEW v \in Includes(s)[x], v[1] = "measurement"
      PROVE  v \in read
  <2>1. IsMeasurement(s, v)
    <3>1. IsMeasurement(s, v) \/ IsVirtual(s, v)
      BY IncludedShape
    <3>2. ASSUME NEW w, v = <<"virtual", w[1], w[2]>>
          PROVE  FALSE
      BY <1>2, <3>2
    <3> QED
      BY <3>1, <3>2 DEF IsVirtual
  <2>2. PICK g \in s.gids, n \in Nat : v = <<"measurement", g, n>>
    BY <2>1 DEF IsMeasurement
  <2> DEFINE r == [gid |-> g, index |-> n]
  <2>3. r = [gid |-> r.gid, index |-> r.index] /\ v = <<"measurement", r.gid, r.index>>
    BY <2>2
  <2> HIDE DEF r
  <2>4. r \in Explicit(s, x)
    BY <2>3, InExplicit
  <2>5. <<r.gid, r.index>> \in Pairs(Explicit(s, x))
    BY <2>4 DEF Pairs
  <2> QED
    BY <2>3, <2>5
<1> HIDE DEF read
<1>3. read = {v \in Includes(s)[x] : v[1] = "measurement"}
  BY <1>1, <1>2
<1> QED
  BY <1>3 DEF read

LEMMA ReadOf ==
    ASSUME NEW entries, Unique(entries), NEW x, NEW t \in entries, t[1] = x.type
    PROVE  Read(entries, x) = t[2]
<1> DEFINE u == CHOOSE u \in entries : u[1] = x.type
<1>1. u \in entries /\ u[1] = x.type
  OBVIOUS
<1>2. Read(entries, x) = u[2]
  BY DEF Read
<1> HIDE DEF u
<1>3. u = t
  BY <1>1 DEF Unique
<1> QED
  BY <1>2, <1>3

LEMMA ModelsSayWhatIsSaid == IInv /\ MInv => ModelsExact
<1> SUFFICES ASSUME IInv, MInv PROVE ModelsExact
  OBVIOUS
<1>1. setup \in Setups /\ Unique(coord.ctypes) /\ Unique(coord.etypes)
  BY DEF IInv, TypeOK, IdsInStep
<1>2. ASSUME NEW x \in coord.models, NEW i \in DOMAIN TypeOf(x.gid).finished
      PROVE  {<<"measurement", p[1], p[2]>> :
                 p \in FromBin(Read(coord.ctypes, x).checks, x.remote, x.gid)[i]}
                = {v \in Reference[setup][x.gid][i] : v[1] = "measurement"}
  <2>1. x.gid \in setup.gids
    BY DEF MInv, SentExact
  <2>2. PICK t \in coord.ctypes :
            t[1] = x.type /\ FromBin(t[2].checks, x.remote, x.gid) = CheckReferences(setup, x.gid)
    BY DEF MInv, SentExact
  <2>3. Read(coord.ctypes, x) = t[2]
    BY <1>1, <2>2, ReadOf
  <2>4. TypeOf(x.gid) = TypeIn(setup, x.gid)
    BY DEF TypeOf, TypeIn
  <2>5. FromBin(Read(coord.ctypes, x).checks, x.remote, x.gid)[i]
           = Pairs(Explicit(setup, <<x.gid, "finished", i>>))
    BY <2>2, <2>3, <2>4 DEF CheckReferences
  <2>6. <<x.gid, "finished", i>> \in ChecksOf(setup)
    <3>1. i \in DOMAIN TypeIn(setup, x.gid)["finished"]
      BY <2>4
    <3> QED
      BY <1>1, <2>1, <3>1, CheckPlaces
  <2>7. Reference[setup][x.gid][i] = Includes(setup)[<<x.gid, "finished", i>>]
    BY <1>1, <2>6, FinishedIncludes
  <2> QED
    BY <1>1, <2>5, <2>6, <2>7, MeasurementsRead
<1>3. ASSUME NEW x \in coord.errors, NEW k \in DOMAIN TypeOf(x.gid).errors
      PROVE  FromBin(Read(coord.etypes, x), x.remote, x.gid)[k]
                = {v \in FinishedOf : Flips(x.gid, TypeOf(x.gid).errors[k], v[1], v[2])}
  <2>1. PICK t \in coord.etypes :
            t[1] = x.type /\ FromBin(t[2], x.remote, x.gid) = ErrorReferences(x.gid)
    BY DEF MInv, SentExact
  <2>2. Read(coord.etypes, x) = t[2]
    BY <1>1, <2>1, ReadOf
  <2> QED
    BY <2>1, <2>2 DEF ErrorReferences
<1>4. ChecksExact
  BY <1>2, Zenon DEF ChecksExact
<1>5. ErrorsExact
  BY <1>3, Zenon DEF ErrorsExact
<1> QED
  BY <1>4, <1>5 DEF ModelsExact

\* Every check model and every error model the coordinator is sent says what the program
\* says: read back through the cached types, the remote lists and the biases, a check has
\* exactly the measurements it includes, and an error flips exactly the finished checks
\* that include an odd number of what it flips; for every library and program, whatever
\* the order of the tasks, the calls that are dropped and the resets.
THEOREM ModelsAreExact == Spec => []ModelsExact
<1>1. IInv /\ MInv /\ [Next]_vars => (IInv /\ MInv)'
  BY Inductive, ModelsInductive
<1>2. Init => IInv /\ MInv
  BY InitialState, ModelsInitially
<1> QED
  BY <1>1, <1>2, ModelsSayWhatIsSaid, PTL DEF Spec
=============================================================================

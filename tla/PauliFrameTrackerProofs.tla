-------------------- MODULE PauliFrameTrackerProofs --------------------
(***************************************************************************)
(* Proofs about PauliFrameTracker, for every program.  The frames satisfy  *)
(* their equations between two calls because, during a call, a gadget      *)
(* whose frame does not satisfy its equation has a visit to come (Fresh).  *)
(***************************************************************************)
EXTENDS PauliFrameTracker, WindowGeometryProofs, FiniteSetTheorems, TLAPS
LOCAL INSTANCE FiniteSetsExt

OnStack(g) == \E k \in DOMAIN stack : stack[k] = g

\* Between two calls nothing is left to visit or to publish.
Idle == ~calling => stack = <<>> /\ updates = Nothing

\* A gadget is among the successors of all it depends on.
Wired ==
    \A g \in added :
        /\ \A i \in DOMAIN program[g].inputs :
              LET c == program[g].inputs[i] IN outputs[c.gid][c.port] = g
        /\ \A i \in DOMAIN program[g].remote_readouts :
              LET d == dependents[program[g].remote_readouts[i].gid]
              IN  \E k \in DOMAIN d : d[k] = g

FramesGrounded == \A g \in Gids : frame[g] # None => Ready(g)

Fresh == \A g \in Gids : Ready(g) /\ ~Settled(g) => OnStack(g)

\* The readouts of the frames are the published ones overridden by the updates.
Current ==
    \A g \in Gids :
        ReadoutsOf(frame[g]) = IF updates[g] # None THEN updates[g] ELSE published[g]

\* With final corrections a frame is final too, and its readouts are new when they
\* are among the updates.
FramesFinal == ~recommit => \A g \in Gids : frame[g] # None => Settled(g)
UpdatesNew == ~recommit => \A g \in Gids : updates[g] # None => published[g] = None

IInv == /\ TypeOK /\ Idle /\ Wired /\ FramesGrounded /\ Fresh
        /\ Current /\ FramesFinal /\ UpdatesNew
-----------------------------------------------------------------------------
(* Programs. *)

\* The elements of a sequence, and its domain.
LEMMA Elements ==
    ASSUME NEW S, NEW s \in Seq(S)
    PROVE  /\ DOMAIN s = 1 .. Len(s) /\ Len(s) \in Nat
           /\ \A i \in DOMAIN s : i \in Nat /\ s[i] \in S
  OBVIOUS

\* Both parts of a concatenation are found in it.
LEMMA Concatenation ==
    ASSUME NEW S, NEW a \in Seq(S), NEW b \in Seq(S)
    PROVE  /\ a \o b \in Seq(S)
           /\ \A k \in DOMAIN a : k \in DOMAIN (a \o b) /\ (a \o b)[k] = a[k]
           /\ \A k \in DOMAIN b :
                 Len(a) + k \in DOMAIN (a \o b) /\ (a \o b)[Len(a) + k] = b[k]
  OBVIOUS

\* What the program of a state says of a gadget and of the ports it is connected to.
LEMMA ProgramFacts ==
    ASSUME TypeOK, NEW g \in Gids
    PROVE  /\ IsGadget(program[g], g)
           /\ \A i \in DOMAIN program[g].inputs :
                 LET c == program[g].inputs[i]
                 IN  c.gid \in Gids /\ c.port \in DOMAIN outputs[c.gid]
           /\ \A i \in DOMAIN program[g].remote_readouts :
                 program[g].remote_readouts[i].gid \in Gids
           /\ g \notin Needed(program[g])
           /\ Needed(program[g]) \subseteq Gids
<1>1. IsProgram(program)
  BY TrackerAssumption DEF TypeOK
<1>2. IsGadget(program[g], g)
  BY <1>1 DEF IsProgram
<1>3. \A i \in DOMAIN program[g].inputs : program[g].inputs[i] \in [gid : Gids, port : Nat]
  BY <1>2, Elements DEF IsGadget
<1>4. \A i \in DOMAIN program[g].remote_readouts : program[g].remote_readouts[i].gid \in Gids
  <2>1. \A i \in DOMAIN program[g].remote_readouts :
            program[g].remote_readouts[i] \in [gid : Gids, readout : Nat]
    BY <1>2, Elements DEF IsGadget
  <2> QED BY <2>1
<1>5. ASSUME NEW i \in DOMAIN program[g].inputs
      PROVE  program[g].inputs[i].port \in DOMAIN outputs[program[g].inputs[i].gid]
  <2> DEFINE h == program[g].inputs[i].gid
  <2>1. h \in Gids /\ program[g].inputs[i].port \in DOMAIN program[h].outputs
    BY <1>1, <1>3 DEF IsProgram
  <2>2. program[h].outputs \in Seq(SUBSET Nat)
    BY <1>1, <2>1 DEF IsProgram, IsGadget
  <2>3. outputs[h] \in Seq(Option(Gids)) /\ Len(outputs[h]) = Len(program[h].outputs)
    BY <2>1 DEF TypeOK
  <2> QED BY <2>1, <2>2, <2>3, Elements
<1>6. g \notin Needed(program[g])
  BY <1>2, TrackerAssumption DEF IsGadget
<1>7. Needed(program[g]) \subseteq Gids
  BY <1>3, <1>4 DEF Needed
<1> QED BY <1>2, <1>3, <1>4, <1>5, <1>6, <1>7

\* No two gadgets are connected to the same output port.
LEMMA PortsUsedOnce ==
    ASSUME TypeOK, NEW g \in Gids, NEW h \in Gids,
           NEW i \in DOMAIN program[g].inputs, NEW j \in DOMAIN program[h].inputs,
           program[g].inputs[i] = program[h].inputs[j]
    PROVE  g = h
  BY TrackerAssumption DEF TypeOK, IsProgram

\* A frame depends on the frames of the gadgets needed only.
LEMMA CorrectedLocal ==
    ASSUME NEW t, NEW r, NEW d, NEW f1, NEW f2,
           \A h \in Needed(t) : f1[h] = f2[h]
    PROVE  Corrected(t, r, d, f1) = Corrected(t, r, d, f2)
<1>1. \A i \in DOMAIN t.inputs : f1[t.inputs[i].gid] = f2[t.inputs[i].gid]
  BY DEF Needed
<1>2. \A i \in DOMAIN t.remote_readouts :
          f1[t.remote_readouts[i].gid] = f2[t.remote_readouts[i].gid]
  BY DEF Needed
<1>3. {{i} \X Slice(f1[t.inputs[i].gid].residual, t.inputs[i].port) : i \in DOMAIN t.inputs}
      = {{i} \X Slice(f2[t.inputs[i].gid].residual, t.inputs[i].port) : i \in DOMAIN t.inputs}
  BY <1>1
<1>4. {i \in DOMAIN t.remote_readouts :
          t.remote_readouts[i].readout \in f1[t.remote_readouts[i].gid].readouts}
      = {i \in DOMAIN t.remote_readouts :
          t.remote_readouts[i].readout \in f2[t.remote_readouts[i].gid].readouts}
  BY <1>2
<1> QED BY <1>3, <1>4 DEF Corrected

\* The equation of propagate_from yields a frame.
LEMMA CorrectedType ==
    ASSUME NEW g, NEW t, IsGadget(t, g), NEW r \in Raw, NEW d \in Frame, NEW f
    PROVE  Corrected(t, r, d, f) \in Frame
<1>1. Out(t) \subseteq Nat \X Nat
  <2>1. \A k \in DOMAIN t.outputs : k \in Nat /\ t.outputs[k] \subseteq Nat
    BY Elements DEF IsGadget
  <2> QED BY <2>1 DEF Out
<1>2. \A v : /\ Mul(t.readout_propagation, v) \subseteq Nat
             /\ Mul(t.correction_propagation, v) \subseteq Nat \X Nat
             /\ Mul(t.physical_correction, v) \subseteq Nat \X Nat
             /\ Mul(t.logical_correction, v) \subseteq Nat \X Nat
             /\ Mul(t.remote_correction, v) \subseteq Nat \X Nat
  BY <1>1 DEF Mul, IsGadget
<1>3. \A S, A, B : A \subseteq S /\ B \subseteq S => SymDiff(A, B) \subseteq S
  BY DEF SymDiff
<1>4. r.readouts \subseteq Nat /\ d.readouts \subseteq Nat /\ d.residual \subseteq Nat \X Nat
  BY DEF Raw, Frame
<1>5. Corrected(t, r, d, f).readouts \subseteq Nat
  BY <1>2, <1>3, <1>4 DEF Corrected
<1>6. Corrected(t, r, d, f).residual \subseteq Nat \X Nat
  BY <1>2, <1>3, <1>4 DEF Corrected
<1>7. Corrected(t, r, d, f) =
         [readouts |-> Corrected(t, r, d, f).readouts,
          residual |-> Corrected(t, r, d, f).residual]
  BY DEF Corrected
<1> QED BY <1>5, <1>6, <1>7 DEF Frame
-----------------------------------------------------------------------------
(* What the visits do. *)

\* A visit is to a gadget.
LEMMA HeadIsGid ==
    ASSUME TypeOK, stack # <<>>, Head(stack) # None
    PROVE  Head(stack) \in Gids
  BY DEF TypeOK, Option

\* A ready gadget has a frame to compute: no unwrap in propagate_from fails.
LEMMA NewFrameType ==
    ASSUME TypeOK, NEW g \in Gids, Ready(g)
    PROVE  NewFrame(g) \in Frame /\ NewFrame(g) # None
<1>1. raw[g] \in Raw /\ decoded[g] \in Frame
  BY DEF TypeOK, Ready, Option
<1>2. NewFrame(g) \in Frame
  BY <1>1, ProgramFacts, CorrectedType DEF NewFrame
<1> QED BY <1>2, TrackerAssumption

\* A visit replaces the head of the stack by the visits s: the others stay.
LEMMA StackTail ==
    ASSUME TypeOK, stack # <<>>, NEW s \in Seq(Option(Gids)), stack' = s \o Tail(stack),
           NEW g \in Gids
    PROVE  /\ OnStack(g) /\ g # Head(stack) => OnStack(g)'
           /\ (\E k \in DOMAIN s : s[k] = g) => OnStack(g)'
<1>1. stack \in Seq(Option(Gids)) /\ Tail(stack) \in Seq(Option(Gids))
  BY DEF TypeOK
<1>2. ASSUME NEW k \in DOMAIN s, s[k] = g PROVE OnStack(g)'
  <2>1. k \in DOMAIN stack' /\ stack'[k] = s[k]
    BY <1>1
  <2> QED BY <1>2, <2>1 DEF OnStack
<1>3. ASSUME NEW k \in DOMAIN stack, stack[k] = g, g # Head(stack) PROVE OnStack(g)'
  <2>1. k \in 1 .. Len(stack) /\ k # 1 /\ Len(stack) \in Nat
    BY <1>1, <1>3
  <2>2. k - 1 \in 1 .. Len(Tail(stack)) /\ Tail(stack)[k - 1] = stack[k]
    BY <1>1, <2>1
  <2>3. Len(s) + (k - 1) \in DOMAIN stack' /\ stack'[Len(s) + (k - 1)] = Tail(stack)[k - 1]
    BY <1>1, <2>1, <2>2
  <2> QED BY <1>3, <2>2, <2>3 DEF OnStack
<1> QED BY <1>2, <1>3 DEF OnStack

\* The successors of a gadget hold all that need it.
LEMMA SuccessorsComplete ==
    ASSUME TypeOK, Wired, NEW g \in Gids, NEW h \in added, g \in Needed(program[h])
    PROVE  /\ Successors(g) \in Seq(Option(Gids))
           /\ \E k \in DOMAIN Successors(g) : Successors(g)[k] = h
<1>1. outputs[g] \in Seq(Option(Gids)) /\ dependents[g] \in Seq(Option(Gids))
  <2>1. dependents[g] \in Seq(Gids)
    BY DEF TypeOK
  <2>2. Seq(Gids) \subseteq Seq(Option(Gids))
    BY DEF Option
  <2> QED BY <2>1, <2>2 DEF TypeOK
<1>5. /\ Successors(g) \in Seq(Option(Gids))
      /\ \A k \in DOMAIN outputs[g] :
            k \in DOMAIN Successors(g) /\ Successors(g)[k] = outputs[g][k]
      /\ \A k \in DOMAIN dependents[g] :
            /\ Len(outputs[g]) + k \in DOMAIN Successors(g)
            /\ Successors(g)[Len(outputs[g]) + k] = dependents[g][k]
  <2> DEFINE a == outputs[g]
             b == dependents[g]
  <2>1. a \in Seq(Option(Gids)) /\ b \in Seq(Option(Gids))
    BY <1>1
  <2> HIDE DEF a, b
  <2>2. /\ a \o b \in Seq(Option(Gids))
        /\ \A k \in DOMAIN a : k \in DOMAIN (a \o b) /\ (a \o b)[k] = a[k]
        /\ \A k \in DOMAIN b :
              Len(a) + k \in DOMAIN (a \o b) /\ (a \o b)[Len(a) + k] = b[k]
    BY <2>1, Concatenation
  <2> QED BY <2>2 DEF Successors, a, b
<1>2. h \in Gids
  BY DEF TypeOK
<1>3. CASE \E i \in DOMAIN program[h].inputs : program[h].inputs[i].gid = g
  <2>1. PICK i \in DOMAIN program[h].inputs : program[h].inputs[i].gid = g
    BY <1>3
  <2> DEFINE k == program[h].inputs[i].port
  <2>2. k \in DOMAIN outputs[g] /\ outputs[g][k] = h
    BY <1>2, <2>1, ProgramFacts DEF Wired
  <2>3. k \in DOMAIN Successors(g) /\ Successors(g)[k] = h
    BY <1>5, <2>2
  <2> QED BY <1>5, <2>3
<1>4. CASE \E i \in DOMAIN program[h].remote_readouts :
              program[h].remote_readouts[i].gid = g
  <2>1. PICK k \in DOMAIN dependents[g] : dependents[g][k] = h
    BY <1>4 DEF Wired
  <2> DEFINE n == Len(outputs[g])
  <2>2. n + k \in DOMAIN Successors(g) /\ Successors(g)[n + k] = h
    BY <1>5, <2>1
  <2> QED BY <1>5, <2>2
<1> QED BY <1>3, <1>4 DEF Needed
-----------------------------------------------------------------------------
(* Every operation preserves the invariant. *)

\* An empty tracker satisfies the invariant.
LEMMA InitHolds == Init => IInv
<1> SUFFICES ASSUME Init PROVE IInv
  OBVIOUS
<1>1. ASSUME NEW g \in Gids
      PROVE  /\ outputs[g] \in Seq(Option(Gids))
             /\ Len(outputs[g]) = Len(program[g].outputs)
  <2>1. program[g].outputs \in Seq(SUBSET Nat)
    BY TrackerAssumption DEF Init, IsProgram, IsGadget
  <2> DEFINE s == program[g].outputs
             e == [k \in DOMAIN s |-> None]
  <2>2. s \in Seq(SUBSET Nat) /\ outputs[g] = e
    BY <2>1 DEF Init
  <2> HIDE DEF s
  <2>3. DOMAIN s = 1 .. Len(s) /\ Len(s) \in Nat
    BY <2>2
  <2>4. e \in Seq(Option(Gids)) /\ Len(e) = Len(s)
    BY <2>3 DEF Option
  <2> QED BY <2>2, <2>4 DEF s
<1>2. TypeOK
  <2>1. Nothing \in [Gids -> Option(Frame)] /\ Nothing \in [Gids -> Option(Raw)]
        /\ Nothing \in [Gids -> Option(Readouts)]
    BY DEF Nothing, Option
  <2>2. \A g \in Gids : Nothing[g] = None
    BY DEF Nothing
  <2>3. stack \in Seq(Option(Gids)) /\ dependents \in [Gids -> Seq(Gids)]
    BY DEF Init
  <2> QED BY <1>1, <2>1, <2>2, <2>3 DEF Init, TypeOK
<1>3. /\ Idle /\ Wired /\ FramesGrounded /\ Fresh
      /\ Current /\ FramesFinal /\ UpdatesNew
  BY DEF Init, Idle, Wired, FramesGrounded, Fresh, Current, FramesFinal, UpdatesNew,
         Ready, ReadoutsOf, Nothing
<1> QED BY <1>2, <1>3 DEF IInv

\* add_gadget registers the new gadget with all it depends on.
LEMMA AddGadgetStep ==
    ASSUME IInv, NEW g \in Gids, AddGadget(g)
    PROVE  IInv'
<1> USE DEF IInv
<1> DEFINE t == program[g]
           Peers(h) == {i \in DOMAIN t.remote_readouts : t.remote_readouts[i].gid = h}
<1>1. /\ g \notin added /\ added' = added \cup {g} /\ Needed(t) \subseteq added
      /\ outputs' = [h \in Gids |-> [k \in DOMAIN outputs[h] |->
               IF \E i \in DOMAIN t.inputs : t.inputs[i] = [gid |-> h, port |-> k]
               THEN g ELSE outputs[h][k]]]
      /\ dependents' = [h \in Gids |->
               dependents[h] \o [i \in 1..Cardinality(Peers(h)) |-> g]]
      /\ UNCHANGED <<program, recommit, raw, decoded, frame, stack, updates,
                     calling, published>>
  BY DEF AddGadget
<1>2. ASSUME NEW h \in Gids
      PROVE  Cardinality(Peers(h)) \in Nat /\ (Peers(h) # {} => Cardinality(Peers(h)) # 0)
  <2>1. t.remote_readouts \in Seq([gid : Gids, readout : Nat])
    BY ProgramFacts DEF IsGadget
  <2>2. IsFiniteSet(DOMAIN t.remote_readouts)
    BY <2>1, Elements, FS_Interval
  <2> QED
    BY <2>2, FS_Subset, FS_CardinalityType, FS_EmptySet
<1>3. ASSUME NEW h \in Gids
      PROVE  /\ outputs'[h] \in Seq(Option(Gids))
             /\ Len(outputs'[h]) = Len(program'[h].outputs)
             /\ DOMAIN outputs'[h] = DOMAIN outputs[h]
  <2> DEFINE s == outputs[h]
             e == [k \in DOMAIN s |->
                     IF \E i \in DOMAIN t.inputs : t.inputs[i] = [gid |-> h, port |-> k]
                     THEN g ELSE s[k]]
  <2>1. s \in Seq(Option(Gids)) /\ Len(s) = Len(program[h].outputs)
    BY DEF TypeOK
  <2>2. outputs'[h] = e
    BY <1>1
  <2> HIDE DEF s, t
  <2>3. DOMAIN s = 1 .. Len(s) /\ Len(s) \in Nat /\ \A k \in DOMAIN s : s[k] \in Option(Gids)
    BY <2>1, Elements
  <2>4. DOMAIN e = 1 .. Len(s) /\ \A k \in DOMAIN e : e[k] \in Option(Gids)
    BY <2>3 DEF Option
  <2> HIDE DEF e
  <2>5. e \in [1 .. Len(s) -> Option(Gids)]
    BY <2>4 DEF e
  <2>6. e \in Seq(Option(Gids)) /\ Len(e) = Len(s)
    BY <2>3, <2>5
  <2> QED BY <1>1, <2>1, <2>2, <2>3, <2>4, <2>6 DEF s
<1>4. ASSUME NEW h \in Gids
      PROVE  /\ dependents'[h] \in Seq(Gids)
             /\ \A k \in DOMAIN dependents[h] :
                   k \in DOMAIN dependents'[h] /\ dependents'[h][k] = dependents[h][k]
             /\ Peers(h) # {} => \E k \in DOMAIN dependents'[h] : dependents'[h][k] = g
  <2> DEFINE n == Cardinality(Peers(h))
             s == dependents[h]
             e == [i \in 1..n |-> g]
  <2>1. dependents'[h] = s \o e /\ s \in Seq(Gids)
    BY <1>1 DEF TypeOK
  <2>2. n \in Nat /\ (Peers(h) # {} => n # 0)
    BY <1>2
  <2> HIDE DEF n, s, Peers
  <2>3. e \in Seq(Gids) /\ DOMAIN e = 1..n /\ \A i \in 1..n : e[i] = g
    BY <2>2
  <2> HIDE DEF e
  <2>4. /\ s \o e \in Seq(Gids)
        /\ \A k \in DOMAIN s : k \in DOMAIN (s \o e) /\ (s \o e)[k] = s[k]
        /\ \A k \in DOMAIN e :
              Len(s) + k \in DOMAIN (s \o e) /\ (s \o e)[Len(s) + k] = e[k]
    <3>1. s \in Seq(Gids) /\ e \in Seq(Gids)
      BY <2>1, <2>3
    <3> QED BY ONLY <3>1, Concatenation
  <2>5. n # 0 => \E k \in DOMAIN (s \o e) : (s \o e)[k] = g
    <3> SUFFICES ASSUME n # 0 PROVE \E k \in DOMAIN (s \o e) : (s \o e)[k] = g
      OBVIOUS
    <3>1. 1 \in DOMAIN e
      BY <2>2, <2>3
    <3> QED BY <3>1, <2>3, <2>4
  <2> QED BY <2>1, <2>2, <2>4, <2>5 DEF s
<1>5. TypeOK'
  <2>1. dependents' \in [Gids -> Seq(Gids)]
    BY <1>1, <1>4
  <2> QED BY <1>1, <1>3, <2>1 DEF TypeOK, Corrections
<1>6. Wired'
  <2> SUFFICES ASSUME NEW x \in added'
               PROVE /\ \A i \in DOMAIN program[x].inputs :
                           outputs'[program[x].inputs[i].gid][program[x].inputs[i].port] = x
                     /\ \A i \in DOMAIN program[x].remote_readouts :
                           \E k \in DOMAIN dependents'[program[x].remote_readouts[i].gid] :
                               dependents'[program[x].remote_readouts[i].gid][k] = x
    <3>1. program' = program
      BY <1>1
    <3> QED BY <3>1 DEF Wired
  <2>0. x \in Gids /\ IsGadget(program[x], x)
    BY <1>1, ProgramFacts DEF TypeOK
  <2>1. ASSUME NEW i \in DOMAIN program[x].inputs
        PROVE  outputs'[program[x].inputs[i].gid][program[x].inputs[i].port] = x
    <3> DEFINE c == program[x].inputs[i]
    <3>1. c \in [gid : Gids, port : Nat] /\ c.gid \in Gids /\ c.port \in DOMAIN outputs[c.gid]
      BY <2>0, ProgramFacts, Elements DEF IsGadget
    <3>2. c = [gid |-> c.gid, port |-> c.port]
      BY <3>1
    <3>3. outputs'[c.gid][c.port] =
             IF \E j \in DOMAIN t.inputs : t.inputs[j] = c THEN g ELSE outputs[c.gid][c.port]
      BY <1>1, <3>1, <3>2
    <3>4. CASE x = g
      BY <3>3, <3>4
    <3>5. CASE x # g
      <4>1. x \in added
        BY <1>1, <3>5
      <4>2. ~ \E j \in DOMAIN t.inputs : t.inputs[j] = c
        BY <2>0, <3>5, PortsUsedOnce
      <4>3. outputs[c.gid][c.port] = x
        BY <4>1 DEF Wired
      <4> QED BY <3>3, <4>2, <4>3
    <3> QED BY <3>4, <3>5
  <2>2. ASSUME NEW i \in DOMAIN program[x].remote_readouts
        PROVE  \E k \in DOMAIN dependents'[program[x].remote_readouts[i].gid] :
                   dependents'[program[x].remote_readouts[i].gid][k] = x
    <3> DEFINE h == program[x].remote_readouts[i].gid
    <3>1. h \in Gids
      BY <2>0, ProgramFacts
    <3>2. CASE x = g
      BY <1>4, <3>1, <3>2
    <3>3. CASE x # g
      <4>1. \E k \in DOMAIN dependents[h] : dependents[h][k] = x
        BY <1>1, <3>3 DEF Wired
      <4> QED BY <1>4, <3>1, <4>1
    <3> QED BY <3>2, <3>3
  <2> QED BY <2>1, <2>2
<1>7. /\ Idle' /\ FramesGrounded' /\ Fresh' /\ Current' /\ FramesFinal' /\ UpdatesNew'
  BY <1>1 DEF Idle, FramesGrounded, Fresh, Current, FramesFinal, UpdatesNew, Ready,
              Settled, NewFrame, OnStack
<1> QED BY <1>5, <1>6, <1>7

\* load_raw comes before the correction, so that no frame depends on it yet.
LEMMA LoadRawStep ==
    ASSUME IInv, NEW g \in Gids, NEW v \in SUBSET program[g].measurements, LoadRaw(g, v)
    PROVE  IInv'
<1> USE DEF IInv
<1>1. /\ g \in added /\ raw[g] = None /\ ~calling
      /\ UNCHANGED <<wires, decoded, frame, stack, updates, calling, published>>
      /\ \A x \in Gids : x # g => raw'[x] = raw[x]
      /\ decoded[g] = None
  BY DEF LoadRaw, TypeOK
<1>2. raw' \in [Gids -> Option(Raw)]
  <2>1. program[g].measurements \subseteq Nat
        /\ DOMAIN program[g].measurement_indices \subseteq Nat
    BY ProgramFacts DEF IsGadget
  <2>2. [readouts |-> Mul(program[g].measurement_indices, v), measurements |-> v] \in Raw
    BY <2>1 DEF Raw, Mul
  <2> QED BY <2>2 DEF LoadRaw, TypeOK, Option
<1>3. TypeOK'
  <2>1. \A x \in Gids : decoded'[x] # None => raw'[x] # None /\ x \in added'
    BY <1>1 DEF TypeOK, wires
  <2> QED BY <1>1, <1>2, <2>1 DEF TypeOK, wires, Corrections
<1>4. \A x \in Gids : Ready(x)' <=> Ready(x)
  BY <1>1 DEF Ready, wires
<1>5. \A x \in Gids : Ready(x) => (Settled(x)' <=> Settled(x))
  BY <1>1 DEF Ready, Settled, NewFrame, wires
<1>6. FramesGrounded' /\ Fresh' /\ FramesFinal'
  BY <1>1, <1>4, <1>5 DEF FramesGrounded, Fresh, FramesFinal, OnStack, wires
<1>7. Idle' /\ Wired' /\ Current' /\ UpdatesNew'
  BY <1>1 DEF Idle, Wired, Current, UpdatesNew, wires
<1> QED BY <1>3, <1>6, <1>7

\* A correction flips readouts and output observables of its gadget.
LEMMA CorrectionsAreFrames ==
    ASSUME TypeOK, NEW g \in Gids
    PROVE  Corrections(g) \subseteq Frame
<1>1. IsGadget(program[g], g)
  BY ProgramFacts
<1>2. Out(program[g]) \subseteq Nat \X Nat
  <2>1. \A k \in DOMAIN program[g].outputs : k \in Nat /\ program[g].outputs[k] \subseteq Nat
    BY <1>1, Elements DEF IsGadget
  <2> QED BY <2>1 DEF Out
<1> QED BY <1>1, <1>2 DEF Corrections, Frame, IsGadget

\* load_correction makes its own gadget stale only, and visits it.
LEMMA LoadCorrectionStep ==
    ASSUME IInv, NEW g \in Gids, NEW c \in Corrections(g), LoadCorrection(g, c)
    PROVE  IInv'
<1> USE DEF IInv
<1>1. /\ g \in added /\ raw[g] # None /\ ~calling /\ (decoded[g] = None \/ recommit)
      /\ decoded' = [decoded EXCEPT ![g] = c] /\ stack' = <<g>> /\ calling' = TRUE
      /\ UNCHANGED <<wires, raw, frame, updates, published>>
      /\ stack = <<>> /\ updates = Nothing
  BY DEF LoadCorrection, Correctable, Idle
<1>2. c \in Frame /\ c # None
  BY CorrectionsAreFrames, TrackerAssumption
<1>3. decoded \in [Gids -> Option(Frame)]
  BY DEF TypeOK
<1>4. /\ decoded'[g] = c
      /\ \A x \in Gids : x # g => decoded'[x] = decoded[x]
      /\ decoded' \in [Gids -> Option(Frame)]
  BY <1>1, <1>2, <1>3 DEF Option
<1>5. TypeOK'
  <2>1. stack' \in Seq(Option(Gids))
    BY <1>1 DEF Option
  <2>2. \A x \in Gids : decoded'[x] # None => raw'[x] # None /\ x \in added'
    BY <1>1, <1>4 DEF TypeOK, wires
  <2> QED BY <1>1, <1>4, <2>1, <2>2 DEF TypeOK, wires
<1>6. \A x \in Gids : Ready(x) => Ready(x)'
  BY <1>1, <1>2, <1>4 DEF Ready, wires
<1>7. \A x \in Gids : x # g => (Ready(x)' <=> Ready(x)) /\ (Settled(x)' <=> Settled(x))
  BY <1>1, <1>4 DEF Ready, Settled, NewFrame, wires
<1>8. OnStack(g)'
  BY <1>1 DEF OnStack
<1>9. FramesGrounded'
  BY <1>1, <1>6 DEF FramesGrounded
<1>10. Fresh'
  BY <1>1, <1>7, <1>8 DEF Fresh, OnStack
<1>11. FramesFinal'
  <2>1. ~recommit => frame[g] = None
    BY <1>1 DEF FramesGrounded, Ready
  <2> QED BY <1>1, <1>7, <2>1 DEF FramesFinal, wires
<1>12. Idle' /\ Wired' /\ Current' /\ UpdatesNew'
  BY <1>1 DEF Idle, Wired, Current, UpdatesNew, wires
<1> QED BY <1>5, <1>9, <1>10, <1>11, <1>12

\* An early return of propagate_from leaves a gadget that is not stale.
LEMMA VisitNobodyStep ==
    ASSUME IInv, VisitNobody
    PROVE  IInv'
<1> USE DEF IInv
<1>1. /\ stack # <<>> /\ stack' = Tail(stack) /\ calling
      /\ UNCHANGED <<wires, values, frame, updates, calling, published>>
  BY DEF VisitNobody, Idle
<1>2. stack \in Seq(Option(Gids)) /\ stack' \in Seq(Option(Gids))
      /\ stack' = <<>> \o Tail(stack)
  BY <1>1 DEF TypeOK
<1>3. TypeOK'
  BY <1>1, <1>2 DEF TypeOK, wires, values
<1>4. \A x \in Gids : (Ready(x)' <=> Ready(x)) /\ (Settled(x)' <=> Settled(x))
  BY <1>1 DEF Ready, Settled, NewFrame, wires, values
<1>5. ASSUME NEW x \in Gids, Ready(x), ~Settled(x) PROVE OnStack(x)'
  <2>1. OnStack(x) /\ x # Head(stack)
    BY <1>5, TrackerAssumption DEF Fresh, VisitNobody
  <2>2. <<>> \in Seq(Option(Gids))
    OBVIOUS
  <2> QED BY <1>1, <1>2, <2>1, <2>2, StackTail
<1>6. Fresh'
  BY <1>4, <1>5 DEF Fresh
<1>7. FramesGrounded' /\ FramesFinal'
  BY <1>1, <1>4 DEF FramesGrounded, FramesFinal, wires
<1>8. Idle' /\ Wired' /\ Current' /\ UpdatesNew'
  BY <1>1 DEF Idle, Wired, Current, UpdatesNew, wires
<1> QED BY <1>3, <1>6, <1>7, <1>8

\* A changed frame makes its successors stale only, and all of them are visited.
LEMMA VisitChangedStep ==
    ASSUME IInv, VisitChanged, NEW g, g = Head(stack), NEW new, new = NewFrame(g)
    PROVE  IInv'
<1> USE DEF IInv
<1>1. /\ stack # <<>> /\ g # None /\ Ready(g) /\ ~Settled(g) /\ calling
      /\ updates' = [updates EXCEPT ![g] = ReadoutsOf(new)]
      /\ frame' = [frame EXCEPT ![g] = new]
      /\ stack' = Successors(g) \o Tail(stack)
      /\ UNCHANGED <<wires, values, calling, published>>
  BY DEF VisitChanged, Insert, Idle
<1>2. g \in Gids
  BY <1>1, HeadIsGid
<1>3. new \in Frame /\ new # None
  BY <1>1, <1>2, NewFrameType
<1>4. ReadoutsOf(new) \in Readouts /\ ReadoutsOf(new) # None
  BY <1>3, TrackerAssumption DEF ReadoutsOf, Readouts, Frame
<1>5. /\ frame'[g] = new /\ updates'[g] = ReadoutsOf(new)
      /\ \A x \in Gids : x # g => frame'[x] = frame[x] /\ updates'[x] = updates[x]
  BY <1>1, <1>2 DEF TypeOK
<1>6. Successors(g) \in Seq(Option(Gids))
  <2>1. outputs[g] \in Seq(Option(Gids)) /\ dependents[g] \in Seq(Gids)
    BY <1>2 DEF TypeOK
  <2>2. Seq(Gids) \subseteq Seq(Option(Gids))
    BY DEF Option
  <2>3. dependents[g] \in Seq(Option(Gids))
    BY <2>1, <2>2
  <2> QED BY <2>1, <2>3, Concatenation DEF Successors
<1>7. TypeOK'
  <2>1. stack' \in Seq(Option(Gids))
    <3>1. Tail(stack) \in Seq(Option(Gids))
      BY <1>1 DEF TypeOK
    <3> QED BY <1>1, <1>6, <3>1, Concatenation
  <2>2. frame' \in [Gids -> Option(Frame)] /\ updates' \in [Gids -> Option(Readouts)]
    BY <1>1, <1>2, <1>3, <1>4 DEF TypeOK, Option
  <2> QED BY <1>1, <2>1, <2>2 DEF TypeOK, wires, values
<1>8. \A x \in Gids : Ready(x) => Ready(x)'
  <2>1. \A x \in Gids : frame[x] # None => frame'[x] # None
    BY <1>3, <1>5
  <2>2. \A x \in Gids : Needed(program[x]) \subseteq Gids
    BY ProgramFacts
  <2>3. program' = program /\ decoded' = decoded
    BY <1>1 DEF wires, values
  <2> QED BY <2>1, <2>2, <2>3 DEF Ready
<1>9. ASSUME NEW x \in Gids, g \notin Needed(program[x])
      PROVE  (Ready(x)' <=> Ready(x)) /\ NewFrame(x)' = NewFrame(x)
  <2>1. \A h \in Needed(program[x]) : frame'[h] = frame[h]
    BY <1>5, <1>9, ProgramFacts
  <2>2. program' = program /\ decoded' = decoded /\ raw' = raw
    BY <1>1 DEF wires, values
  <2>3. Ready(x)' <=> Ready(x)
    BY <2>1, <2>2 DEF Ready
  <2>4. Corrected(program[x], raw[x], decoded[x], frame')
        = Corrected(program[x], raw[x], decoded[x], frame)
    BY <2>1, CorrectedLocal
  <2> QED BY <2>2, <2>3, <2>4 DEF NewFrame
<1>10. Settled(g)' /\ Ready(g)'
  <2>1. NewFrame(g)' = NewFrame(g) /\ Ready(g)'
    BY <1>1, <1>2, <1>8, <1>9, ProgramFacts
  <2> QED BY <1>5, <2>1 DEF Settled
<1>11. FramesGrounded'
  <2> SUFFICES ASSUME NEW x \in Gids, frame'[x] # None PROVE Ready(x)'
    BY DEF FramesGrounded
  <2> QED BY <1>5, <1>8, <1>10 DEF FramesGrounded
<1>12. Fresh'
  <2> SUFFICES ASSUME NEW x \in Gids, Ready(x)', ~Settled(x)' PROVE OnStack(x)'
    BY DEF Fresh
  <2>1. x # g
    BY <1>10
  <2>2. CASE g \in Needed(program[x])
    <3>1. x \in added
      BY <1>1 DEF Ready, TypeOK, values
    <3>2. \E k \in DOMAIN Successors(g) : Successors(g)[k] = x
      BY <1>2, <2>2, <3>1, SuccessorsComplete
    <3> QED BY <1>1, <1>6, <3>2, StackTail
  <2>3. CASE g \notin Needed(program[x])
    <3>1. Ready(x) /\ ~Settled(x)
      BY <1>5, <1>9, <2>1, <2>3 DEF Settled
    <3>2. OnStack(x)
      BY <3>1 DEF Fresh
    <3> QED BY <1>1, <1>6, <2>1, <3>2, StackTail
  <2> QED BY <2>2, <2>3
<1>13. Current'
  <2>1. published' = published
    BY <1>1
  <2> QED BY <1>4, <1>5, <2>1 DEF Current
<1>14. ~recommit => frame[g] = None
  BY <1>1, <1>2 DEF FramesFinal
<1>15. FramesFinal'
  <2> SUFFICES ASSUME ~recommit, NEW x \in Gids, frame'[x] # None PROVE Settled(x)'
    BY <1>1 DEF FramesFinal, wires
  <2>1. CASE x = g
    BY <1>10, <2>1
  <2>2. CASE x # g
    <3>1. frame[x] # None /\ Settled(x) /\ Ready(x)
      BY <1>5, <2>2 DEF FramesFinal, FramesGrounded
    <3>2. g \notin Needed(program[x])
      BY <1>14, <3>1 DEF Ready
    <3> QED BY <1>5, <1>9, <2>2, <3>1, <3>2 DEF Settled
  <2> QED BY <2>1, <2>2
<1>16. UpdatesNew'
  <2>1. ~recommit => published[g] = None
    BY <1>2, <1>14 DEF Current, ReadoutsOf
  <2>2. published' = published /\ recommit' = recommit
    BY <1>1 DEF wires
  <2> QED BY <1>5, <2>1, <2>2 DEF UpdatesNew
<1>17. Idle' /\ Wired'
  BY <1>1 DEF Idle, Wired, wires
<1> QED BY <1>7, <1>11, <1>12, <1>13, <1>15, <1>16, <1>17

\* The updates returned make the published readouts current.
LEMMA PublishStep ==
    ASSUME IInv, Publish
    PROVE  IInv'
<1> USE DEF IInv
<1>1. /\ stack = <<>> /\ updates' = Nothing /\ calling' = FALSE
      /\ UNCHANGED <<wires, values, frame, stack>>
      /\ \A x \in Gids : /\ updates'[x] = None
                         /\ published'[x] = IF updates[x] # None THEN updates[x] ELSE published[x]
  BY DEF Publish, Nothing
<1>2. TypeOK'
  <2>1. published' \in [Gids -> Option(Readouts)]
    BY DEF Publish, TypeOK
  <2>2. updates' \in [Gids -> Option(Readouts)]
    BY <1>1 DEF Nothing, Option
  <2> QED BY <1>1, <2>1, <2>2 DEF TypeOK, wires, values
<1>3. \A x \in Gids : (Ready(x)' <=> Ready(x)) /\ (Settled(x)' <=> Settled(x))
  BY <1>1 DEF Ready, Settled, NewFrame, wires, values
<1>4. FramesGrounded' /\ FramesFinal' /\ Fresh'
  BY <1>1, <1>3 DEF FramesGrounded, FramesFinal, Fresh, OnStack, wires
<1>5. Current' /\ UpdatesNew' /\ Idle'
  BY <1>1 DEF Current, UpdatesNew, Idle, wires
<1>6. Wired'
  BY <1>1 DEF Wired, wires
<1> QED BY <1>2, <1>4, <1>5, <1>6

\* reset empties the tracker.
LEMMA ResetStep ==
    ASSUME IInv, Reset
    PROVE  IInv'
<1>1. Init'
  <2>1. stack = <<>> /\ updates = Nothing /\ calling = FALSE
    BY DEF Reset, IInv, Idle, TypeOK
  <2> QED BY <2>1 DEF Reset, Init, IInv, TypeOK
<1>2. Init' => IInv'
  BY InitHolds, PTL
<1> QED BY <1>1, <1>2

\* Every step preserves the invariant.
LEMMA StepHolds == IInv /\ [Next]_vars => IInv'
<1> SUFFICES ASSUME IInv, [Next]_vars PROVE IInv'
  OBVIOUS
<1>1. ASSUME NEW g \in Gids, AddGadget(g) PROVE IInv'
  BY <1>1, AddGadgetStep
<1>2. ASSUME NEW g \in Gids, NEW v \in SUBSET program[g].measurements, LoadRaw(g, v)
      PROVE  IInv'
  BY <1>2, LoadRawStep
<1>3. ASSUME NEW g \in Gids, NEW c \in Corrections(g), LoadCorrection(g, c)
      PROVE  IInv'
  BY <1>3, LoadCorrectionStep
<1>4. CASE VisitNobody
  BY <1>4, VisitNobodyStep
<1>5. CASE VisitChanged
  BY <1>5, VisitChangedStep
<1>6. CASE Publish
  BY <1>6, PublishStep
<1>7. CASE Reset
  BY <1>7, ResetStep
<1>8. CASE UNCHANGED vars
  BY <1>8 DEF vars, IInv, TypeOK, Idle, Wired, FramesGrounded, Fresh, Current,
              FramesFinal, UpdatesNew, Ready, Settled, NewFrame, OnStack
<1> QED BY <1>1, <1>2, <1>3, <1>4, <1>5, <1>6, <1>7, <1>8 DEF Next

\* The inductive invariant.
THEOREM Invariance == Spec => []IInv
  BY InitHolds, StepHolds, PTL DEF Spec

\* Types; propagate_from never unwraps a raw value that is not loaded.
THEOREM TypeCorrect == Spec => []TypeOK
<1>1. IInv => TypeOK
  BY DEF IInv
<1> QED BY <1>1, Invariance, PTL

\* For every program and every order of the corrections, each frame is what its
\* equation says between two calls of load_correction: no gadget is left behind.
THEOREM FramesExact == Spec => []FramesConsistent
<1>1. IInv => FramesConsistent
  <2> SUFFICES ASSUME IInv, ~calling, NEW g \in Gids
               PROVE  frame[g] = IF Ready(g) THEN NewFrame(g) ELSE None
    BY DEF FramesConsistent
  <2>1. ~OnStack(g)
    BY DEF IInv, Idle, OnStack
  <2> QED BY <2>1 DEF IInv, Fresh, FramesGrounded, Settled
<1> QED BY <1>1, Invariance, PTL

\* The readouts the coordinators hand out are those of the frames.
THEOREM ReadoutsPublished == Spec => []PublishedCurrent
<1>1. IInv => PublishedCurrent
  BY DEF IInv, Idle, Current, PublishedCurrent, Nothing
<1> QED BY <1>1, Invariance, PTL

\* Frames that satisfy their equations are the reference: the equations have one
\* solution, since a gadget needs earlier ones only.
LEMMA ReferenceUnique ==
    ASSUME TypeOK, \A g \in Gids : frame[g] = IF Ready(g) THEN NewFrame(g) ELSE None
    PROVE  \A g \in Gids : Reference[g] = frame[g]
<1> DEFINE Value(f, g) ==
             IF decoded[g] # None /\ \A h \in Needed(program[g]) : f[h] # None
             THEN Corrected(program[g], raw[g], decoded[g],
                            [h \in Needed(program[g]) |-> f[h]])
             ELSE None
<1>1. \A g \in Gids : \A h \in Needed(program[g]) : h \in Gids /\ h < g
  BY ProgramFacts DEF IsGadget
<1>2. ASSUME NEW g \in Gids PROVE frame[g] = Value(frame, g)
  <2>1. NewFrame(g) = Corrected(program[g], raw[g], decoded[g],
                                [h \in Needed(program[g]) |-> frame[h]])
    BY CorrectedLocal DEF NewFrame
  <2> QED BY <2>1 DEF Ready
<1>3. frame = [g \in Gids |-> Value(frame, g)]
  <2> HIDE DEF Value
  <2> QED BY <1>2 DEF TypeOK
<1>4. Reference = CHOOSE f : f = [g \in Gids |-> Value(f, g)]
  BY DEF Reference
<1>5. Reference = [g \in Gids |-> Value(Reference, g)]
  <2> HIDE DEF Value
  <2> QED BY <1>3, <1>4
<1>6. ASSUME NEW g \in Gids, \A h \in Needed(program[g]) : Reference[h] = frame[h]
      PROVE  Reference[g] = frame[g]
  <2>1. Reference[g] = Value(Reference, g)
    <3> HIDE DEF Value
    <3> QED BY <1>5
  <2>2. [h \in Needed(program[g]) |-> Reference[h]] = [h \in Needed(program[g]) |-> frame[h]]
    BY <1>6
  <2> QED BY <1>2, <1>6, <2>1, <2>2
<1> HIDE DEF Value
<1> DEFINE Wrong == {g \in Gids : Reference[g] # frame[g]}
<1>7. Wrong = {}
  <2> SUFFICES ASSUME Wrong # {} PROVE FALSE
    OBVIOUS
  <2>1. Wrong \subseteq Nat
    BY TrackerAssumption
  <2> HIDE DEF Wrong
  <2>2. PICK g \in Wrong : \A h \in Wrong : g <= h
    BY <2>1, LeastNumber
  <2>3. g \in Gids /\ Reference[g] # frame[g]
    BY DEF Wrong
  <2>4. ASSUME NEW h \in Needed(program[g]) PROVE Reference[h] = frame[h]
    <3>1. h \in Gids /\ h < g
      BY <1>1, <2>3
    <3>2. h \in Nat /\ g \in Nat
      BY <2>3, <3>1, TrackerAssumption
    <3>3. h \notin Wrong
      BY <2>2, <3>1, <3>2
    <3> QED BY <3>1, <3>3 DEF Wrong
  <2> QED BY <1>6, <2>3, <2>4
<1> QED BY <1>7

\* For every program and every order of the calls and the visits: the readouts
\* published are a function of the raw values and the corrections.
THEOREM ReadoutsAreExact == Spec => []ReadoutsExact
<1>1. IInv /\ FramesConsistent /\ PublishedCurrent => ReadoutsExact
  BY ReferenceUnique DEF IInv, FramesConsistent, PublishedCurrent, ReadoutsExact
<1> QED BY <1>1, Invariance, FramesExact, ReadoutsPublished, PTL

\* With final corrections no readouts are published twice.
THEOREM ReadoutsOnce == Spec => PublishedOnce
<1>1. ASSUME IInv, [Next]_vars, NEW g \in Gids, ~recommit, published[g] # None
      PROVE  published'[g] = published[g] \/ added' = {}
  <2>1. CASE Publish
    BY <1>1, <2>1 DEF Publish, IInv, UpdatesNew
  <2>2. CASE Reset
    BY <2>2 DEF Reset
  <2>3. CASE UNCHANGED published
    BY <2>3
  <2> QED
    BY <1>1, <2>1, <2>2, <2>3 DEF Next, vars, AddGadget, LoadRaw, LoadCorrection,
                                  VisitNobody, VisitChanged
<1>2. IInv /\ [Next]_vars =>
         [\A g \in Gids : ~recommit /\ published[g] # None =>
             published'[g] = published[g] \/ added' = {}]_vars
  BY <1>1
<1> QED BY <1>2, Invariance, PTL DEF Spec, PublishedOnce
=============================================================================

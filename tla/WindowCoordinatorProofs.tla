----------------------- MODULE WindowCoordinatorProofs -----------------------
(***************************************************************************)
(* For every circuit, every configuration and every number of gadgets:     *)
(* types, reservations, single commits, free-hops, the buffer around what  *)
(* is committed and, in sliding mode, the order of leaders.                *)
(*                                                                         *)
(* The buffer is the geometric part.  A window ends where a connection     *)
(* leaves it or is missing; what is deeper in it than buffer_radius is at  *)
(* least as far from there when distances are measured the other way       *)
(* (WindowGeometryProofs), so the zone around it is inside the window.     *)
(***************************************************************************)
EXTENDS WindowCoordinator, WindowGeometryProofs

-----------------------------------------------------------------------------
(* The inductive invariant.                                                *)

\* What has been executed is closed under connectors and remote readouts, whoever
\* decodes or is explored has been executed.
Grounded ==
    /\ \A y \in executed : circuit.inputs[y] \cup circuit.readouts[y] \subseteq executed
    /\ \A g \in Gadgets : pc[g] # "idle" => g \in executed
    /\ \A g \in Gadgets : Explored(g) \subseteq executed

Base == TypeOK /\ Grounded

\* The fields of a circuit.
LEMMA CircuitTypes ==
    ASSUME TypeOK
    PROVE  /\ circuit.inputs \in [Gadgets -> SUBSET Gadgets]
           /\ circuit.readouts \in [Gadgets -> SUBSET Gadgets]
           /\ circuit.touched \in [Gadgets -> SUBSET Gadgets]
           /\ circuit.measured \in [Gadgets -> SUBSET Gadgets]
           /\ circuit.free \subseteq Gadgets
           /\ circuit.checks \subseteq Gadgets
BY WindowAssumption DEF TypeOK, IsCircuit

\* Neighbours have been executed, and are neighbours of each other.
LEMMA NbTypes ==
    ASSUME Base
    PROVE  /\ nb \in [Gadgets -> SUBSET executed]
           /\ DOMAIN nb = Gadgets
           /\ \A x, y \in Gadgets : y \in nb[x] => x \in nb[y]
<1> USE CircuitTypes DEF Base, TypeOK, Grounded
<1>1. nb \in [Gadgets -> SUBSET executed]
  BY DEF nb, Consumers
<1>2. \A x, y \in Gadgets : y \in nb[x] => x \in nb[y]
  BY DEF nb, Consumers
<1> QED BY <1>1, <1>2

\* The past of an executed gadget has been executed.
LEMMA PastExecuted ==
    ASSUME Base, NEW g \in executed
    PROVE  Past(g) \subseteq executed
<1> DEFINE before == [x \in Gadgets |-> circuit.inputs[x] \cup circuit.readouts[x]]
<1>1. /\ DOMAIN before = Gadgets
      /\ executed \subseteq Gadgets
      /\ \A y \in executed : before[y] \subseteq executed
  BY DEF Base, TypeOK, Grounded
<1>2. Closure(before[g], before) \subseteq executed
  <2> HIDE DEF before
  <2> QED BY <1>1, ClosureLeast
<1> QED BY <1>2, Zenon DEF Past

\* select_commit_region picks executed gadgets that are neither committed nor
\* reserved, and they stay in the window that is reserved.
LEMMA RegionSelected ==
    ASSUME Base, NEW g \in Gadgets, pc[g] = "claim", g \notin committed, ~Reserved(g)
    PROVE  /\ SelectCommitRegion(g) \subseteq executed \ committed
           /\ SelectCommitRegion(g) \subseteq DecoderWindow(g)
           /\ DecoderWindow(g) \subseteq executed
<1> DEFINE W == Explored(g)
           able == {x \in W : Committable(x)}
           deep == (able \ circuit.free) \ Shallow(W)
           absorbed == {x \in able \cap circuit.free : nb[x] \cap committed # {}}
           next == [x \in Gadgets |-> nb[x] \cap able \cap circuit.free]
<1>1. W \subseteq executed /\ g \in executed /\ executed \subseteq Gadgets
  BY DEF Base, TypeOK, Grounded
<1>2. SelectCommitRegion(g) \subseteq executed \ committed
  <2>1. CASE BufferRadius = 0
    BY <1>1, <2>1 DEF SelectCommitRegion
  <2>2. CASE BufferRadius # 0
    <3>1. /\ deep \cup absorbed \subseteq able
          /\ able \subseteq DOMAIN next
          /\ \A y \in able : next[y] \subseteq able
      <4> HIDE DEF W
      <4> QED BY <1>1
    <3>2. Closure(deep \cup absorbed, next) \subseteq able
      <4> HIDE DEF deep, absorbed, able, next
      <4> QED BY <3>1, ClosureLeast
    <3>3. SelectCommitRegion(g) = Closure(deep \cup absorbed, next)
      BY <2>2, Zenon DEF SelectCommitRegion
    <3>4. able \subseteq executed \ committed
      BY <1>1 DEF Committable
    <3> HIDE DEF deep, absorbed, able, next
    <3> QED BY <3>2, <3>3, <3>4
  <2> QED BY <2>1, <2>2
<1>3. /\ SelectCommitRegion(g) \subseteq ShrinkWindow(g)
      /\ ShrinkWindow(g) \subseteq SelectCommitRegion(g) \cup W
  BY ZoneBounds DEF ShrinkWindow
<1>4. DecoderWindow(g) \subseteq executed
  <2>1. remote[g] \subseteq executed \X executed
    BY DEF Base, TypeOK
  <2>2. ShrinkWindow(g) \subseteq executed
    <3> HIDE DEF W
    <3> QED BY <1>1, <1>2, <1>3
  <2> QED BY <2>1, <2>2 DEF DecoderWindow
<1>5. ShrinkWindow(g) \subseteq DecoderWindow(g)
  BY DEF DecoderWindow
<1> QED BY <1>2, <1>3, <1>4, <1>5

\* The radii.
LEMMA ConfigTypes ==
    ASSUME TypeOK
    PROVE  /\ BufferRadius \in Nat /\ LookaheadRadius \in Nat
           /\ Radius \in Nat /\ TooFar = Radius + 1
           /\ NoDist \in [Gadgets -> 0 .. TooFar]
<1>1. /\ BufferRadius \in Nat /\ LookaheadRadius \in Nat
      /\ Radius \in Nat /\ TooFar = Radius + 1 /\ TooFar \in Nat
  BY WindowAssumption
     DEF TypeOK, Config, BufferRadius, LookaheadRadius, Radius, TooFar
<1> QED BY <1>1 DEF NoDist

\* await_error_models waits for executed gadgets.
LEMMA AwaitedExecuted ==
    ASSUME TypeOK, NEW W
    PROVE  AwaitedModels(W) \subseteq executed
BY DEF TypeOK, AwaitedModels

\* The step leaves the circuit and the configuration alone.
LEMMA ProgramFixed ==
    ASSUME [Next]_vars
    PROVE  /\ UNCHANGED <<circuit, config>>
           /\ BufferRadius' = BufferRadius /\ LookaheadRadius' = LookaheadRadius
           /\ Parallelism' = Parallelism /\ TooFar' = TooFar /\ Radius' = Radius
           /\ NoDist' = NoDist
<1>1. UNCHANGED <<circuit, config>>
  <2> USE DEF program
  <2>1. ASSUME NEW g \in Gadgets, Execute(g) \/ ComputeSyndrome(g) \/ Decode(g)
        PROVE  UNCHANGED <<circuit, config>>
    BY <2>1 DEF Execute, ExecuteGadget, ExecuteCheckModel, ExecuteErrorModel,
                ComputeSyndrome, Decode
  <2>2. ASSUME NEW g \in Gadgets, Explore(g)
        PROVE  UNCHANGED <<circuit, config>>
    BY <2>2 DEF Explore, ExploreMandatoryZone, AwaitMandatoryZoneSyndrome,
                AwaitErrorModels, WaitForHistoryCommitment, ExploreLookaheadZone
  <2>3. ASSUME NEW g \in Gadgets, CommitLoop(g)
        PROVE  UNCHANGED <<circuit, config>>
    BY <2>3 DEF CommitLoop, BeginTurn, AvailableRemoteCheckOwners, FoundCommitted,
                FoundClaimed, ClaimResolved, FoundBlocked, BlockerReleased, Reserve
  <2>4. ASSUME NEW g \in Gadgets, DecodeAndCommit(g)
        PROVE  UNCHANGED <<circuit, config>>
    BY <2>4 DEF DecodeAndCommit, CommitUnchecked, AwaitOutcomes,
                AwaitWindowSyndrome, AwaitWindowModels, DecoderAnswers
  <2>5. ASSUME NEW g \in Gadgets,
               \/ ReturnFrame(g) \/ DecoderFails(g) \/ CallCancelled(g)
               \/ DropCall(g)
        PROVE  UNCHANGED <<circuit, config>>
    BY <2>5 DEF ReturnFrame, DecoderFails, CallCancelled, DropCall, Abandon
  <2>6. CASE BeginReset \/ FinishReset \/ AllReturned \/ UNCHANGED vars
    BY <2>6 DEF BeginReset, FinishReset, AllReturned, vars
  <2> QED BY <2>1, <2>2, <2>3, <2>4, <2>5, <2>6 DEF Next, Progress
<1> QED BY <1>1 DEF BufferRadius, LookaheadRadius, Parallelism, TooFar, Radius, NoDist

\* A call that ends early keeps its locals while its reservations stand.
LEMMA AbandonEffect ==
    ASSUME NEW g \in Gadgets, CallCancelled(g) \/ DropCall(g)
    PROVE  /\ pc[g] \notin Ended /\ pc' = [pc EXCEPT ![g] = "failed"]
           /\ UNCHANGED <<program, shared, states, cancelled>>
           /\ pc[g] \in Holding => UNCHANGED locals
           /\ pc[g] \notin Holding => Forget(g)
BY Zenon DEF CallCancelled, DropCall, Abandon

\* What the two searches find has been executed.
LEMMA ZoneStep ==
    ASSUME Base, [Next]_vars, NEW g \in Gadgets, ExploreMandatoryZone(g)
    PROVE  /\ dist' \in [Gadgets -> [Gadgets -> 0 .. TooFar]]
           /\ frontier' \in [Gadgets -> SUBSET executed]
           /\ waiting' \in [Gadgets -> SUBSET executed]
           /\ \A h, x \in Gadgets :
                 dist'[h][x] <= Radius => dist[h][x] <= Radius \/ x \in executed
<1> USE ProgramFixed, ConfigTypes DEF Base
<1> DEFINE zone == Zone({g}, executed, nb, circuit.free, BufferRadius)
           near == [x \in Gadgets |-> CASE x \notin zone -> TooFar
                                        [] x \in zone \cap Inner(g) -> 0
                                        [] OTHER -> BufferRadius]
<1>1. zone \subseteq executed
  BY ZoneBounds DEF ExploreMandatoryZone, Goto, Grounded
<1>2. /\ near \in [Gadgets -> 0 .. TooFar]
      /\ \A x \in Gadgets : near[x] <= Radius => x \in zone
  <2> HIDE DEF zone
  <2> QED BY DEF Radius
<1>3. /\ dist' = [dist EXCEPT ![g] = near]
      /\ frontier' = [frontier EXCEPT ![g] =
                         IF LookaheadRadius = 0 THEN {} ELSE zone \ Inner(g)]
      /\ waiting' = [waiting EXCEPT ![g] = zone \cap bound]
  BY Zenon DEF ExploreMandatoryZone, Await
<1> HIDE DEF zone, near
<1>4. dist' \in [Gadgets -> [Gadgets -> 0 .. TooFar]]
  BY <1>2, <1>3 DEF TypeOK
<1>5. frontier' \in [Gadgets -> SUBSET executed]
  BY <1>1, <1>3 DEF TypeOK
<1>6. waiting' \in [Gadgets -> SUBSET executed]
  BY <1>1, <1>3 DEF TypeOK
<1>7. \A h, x \in Gadgets :
         dist'[h][x] <= Radius => dist[h][x] <= Radius \/ x \in executed
  BY <1>1, <1>2, <1>3 DEF TypeOK
<1> QED BY <1>4, <1>5, <1>6, <1>7

\* The lookahead adds executed gadgets only.
LEMMA LookaheadStep ==
    ASSUME Base, [Next]_vars, NEW g \in Gadgets, ExploreLookaheadZone(g)
    PROVE  /\ dist' \in [Gadgets -> [Gadgets -> 0 .. TooFar]]
           /\ frontier' \in [Gadgets -> SUBSET executed]
           /\ \A h, x \in Gadgets :
                 dist'[h][x] <= Radius => dist[h][x] <= Radius \/ x \in executed
<1> USE ProgramFixed, ConfigTypes DEF Base
<1>1. PICK f \in frontier[g] :
        LET peerDist(x) == dist[g][f] + (IF x \in circuit.free THEN 0 ELSE 1)
            found == {x \in nb[f] \ Explored(g) :
                         peerDist(x) <= Radius /\ SyndromeReady(x)}
        IN  /\ dist' = [dist EXCEPT ![g] =
                           [x \in Gadgets |-> IF x \in found THEN peerDist(x)
                                                             ELSE dist[g][x]]]
            /\ frontier' = [frontier EXCEPT ![g] =
                   (@ \ {f}) \cup {x \in found : peerDist(x) < Radius}]
  BY DEF ExploreLookaheadZone
<1> DEFINE peerDist(x) == dist[g][f] + (IF x \in circuit.free THEN 0 ELSE 1)
           found == {x \in nb[f] \ Explored(g) :
                        peerDist(x) <= Radius /\ SyndromeReady(x)}
<1>2. f \in Gadgets /\ found \subseteq executed
  BY NbTypes DEF TypeOK
<1>3. \A x \in found : peerDist(x) \in 0 .. TooFar
  BY <1>2 DEF TypeOK
<1>4. /\ dist' = [dist EXCEPT ![g] =
                    [x \in Gadgets |-> IF x \in found THEN peerDist(x)
                                                      ELSE dist[g][x]]]
      /\ frontier' = [frontier EXCEPT ![g] =
             (@ \ {f}) \cup {x \in found : peerDist(x) < Radius}]
  BY <1>1, Zenon
<1> HIDE DEF found, peerDist
<1>5. dist' \in [Gadgets -> [Gadgets -> 0 .. TooFar]]
  BY <1>2, <1>3, <1>4 DEF TypeOK
<1>6. frontier' \in [Gadgets -> SUBSET executed]
  BY <1>2, <1>4 DEF TypeOK
<1>7. \A h, x \in Gadgets :
         dist'[h][x] <= Radius => dist[h][x] <= Radius \/ x \in executed
  BY <1>2, <1>4 DEF TypeOK
<1> QED BY <1>5, <1>6, <1>7

\* Every step keeps the types.
LEMMA TypeStep ==
    ASSUME Base, [Next]_vars
    PROVE  TypeOK'
<1> USE ProgramFixed, ConfigTypes DEF Base
<1>1. ASSUME NEW g \in Gadgets, ExecuteGadget(g) PROVE TypeOK'
  BY <1>1
     DEF ExecuteGadget, TypeOK, PC, Goto, Await, program, shared, states, locals
<1>2. ASSUME NEW g \in Gadgets, ExecuteCheckModel(g) PROVE TypeOK'
  BY <1>2
     DEF ExecuteCheckModel, TypeOK, PC, Goto, Await, program, shared, states,
         locals
<1>3. ASSUME NEW g \in Gadgets, ExecuteErrorModel(g) PROVE TypeOK'
  BY <1>3
     DEF ExecuteErrorModel, TypeOK, PC, Goto, Await, program, shared, states,
         locals
<1>4. ASSUME NEW g \in Gadgets, ComputeSyndrome(g) PROVE TypeOK'
  BY <1>4
     DEF ComputeSyndrome, TypeOK, PC, Goto, Await, program, shared, states,
         locals
<1>5. ASSUME NEW g \in Gadgets, Decode(g) PROVE TypeOK'
  BY <1>5 DEF Decode, TypeOK, PC, Goto, Await, program, shared, states, locals
<1>6. ASSUME NEW g \in Gadgets, ExploreMandatoryZone(g) PROVE TypeOK'
  BY <1>6, ZoneStep
     DEF ExploreMandatoryZone, TypeOK, PC, Goto, program, shared, states
<1>7. ASSUME NEW g \in Gadgets, AwaitMandatoryZoneSyndrome(g) PROVE TypeOK'
  BY <1>7, AwaitedExecuted
     DEF AwaitMandatoryZoneSyndrome, TypeOK, PC, Goto, Await, program, shared,
         states, locals
<1>8. ASSUME NEW g \in Gadgets, AwaitErrorModels(g) PROVE TypeOK'
  <2>1. History(g) \subseteq executed
    <3>1. g \in executed
      BY <1>8 DEF AwaitErrorModels, Goto, Grounded
    <3>2. Parallelism \in {"sliding", "fully_parallel", "serial"}
      BY WindowAssumption DEF TypeOK, Parallelism, Config
    <3> QED BY <3>1, <3>2, PastExecuted DEF History, TypeOK
  <2> QED BY <1>8, <2>1
     DEF AwaitErrorModels, TypeOK, PC, Goto, Await, program, shared, states,
         locals
<1>9. ASSUME NEW g \in Gadgets, WaitForHistoryCommitment(g) PROVE TypeOK'
  BY <1>9
     DEF WaitForHistoryCommitment, TypeOK, PC, Goto, Await, program, shared,
         states, locals
<1>10. ASSUME NEW g \in Gadgets, ExploreLookaheadZone(g) PROVE TypeOK'
  BY <1>10, LookaheadStep
     DEF ExploreLookaheadZone, TypeOK, PC, program, shared, states
<1>11. ASSUME NEW g \in Gadgets, BeginTurn(g) PROVE TypeOK'
  BY <1>11, AwaitedExecuted
     DEF BeginTurn, AtLoop, TypeOK, PC, Goto, Await, program, shared, states,
         locals
<1>12. ASSUME NEW g \in Gadgets, AvailableRemoteCheckOwners(g) PROVE TypeOK'
  BY <1>12
     DEF AvailableRemoteCheckOwners, TypeOK, PC, Goto, Await, program, shared,
         states, locals
<1>13. ASSUME NEW g \in Gadgets, FoundCommitted(g) PROVE TypeOK'
  BY <1>13
     DEF FoundCommitted, TypeOK, PC, Goto, Await, program, shared, states,
         locals
<1>14. ASSUME NEW g \in Gadgets, FoundClaimed(g) PROVE TypeOK'
  BY <1>14
     DEF FoundClaimed, TypeOK, PC, Goto, Await, program, shared, states, locals
<1>15. ASSUME NEW g \in Gadgets, ClaimResolved(g) PROVE TypeOK'
  BY <1>15
     DEF ClaimResolved, TypeOK, PC, Goto, Await, program, shared, states, locals
<1>16. ASSUME NEW g \in Gadgets, FoundBlocked(g) PROVE TypeOK'
  <2>1. Blockers(g) \subseteq executed
    BY <1>16, RegionSelected DEF FoundBlocked, Goto, Blockers, Taken, Grounded
  <2> QED BY <1>16, <2>1
     DEF FoundBlocked, TypeOK, PC, Goto, Await, program, shared, states, locals
<1>17. ASSUME NEW g \in Gadgets, NEW x \in Gadgets, BlockerReleased(g, x) PROVE TypeOK'
  BY <1>17
     DEF BlockerReleased, TypeOK, PC, Goto, Await, program, shared, states,
         locals
<1>18. ASSUME NEW g \in Gadgets, Reserve(g) PROVE TypeOK'
  <2>1. /\ SelectCommitRegion(g) \subseteq executed
        /\ DecoderWindow(g) \subseteq executed
        /\ g \in executed
    BY <1>18, RegionSelected DEF Reserve, Goto, Grounded
  <2> QED BY <1>18, <2>1
     DEF Reserve, TypeOK, PC, Goto, Await, program, shared, states, locals
<1>19. ASSUME NEW g \in Gadgets, CommitUnchecked(g) PROVE TypeOK'
  BY <1>19
     DEF CommitUnchecked, Commit, Forget, OutcomesReady, TypeOK, PC, Goto,
         Await, program, shared, states, locals
<1>20. ASSUME NEW g \in Gadgets, AwaitOutcomes(g) PROVE TypeOK'
  BY <1>20
     DEF AwaitOutcomes, OutcomesReady, TypeOK, PC, Goto, Await, program, shared,
         states, locals
<1>21. ASSUME NEW g \in Gadgets, AwaitWindowSyndrome(g) PROVE TypeOK'
  BY <1>21, AwaitedExecuted
     DEF AwaitWindowSyndrome, TypeOK, PC, Goto, Await, program, shared, states,
         locals
<1>22. ASSUME NEW g \in Gadgets, AwaitWindowModels(g) PROVE TypeOK'
  BY <1>22
     DEF AwaitWindowModels, TypeOK, PC, Goto, Await, program, shared, states,
         locals
<1>23. ASSUME NEW g \in Gadgets, DecoderAnswers(g) PROVE TypeOK'
  BY <1>23
     DEF DecoderAnswers, Commit, Forget, TypeOK, PC, Goto, Await, program,
         shared, states, locals
<1>24. ASSUME NEW g \in Gadgets, ReturnFrame(g) PROVE TypeOK'
  BY <1>24
     DEF ReturnFrame, Forget, TypeOK, PC, Goto, Await, program, shared, states,
         locals
<1>25. ASSUME NEW g \in Gadgets, DecoderFails(g) PROVE TypeOK'
  BY <1>25
     DEF DecoderFails, TypeOK, PC, Goto, Await, program, shared, states, locals
<1>26. ASSUME NEW g \in Gadgets, CallCancelled(g) PROVE TypeOK'
  <2>1. /\ pc[g] \notin Ended /\ pc' = [pc EXCEPT ![g] = "failed"]
        /\ UNCHANGED <<program, shared, states, cancelled>>
    BY <1>26, AbandonEffect
  <2>2. CASE UNCHANGED locals
    BY <2>1, <2>2 DEF TypeOK, PC, Ended, program, shared, states, locals
  <2>3. CASE Forget(g)
    BY <2>1, <2>3 DEF Forget, TypeOK, PC, Ended, program, shared, states
  <2> QED BY <1>26, <2>2, <2>3, AbandonEffect
<1>27. ASSUME NEW g \in Gadgets, DropCall(g) PROVE TypeOK'
  <2>1. /\ pc[g] \notin Ended /\ pc' = [pc EXCEPT ![g] = "failed"]
        /\ UNCHANGED <<program, shared, states, cancelled>>
    BY <1>27, AbandonEffect
  <2>2. CASE UNCHANGED locals
    BY <2>1, <2>2 DEF TypeOK, PC, Ended, program, shared, states, locals
  <2>3. CASE Forget(g)
    BY <2>1, <2>3 DEF Forget, TypeOK, PC, Ended, program, shared, states
  <2> QED BY <1>27, <2>2, <2>3, AbandonEffect
<1>28. ASSUME BeginReset PROVE TypeOK'
  BY <1>28
     DEF BeginReset, TypeOK, PC, Goto, Await, program, shared, states, locals
<1>29. ASSUME FinishReset PROVE TypeOK'
  BY <1>29
     DEF FinishReset, ClearStates, TypeOK, PC, Goto, Await, program, shared,
         states, locals
<1>30. ASSUME UNCHANGED vars PROVE TypeOK'
  BY <1>30 DEF vars, TypeOK, PC, Goto, Await, program, shared, states, locals
<1> QED
  BY <1>1, <1>2, <1>3, <1>4, <1>5, <1>6, <1>7, <1>8, <1>9, <1>10, <1>11, <1>12,
     <1>13, <1>14, <1>15, <1>16, <1>17, <1>18, <1>19, <1>20, <1>21, <1>22, <1>23, <1>24,
     <1>25, <1>26, <1>27, <1>28, <1>29, <1>30
  DEF Next, Progress, Execute, Explore, CommitLoop, DecodeAndCommit, AllReturned

\* Every step keeps executed gadgets grounded.
LEMMA GroundedStep ==
    ASSUME Base, [Next]_vars
    PROVE  Grounded'
<1> USE ProgramFixed, ConfigTypes DEF Base, TypeOK
<1>1. ASSUME NEW g \in Gadgets, ExecuteGadget(g) PROVE Grounded'
  BY <1>1
     DEF ExecuteGadget, Grounded, Explored, Goto, Await, program, shared,
         states, locals
<1>2. ASSUME NEW g \in Gadgets, ExecuteCheckModel(g) PROVE Grounded'
  BY <1>2
     DEF ExecuteCheckModel, Grounded, Explored, Goto, Await, program, shared,
         states, locals
<1>3. ASSUME NEW g \in Gadgets, ExecuteErrorModel(g) PROVE Grounded'
  BY <1>3
     DEF ExecuteErrorModel, Grounded, Explored, Goto, Await, program, shared,
         states, locals
<1>4. ASSUME NEW g \in Gadgets, ComputeSyndrome(g) PROVE Grounded'
  BY <1>4
     DEF ComputeSyndrome, Grounded, Explored, Goto, Await, program, shared,
         states, locals
<1>5. ASSUME NEW g \in Gadgets, Decode(g) PROVE Grounded'
  BY <1>5
     DEF Decode, Grounded, Explored, Goto, Await, program, shared, states,
         locals
<1>6. ASSUME NEW g \in Gadgets, ExploreMandatoryZone(g) PROVE Grounded'
  <2>1. \A h, x \in Gadgets :
           dist'[h][x] <= Radius => dist[h][x] <= Radius \/ x \in executed
    BY <1>6, ZoneStep
  <2>2. \A h \in Gadgets : Explored(h)' \subseteq executed
    BY <2>1 DEF Explored, Grounded
  <2> QED BY <1>6, <2>2 DEF ExploreMandatoryZone, Grounded, Goto, program, shared
<1>7. ASSUME NEW g \in Gadgets, AwaitMandatoryZoneSyndrome(g) PROVE Grounded'
  BY <1>7
     DEF AwaitMandatoryZoneSyndrome, Grounded, Explored, Goto, Await, program,
         shared, states, locals
<1>8. ASSUME NEW g \in Gadgets, AwaitErrorModels(g) PROVE Grounded'
  BY <1>8
     DEF AwaitErrorModels, Grounded, Explored, Goto, Await, program, shared,
         states, locals
<1>9. ASSUME NEW g \in Gadgets, WaitForHistoryCommitment(g) PROVE Grounded'
  BY <1>9
     DEF WaitForHistoryCommitment, Grounded, Explored, Goto, Await, program,
         shared, states, locals
<1>10. ASSUME NEW g \in Gadgets, ExploreLookaheadZone(g) PROVE Grounded'
  <2>1. \A h, x \in Gadgets :
           dist'[h][x] <= Radius => dist[h][x] <= Radius \/ x \in executed
    BY <1>10, LookaheadStep
  <2>2. \A h \in Gadgets : Explored(h)' \subseteq executed
    BY <2>1 DEF Explored, Grounded
  <2> QED BY <1>10, <2>2 DEF ExploreLookaheadZone, Grounded, Goto, program, shared
<1>11. ASSUME NEW g \in Gadgets, BeginTurn(g) PROVE Grounded'
  BY <1>11 DEF BeginTurn, AtLoop, Grounded, Explored, Await, program, shared
<1>12. ASSUME NEW g \in Gadgets, AvailableRemoteCheckOwners(g) PROVE Grounded'
  BY <1>12
     DEF AvailableRemoteCheckOwners, Grounded, Explored, Goto, Await, program,
         shared, states, locals
<1>13. ASSUME NEW g \in Gadgets, FoundCommitted(g) PROVE Grounded'
  BY <1>13
     DEF FoundCommitted, Grounded, Explored, Goto, Await, program, shared,
         states, locals
<1>14. ASSUME NEW g \in Gadgets, FoundClaimed(g) PROVE Grounded'
  BY <1>14
     DEF FoundClaimed, Grounded, Explored, Goto, Await, program, shared, states,
         locals
<1>15. ASSUME NEW g \in Gadgets, ClaimResolved(g) PROVE Grounded'
  BY <1>15
     DEF ClaimResolved, Grounded, Explored, Goto, Await, program, shared,
         states, locals
<1>16. ASSUME NEW g \in Gadgets, FoundBlocked(g) PROVE Grounded'
  BY <1>16
     DEF FoundBlocked, Grounded, Explored, Goto, Await, program, shared, states,
         locals
<1>17. ASSUME NEW g \in Gadgets, NEW x \in Gadgets, BlockerReleased(g, x) PROVE Grounded'
  BY <1>17
     DEF BlockerReleased, Grounded, Explored, Goto, Await, program, shared,
         states, locals
<1>18. ASSUME NEW g \in Gadgets, Reserve(g) PROVE Grounded'
  BY <1>18
     DEF Reserve, Grounded, Explored, Goto, Await, program, shared, states,
         locals
<1>19. ASSUME NEW g \in Gadgets, CommitUnchecked(g) PROVE Grounded'
  BY <1>19
     DEF CommitUnchecked, Forget, NoDist, Grounded, Explored, Goto, program,
         shared
<1>20. ASSUME NEW g \in Gadgets, AwaitOutcomes(g) PROVE Grounded'
  BY <1>20
     DEF AwaitOutcomes, OutcomesReady, Grounded, Explored, Goto, Await, program,
         shared, states, locals
<1>21. ASSUME NEW g \in Gadgets, AwaitWindowSyndrome(g) PROVE Grounded'
  BY <1>21
     DEF AwaitWindowSyndrome, Grounded, Explored, Goto, Await, program, shared,
         states, locals
<1>22. ASSUME NEW g \in Gadgets, AwaitWindowModels(g) PROVE Grounded'
  BY <1>22
     DEF AwaitWindowModels, Grounded, Explored, Goto, Await, program, shared,
         states, locals
<1>23. ASSUME NEW g \in Gadgets, DecoderAnswers(g) PROVE Grounded'
  BY <1>23
     DEF DecoderAnswers, Forget, NoDist, Grounded, Explored, Goto, program,
         shared
<1>24. ASSUME NEW g \in Gadgets, ReturnFrame(g) PROVE Grounded'
  BY <1>24
     DEF ReturnFrame, Forget, NoDist, Grounded, Explored, Goto, program, shared
<1>25. ASSUME NEW g \in Gadgets, DecoderFails(g) PROVE Grounded'
  BY <1>25
     DEF DecoderFails, Grounded, Explored, Goto, Await, program, shared, states,
         locals
<1>26. ASSUME NEW g \in Gadgets, CallCancelled(g) PROVE Grounded'
  <2>1. /\ pc[g] \notin Ended /\ pc' = [pc EXCEPT ![g] = "failed"]
        /\ UNCHANGED <<program, shared, states, cancelled>>
    BY <1>26, AbandonEffect
  <2>2. CASE UNCHANGED locals
    BY <2>1, <2>2
       DEF Grounded, Explored, NoDist, Ended, program, shared, states, locals
  <2>3. CASE Forget(g)
    BY <2>1, <2>3
       DEF Forget, Grounded, Explored, NoDist, Ended, program, shared, states
  <2> QED BY <1>26, <2>2, <2>3, AbandonEffect
<1>27. ASSUME NEW g \in Gadgets, DropCall(g) PROVE Grounded'
  <2>1. /\ pc[g] \notin Ended /\ pc' = [pc EXCEPT ![g] = "failed"]
        /\ UNCHANGED <<program, shared, states, cancelled>>
    BY <1>27, AbandonEffect
  <2>2. CASE UNCHANGED locals
    BY <2>1, <2>2
       DEF Grounded, Explored, NoDist, Ended, program, shared, states, locals
  <2>3. CASE Forget(g)
    BY <2>1, <2>3
       DEF Forget, Grounded, Explored, NoDist, Ended, program, shared, states
  <2> QED BY <1>27, <2>2, <2>3, AbandonEffect
<1>28. ASSUME BeginReset PROVE Grounded'
  BY <1>28
     DEF BeginReset, Grounded, Explored, Goto, Await, program, shared, states,
         locals
<1>29. ASSUME FinishReset PROVE Grounded'
  BY <1>29 DEF FinishReset, NoDist, Grounded, Explored, program
<1>30. ASSUME UNCHANGED vars PROVE Grounded'
  BY <1>30
     DEF vars, Grounded, Explored, Goto, Await, program, shared, states, locals
<1> QED
  BY <1>1, <1>2, <1>3, <1>4, <1>5, <1>6, <1>7, <1>8, <1>9, <1>10, <1>11, <1>12,
     <1>13, <1>14, <1>15, <1>16, <1>17, <1>18, <1>19, <1>20, <1>21, <1>22, <1>23, <1>24,
     <1>25, <1>26, <1>27, <1>28, <1>29, <1>30
  DEF Next, Progress, Execute, Explore, CommitLoop, DecodeAndCommit, AllReturned

-----------------------------------------------------------------------------
(* Reservations and commits.                                               *)

\* A step that reserves, commits and clears nothing: no call begins to hold a
\* window, and one that holds keeps it, also when it fails.
Quiet ==
    /\ UNCHANGED <<committed, reservedBy>>
    /\ executed \subseteq executed'
    /\ \A h \in Gadgets :
          pc'[h] \in Holding => /\ pc[h] \in Holding
                                /\ region'[h] = region[h]
                                /\ window'[h] = window[h]
    /\ \A h \in Gadgets :
          pc[h] \in Holding \cup {"failed"} =>
              pc'[h] \in Holding \cup {"failed"} /\ window'[h] = window[h]

Fixes(g) == CommitUnchecked(g) \/ DecoderAnswers(g)

\* A step is quiet, reserves a window, commits one, or finishes a reset.
LEMMA StepKinds ==
    ASSUME TypeOK, [Next]_vars
    PROVE  \/ Quiet
           \/ \E g \in Gadgets : Reserve(g) \/ Fixes(g)
           \/ FinishReset
<1> DEFINE Kind == \/ Quiet
                   \/ \E g \in Gadgets : Reserve(g) \/ Fixes(g)
                   \/ FinishReset
<1> USE DEF TypeOK
<1>1. ASSUME NEW g \in Gadgets, ExecuteGadget(g) PROVE Kind
  BY <1>1
     DEF ExecuteGadget, Quiet, Holding, Goto, Await, program, shared, states,
         locals
<1>2. ASSUME NEW g \in Gadgets, ExecuteCheckModel(g) PROVE Kind
  BY <1>2
     DEF ExecuteCheckModel, Quiet, Holding, Goto, Await, program, shared,
         states, locals
<1>3. ASSUME NEW g \in Gadgets, ExecuteErrorModel(g) PROVE Kind
  BY <1>3
     DEF ExecuteErrorModel, Quiet, Holding, Goto, Await, program, shared,
         states, locals
<1>4. ASSUME NEW g \in Gadgets, ComputeSyndrome(g) PROVE Kind
  BY <1>4
     DEF ComputeSyndrome, Quiet, Holding, Goto, Await, program, shared, states,
         locals
<1>5. ASSUME NEW g \in Gadgets, Decode(g) PROVE Kind
  BY <1>5 DEF Decode, Quiet, Holding, Goto, Await, program, shared, states, locals
<1>6. ASSUME NEW g \in Gadgets, ExploreMandatoryZone(g) PROVE Kind
  BY <1>6
     DEF ExploreMandatoryZone, Quiet, Holding, Goto, Await, program, shared,
         states, locals
<1>7. ASSUME NEW g \in Gadgets, AwaitMandatoryZoneSyndrome(g) PROVE Kind
  BY <1>7
     DEF AwaitMandatoryZoneSyndrome, Quiet, Holding, Goto, Await, program,
         shared, states, locals
<1>8. ASSUME NEW g \in Gadgets, AwaitErrorModels(g) PROVE Kind
  BY <1>8
     DEF AwaitErrorModels, Quiet, Holding, Goto, Await, program, shared, states,
         locals
<1>9. ASSUME NEW g \in Gadgets, WaitForHistoryCommitment(g) PROVE Kind
  BY <1>9
     DEF WaitForHistoryCommitment, Quiet, Holding, Goto, Await, program, shared,
         states, locals
<1>10. ASSUME NEW g \in Gadgets, ExploreLookaheadZone(g) PROVE Kind
  BY <1>10
     DEF ExploreLookaheadZone, Quiet, Holding, Goto, Await, program, shared,
         states, locals
<1>11. ASSUME NEW g \in Gadgets, BeginTurn(g) PROVE Kind
  BY <1>11
     DEF BeginTurn, AtLoop, Quiet, Holding, Goto, Await, program, shared,
         states, locals
<1>12. ASSUME NEW g \in Gadgets, AvailableRemoteCheckOwners(g) PROVE Kind
  BY <1>12
     DEF AvailableRemoteCheckOwners, Quiet, Holding, Goto, Await, program,
         shared, states, locals
<1>13. ASSUME NEW g \in Gadgets, FoundCommitted(g) PROVE Kind
  BY <1>13
     DEF FoundCommitted, Quiet, Holding, Goto, Await, program, shared, states,
         locals
<1>14. ASSUME NEW g \in Gadgets, FoundClaimed(g) PROVE Kind
  BY <1>14
     DEF FoundClaimed, Quiet, Holding, Goto, Await, program, shared, states,
         locals
<1>15. ASSUME NEW g \in Gadgets, ClaimResolved(g) PROVE Kind
  BY <1>15
     DEF ClaimResolved, Quiet, Holding, Goto, Await, program, shared, states,
         locals
<1>16. ASSUME NEW g \in Gadgets, FoundBlocked(g) PROVE Kind
  BY <1>16
     DEF FoundBlocked, Quiet, Holding, Goto, Await, program, shared, states,
         locals
<1>17. ASSUME NEW g \in Gadgets, NEW x \in Gadgets, BlockerReleased(g, x) PROVE Kind
  BY <1>17
     DEF BlockerReleased, Quiet, Holding, Goto, Await, program, shared, states,
         locals
<1>18. ASSUME NEW g \in Gadgets, Reserve(g) PROVE Kind
  BY <1>18, Zenon
<1>19. ASSUME NEW g \in Gadgets, CommitUnchecked(g) PROVE Kind
  BY <1>19, Zenon DEF Fixes
<1>20. ASSUME NEW g \in Gadgets, AwaitOutcomes(g) PROVE Kind
  BY <1>20
     DEF AwaitOutcomes, OutcomesReady, Quiet, Holding, Goto, Await, program,
         shared, states, locals
<1>21. ASSUME NEW g \in Gadgets, AwaitWindowSyndrome(g) PROVE Kind
  BY <1>21
     DEF AwaitWindowSyndrome, Quiet, Holding, Goto, Await, program, shared,
         states, locals
<1>22. ASSUME NEW g \in Gadgets, AwaitWindowModels(g) PROVE Kind
  BY <1>22
     DEF AwaitWindowModels, Quiet, Holding, Goto, Await, program, shared,
         states, locals
<1>23. ASSUME NEW g \in Gadgets, DecoderAnswers(g) PROVE Kind
  BY <1>23, Zenon DEF Fixes
<1>24. ASSUME NEW g \in Gadgets, ReturnFrame(g) PROVE Kind
  BY <1>24
     DEF ReturnFrame, Forget, Quiet, Holding, Goto, Await, program, shared,
         states, locals
<1>25. ASSUME NEW g \in Gadgets, DecoderFails(g) PROVE Kind
  BY <1>25
     DEF DecoderFails, Quiet, Holding, Goto, Await, program, shared, states,
         locals
<1>26. ASSUME NEW g \in Gadgets, CallCancelled(g) PROVE Kind
  <2>1. /\ pc[g] \notin Ended /\ pc' = [pc EXCEPT ![g] = "failed"]
        /\ UNCHANGED <<program, shared, states, cancelled>>
    BY <1>26, AbandonEffect
  <2>2. CASE pc[g] \in Holding
    BY <1>26, <2>1, <2>2, AbandonEffect
       DEF Quiet, Holding, Ended, shared, states, locals
  <2>3. CASE pc[g] \notin Holding
    <3>1. Forget(g)
      BY <1>26, <2>3, AbandonEffect
    <3> QED BY <2>1, <2>3, <3>1 DEF Quiet, Forget, Holding, Ended, shared, states
  <2> QED BY <2>2, <2>3
<1>27. ASSUME NEW g \in Gadgets, DropCall(g) PROVE Kind
  <2>1. /\ pc[g] \notin Ended /\ pc' = [pc EXCEPT ![g] = "failed"]
        /\ UNCHANGED <<program, shared, states, cancelled>>
    BY <1>27, AbandonEffect
  <2>2. CASE pc[g] \in Holding
    BY <1>27, <2>1, <2>2, AbandonEffect
       DEF Quiet, Holding, Ended, shared, states, locals
  <2>3. CASE pc[g] \notin Holding
    <3>1. Forget(g)
      BY <1>27, <2>3, AbandonEffect
    <3> QED BY <2>1, <2>3, <3>1 DEF Quiet, Forget, Holding, Ended, shared, states
  <2> QED BY <2>2, <2>3
<1>28. ASSUME BeginReset PROVE Kind
  BY <1>28
     DEF BeginReset, Quiet, Holding, Goto, Await, program, shared, states,
         locals
<1>29. ASSUME FinishReset PROVE Kind
  BY <1>29, Zenon
<1>30. ASSUME UNCHANGED vars PROVE Kind
  BY <1>30 DEF vars, Quiet, Holding, Goto, Await, program, shared, states, locals
<1> QED
  BY <1>1, <1>2, <1>3, <1>4, <1>5, <1>6, <1>7, <1>8, <1>9, <1>10, <1>11, <1>12,
     <1>13, <1>14, <1>15, <1>16, <1>17, <1>18, <1>19, <1>20, <1>21, <1>22, <1>23, <1>24,
     <1>25, <1>26, <1>27, <1>28, <1>29, <1>30
  DEF Next, Progress, Execute, Explore, CommitLoop, DecodeAndCommit, AllReturned

\* What reserving a window changes.
LEMMA ReserveEffect ==
    ASSUME Base, NEW g \in Gadgets, Reserve(g)
    PROVE  /\ pc[g] = "claim" /\ pc' = [pc EXCEPT ![g] = "outcomes"]
           /\ g \notin committed /\ ~Reserved(g) /\ Blockers(g) = {}
           /\ region' = [region EXCEPT ![g] = SelectCommitRegion(g)]
           /\ window' = [window EXCEPT ![g] = DecoderWindow(g)]
           /\ reservedBy' = [x \in Gadgets |-> IF x \in DecoderWindow(g) THEN g
                                                            ELSE reservedBy[x]]
           /\ UNCHANGED <<executed, committed>>
           /\ Taken(Explored(g)) = {} /\ Taken(DecoderWindow(g)) = {}
<1>1. window'[g] = DecoderWindow(g)
  BY DEF Reserve, Base, TypeOK
<1> QED BY <1>1 DEF Reserve, Goto, Blockers, shared

\* What committing a window changes.
LEMMA FixesEffect ==
    ASSUME NEW g \in Gadgets, Fixes(g)
    PROVE  /\ pc[g] \in Holding /\ pc' = [pc EXCEPT ![g] = "frame"]
           /\ committed' = committed \cup region[g]
           /\ reservedBy' = [x \in Gadgets |->
                 IF x \in region[g] \/ (x \in window[g] /\ reservedBy[x] = g)
                 THEN NoGid ELSE reservedBy[x]]
           /\ region' = [region EXCEPT ![g] = {}]
           /\ window' = [window EXCEPT ![g] = {}]
           /\ UNCHANGED executed
BY DEF Fixes, CommitUnchecked, DecoderAnswers, Goto, Commit, Forget, Holding, shared

\* Every step keeps the reservations exact.
LEMMA ReservationsStep ==
    ASSUME Base, ReservationsExact, CommitOnce, [Next]_vars
    PROVE  ReservationsExact'
<1> USE DEF ReservationsExact
<1>t. /\ pc \in [Gadgets -> PC] /\ window \in [Gadgets -> SUBSET executed]
      /\ reservedBy \in [Gadgets -> executed \cup {NoGid}]
      /\ executed \subseteq Gadgets
      /\ \A x \in Gadgets : x # NoGid
  BY WindowAssumption DEF Base, TypeOK, NoGid
<1>1. CASE Quiet
  BY <1>t, <1>1 DEF Quiet, Reserved
<1>2. ASSUME NEW g \in Gadgets, Reserve(g) PROVE ReservationsExact'
  <2> USE ReserveEffect, <1>2
  <2>1. DecoderWindow(g) \subseteq Gadgets
    BY <1>t, RegionSelected
  <2>2. \A x \in DecoderWindow(g) : reservedBy[x] = NoGid
    BY DEF Taken, Reserved
  <2>3. \A h \in Gadgets : pc'[h] \in Holding =>
           \A x \in window'[h] : reservedBy'[x] = h
    BY <1>t, <2>1, <2>2 DEF Holding
  <2>4. \A x \in Gadgets : Reserved(x)' =>
           /\ x \in window'[reservedBy'[x]]
           /\ pc'[reservedBy'[x]] \in Holding \cup {"failed"}
    <3> SUFFICES ASSUME NEW x \in Gadgets, Reserved(x)'
                 PROVE  /\ x \in window'[reservedBy'[x]]
                        /\ pc'[reservedBy'[x]] \in Holding \cup {"failed"}
      OBVIOUS
    <3>1. CASE x \in DecoderWindow(g)
      BY <1>t, <3>1 DEF Holding
    <3>2. CASE x \notin DecoderWindow(g)
      <4>1. reservedBy'[x] = reservedBy[x] /\ Reserved(x)
        BY <3>2 DEF Reserved
      <4>2. reservedBy[x] # g
        BY <4>1 DEF Holding
      <4>3. reservedBy[x] \in Gadgets
        BY <1>t, <4>1 DEF Reserved
      <4> QED BY <1>t, <4>1, <4>2, <4>3
    <3> QED BY <3>1, <3>2
  <2> QED BY <2>3, <2>4
<1>3. ASSUME NEW g \in Gadgets, Fixes(g) PROVE ReservationsExact'
  <2> USE FixesEffect, <1>3
  <2>1. region[g] \subseteq window[g]
    BY DEF CommitOnce
  <2>2. \A x \in window[g] : reservedBy[x] = g
    OBVIOUS
  <2>3. \A h \in Gadgets : pc'[h] \in Holding =>
           \A x \in window'[h] : reservedBy'[x] = h
    BY <1>t, <2>1, <2>2 DEF Holding
  <2>4. \A x \in Gadgets : Reserved(x)' =>
           /\ x \in window'[reservedBy'[x]]
           /\ pc'[reservedBy'[x]] \in Holding \cup {"failed"}
    BY <1>t, <2>1, <2>2 DEF Reserved
  <2> QED BY <2>3, <2>4
<1>4. CASE FinishReset
  BY <1>t, <1>4 DEF FinishReset, ClearStates, Reserved, Holding
<1> QED BY StepKinds, <1>1, <1>2, <1>3, <1>4 DEF Base

\* Every step keeps regions uncommitted until their leader commits them.
LEMMA CommitOnceStep ==
    ASSUME Base, ReservationsExact, CommitOnce, [Next]_vars
    PROVE  CommitOnce'
<1> USE DEF CommitOnce
<1>t. /\ pc \in [Gadgets -> PC] /\ region \in [Gadgets -> SUBSET executed]
      /\ window \in [Gadgets -> SUBSET executed]
  BY DEF Base, TypeOK
<1>1. CASE Quiet
  BY <1>1 DEF Quiet
<1>2. ASSUME NEW g \in Gadgets, Reserve(g) PROVE CommitOnce'
  BY <1>t, <1>2, ReserveEffect, RegionSelected
<1>3. ASSUME NEW g \in Gadgets, Fixes(g) PROVE CommitOnce'
  BY <1>t, <1>3, FixesEffect DEF ReservationsExact, Holding
<1>4. CASE FinishReset
  BY <1>4 DEF FinishReset, Holding
<1> QED BY StepKinds, <1>1, <1>2, <1>3, <1>4 DEF Base

-----------------------------------------------------------------------------
(* Free-hops.                                                              *)

\* All ports of what is committed or about to be are connected, and the free-hops
\* on them are committed, or about to be, too.
FreeHopsCommitted ==
    BufferRadius > 0 =>
        \A x \in committed :
            ~Unconnected(x) /\ nb[x] \cap circuit.free \subseteq committed

FreeHopsHeld ==
    BufferRadius > 0 =>
        \A g \in Gadgets : pc[g] \in Holding =>
            \A x \in region[g] :
                /\ ~Unconnected(x)
                /\ nb[x] \cap circuit.free \subseteq committed \cup region[g]

\* Execution adds no neighbour to a gadget all of whose ports are connected.
LEMMA NeighboursStay ==
    ASSUME TypeOK, UNCHANGED circuit, executed \subseteq executed',
           executed' \subseteq Gadgets, NEW x \in executed, ~Unconnected(x)
    PROVE  ~Unconnected(x)' /\ nb'[x] = nb[x]
<1>1. x \in Gadgets /\ circuit \in Circuits
  BY DEF TypeOK
<1>2. ~Unconnected(x)'
  BY <1>1 DEF Unconnected
<1>3. Consumers(x)' = Consumers(x)
  BY <1>1 DEF Unconnected, Consumers
<1> QED BY <1>1, <1>2, <1>3 DEF nb

\* The graph changes with execution only.
LEMMA SameGraph ==
    ASSUME UNCHANGED <<circuit, executed>>
    PROVE  nb' = nb /\ \A x \in executed : Unconnected(x)' <=> Unconnected(x)
<1>1. nb' = nb
  BY DEF nb, Consumers
<1>2. \A x \in executed : Unconnected(x)' <=> Unconnected(x)
  BY DEF Unconnected
<1> QED BY <1>1, <1>2

\* A selected region takes all free-hops on its ports along.
LEMMA RegionEnclosed ==
    ASSUME Base, FreeHopsCommitted, NEW g \in Gadgets, BufferRadius > 0,
           pc[g] = "claim", g \notin committed, ~Reserved(g),
           Taken(Explored(g)) = {}, NEW x \in SelectCommitRegion(g)
    PROVE  /\ ~Unconnected(x)
           /\ nb[x] \cap circuit.free \subseteq committed \cup SelectCommitRegion(g)
<1> DEFINE W == Explored(g)
           able == {y \in W : Committable(y)}
           deep == (able \ circuit.free) \ Shallow(W)
           absorbed == {y \in able \cap circuit.free : nb[y] \cap committed # {}}
           next == [y \in Gadgets |-> nb[y] \cap able \cap circuit.free]
           leave == Leave(W, nb, circuit.free)
           C0 == Closure(Seeds(W), leave)
           T == able \ C0
<1>1. /\ W \subseteq executed /\ executed \subseteq Gadgets
      /\ committed \subseteq Gadgets /\ able \subseteq W
      /\ DOMAIN nb = Gadgets /\ DOMAIN leave = Gadgets /\ DOMAIN next = Gadgets
  BY NbTypes DEF Base, TypeOK, Grounded, Leave
<1>2. SelectCommitRegion(g) = Closure(deep \cup absorbed, next)
  <2>1. BufferRadius # 0
    BY ConfigTypes DEF Base
  <2> QED BY <2>1, Zenon DEF SelectCommitRegion
<1>3. absorbed = {}
  <2> SUFFICES ASSUME NEW y \in absorbed PROVE FALSE
    OBVIOUS
  <2>1. PICK z \in committed : z \in nb[y]
    OBVIOUS
  <2>2. y \in nb[z]
    BY <1>1, <2>1, NbTypes
  <2>3. y \in committed
    BY <2>2 DEF FreeHopsCommitted
  <2> QED BY <2>3 DEF Committable
<1>4. C0 \subseteq Shallow(W)
  <2>1. C0 = Shell(Seeds(W), W, nb, circuit.free, 0)
    BY ShellBase
  <2>2. 0 \in 0 .. BufferRadius - 1
    BY ConfigTypes DEF Base
  <2> HIDE DEF C0
  <2> QED BY <2>1, <2>2 DEF Shallow
<1>5. Seeds(W) \subseteq C0
  <2>1. Seeds(W) \subseteq DOMAIN leave
    BY <1>1 DEF Seeds
  <2> HIDE DEF leave
  <2> QED BY <2>1, ClosureContains
<1>6. SelectCommitRegion(g) \subseteq T
  <2>1. deep \cup absorbed \subseteq T
    BY <1>3, <1>4
  <2>2. \A y \in T : next[y] \subseteq T
    <3> SUFFICES ASSUME NEW y \in T, NEW z \in next[y] PROVE z \notin C0
      BY <1>1
    <3>1. /\ y \in Gadgets /\ z \in Gadgets /\ z \in nb[y]
          /\ z \in W \cap circuit.free /\ y \in W
      BY <1>1
    <3>2. y \in leave[z]
      BY <1>1, <3>1, NbTypes DEF Leave
    <3>3. leave[z] \subseteq DOMAIN leave
      BY <1>1, <3>1 DEF Leave
    <3>4. y \notin C0
      OBVIOUS
    <3> HIDE DEF leave
    <3> QED BY <3>2, <3>3, <3>4, ClosureStep
  <2>3. T \subseteq DOMAIN next
    BY <1>1
  <2> HIDE DEF deep, absorbed, next, T
  <2> QED BY <1>2, <2>1, <2>2, <2>3, ClosureLeast
<1>7. x \in W /\ nb[x] \subseteq W /\ ~Unconnected(x)
  <2>1. x \in W /\ x \notin Seeds(W)
    <3> HIDE DEF C0, W
    <3> QED BY <1>1, <1>5, <1>6
  <2> QED BY <2>1 DEF Seeds
<1>8. ASSUME NEW z \in nb[x] \cap circuit.free, z \notin committed
      PROVE  z \in SelectCommitRegion(g)
  <2>1. z \in able
    BY <1>7, <1>8 DEF Taken, Committable
  <2>2. z \in next[x] /\ next[x] \subseteq DOMAIN next
    BY <1>1, <1>7, <2>1
  <2> HIDE DEF next, deep, absorbed
  <2> QED BY <1>2, <2>2, ClosureStep
<1> QED BY <1>7, <1>8

\* Every step keeps free-hops with their neighbours.
LEMMA FreeHopsStep ==
    ASSUME Base, ReservationsExact, CommitOnce, FreeHopsCommitted, FreeHopsHeld,
           [Next]_vars
    PROVE  FreeHopsCommitted' /\ FreeHopsHeld'
<1> USE ProgramFixed DEF FreeHopsCommitted, FreeHopsHeld
<1>t. /\ TypeOK /\ TypeOK' /\ executed' \subseteq Gadgets
      /\ committed \subseteq executed /\ executed \subseteq Gadgets
      /\ pc \in [Gadgets -> PC] /\ region \in [Gadgets -> SUBSET executed]
  BY TypeStep DEF Base, TypeOK
<1>1. CASE Quiet
  <2>1. \A x \in executed : ~Unconnected(x) => ~Unconnected(x)' /\ nb'[x] = nb[x]
    BY <1>t, <1>1, NeighboursStay DEF Quiet
  <2> QED BY <1>t, <1>1, <2>1 DEF Quiet
<1>2. ASSUME NEW g \in Gadgets, Reserve(g)
      PROVE  FreeHopsCommitted' /\ FreeHopsHeld'
  <2> USE ReserveEffect, <1>2
  <2>1. nb' = nb /\ \A x \in executed : Unconnected(x)' <=> Unconnected(x)
    BY SameGraph
  <2>2. FreeHopsCommitted'
    BY <1>t, <2>1
  <2>3. BufferRadius > 0 => \A x \in SelectCommitRegion(g) :
           /\ ~Unconnected(x)
           /\ nb[x] \cap circuit.free \subseteq committed \cup SelectCommitRegion(g)
    BY RegionEnclosed
  <2>4. SelectCommitRegion(g) \subseteq executed
    BY RegionSelected
  <2>5. FreeHopsHeld'
    BY <1>t, <2>1, <2>3, <2>4
  <2> QED BY <2>2, <2>5
<1>3. ASSUME NEW g \in Gadgets, Fixes(g)
      PROVE  FreeHopsCommitted' /\ FreeHopsHeld'
  <2> USE FixesEffect, <1>3
  <2>1. nb' = nb /\ \A x \in executed : Unconnected(x)' <=> Unconnected(x)
    BY SameGraph
  <2>2. FreeHopsCommitted'
    BY <1>t, <2>1
  <2>3. FreeHopsHeld'
    BY <1>t, <2>1 DEF Holding
  <2> QED BY <2>2, <2>3
<1>4. CASE FinishReset
  BY <1>4 DEF FinishReset, ClearStates, Holding
<1> QED BY StepKinds, <1>t, <1>1, <1>2, <1>3, <1>4

-----------------------------------------------------------------------------
(* Context.                                                                *)

Searching == {"syndrome", "models", "history", "lookahead", "loop", "ready",
              "claim", "claimed", "blocked"}

\* With a buffer the leaders are hop-counted gadgets.  From explore_mandatory_zone on
\* all ports nearer than buffer_radius are connected, so whatever is executed later,
\* the zone around the center stays what has been explored.
Context ==
    BufferRadius > 0 =>
        \A g \in Gadgets :
            /\ pc[g] \in {"explore"} \cup Searching => g \notin circuit.free
            /\ pc[g] \in Searching =>
                  /\ PortsConnected(g)
                  /\ Zone({g}, executed, nb, circuit.free, BufferRadius)
                        \subseteq Explored(g)

\* A call searches on with no less explored, or has just explored its zone; with a
\* buffer it begins for a hop-counted gadget only.
SearchesOn ==
    \A h \in Gadgets :
        /\ pc'[h] \in Searching =>
              \/ /\ pc[h] \in Searching
                 /\ \A x \in Gadgets : dist[h][x] <= Radius => dist'[h][x] <= Radius
              \/ ExploreMandatoryZone(h)
        /\ pc'[h] = "explore" /\ BufferRadius > 0 =>
              pc[h] = "explore" \/ h \notin circuit.free

LEMMA SearchSteps ==
    ASSUME TypeOK, [Next]_vars
    PROVE  SearchesOn
<1> USE ConfigTypes DEF TypeOK
<1>1. ASSUME NEW g \in Gadgets, ExecuteGadget(g) PROVE SearchesOn
  BY <1>1
     DEF ExecuteGadget, SearchesOn, Searching, Goto, Await, program, shared,
         states, locals
<1>2. ASSUME NEW g \in Gadgets, ExecuteCheckModel(g) PROVE SearchesOn
  BY <1>2
     DEF ExecuteCheckModel, SearchesOn, Searching, Goto, Await, program, shared,
         states, locals
<1>3. ASSUME NEW g \in Gadgets, ExecuteErrorModel(g) PROVE SearchesOn
  BY <1>3
     DEF ExecuteErrorModel, SearchesOn, Searching, Goto, Await, program, shared,
         states, locals
<1>4. ASSUME NEW g \in Gadgets, ComputeSyndrome(g) PROVE SearchesOn
  BY <1>4
     DEF ComputeSyndrome, SearchesOn, Searching, Goto, Await, program, shared,
         states, locals
<1>5. ASSUME NEW g \in Gadgets, Decode(g) PROVE SearchesOn
  BY <1>5
     DEF Decode, SearchesOn, Searching, Goto, Await, program, shared,
         states, locals
<1>6. ASSUME NEW g \in Gadgets, AwaitMandatoryZoneSyndrome(g) PROVE SearchesOn
  BY <1>6
     DEF AwaitMandatoryZoneSyndrome, SearchesOn, Searching, Goto, Await, program, shared,
         states, locals
<1>7. ASSUME NEW g \in Gadgets, AwaitErrorModels(g) PROVE SearchesOn
  BY <1>7
     DEF AwaitErrorModels, SearchesOn, Searching, Goto, Await, program, shared,
         states, locals
<1>8. ASSUME NEW g \in Gadgets, WaitForHistoryCommitment(g) PROVE SearchesOn
  BY <1>8
     DEF WaitForHistoryCommitment, SearchesOn, Searching, Goto, Await, program, shared,
         states, locals
<1>9. ASSUME NEW g \in Gadgets, BeginTurn(g) PROVE SearchesOn
  BY <1>9
     DEF BeginTurn, AtLoop, SearchesOn, Searching, Goto, Await, program, shared,
         states, locals
<1>10. ASSUME NEW g \in Gadgets, AvailableRemoteCheckOwners(g) PROVE SearchesOn
  BY <1>10
     DEF AvailableRemoteCheckOwners, SearchesOn, Searching, Goto, Await, program, shared,
         states, locals
<1>11. ASSUME NEW g \in Gadgets, FoundCommitted(g) PROVE SearchesOn
  BY <1>11
     DEF FoundCommitted, SearchesOn, Searching, Goto, Await, program, shared,
         states, locals
<1>12. ASSUME NEW g \in Gadgets, FoundClaimed(g) PROVE SearchesOn
  BY <1>12
     DEF FoundClaimed, SearchesOn, Searching, Goto, Await, program, shared,
         states, locals
<1>13. ASSUME NEW g \in Gadgets, ClaimResolved(g) PROVE SearchesOn
  BY <1>13
     DEF ClaimResolved, SearchesOn, Searching, Goto, Await, program, shared,
         states, locals
<1>14. ASSUME NEW g \in Gadgets, FoundBlocked(g) PROVE SearchesOn
  BY <1>14
     DEF FoundBlocked, SearchesOn, Searching, Goto, Await, program, shared,
         states, locals
<1>15. ASSUME NEW g \in Gadgets, NEW x \in Gadgets, BlockerReleased(g, x) PROVE SearchesOn
  BY <1>15
     DEF BlockerReleased, SearchesOn, Searching, Goto, Await, program, shared,
         states, locals
<1>16. ASSUME NEW g \in Gadgets, Reserve(g) PROVE SearchesOn
  BY <1>16
     DEF Reserve, SearchesOn, Searching, Goto, Await, program, shared,
         states, locals
<1>17. ASSUME NEW g \in Gadgets, CommitUnchecked(g) PROVE SearchesOn
  BY <1>17
     DEF CommitUnchecked, Forget, Commit, SearchesOn, Searching, Goto, Await, program, shared,
         states, locals
<1>18. ASSUME NEW g \in Gadgets, AwaitOutcomes(g) PROVE SearchesOn
  BY <1>18
     DEF AwaitOutcomes, SearchesOn, Searching, Goto, Await, program, shared,
         states, locals
<1>19. ASSUME NEW g \in Gadgets, AwaitWindowSyndrome(g) PROVE SearchesOn
  BY <1>19
     DEF AwaitWindowSyndrome, SearchesOn, Searching, Goto, Await, program, shared,
         states, locals
<1>20. ASSUME NEW g \in Gadgets, AwaitWindowModels(g) PROVE SearchesOn
  BY <1>20
     DEF AwaitWindowModels, SearchesOn, Searching, Goto, Await, program, shared,
         states, locals
<1>21. ASSUME NEW g \in Gadgets, DecoderAnswers(g) PROVE SearchesOn
  BY <1>21
     DEF DecoderAnswers, Forget, Commit, SearchesOn, Searching, Goto, Await, program, shared,
         states, locals
<1>22. ASSUME NEW g \in Gadgets, ReturnFrame(g) PROVE SearchesOn
  BY <1>22
     DEF ReturnFrame, Forget, Commit, SearchesOn, Searching, Goto, Await, program, shared,
         states, locals
<1>23. ASSUME NEW g \in Gadgets, DecoderFails(g) PROVE SearchesOn
  BY <1>23
     DEF DecoderFails, SearchesOn, Searching, Goto, Await, program, shared,
         states, locals
<1>24. ASSUME NEW g \in Gadgets, ExploreMandatoryZone(g) PROVE SearchesOn
  <2>1. \A h \in Gadgets \ {g} : dist'[h] = dist[h] /\ pc'[h] = pc[h]
    BY <1>24 DEF ExploreMandatoryZone, Goto
  <2>2. pc'[g] = "syndrome"
    BY <1>24 DEF ExploreMandatoryZone, Goto
  <2> QED BY <1>24, <2>1, <2>2 DEF SearchesOn
<1>25. ASSUME NEW g \in Gadgets, ExploreLookaheadZone(g) PROVE SearchesOn
  <2>1. \A h, x \in Gadgets : dist[h][x] <= Radius => dist'[h][x] <= Radius
    BY <1>25 DEF ExploreLookaheadZone, Explored
  <2>2. pc' = pc
    BY <1>25 DEF ExploreLookaheadZone
  <2> QED BY <2>1, <2>2 DEF SearchesOn
<1>26. ASSUME NEW g \in Gadgets, CallCancelled(g) \/ DropCall(g) PROVE SearchesOn
  <2>1. /\ pc[g] \notin Ended /\ pc' = [pc EXCEPT ![g] = "failed"]
        /\ UNCHANGED <<program, shared, states, cancelled>>
    BY <1>26, AbandonEffect
  <2>2. CASE UNCHANGED locals
    BY <2>1, <2>2 DEF SearchesOn, Searching, locals
  <2>3. CASE Forget(g)
    BY <2>1, <2>3 DEF SearchesOn, Searching, Forget
  <2> QED BY <1>26, <2>2, <2>3, AbandonEffect
<1>27. ASSUME BeginReset \/ FinishReset \/ UNCHANGED vars PROVE SearchesOn
  BY <1>27 DEF BeginReset, FinishReset, vars, SearchesOn, Searching, locals
<1> QED
  BY <1>1, <1>2, <1>3, <1>4, <1>5, <1>6, <1>7, <1>8, <1>9, <1>10, <1>11, <1>12, <1>13, <1>14, <1>15, <1>16, <1>17, <1>18, <1>19, <1>20, <1>21, <1>22, <1>23, <1>24, <1>25, <1>26, <1>27
  DEF Next, Progress, Execute, Explore, CommitLoop, DecodeAndCommit, AllReturned

\* Only a reset takes executed gadgets away.
LEMMA ExecutedGrows ==
    ASSUME TypeOK, [Next]_vars, ~FinishReset
    PROVE  executed \subseteq executed'
BY StepKinds, ReserveEffect, FixesEffect DEF Quiet, Reserve, shared

\* nb is a graph over Gadgets.
LEMMA NbGraph ==
    ASSUME TypeOK
    PROVE  nb \in [Gadgets -> SUBSET Gadgets]
BY CircuitTypes DEF TypeOK, nb, Consumers

\* While all ports nearer than buffer_radius are connected, so they stay, and the
\* zone gains nothing.
LEMMA PortsStay ==
    ASSUME Base, TypeOK', UNCHANGED <<circuit, config>>, executed \subseteq executed',
           BufferRadius > 0, NEW x \in executed,
           \A y \in Ball({x}, executed, nb, circuit.free, BufferRadius - 1) :
               ~Unconnected(y)
    PROVE  /\ \A y \in Ball({x}, executed', nb', circuit.free, BufferRadius - 1) :
                  ~Unconnected(y)'
           /\ Zone({x}, executed', nb', circuit.free, BufferRadius)
                 \subseteq Zone({x}, executed, nb, circuit.free, BufferRadius)
<1> DEFINE inner == Ball({x}, executed, nb, circuit.free, BufferRadius - 1)
<1>1. /\ nb \in [Gadgets -> SUBSET Gadgets] /\ nb' \in [Gadgets -> SUBSET Gadgets]
      /\ executed \in SUBSET Gadgets /\ executed' \in SUBSET Gadgets
      /\ {x} \in SUBSET executed /\ BufferRadius \in Nat /\ BufferRadius - 1 \in Nat
  <2>1. nb \in [Gadgets -> SUBSET Gadgets]
    BY NbGraph DEF Base
  <2>2. nb' \in [Gadgets -> SUBSET Gadgets]
    BY CircuitTypes DEF Base, TypeOK, nb, Consumers
  <2>3. executed \in SUBSET Gadgets /\ executed' \in SUBSET Gadgets
    BY DEF Base, TypeOK
  <2>4. BufferRadius \in Nat /\ BufferRadius - 1 \in Nat
    BY ConfigTypes DEF Base
  <2> QED BY <2>1, <2>2, <2>3, <2>4
<1>2. inner \subseteq executed
  BY <1>1, BallBounds
<1>3. \A y \in inner : ~Unconnected(y)
  OBVIOUS
<1>4. \A y \in inner : ~Unconnected(y)' /\ nb'[y] = nb[y] /\ nb[y] \subseteq executed
  <2> HIDE DEF inner
  <2> SUFFICES ASSUME NEW y \in inner
               PROVE  ~Unconnected(y)' /\ nb'[y] = nb[y] /\ nb[y] \subseteq executed
    OBVIOUS
  <2>1. y \in executed /\ ~Unconnected(y) /\ y \in Gadgets
    BY <1>1, <1>2, <1>3
  <2>2. ~Unconnected(y)' /\ nb'[y] = nb[y]
    BY <1>1, <2>1, NeighboursStay DEF Base
  <2>3. nb[y] \subseteq executed
    BY <2>1, NbTypes
  <2> QED BY <2>2, <2>3
<1>5. /\ Ball({x}, executed', nb', circuit.free, BufferRadius - 1) \subseteq inner
      /\ Zone({x}, executed', nb', circuit.free, BufferRadius)
            \subseteq Zone({x}, executed, nb, circuit.free, BufferRadius)
  BY <1>1, <1>4, ZoneStays
<1> HIDE DEF inner
<1> QED BY <1>4, <1>5

\* What explore_mandatory_zone leaves explored.
LEMMA ZoneExplored ==
    ASSUME Base, NEW g \in Gadgets, ExploreMandatoryZone(g)
    PROVE  /\ UNCHANGED <<circuit, config, executed>> /\ PortsConnected(g)
           /\ \A x \in Zone({g}, executed, nb, circuit.free, BufferRadius) \cap Gadgets :
                 dist'[g][x] <= Radius
<1> DEFINE zone == Zone({g}, executed, nb, circuit.free, BufferRadius)
           near == [x \in Gadgets |-> CASE x \notin zone -> TooFar
                                        [] x \in zone \cap Inner(g) -> 0
                                        [] OTHER -> BufferRadius]
<1>1. dist' = [dist EXCEPT ![g] = near]
  BY Zenon DEF ExploreMandatoryZone
<1> HIDE DEF zone
<1>2. \A x \in zone \cap Gadgets : near[x] <= Radius
  BY ConfigTypes DEF Base, Radius
<1> HIDE DEF near
<1>3. \A x \in zone \cap Gadgets : dist'[g][x] <= Radius
  BY <1>1, <1>2 DEF Base, TypeOK
<1>4. UNCHANGED <<circuit, config, executed>> /\ PortsConnected(g)
  BY DEF ExploreMandatoryZone, program, shared
<1> QED BY <1>3, <1>4 DEF zone

\* Every step keeps the context.
LEMMA ContextStep ==
    ASSUME Base, Context, [Next]_vars
    PROVE  Context'
<1>t. /\ TypeOK /\ TypeOK' /\ UNCHANGED <<circuit, config>> /\ BufferRadius' = BufferRadius
      /\ Radius' = Radius
  BY TypeStep, ProgramFixed DEF Base
<1>1. CASE FinishReset
  BY <1>1 DEF FinishReset, Context, Searching
<1>2. ASSUME ~FinishReset, BufferRadius > 0, NEW g \in Gadgets
      PROVE  /\ pc'[g] \in {"explore"} \cup Searching => g \notin circuit.free
             /\ pc'[g] \in Searching =>
                   /\ PortsConnected(g)'
                   /\ Zone({g}, executed', nb', circuit.free, BufferRadius)
                         \subseteq Explored(g)'
  <2>1. executed \subseteq executed'
    BY <1>t, <1>2, ExecutedGrows
  <2>2. SearchesOn
    BY <1>t, SearchSteps
  <2>3. ASSUME ExploreMandatoryZone(g)
        PROVE  /\ g \notin circuit.free /\ PortsConnected(g)'
               /\ Zone({g}, executed', nb', circuit.free, BufferRadius)
                     \subseteq Explored(g)'
    <3>1. g \notin circuit.free
      BY <1>2, <2>3 DEF Context, ExploreMandatoryZone, Goto
    <3>2. UNCHANGED executed /\ nb' = nb /\ (\A x \in executed : Unconnected(x)' <=> Unconnected(x))
      BY <1>t, <2>3, ZoneExplored, SameGraph
    <3>3. PortsConnected(g)'
      <4>1. Inner(g)' = Inner(g)
        BY <1>t, <3>2 DEF Inner
      <4>2. \A x \in Inner(g) : ~Unconnected(x)
        BY <2>3, ZoneExplored DEF PortsConnected
      <4>3. \A x \in Inner(g) : ~Unconnected(x)'
        BY <1>t, <3>2, <4>2 DEF Unconnected
      <4> QED BY <4>1, <4>3 DEF PortsConnected
    <3>4. Zone({g}, executed, nb, circuit.free, BufferRadius) \subseteq Gadgets
      <4>1. g \in Gadgets /\ executed \subseteq Gadgets
        BY <1>t DEF TypeOK
      <4>2. Zone({g}, executed, nb, circuit.free, BufferRadius) \subseteq {g} \cup executed
        BY ZoneBounds
      <4> QED BY <4>1, <4>2
    <3>5. Zone({g}, executed, nb, circuit.free, BufferRadius) \subseteq Explored(g)'
      BY <1>t, <2>3, <3>4, ZoneExplored DEF Explored
    <3> QED BY <3>1, <3>2, <3>3, <3>5
  <2>4. ASSUME pc[g] \in Searching,
               \A x \in Gadgets : dist[g][x] <= Radius => dist'[g][x] <= Radius
        PROVE  /\ g \notin circuit.free /\ PortsConnected(g)'
               /\ Zone({g}, executed', nb', circuit.free, BufferRadius)
                     \subseteq Explored(g)'
    <3>1. /\ g \notin circuit.free /\ PortsConnected(g)
          /\ Zone({g}, executed, nb, circuit.free, BufferRadius) \subseteq Explored(g)
      BY <1>2, <2>4 DEF Context
    <3>2. Explored(g) \subseteq Explored(g)'
      BY <1>t, <2>4 DEF Explored
    <3>3. g \in executed
      BY <2>4 DEF Base, Grounded, Searching
    <3>4. BufferRadius # 0
      BY <1>2
    <3>5. /\ Inner(g) = Ball({g}, executed, nb, circuit.free, BufferRadius - 1)
          /\ Inner(g)' = Ball({g}, executed', nb', circuit.free, BufferRadius - 1)
      BY <1>t, <3>4 DEF Inner
    <3>6. \A y \in Ball({g}, executed, nb, circuit.free, BufferRadius - 1) : ~Unconnected(y)
      BY <3>1, <3>5 DEF PortsConnected
    <3>7. /\ \A y \in Ball({g}, executed', nb', circuit.free, BufferRadius - 1) :
                ~Unconnected(y)'
          /\ Zone({g}, executed', nb', circuit.free, BufferRadius)
                \subseteq Zone({g}, executed, nb, circuit.free, BufferRadius)
      BY <1>t, <1>2, <2>1, <3>3, <3>6, PortsStay
    <3>8. PortsConnected(g)'
      BY <3>5, <3>7 DEF PortsConnected
    <3> QED BY <3>1, <3>2, <3>7, <3>8
  <2>5. pc'[g] \in Searching =>
           \/ /\ pc[g] \in Searching
              /\ \A x \in Gadgets : dist[g][x] <= Radius => dist'[g][x] <= Radius
           \/ ExploreMandatoryZone(g)
    BY <2>2 DEF SearchesOn
  <2>6. pc'[g] = "explore" => g \notin circuit.free
    BY <1>2, <2>2 DEF SearchesOn, Context
  <2> QED BY <2>3, <2>4, <2>5, <2>6
<1> QED BY <1>t, <1>1, <1>2 DEF Context

\* What select_commit_region picks is enclosed: the center is in it, and so is, in the
\* explored gadgets, all that is near what is picked.
LEMMA RegionBuffered ==
    ASSUME Base, Context, NEW g \in Gadgets, BufferRadius > 0,
           pc[g] = "claim", g \notin committed, ~Reserved(g)
    PROVE  /\ g \in SelectCommitRegion(g)
           /\ \A x \in SelectCommitRegion(g) \ circuit.free :
                 /\ Zone({x}, executed, nb, circuit.free, BufferRadius)
                       \subseteq ShrinkWindow(g)
                 /\ \A y \in Ball({x}, executed, nb, circuit.free, BufferRadius - 1) :
                       ~Unconnected(y)
<1> DEFINE W == Explored(g)
           k == BufferRadius - 1
           able == {y \in W : Committable(y)}
           deep == (able \ circuit.free) \ Shallow(W)
           absorbed == {y \in able \cap circuit.free : nb[y] \cap committed # {}}
           next == [y \in Gadgets |-> nb[y] \cap able \cap circuit.free]
           R == SelectCommitRegion(g)
<1>1. /\ W \in SUBSET executed /\ W \in SUBSET Gadgets /\ executed \in SUBSET Gadgets
      /\ nb \in [Gadgets -> SUBSET Gadgets]
      /\ \A x, y \in Gadgets : y \in nb[x] => x \in nb[y]
      /\ \A x \in Gadgets : nb[x] \subseteq executed
      /\ BufferRadius \in Nat /\ k \in Nat /\ BufferRadius # 0 /\ k \in 0 .. BufferRadius - 1
      /\ Seeds(W) \in SUBSET W
  <2>1. W \in SUBSET executed /\ W \in SUBSET Gadgets /\ executed \in SUBSET Gadgets
    BY DEF Base, TypeOK, Grounded
  <2>2. /\ nb \in [Gadgets -> SUBSET Gadgets]
        /\ \A x, y \in Gadgets : y \in nb[x] => x \in nb[y]
        /\ \A x \in Gadgets : nb[x] \subseteq executed
    BY NbTypes, NbGraph DEF Base
  <2>3. /\ BufferRadius \in Nat /\ k \in Nat /\ BufferRadius # 0
        /\ k \in 0 .. BufferRadius - 1
    BY ConfigTypes DEF Base
  <2>4. Seeds(W) \in SUBSET W
    BY DEF Seeds
  <2> QED BY <2>1, <2>2, <2>3, <2>4
<1>2. /\ g \notin circuit.free
      /\ \A x \in Ball({g}, executed, nb, circuit.free, k) : ~Unconnected(x)
      /\ Zone({g}, executed, nb, circuit.free, BufferRadius) \subseteq W
  <2>1. Inner(g) = Ball({g}, executed, nb, circuit.free, k)
    BY <1>1 DEF Inner
  <2> QED BY <2>1 DEF Context, Searching, PortsConnected
<1>3. R = Closure(deep \cup absorbed, next)
  BY <1>1, Zenon DEF SelectCommitRegion
<1>4. \* Whatever counts hops in the region is deep.
      R \subseteq deep \cup (able \cap circuit.free)
  <2> DEFINE T == deep \cup (able \cap circuit.free)
  <2>1. /\ deep \cup absorbed \subseteq T /\ T \subseteq DOMAIN next
        /\ \A y \in T : next[y] \subseteq T
    BY <1>1
  <2> HIDE DEF deep, absorbed, next, able, T, R
  <2>2. R \subseteq T
    BY <1>3, <2>1, ClosureLeast
  <2> QED BY <2>2 DEF T
<1>5. \* A gadget near the edge finds it.
      ASSUME NEW x \in W, x \in Shallow(W)
      PROVE  \E s \in Seeds(W) : s \in Ball({x}, W, nb, circuit.free, k)
  <2>1. PICK j \in 0 .. BufferRadius - 1 : x \in Shell(Seeds(W), W, nb, circuit.free, j)
    BY <1>5 DEF Shallow
  <2>2. j \in Nat /\ j \in 0 .. k /\ {x} \in SUBSET W
    BY <1>1
  <2>3. PICK s \in Seeds(W) : s \in Ball({x}, W, nb, circuit.free, j)
    BY <1>1, <2>1, <2>2, ShellToBall
  <2>4. Ball({x}, W, nb, circuit.free, j) \subseteq Ball({x}, W, nb, circuit.free, k)
    BY <1>1, <2>2, BallBounds
  <2> QED BY <2>3, <2>4
<1>6. g \in deep
  <2>1. g \in W /\ g \in executed /\ {g} \in SUBSET executed
    <3>1. g \in Zone({g}, executed, nb, circuit.free, BufferRadius)
      BY ZoneBounds
    <3> HIDE DEF W
    <3> QED BY <1>1, <1>2, <3>1
  <2>2. g \notin Shallow(W)
    <3> SUFFICES ASSUME g \in Shallow(W) PROVE FALSE
      OBVIOUS
    <3>1. PICK s \in Seeds(W) : s \in Ball({g}, W, nb, circuit.free, k)
      BY <1>5, <2>1
    <3>2. \A u \in Ball({g}, executed, nb, circuit.free, k) :
             nb[u] \cap W \subseteq nb[u] \cap executed
      BY <1>1
    <3>3. Ball({g}, W, nb, circuit.free, k) \subseteq Ball({g}, executed, nb, circuit.free, k)
      BY <1>1, <2>1, <3>2, BallCompare
    <3>4. s \in Ball({g}, executed, nb, circuit.free, k) /\ s \in Gadgets
      BY <1>1, <3>1, <3>3
    <3>5. Zone({g}, executed, nb, circuit.free, BufferRadius) =
             {g} \cup (executed \cap
                (Ball({g}, executed, nb, circuit.free, k)
                    \cup Around(Ball({g}, executed, nb, circuit.free, k), nb)))
      BY <1>1, Zenon DEF Zone
    <3>6. nb[s] \subseteq Around(Ball({g}, executed, nb, circuit.free, k), nb)
      BY <3>4 DEF Around
    <3>7. nb[s] \subseteq W
      <4> HIDE DEF W
      <4> QED BY <1>1, <1>2, <3>4, <3>5, <3>6
    <3>8. ~Unconnected(s)
      BY <1>2, <3>4
    <3> QED BY <3>1, <3>7, <3>8 DEF Seeds
  <2> QED BY <1>2, <2>1, <2>2 DEF Committable
<1>7. g \in R
  <2>1. deep \cup absorbed \subseteq DOMAIN next
    BY <1>1
  <2> HIDE DEF deep, absorbed, next
  <2> QED BY <1>3, <1>6, <2>1, ClosureContains
<1>8. ASSUME NEW x \in R \ circuit.free
      PROVE  /\ Zone({x}, executed, nb, circuit.free, BufferRadius) \subseteq ShrinkWindow(g)
             /\ \A y \in Ball({x}, executed, nb, circuit.free, k) : ~Unconnected(y)
  <2>1. x \in W /\ x \notin Shallow(W) /\ {x} \in SUBSET W
    BY <1>4
  <2>2. x \notin Shell(Seeds(W), W, nb, circuit.free, k)
    BY <1>1, <2>1 DEF Shallow
  <2>3. Ball({x}, W, nb, circuit.free, k) \cap Seeds(W) = {}
    BY <1>1, <2>1, <2>2, DeepEnclosed
  <2>4. Ball({x}, W, nb, circuit.free, k) \subseteq W
    BY <1>1, <2>1, BallBounds
  <2>5. \A y \in Ball({x}, W, nb, circuit.free, k) : nb[y] \subseteq W /\ ~Unconnected(y)
    <3> HIDE DEF W
    <3> QED BY <2>3, <2>4 DEF Seeds
  <2>6. R \in SUBSET W
    BY <1>4
  <2>7. /\ Ball({x}, executed, nb, circuit.free, BufferRadius - 1)
              \subseteq Ball({x}, W, nb, circuit.free, BufferRadius - 1)
        /\ Zone({x}, executed, nb, circuit.free, BufferRadius)
              \subseteq Zone(R, W, nb, circuit.free, BufferRadius)
    <3>1. x \in R
      OBVIOUS
    <3> HIDE DEF R, W
    <3> QED BY <1>1, <2>5, <2>6, <3>1, ZoneInside
  <2>8. Zone(R, W, nb, circuit.free, BufferRadius) = ShrinkWindow(g)
    BY Zenon DEF ShrinkWindow
  <2> HIDE DEF R, W
  <2> QED BY <2>5, <2>7, <2>8
<1> QED BY <1>7, <1>8

\* Every step keeps the buffer of what is held.
LEMMA BufferStep ==
    ASSUME Base, Context, CommitOnce, BufferOnAllSides, [Next]_vars
    PROVE  BufferOnAllSides'
<1>t. /\ TypeOK /\ TypeOK' /\ UNCHANGED <<circuit, config>> /\ BufferRadius' = BufferRadius
      /\ pc \in [Gadgets -> PC] /\ region \in [Gadgets -> SUBSET executed]
      /\ window \in [Gadgets -> SUBSET executed] /\ BufferRadius \in Nat
  BY TypeStep, ProgramFixed, ConfigTypes DEF Base, TypeOK
<1>1. \* Of a call that holds its window.
      ASSUME executed \subseteq executed', NEW g \in Gadgets, pc[g] \in Holding,
             region'[g] = region[g], window'[g] = window[g]
      PROVE  /\ g \in region'[g]
             /\ \A x \in region'[g] \ circuit.free :
                   /\ Zone({x}, executed', nb', circuit.free, BufferRadius) \subseteq window'[g]
                   /\ BufferRadius > 0 =>
                         \A y \in Ball({x}, executed', nb', circuit.free, BufferRadius - 1) :
                             ~Unconnected(y)'
  <2>1. g \in region'[g]
    BY <1>1 DEF BufferOnAllSides
  <2>2. ASSUME NEW x \in region'[g] \ circuit.free
        PROVE  /\ Zone({x}, executed', nb', circuit.free, BufferRadius) \subseteq window'[g]
               /\ BufferRadius > 0 =>
                     \A y \in Ball({x}, executed', nb', circuit.free, BufferRadius - 1) :
                         ~Unconnected(y)'
    <3>1. /\ x \in executed
          /\ Zone({x}, executed, nb, circuit.free, BufferRadius) \subseteq window'[g]
          /\ BufferRadius > 0 =>
                \A y \in Ball({x}, executed, nb, circuit.free, BufferRadius - 1) :
                    ~Unconnected(y)
      BY <1>t, <1>1, <2>2 DEF BufferOnAllSides
    <3>2. CASE BufferRadius > 0
      BY <1>t, <1>1, <3>1, <3>2, PortsStay
    <3>3. CASE BufferRadius = 0
      BY <3>1, <3>3 DEF Zone
    <3>4. BufferRadius > 0 \/ BufferRadius = 0
      BY <1>t
    <3> QED BY <3>2, <3>3, <3>4, Zenon
  <2> QED BY <2>1, <2>2
<1>2. CASE Quiet
  <2>1. executed \subseteq executed'
    BY <1>2 DEF Quiet
  <2>2. \A g \in Gadgets : pc'[g] \in Holding =>
           pc[g] \in Holding /\ region'[g] = region[g] /\ window'[g] = window[g]
    BY <1>2 DEF Quiet
  <2> QED BY <1>t, <1>1, <2>1, <2>2 DEF BufferOnAllSides
<1>3. ASSUME NEW g \in Gadgets, Fixes(g)
      PROVE  BufferOnAllSides'
  <2>1. executed' = executed
    BY <1>3, FixesEffect
  <2>2. \A h \in Gadgets : pc'[h] \in Holding =>
           pc[h] \in Holding /\ region'[h] = region[h] /\ window'[h] = window[h]
    BY <1>t, <1>3, FixesEffect DEF Holding
  <2> QED BY <1>t, <1>1, <2>1, <2>2 DEF BufferOnAllSides
<1>4. ASSUME NEW g \in Gadgets, Reserve(g)
      PROVE  BufferOnAllSides'
  <2>1. /\ pc[g] = "claim" /\ pc' = [pc EXCEPT ![g] = "outcomes"]
        /\ g \notin committed /\ ~Reserved(g) /\ executed' = executed
        /\ region' = [region EXCEPT ![g] = SelectCommitRegion(g)]
        /\ window' = [window EXCEPT ![g] = DecoderWindow(g)]
    BY <1>4, ReserveEffect
  <2>2. \A h \in Gadgets \ {g} : pc'[h] \in Holding =>
           pc[h] \in Holding /\ region'[h] = region[h] /\ window'[h] = window[h]
    BY <1>t, <2>1
  <2>3. region'[g] = SelectCommitRegion(g) /\ window'[g] = DecoderWindow(g)
    BY <1>t, <2>1
  <2>4. nb' = nb /\ \A y \in Gadgets : Unconnected(y)' <=> Unconnected(y)
    <3>1. nb' = nb
      BY <1>t, <2>1, SameGraph
    <3>2. \A y \in Gadgets : Unconnected(y)' <=> Unconnected(y)
      BY <1>t, <2>1 DEF Unconnected
    <3> QED BY <3>1, <3>2
  <2>5. /\ g \in SelectCommitRegion(g)
        /\ \A x \in SelectCommitRegion(g) \ circuit.free :
              /\ Zone({x}, executed, nb, circuit.free, BufferRadius) \subseteq DecoderWindow(g)
              /\ BufferRadius > 0 =>
                    \A y \in Ball({x}, executed, nb, circuit.free, BufferRadius - 1) :
                        ~Unconnected(y)
    <3>1. CASE BufferRadius > 0
      <4>1. ShrinkWindow(g) \subseteq DecoderWindow(g)
        BY DEF DecoderWindow
      <4> QED BY <2>1, <3>1, <4>1, RegionBuffered
    <3>2. CASE BufferRadius = 0
      <4>1. SelectCommitRegion(g) = {g}
        BY <3>2 DEF SelectCommitRegion
      <4>2. SelectCommitRegion(g) \subseteq DecoderWindow(g)
        BY <2>1, RegionSelected
      <4> QED BY <3>2, <4>1, <4>2 DEF Zone
    <3>3. BufferRadius > 0 \/ BufferRadius = 0
      BY <1>t
    <3> QED BY <3>1, <3>2, <3>3, Zenon
  <2>6. ASSUME NEW x \in SelectCommitRegion(g), BufferRadius > 0
        PROVE  Ball({x}, executed, nb, circuit.free, BufferRadius - 1) \subseteq Gadgets
    <3>1. x \in executed /\ executed \in SUBSET Gadgets /\ {x} \in SUBSET executed
      BY <1>t, <2>1, RegionSelected DEF TypeOK
    <3>2. BufferRadius - 1 \in Nat /\ nb \in [Gadgets -> SUBSET Gadgets]
      BY <1>t, <2>6, NbGraph
    <3> QED BY <3>1, <3>2, BallBounds
  <2>7. /\ g \in region'[g]
        /\ \A x \in region'[g] \ circuit.free :
              /\ Zone({x}, executed', nb', circuit.free, BufferRadius) \subseteq window'[g]
              /\ BufferRadius > 0 =>
                    \A y \in Ball({x}, executed', nb', circuit.free, BufferRadius - 1) :
                        ~Unconnected(y)'
    BY <2>1, <2>3, <2>4, <2>5, <2>6
  <2> QED BY <1>t, <1>1, <2>1, <2>2, <2>7 DEF BufferOnAllSides
<1>5. CASE FinishReset
  BY <1>5 DEF FinishReset, BufferOnAllSides, Holding
<1> QED BY StepKinds, <1>t, <1>2, <1>3, <1>4, <1>5

-----------------------------------------------------------------------------
(* Sliding mode.                                                           *)

AfterHistory == {"lookahead", "loop", "ready", "claim", "claimed", "blocked"}
                    \cup Holding

\* From the moment it notes its past, a call waits for all of it that is not
\* committed; once it goes on, nothing of its past is left.
PastNoted ==
    Parallelism = "sliding" =>
        \A g \in Gadgets :
            /\ pc[g] = "history" =>
                  Past(g) \ circuit.free \subseteq committed \cup waiting[g]
            /\ pc[g] \in AfterHistory => Past(g) \ circuit.free \subseteq committed

\* The past of a gadget is given by the circuit.
LEMMA PastFixed ==
    ASSUME UNCHANGED circuit
    PROVE  \A g \in Gadgets : Past(g)' = Past(g)
BY DEF Past

\* Every step keeps the note of the past.
LEMMA PastStep ==
    ASSUME Base, PastNoted, [Next]_vars
    PROVE  PastNoted'
<1> USE ProgramFixed, PastFixed DEF Base, TypeOK
<1>1. ASSUME NEW g \in Gadgets, ExecuteGadget(g) PROVE PastNoted'
  BY <1>1
     DEF ExecuteGadget, PastNoted, AfterHistory, Holding, Goto, Await, program,
         shared, states, locals
<1>2. ASSUME NEW g \in Gadgets, ExecuteCheckModel(g) PROVE PastNoted'
  BY <1>2
     DEF ExecuteCheckModel, PastNoted, AfterHistory, Holding, Goto, Await,
         program, shared, states, locals
<1>3. ASSUME NEW g \in Gadgets, ExecuteErrorModel(g) PROVE PastNoted'
  BY <1>3
     DEF ExecuteErrorModel, PastNoted, AfterHistory, Holding, Goto, Await,
         program, shared, states, locals
<1>4. ASSUME NEW g \in Gadgets, ComputeSyndrome(g) PROVE PastNoted'
  BY <1>4
     DEF ComputeSyndrome, PastNoted, AfterHistory, Holding, Goto, Await,
         program, shared, states, locals
<1>5. ASSUME NEW g \in Gadgets, Decode(g) PROVE PastNoted'
  BY <1>5
     DEF Decode, PastNoted, AfterHistory, Holding, Goto, Await, program, shared,
         states, locals
<1>6. ASSUME NEW g \in Gadgets, ExploreMandatoryZone(g) PROVE PastNoted'
  BY <1>6
     DEF ExploreMandatoryZone, PastNoted, AfterHistory, Holding, Goto, Await,
         program, shared, states, locals
<1>7. ASSUME NEW g \in Gadgets, AwaitMandatoryZoneSyndrome(g) PROVE PastNoted'
  BY <1>7
     DEF AwaitMandatoryZoneSyndrome, PastNoted, AfterHistory, Holding, Goto,
         Await, program, shared, states, locals
<1>8. ASSUME NEW g \in Gadgets, AwaitErrorModels(g) PROVE PastNoted'
  BY <1>8
     DEF AwaitErrorModels, History, PastNoted, AfterHistory, Holding, Goto,
         Await, program, shared, states, locals
<1>9. ASSUME NEW g \in Gadgets, WaitForHistoryCommitment(g) PROVE PastNoted'
  BY <1>9
     DEF WaitForHistoryCommitment, PastNoted, AfterHistory, Holding, Goto,
         Await, program, shared, states, locals
<1>10. ASSUME NEW g \in Gadgets, ExploreLookaheadZone(g) PROVE PastNoted'
  BY <1>10
     DEF ExploreLookaheadZone, PastNoted, AfterHistory, Holding, Goto, Await,
         program, shared, states, locals
<1>11. ASSUME NEW g \in Gadgets, BeginTurn(g) PROVE PastNoted'
  BY <1>11
     DEF BeginTurn, AtLoop, PastNoted, AfterHistory, Holding, Goto, Await,
         program, shared, states, locals
<1>12. ASSUME NEW g \in Gadgets, AvailableRemoteCheckOwners(g) PROVE PastNoted'
  BY <1>12
     DEF AvailableRemoteCheckOwners, PastNoted, AfterHistory, Holding, Goto,
         Await, program, shared, states, locals
<1>13. ASSUME NEW g \in Gadgets, FoundCommitted(g) PROVE PastNoted'
  BY <1>13
     DEF FoundCommitted, PastNoted, AfterHistory, Holding, Goto, Await, program,
         shared, states, locals
<1>14. ASSUME NEW g \in Gadgets, FoundClaimed(g) PROVE PastNoted'
  BY <1>14
     DEF FoundClaimed, PastNoted, AfterHistory, Holding, Goto, Await, program,
         shared, states, locals
<1>15. ASSUME NEW g \in Gadgets, ClaimResolved(g) PROVE PastNoted'
  BY <1>15
     DEF ClaimResolved, PastNoted, AfterHistory, Holding, Goto, Await, program,
         shared, states, locals
<1>16. ASSUME NEW g \in Gadgets, FoundBlocked(g) PROVE PastNoted'
  BY <1>16
     DEF FoundBlocked, PastNoted, AfterHistory, Holding, Goto, Await, program,
         shared, states, locals
<1>17. ASSUME NEW g \in Gadgets, NEW x \in Gadgets, BlockerReleased(g, x) PROVE PastNoted'
  BY <1>17
     DEF BlockerReleased, PastNoted, AfterHistory, Holding, Goto, Await,
         program, shared, states, locals
<1>18. ASSUME NEW g \in Gadgets, Reserve(g) PROVE PastNoted'
  BY <1>18
     DEF Reserve, PastNoted, AfterHistory, Holding, Goto, Await, program,
         shared, states, locals
<1>19. ASSUME NEW g \in Gadgets, CommitUnchecked(g) PROVE PastNoted'
  BY <1>19
     DEF CommitUnchecked, Commit, Forget, PastNoted, AfterHistory, Holding, Goto
<1>20. ASSUME NEW g \in Gadgets, AwaitOutcomes(g) PROVE PastNoted'
  BY <1>20
     DEF AwaitOutcomes, OutcomesReady, PastNoted, AfterHistory, Holding, Goto,
         Await, program, shared, states, locals
<1>21. ASSUME NEW g \in Gadgets, AwaitWindowSyndrome(g) PROVE PastNoted'
  BY <1>21
     DEF AwaitWindowSyndrome, PastNoted, AfterHistory, Holding, Goto, Await,
         program, shared, states, locals
<1>22. ASSUME NEW g \in Gadgets, AwaitWindowModels(g) PROVE PastNoted'
  BY <1>22
     DEF AwaitWindowModels, PastNoted, AfterHistory, Holding, Goto, Await,
         program, shared, states, locals
<1>23. ASSUME NEW g \in Gadgets, DecoderAnswers(g) PROVE PastNoted'
  BY <1>23
     DEF DecoderAnswers, Commit, Forget, PastNoted, AfterHistory, Holding, Goto
<1>24. ASSUME NEW g \in Gadgets, ReturnFrame(g) PROVE PastNoted'
  BY <1>24
     DEF ReturnFrame, Forget, PastNoted, AfterHistory, Holding, Goto, Await,
         program, shared, states, locals
<1>25. ASSUME NEW g \in Gadgets, DecoderFails(g) PROVE PastNoted'
  BY <1>25
     DEF DecoderFails, PastNoted, AfterHistory, Holding, Goto, Await, program,
         shared, states, locals
<1>26. ASSUME NEW g \in Gadgets, CallCancelled(g) PROVE PastNoted'
  <2>1. /\ pc[g] \notin Ended /\ pc' = [pc EXCEPT ![g] = "failed"]
        /\ UNCHANGED <<program, shared, states, cancelled>>
    BY <1>26, AbandonEffect
  <2>2. CASE UNCHANGED locals
    BY <2>1, <2>2
       DEF PastNoted, AfterHistory, Holding, Ended, program, shared, states,
           locals
  <2>3. CASE Forget(g)
    BY <2>1, <2>3
       DEF Forget, PastNoted, AfterHistory, Holding, Ended, program, shared,
           states
  <2> QED BY <1>26, <2>2, <2>3, AbandonEffect
<1>27. ASSUME NEW g \in Gadgets, DropCall(g) PROVE PastNoted'
  <2>1. /\ pc[g] \notin Ended /\ pc' = [pc EXCEPT ![g] = "failed"]
        /\ UNCHANGED <<program, shared, states, cancelled>>
    BY <1>27, AbandonEffect
  <2>2. CASE UNCHANGED locals
    BY <2>1, <2>2
       DEF PastNoted, AfterHistory, Holding, Ended, program, shared, states,
           locals
  <2>3. CASE Forget(g)
    BY <2>1, <2>3
       DEF Forget, PastNoted, AfterHistory, Holding, Ended, program, shared,
           states
  <2> QED BY <1>27, <2>2, <2>3, AbandonEffect
<1>28. ASSUME BeginReset PROVE PastNoted'
  BY <1>28
     DEF BeginReset, PastNoted, AfterHistory, Holding, Goto, Await, program,
         shared, states, locals
<1>29. ASSUME FinishReset PROVE PastNoted'
  BY <1>29
     DEF FinishReset, ClearStates, PastNoted, AfterHistory, Holding, Goto,
         Await, program, shared, states, locals
<1>30. ASSUME UNCHANGED vars PROVE PastNoted'
  BY <1>30
     DEF vars, PastNoted, AfterHistory, Holding, Goto, Await, program, shared,
         states, locals
<1> QED
  BY <1>1, <1>2, <1>3, <1>4, <1>5, <1>6, <1>7, <1>8, <1>9, <1>10, <1>11, <1>12,
     <1>13, <1>14, <1>15, <1>16, <1>17, <1>18, <1>19, <1>20, <1>21, <1>22, <1>23, <1>24,
     <1>25, <1>26, <1>27, <1>28, <1>29, <1>30
  DEF Next, Progress, Execute, Explore, CommitLoop, DecodeAndCommit, AllReturned

-----------------------------------------------------------------------------
(* The theorems.                                                           *)

IInv == /\ Base /\ ReservationsExact /\ CommitOnce
        /\ FreeHopsCommitted /\ FreeHopsHeld /\ Context /\ BufferOnAllSides
        /\ PastNoted

\* The invariant holds initially.
LEMMA IInvInit ==
    ASSUME Init
    PROVE  IInv
<1> USE DEF Init
<1>1. NoDist \in [Gadgets -> 0 .. TooFar] /\ \A x \in Gadgets : ~(NoDist[x] <= Radius)
  <2>1. Radius \in Nat /\ TooFar = Radius + 1 /\ TooFar \in Nat
    BY WindowAssumption
       DEF Config, BufferRadius, LookaheadRadius, Radius, TooFar
  <2> QED BY <2>1 DEF NoDist
<1>2. TypeOK
  BY <1>1 DEF TypeOK, PC
<1>3. Grounded
  BY <1>1 DEF Grounded, Explored
<1>4. ReservationsExact /\ CommitOnce
  BY DEF ReservationsExact, CommitOnce, Reserved, Holding
<1>5. FreeHopsCommitted /\ FreeHopsHeld /\ PastNoted
  BY DEF FreeHopsCommitted, FreeHopsHeld, PastNoted, AfterHistory, Holding
<1>6. Context /\ BufferOnAllSides
  BY DEF Context, Searching, BufferOnAllSides, Holding
<1> QED BY <1>2, <1>3, <1>4, <1>5, <1>6 DEF IInv, Base

\* Every step keeps the invariant.
LEMMA IInvStep ==
    ASSUME IInv, [Next]_vars
    PROVE  IInv'
BY TypeStep, GroundedStep, ReservationsStep, CommitOnceStep, FreeHopsStep,
   ContextStep, BufferStep, PastStep
   DEF IInv, Base

\* The conjunction is an inductive invariant of the coordinator.
THEOREM Invariance == Spec => []IInv
<1>1. Init => IInv
  BY IInvInit
<1>2. IInv /\ [Next]_vars => IInv'
  BY IInvStep
<1> QED BY <1>1, <1>2, PTL DEF Spec

\* Type correctness: committed and reserved gadgets have been executed, windows,
\* regions and waits name executed gadgets only (decode and decode_and_commit index
\* the `gadgets` map with them).
THEOREM TypeCorrect == Spec => []TypeOK
<1>1. IInv => TypeOK
  BY DEF IInv, Base
<1> QED BY <1>1, Invariance, PTL

\* The reservations are exactly the windows of the leaders that decode or failed.
THEOREM Reservations == Spec => []ReservationsExact
<1>1. IInv => ReservationsExact
  BY DEF IInv
<1> QED BY <1>1, Invariance, PTL

\* No gadget is committed, and no correction loaded, twice.
THEOREM Commits == Spec => []CommitOnce
<1>1. IInv => CommitOnce
  BY DEF IInv
<1> QED BY <1>1, Invariance, PTL

\* With a buffer, select_commit_region strands no free-hop.
THEOREM FreeHops == Spec => []NoStrandedFreeHop
<1>1. IInv => NoStrandedFreeHop
  BY DEF IInv, FreeHopsCommitted, NoStrandedFreeHop
<1> QED BY <1>1, Invariance, PTL

\* Whatever hop-counted gadget a leader commits is decoded with all gadgets up to
\* buffer_radius hops around it, and the center is part of its own region
\* (select_commit_region, shrink_window).
THEOREM Buffers == Spec => []BufferOnAllSides
<1>1. IInv => BufferOnAllSides
  BY DEF IInv
<1> QED BY <1>1, Invariance, PTL

\* In sliding mode a leader follows its causal past.
THEOREM SlidingOrder == Spec => []LeaderAfterItsPast
<1>1. IInv => LeaderAfterItsPast
  BY DEF IInv, PastNoted, AfterHistory, LeaderAfterItsPast
<1> QED BY <1>1, Invariance, PTL

=============================================================================

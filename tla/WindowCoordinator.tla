------------------------- MODULE WindowCoordinator -------------------------
(***************************************************************************)
(* The window coordinator (coordinator/window_coordinator.rs): gadgets are *)
(* executed and decoded concurrently, every decode of a hop-counted gadget *)
(* explores a window around it, reserves the window, has it decoded and    *)
(* commits the inner part of it.                                           *)
(*                                                                         *)
(* A step is what the code does between two awaits, or under one hold of   *)
(* the `gadgets` lock.  Bits (outcomes, syndromes, corrections) are left   *)
(* out: a value is there or it is not.  Admission and the barrier of reset *)
(* are module TaskCounter, the Pauli frames' values PauliFrameTracker.     *)
(***************************************************************************)
EXTENDS WindowGeometry, FiniteSets

CONSTANTS Gadgets,          \* gids; the code compares them (serial mode)
          Circuits,         \* the programs a client may run
          Configs,          \* for each, the configurations of the coordinator
          Failures          \* the programs during which decoders may fail, RPCs
                            \* be dropped and resets come

NoGid == 0

\* gadgets: those the program executes.  inputs: peers behind the input connectors.  readouts: gadgets whose readouts
\* a remote conditional correction uses.  open: gadgets with an output port that
\* stays unconnected.  checks: gadgets a check model binds to.  measured: the
\* other gadgets whose outcomes those checks use.  touched: the other gadgets
\* whose checks the gadget's errors flip.  terminal: check models that carry a
\* terminal error model.
IsCircuit(c) ==
    /\ DOMAIN c = {"gadgets", "inputs", "readouts", "free", "open", "checks",
                   "measured", "touched", "terminal"}
    /\ {c.inputs, c.readouts, c.measured, c.touched}
           \subseteq [Gadgets -> SUBSET Gadgets]
    /\ {c.gadgets, c.free, c.open, c.checks, c.terminal} \subseteq SUBSET Gadgets
    /\ \A g \in Gadgets : \A x \in c.inputs[g] \cup c.readouts[g] : x < g

Config == [buffer_radius : Nat, lookahead_radius : Nat,
           window_parallelism : {"sliding", "fully_parallel", "serial"}]

ASSUME WindowAssumption ==
    /\ Gadgets \subseteq Nat \ {NoGid} /\ IsFiniteSet(Gadgets)
    /\ \A c \in Circuits : IsCircuit(c)
    /\ Configs \in [Circuits -> SUBSET Config]
    /\ Failures \subseteq Circuits

VARIABLES circuit, config,
          executed,      \* keys of `gadgets`
          bound,         \* gadgets with a binding_cid
          attached,      \* gadgets whose check model is error_model_ready
          outcomes,      \* gadgets whose outcomes are loaded
          syndrome,      \* gadgets whose check model has its syndrome
          committed, reservedBy,   \* GadgetState
          cancelled,     \* the cancellation token
          pc,            \* where the decode call of each gadget is
          dist,          \* its center_distance; TooFar: not explored
          frontier, waiting, remote, region, cids, window   \* its locals

shared == <<executed, bound, attached, outcomes, syndrome>>
states == <<committed, reservedBy>>
locals == <<dist, frontier, waiting, remote, region, cids, window>>
program == <<circuit, config>>
vars == <<program, shared, states, cancelled, pc, locals>>

BufferRadius == config.buffer_radius
LookaheadRadius == IF BufferRadius = 0 THEN 0 ELSE config.lookahead_radius
Parallelism == config.window_parallelism
Radius == BufferRadius + LookaheadRadius
TooFar == Radius + 1

PC == {"idle", "explore", "syndrome", "models", "history", "lookahead", "loop",
       "ready", "claim", "claimed", "blocked", "outcomes", "checks", "errors",
       "decoder", "frame", "returned", "failed"}

\* The leader owns the reservations of its window.
Holding == {"outcomes", "checks", "errors", "decoder"}
Ended == {"idle", "returned", "failed"}

NoDist == [x \in Gadgets |-> TooFar]

Init ==
    /\ circuit \in Circuits /\ config \in Configs[circuit]
    /\ executed = {} /\ bound = {} /\ attached = {}
    /\ outcomes = {} /\ syndrome = {}
    /\ committed = {} /\ reservedBy = [g \in Gadgets |-> NoGid]
    /\ cancelled = FALSE
    /\ pc = [g \in Gadgets |-> "idle"]
    /\ dist = [g \in Gadgets |-> NoDist]
    /\ frontier = [g \in Gadgets |-> {}] /\ waiting = [g \in Gadgets |-> {}]
    /\ remote = [g \in Gadgets |-> {}]
    /\ region = [g \in Gadgets |-> {}] /\ cids = [g \in Gadgets |-> {}]
    /\ window = [g \in Gadgets |-> {}]

-----------------------------------------------------------------------------
(* The circuit as executed so far.                                         *)

Consumers(x) == {y \in executed : x \in circuit.inputs[y]}
nb == [x \in Gadgets |-> IF x \in executed THEN circuit.inputs[x] \cup Consumers(x)
                                           ELSE {}]
Unconnected(x) ==
    x \in circuit.open \/ \E y \in Gadgets \ executed : x \in circuit.inputs[y]

\* All gadgets before g: through connectors, and through remote readouts.
Past(g) ==
    LET before == [x \in Gadgets |-> circuit.inputs[x] \cup circuit.readouts[x]]
    IN  Closure(before[g], before)

Reserved(x) == reservedBy[x] # NoGid
Explored(g) == {x \in Gadgets : dist[g][x] <= Radius}

\* await_error_models: the gadgets of W whose error models are still awaited.  A
\* terminal error model replaces the missing one where W has nothing after it.
TerminalBoundary(W) ==
    {x \in W : \A y \in W : x \notin Closure(circuit.inputs[y], circuit.inputs)}

AwaitedModels(W) ==
    {x \in (W \cap bound) \ (committed \cup attached) :
        ~(x \in circuit.terminal /\ x \in TerminalBoundary(W))}

-----------------------------------------------------------------------------
(* execute: the three kinds of instruction, and the task that computes a   *)
(* syndrome.                                                               *)

ExecuteGadget(g) ==
    /\ g \in circuit.gadgets \ executed
    /\ circuit.inputs[g] \cup circuit.readouts[g] \subseteq executed
    /\ executed' = executed \cup {g}
    /\ UNCHANGED <<program, bound, attached, outcomes, syndrome, states,
                   cancelled, pc, locals>>

ExecuteCheckModel(g) ==
    /\ g \in (executed \cap circuit.checks) \ bound
    /\ bound' = bound \cup {g}
    /\ UNCHANGED <<program, executed, attached, outcomes, syndrome, states,
                   cancelled, pc, locals>>

ExecuteErrorModel(g) ==
    /\ g \in bound \ attached
    /\ attached' = attached \cup {g}
    /\ UNCHANGED <<program, executed, bound, outcomes, syndrome, states,
                   cancelled, pc, locals>>

ComputeSyndrome(g) ==
    /\ g \in bound \ syndrome
    /\ {g} \cup circuit.measured[g] \subseteq outcomes
    /\ ~cancelled
    /\ syndrome' = syndrome \cup {g}
    /\ UNCHANGED <<program, executed, bound, attached, outcomes, states,
                   cancelled, pc, locals>>

-----------------------------------------------------------------------------
(* decode, up to the commit loop.                                          *)

Goto(g, from, to) == pc[g] = from /\ pc' = [pc EXCEPT ![g] = to]
Await(g, S) == waiting' = [waiting EXCEPT ![g] = S]

\* A client decodes a gadget once, after its execute has returned.  With a buffer
\* a free-hop leads no window: it waits for the frame another leader sets.
Decode(g) ==
    /\ g \in executed /\ (g \in circuit.checks => g \in bound)
    /\ Goto(g, "idle", IF g \in circuit.free /\ BufferRadius > 0 THEN "frame"
                                                                 ELSE "explore")
    /\ outcomes' = outcomes \cup {g}
    /\ UNCHANGED <<program, executed, bound, attached, syndrome, states,
                   cancelled, locals>>

\* The gadgets at less than buffer_radius from g: explore_mandatory_zone waits for
\* their output ports.
Inner(g) == IF BufferRadius = 0 THEN {}
            ELSE Ball({g}, executed, nb, circuit.free, BufferRadius - 1)

PortsConnected(g) == \A x \in Inner(g) : ~Unconnected(x)

\* Connections are only ever added, so the search that blocks at each port finds
\* what one search finds once the ports are connected.  Of the distances below
\* buffer_radius no use is made.
ExploreMandatoryZone(g) ==
    LET zone == Zone({g}, executed, nb, circuit.free, BufferRadius)
        near == [x \in Gadgets |-> CASE x \notin zone -> TooFar
                                    [] x \in zone \cap Inner(g) -> 0
                                    [] OTHER -> BufferRadius]
    IN  /\ Goto(g, "explore", "syndrome")
        /\ ~cancelled
        /\ PortsConnected(g)
        /\ dist' = [dist EXCEPT ![g] = near]
        /\ frontier' = [frontier EXCEPT ![g] =
                           IF LookaheadRadius = 0 THEN {}
                           ELSE zone \ Inner(g)]
        /\ Await(g, zone \cap bound)
        /\ UNCHANGED <<program, shared, states, cancelled, remote, region, cids,
                       window>>

AwaitMandatoryZoneSyndrome(g) ==
    /\ Goto(g, "syndrome", "models")
    /\ waiting[g] \subseteq syndrome /\ ~cancelled
    /\ Await(g, AwaitedModels(Explored(g)))
    /\ UNCHANGED <<program, shared, states, cancelled, dist, frontier, remote,
                   region, cids, window>>

\* wait_for_history_commitment: whom the call waits for, noted once.
HistoryOneStep(g) == circuit.inputs[g] \ (circuit.free \cup committed)

History(g) ==
    CASE Parallelism = "fully_parallel" -> {}
      [] Parallelism = "serial" ->
            {x \in executed \ committed :
                x < g /\ (BufferRadius = 0 \/ x \notin circuit.free)}
      [] Parallelism = "sliding" -> Past(g) \ (circuit.free \cup committed)

AwaitErrorModels(g) ==
    /\ Goto(g, "models", "history")
    /\ waiting[g] \subseteq attached /\ ~cancelled
    /\ Await(g, History(g))
    /\ UNCHANGED <<program, shared, states, cancelled, dist, frontier, remote,
                   region, cids, window>>

WaitForHistoryCommitment(g) ==
    /\ Goto(g, "history", "lookahead")
    /\ waiting[g] \subseteq committed
    /\ Await(g, {})
    /\ UNCHANGED <<program, shared, states, cancelled, dist, frontier, remote,
                   region, cids, window>>

\* A gadget without a check model counts as ready.
SyndromeReady(x) == x \in circuit.free \/ x \notin bound \/ x \in syndrome

\* One turn of explore_lookahead_zone: the nearest frontier gadget is expanded.
ExploreLookaheadZone(g) ==
    /\ pc[g] = "lookahead" /\ ~cancelled
    /\ \E f \in frontier[g] :
         LET peerDist(x) == dist[g][f] + (IF x \in circuit.free THEN 0 ELSE 1)
             found == {x \in nb[f] \ Explored(g) :
                          peerDist(x) <= Radius /\ SyndromeReady(x)}
         IN  /\ \A x \in frontier[g] : dist[g][f] <= dist[g][x]
             /\ dist' = [dist EXCEPT ![g] =
                            [x \in Gadgets |-> IF x \in found THEN peerDist(x)
                                                              ELSE dist[g][x]]]
             /\ frontier' = [frontier EXCEPT ![g] =
                    (@ \ {f}) \cup {x \in found : peerDist(x) < Radius}]
    /\ UNCHANGED <<program, shared, states, cancelled, pc, waiting, remote,
                   region, cids, window>>

-----------------------------------------------------------------------------
(* decode: the commit loop.                                                *)

\* Gadgets of W with a connection that leaves W or is missing.
SeedsConnected(W) == {x \in W : ~(nb[x] \subseteq W)}
Seeds(W) == {x \in W : ~(nb[x] \subseteq W) \/ Unconnected(x)}

\* boundary_dist < buffer_radius
Shallow(W) ==
    UNION {Shell(Seeds(W), W, nb, circuit.free, k) : k \in 0 .. BufferRadius - 1}

CommittableUnreserved(x) == ~Reserved(x)
Committable(x) == x \notin committed /\ ~Reserved(x)

SelectCommitRegion(g) ==
    LET W == Explored(g)
        able == {x \in W : Committable(x)}
        deep == (able \ circuit.free) \ Shallow(W)
        absorbed == {x \in able \cap circuit.free : nb[x] \cap committed # {}}
    IN  IF BufferRadius = 0 THEN {g}
        ELSE Closure(deep \cup absorbed,
                     [x \in Gadgets |-> nb[x] \cap able \cap circuit.free])

ShrinkWindowTooFar(g) ==
    Zone(SelectCommitRegion(g), Explored(g), nb, circuit.free,
         IF BufferRadius = 0 THEN 0 ELSE BufferRadius - 1)
ShrinkWindow(g) ==
    Zone(SelectCommitRegion(g), Explored(g), nb, circuit.free, BufferRadius)

\* The decoder window, with the owners of the remote checks its errors touch.
DecoderWindow(g) ==
    LET shrunk == ShrinkWindow(g)
    IN  shrunk \cup {x \in Gadgets : \E y \in shrunk \ committed :
                                        <<y, x>> \in remote[g]}

AtLoop(g) == pc[g] = "loop" \/ (pc[g] = "lookahead" /\ frontier[g] = {})

BeginTurn(g) ==
    /\ AtLoop(g) /\ ~cancelled
    /\ pc' = [pc EXCEPT ![g] = "ready"]
    /\ Await(g, AwaitedModels(Explored(g)))
    /\ UNCHANGED <<program, shared, states, cancelled, dist, frontier, remote,
                   region, cids, window>>

\* available_remote_check_owners, read before the write lock is taken.
AvailableRemoteCheckOwners(g) ==
    /\ Goto(g, "ready", "claim")
    /\ waiting[g] \subseteq attached /\ ~cancelled
    /\ remote' = [remote EXCEPT ![g] =
          IF BufferRadius = 0 THEN {}
          ELSE {p \in ((Explored(g) \ committed) \cap attached) \X syndrome :
                   p[2] \in circuit.touched[p[1]]}]
    /\ Await(g, {})
    /\ UNCHANGED <<program, shared, states, cancelled, dist, frontier, region,
                   cids, window>>

FoundCommitted(g) ==
    /\ Goto(g, "claim", "frame")
    /\ g \in committed
    /\ UNCHANGED <<program, shared, states, cancelled, locals>>

FoundClaimed(g) ==
    /\ Goto(g, "claim", "claimed")
    /\ g \notin committed /\ Reserved(g)
    /\ UNCHANGED <<program, shared, states, cancelled, locals>>

ClaimResolved(g) ==
    /\ Goto(g, "claimed", IF g \in committed THEN "frame" ELSE "loop")
    /\ ~Reserved(g)
    /\ UNCHANGED <<program, shared, states, cancelled, locals>>

\* What stands in the way: a reservation in the explored gadgets or, where there
\* is none, in the decoder window.
Taken(S) == {x \in S : Reserved(x)}
BlockersExplored(g) == Taken(Explored(g))
Blockers(g) ==
    IF Taken(Explored(g)) # {} THEN Taken(Explored(g)) ELSE Taken(DecoderWindow(g))

\* What is free of the window is held while the call waits for the rest.
FoundBlockedHoldsTheRest(g) ==
    /\ Goto(g, "claim", "blocked")
    /\ g \notin committed /\ ~Reserved(g)
    /\ Blockers(g) # {}
    /\ Await(g, Blockers(g))
    /\ reservedBy' = [x \in Gadgets |->
          IF x \in DecoderWindow(g) \ Blockers(g) THEN g ELSE reservedBy[x]]
    /\ UNCHANGED <<program, shared, committed, cancelled, dist, frontier, remote,
                   region, cids, window>>

FoundBlocked(g) ==
    /\ Goto(g, "claim", "blocked")
    /\ g \notin committed /\ ~Reserved(g)
    /\ Blockers(g) # {}
    /\ Await(g, Blockers(g))
    /\ UNCHANGED <<program, shared, states, cancelled, dist, frontier, remote,
                   region, cids, window>>

\* One watcher of a blocker sees it released; the last one resumes the loop.
BlockerReleased(g, x) ==
    /\ pc[g] = "blocked" /\ x \in waiting[g] /\ ~Reserved(x)
    /\ Await(g, waiting[g] \ {x})
    /\ pc' = [pc EXCEPT ![g] = IF waiting[g] = {x} THEN "loop" ELSE "blocked"]
    /\ UNCHANGED <<program, shared, states, cancelled, dist, frontier, remote,
                   region, cids, window>>

Reserve(g) ==
    /\ Goto(g, "claim", "outcomes")
    /\ g \notin committed /\ ~Reserved(g)
    /\ Blockers(g) = {}
    /\ region' = [region EXCEPT ![g] = SelectCommitRegion(g)]
    /\ cids' = [cids EXCEPT ![g] = region'[g] \cap bound]
    /\ window' = [window EXCEPT ![g] = DecoderWindow(g)]
    /\ reservedBy' = [x \in Gadgets |-> IF x \in window'[g] THEN g
                                                            ELSE reservedBy[x]]
    /\ UNCHANGED <<program, shared, committed, cancelled, dist, frontier,
                   waiting, remote>>

-----------------------------------------------------------------------------
(* decode_and_commit.                                                      *)

\* The commit region is fixed, then the rest of the window released.
Commit(g) ==
    /\ committed' = committed \cup region[g]
    /\ reservedBy' = [x \in Gadgets |->
          IF x \in region[g] \/ (x \in window[g] /\ reservedBy[x] = g)
          THEN NoGid ELSE reservedBy[x]]

\* The call's locals, dropped when it has no more use for them.
Forget(g) ==
    /\ dist' = [dist EXCEPT ![g] = NoDist]
    /\ frontier' = [frontier EXCEPT ![g] = {}]
    /\ waiting' = [waiting EXCEPT ![g] = {}]
    /\ remote' = [remote EXCEPT ![g] = {}]
    /\ region' = [region EXCEPT ![g] = {}]
    /\ cids' = [cids EXCEPT ![g] = {}]
    /\ window' = [window EXCEPT ![g] = {}]

OutcomesReady(g) == window[g] \cup region[g] \subseteq outcomes

\* Without a check model in the region there is nothing to decode.
CommitUnchecked(g) ==
    /\ Goto(g, "outcomes", "frame")
    /\ OutcomesReady(g) /\ cids[g] = {} /\ ~cancelled
    /\ Commit(g) /\ Forget(g)
    /\ UNCHANGED <<program, shared, cancelled>>

AwaitOutcomes(g) ==
    /\ Goto(g, "outcomes", "checks")
    /\ OutcomesReady(g) /\ cids[g] # {} /\ ~cancelled
    /\ Await(g, window[g] \cap bound)
    /\ UNCHANGED <<program, shared, states, cancelled, dist, frontier, remote,
                   region, cids, window>>

AwaitWindowSyndrome(g) ==
    /\ Goto(g, "checks", "errors")
    /\ waiting[g] \subseteq syndrome /\ ~cancelled
    /\ Await(g, AwaitedModels(window[g]))
    /\ UNCHANGED <<program, shared, states, cancelled, dist, frontier, remote,
                   region, cids, window>>

AwaitWindowModels(g) ==
    /\ Goto(g, "errors", "decoder")
    /\ waiting[g] \subseteq attached /\ ~cancelled
    /\ Await(g, {})
    /\ UNCHANGED <<program, shared, states, cancelled, dist, frontier, remote,
                   region, cids, window>>

\* update_pauli_frame, under one hold of the write lock.
DecoderAnswers(g) ==
    /\ Goto(g, "decoder", "frame")
    /\ Commit(g) /\ Forget(g)
    /\ UNCHANGED <<program, shared, cancelled>>

\* The error cancels every pending call; the reservations stay.
DecoderFails(g) ==
    /\ circuit \in Failures
    /\ Goto(g, "decoder", "failed")
    /\ cancelled' = TRUE
    /\ UNCHANGED <<program, shared, states, locals>>

-----------------------------------------------------------------------------
(* The end of a call, cancellation and reset.                              *)

\* The tracker publishes a frame once the gadget and all of its past are
\* committed.
FrameReady(g) == {g} \cup Past(g) \subseteq committed

ReturnFrame(g) ==
    /\ Goto(g, "frame", "returned")
    /\ FrameReady(g)
    /\ Forget(g)
    /\ UNCHANGED <<program, shared, states, cancelled>>

\* Reservations outlive the call of a leader: only reset clears them.
Abandon(g) ==
    /\ pc[g] \notin Ended
    /\ pc' = [pc EXCEPT ![g] = "failed"]
    /\ IF pc[g] \in Holding THEN UNCHANGED locals ELSE Forget(g)
    /\ UNCHANGED <<program, shared, states, cancelled>>

CallCancelledUnlessBlocked(g) ==
    /\ cancelled
    /\ pc[g] \notin {"claim", "decoder", "claimed", "blocked"}
    /\ Abandon(g)

\* Every wait ends with the token.
CallCancelled(g) ==
    /\ cancelled
    /\ pc[g] \notin {"claim", "decoder"}
    /\ Abandon(g)

\* The RPC's future is dropped at an await: its client went away.
DropCall(g) ==
    /\ circuit \in Failures
    /\ Abandon(g)

\* reset cancels the token, waits until no call is left, clears everything.
BeginReset ==
    /\ circuit \in Failures /\ ~cancelled
    /\ cancelled' = TRUE
    /\ UNCHANGED <<program, shared, states, pc, locals>>

ClearStates == committed' = {} /\ reservedBy' = [g \in Gadgets |-> NoGid]

FinishReset ==
    /\ cancelled /\ \A g \in Gadgets : pc[g] \in Ended
    /\ executed' = {} /\ bound' = {} /\ attached' = {}
    /\ outcomes' = {} /\ syndrome' = {}
    /\ ClearStates
    /\ cancelled' = FALSE
    /\ pc' = [g \in Gadgets |-> "idle"]
    /\ dist' = [g \in Gadgets |-> NoDist]
    /\ frontier' = [g \in Gadgets |-> {}] /\ waiting' = [g \in Gadgets |-> {}]
    /\ remote' = [g \in Gadgets |-> {}]
    /\ region' = [g \in Gadgets |-> {}] /\ cids' = [g \in Gadgets |-> {}]
    /\ window' = [g \in Gadgets |-> {}]
    /\ UNCHANGED program

-----------------------------------------------------------------------------

Execute(g) ==
    ExecuteGadget(g) \/ ExecuteCheckModel(g) \/ ExecuteErrorModel(g)

Explore(g) ==
    \/ ExploreMandatoryZone(g) \/ AwaitMandatoryZoneSyndrome(g)
    \/ AwaitErrorModels(g) \/ WaitForHistoryCommitment(g)
    \/ ExploreLookaheadZone(g)

CommitLoop(g) ==
    \/ BeginTurn(g) \/ AvailableRemoteCheckOwners(g)
    \/ FoundCommitted(g) \/ FoundClaimed(g) \/ ClaimResolved(g)
    \/ FoundBlocked(g) \/ (\E x \in Gadgets : BlockerReleased(g, x))
    \/ Reserve(g)

DecodeAndCommit(g) ==
    \/ CommitUnchecked(g) \/ AwaitOutcomes(g) \/ AwaitWindowSyndrome(g)
    \/ AwaitWindowModels(g) \/ DecoderAnswers(g)

Progress(g) ==
    \/ Execute(g) \/ ComputeSyndrome(g) \/ Decode(g)
    \/ Explore(g) \/ CommitLoop(g) \/ DecodeAndCommit(g) \/ ReturnFrame(g)

AllReturned ==
    (\A g \in circuit.gadgets : pc[g] = "returned") /\ UNCHANGED vars

Next ==
    \/ \E g \in Gadgets :
          \/ Progress(g) \/ DecoderFails(g) \/ CallCancelled(g) \/ DropCall(g)
    \/ BeginReset \/ FinishReset
    \/ AllReturned

Spec == Init /\ [][Next]_vars

\* The client runs its program to the end; the runtime polls every task that can
\* go on and every call whose token is cancelled.
FairSpec ==
    /\ Spec
    /\ \A g \in Gadgets : WF_vars(Progress(g)) /\ WF_vars(CallCancelled(g))

-----------------------------------------------------------------------------
(* Properties                                                              *)

\* The types; in particular committed gadgets and reservations are of executed
\* gadgets (GadgetState lives in the `gadgets` map).
TypeOK ==
    /\ circuit \in Circuits /\ config \in Configs[circuit]
    /\ executed \subseteq Gadgets /\ bound \subseteq executed
    /\ attached \subseteq bound /\ syndrome \subseteq bound
    /\ outcomes \subseteq executed
    /\ committed \subseteq executed
    /\ reservedBy \in [Gadgets -> executed \cup {NoGid}]
    /\ cancelled \in BOOLEAN
    /\ pc \in [Gadgets -> PC]
    /\ dist \in [Gadgets -> [Gadgets -> 0 .. TooFar]]
    /\ frontier \in [Gadgets -> SUBSET executed]
    /\ waiting \in [Gadgets -> SUBSET executed]
    /\ region \in [Gadgets -> SUBSET executed]
    /\ cids \in [Gadgets -> SUBSET executed]
    /\ window \in [Gadgets -> SUBSET executed]
    /\ remote \in [Gadgets -> SUBSET (executed \X executed)]

\* "Reservations block overlapping windows until commit and buffer release": a
\* leader that decodes owns its whole window, and whatever is reserved is in the
\* window of a leader that decodes or has failed.  Windows are thus disjoint.
ReservationsExact ==
    /\ \A g \in Gadgets : pc[g] \in Holding =>
          \A x \in window[g] : reservedBy[x] = g
    /\ \A x \in Gadgets : Reserved(x) =>
          /\ x \in window[reservedBy[x]]
          /\ pc[reservedBy[x]] \in Holding \cup {"failed"}

\* What a leader is about to commit nobody has committed, and all of it is in the
\* window it reserved: every correction is loaded once, every frame published once
\* (the assertions that pauli_frame is still None).
CommitOnce ==
    \A g \in Gadgets : pc[g] \in Holding => region[g] \subseteq window[g] \ committed

\* "Ensures each committed gadget has sufficient decoder context on all sides":
\* whatever hop-counted gadget a leader commits, all gadgets up to buffer_radius
\* hops from it are connected and in the window that is decoded; and the center is
\* part of its own region (the assertion of select_commit_region).
BufferOnAllSides ==
    \A g \in Gadgets : pc[g] \in Holding =>
        /\ g \in region[g]
        /\ \A x \in region[g] \ circuit.free :
              /\ Zone({x}, executed, nb, circuit.free, BufferRadius)
                    \subseteq window[g]
              /\ BufferRadius > 0 =>
                    \A y \in Ball({x}, executed, nb, circuit.free,
                                  BufferRadius - 1) : ~Unconnected(y)

\* "Free-hops ... must not be stranded": no decode of its own commits a free-hop,
\* so each free-hop next to a committed gadget has to be committed with it.
NoStrandedFreeHop ==
    BufferRadius > 0 =>
        \A x \in committed : nb[x] \cap circuit.free \subseteq committed

\* In sliding mode a leader starts only after the measured gadgets of its causal
\* past are committed.
LeaderAfterItsPast ==
    \A g \in Gadgets : (Parallelism = "sliding" /\ pc[g] \in Holding) =>
        Past(g) \ circuit.free \subseteq committed

\* Waiting for each other's reservations and claims (windows that overlap are
\* decoded at once), for history and for frames never ends in a standstill: every
\* decode of a program that is run to its end without a failure returns.
EveryDecodeReturns ==
    circuit \in Failures
        \/ <>[](\A g \in circuit.gadgets : pc[g] = "returned")

\* Once the token is cancelled, by reset or by a failed decode, every call ends:
\* the barrier of reset is reached.
CancelEndsCalls ==
    cancelled ~> ((\A g \in Gadgets : pc[g] \in Ended) \/ ~cancelled)
=============================================================================

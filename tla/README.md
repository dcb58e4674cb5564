# TLA+ models of the qdk-ec repository

The repository holds several Rust and Python libraries for quantum error correction.
Its one concurrent, stateful system is the decoding runtime `deq/deq_runtime`:
clients send the instructions of a quantum program and, later, its measurement
outcomes; the runtime decides which parts of the program are decoded together and
when, has them decoded, and returns corrected readouts. Around it stand sequential
libraries that other programs rely on: `binar` (bit vectors and matrices),
`paulimer` (Pauli operators, groups, Clifford unitaries), `pauliverse` (stabilizer
simulation) and `qodec` (a file format for protocols).

These modules model the runtime and the libraries' own logic, TLC checks them on
small instances, and TLAPS proves the main safety properties of the runtime's
synchronization, its readouts, and that its cached decoders fit, for every instance. Paths without a directory above them are
relative to `src/deq/deq_runtime/src/`.

## 1. Inventory

| Part | State it keeps | Operations | Peers | What is hard |
|---|---|---|---|---|
| Decoder thread pool, `decoder/thread_pooling.rs` | loaded hypergraphs, a pool of decoder instances for each, a counter of work | `decode`, `load_hypergraph`, `decode_loaded`, `reset` | coordinators call it; it runs rayon jobs | futures dropped while their job runs, panics, reset against late work |
| Admission counter, `misc/sync.rs` | an atomic count, an atomic flag, a notifier | `try_guard`, `guard`, drop, `try_pause`, `wait_for_zero` | both coordinators and the JIT controller | memory ordering, lost wakeups, dropped resets |
| Window coordinator, `coordinator/window_coordinator.rs` | gadgets, check models, error models, who reserves and who committed each gadget, a cancellation token, loaded decoders | `execute`, `decode`, `reset`, `cancel_pending`, `load_library` | controllers above, decoders below, the frame tracker inside | one task per gadget, exploring and reserving overlapping windows concurrently; every wait may be cancelled; corrections of one window change the syndrome of the next |
| Monolithic coordinator, `coordinator/monolithic_coordinator.rs` | the same objects, a union-find of connected programs | as above | as above | the decode of the last gadget works for all others |
| Pauli frame tracker, `misc/pauli_frame_tracker.rs` | wiring, raw values, corrections and frames of the gadgets | `add_gadget`, `load_raw`, `load_correction`, `reset` | under a mutex of the coordinator | corrections in any order, several paths to a gadget |
| JIT controller, `controller/jit_controller.rs` | a compiler, types sent so far, gids not decoded, token, counter | `execute`, `batch_execute`, `decode`, `reset`, `load_library` | a coordinator | background loads, cancelled batches, resets that fail half-way |
| JIT compiler, `jit/jit_compiler.rs` | open ports and the pieces of unfinished checks and errors | `compile`, `reset` | the JIT controller | bookkeeping over several instructions; terms that cancel |
| Loss compiler and the handlers for loss, reweighting and gaps, `jit/loss_compiler.rs`, `coordinator/*_handler.rs` | none between shots | a hypergraph is adapted to one shot | both coordinators | two ways to the same problem (a changed graph, updates of a loaded one) |
| Union-find decoder, `decoder/huf_decoder.rs` | clusters, a queue of growth events | `decode` with a deadline, resumed | the pool | stale events, clusters that join while growing |
| Relative programs and cache keys, `misc/relative_program.rs`, `coordinator/decoder_cache_key.rs` | none | renaming, hashing | coordinators | two windows must share a decoder only when they are the same problem |
| `binar` | a vector with a length, a matrix | bit operations, elimination, solving, products | `paulimer` | bits past the length; row and column boundaries |
| `paulimer` | Paulis with phases, groups, Clifford tableaus | products, membership, intersections, gates, encoders | `pauliverse` | phases; two conventions (image, preimage) |
| `pauliverse` | a tableau with symbolic signs and outcomes | gates, measurements, conditionals, faults | | the same circuit in four simulations |
| `qodec` | layers of documents and where they were loaded from | load, edit, slice, save | the file system | saving over what was loaded; references that are shared |
| Server, command line, bindings, plugin ABI, visualizer | wiring | | | |

What makes each correct:

- **Pool**: the counter is exactly the outstanding work; a handle in use is never
  cleared; a pool holds clean instances; reset is a barrier and ends.
- **Counter**: nothing is at work while state is cleared; one pause, one owner; no
  wakeup is lost; what is admitted after a reset is not born cancelled.
- **Window coordinator**: windows being decoded are disjoint; each gadget is
  committed once, with its buffer, none is stranded; the order its mode promises;
  nobody waits forever; a cancelled token ends every call; the corrections of all
  windows together explain the outcomes.
- **Monolithic coordinator**: a complete program is decoded once and as a whole, and
  every decode of it is answered; a call that is dropped or fails keeps nobody from
  ending. (It does leave state behind, see section 4.)
- **Frame tracker**: the readouts are a function of outcomes and corrections,
  whatever the order; published once.
- **JIT**: the coordinator gets the gadgets in order, and exactly the checks and
  errors the program has; a failed step leaves a controller that can be reset.
- **One shot's problem**: the sites compiled are the losses that agree with what was
  heralded; both ways to the decoder give the same problem; a correction explains the
  syndrome; the risk of a readout compares the corrections that disagree about it.
- **Algebra and simulation**: each algorithm agrees with its definition; the four
  simulations with a group of signed stabilizers.
- **qodec**: what is saved is what is read back; nothing is written outside the
  directory; an unedited save changes nothing.

Everything that is hard to test is listed, at its line, under `hazards` in
PROJECT.json.

## 2. Modules

| Module | Models | Checked by |
|---|---|---|
| `DecoderPool` | the decoder thread pool | `MCDecoderPool`, `DecoderPoolProofs` |
| `TaskCounter` | the admission counter and the reset protocol of the coordinators | `MCTaskCounter`, `TaskCounterProofs` |
| `ResetGate` | abstract: what the counter promises to reset | refinement in `TaskCounterProofs` |
| `WindowGeometry` | searches over the circuit as closures, zones, shells | `WindowGeometryProofs` |
| `WindowCoordinator` | execute, decode, cancellation and reset of the window coordinator | `MCWindowCoordinator`, `WindowCoordinatorProofs` |
| `WindowDecoding` | `WindowCoordinator` with the values: hypergraphs, cached decoders, corrections | `MCWindowDecoding`, `WindowDecodingProofs` |
| `MonolithicCoordinator` | the monolithic coordinator | `MCMonolithicCoordinator`, `MonolithicCoordinatorProofs` |
| `WholeDecoding` | abstract: what a client sees of it | refinement in `MonolithicCoordinatorProofs` |
| `PauliFrameTracker` | the frame tracker and the readouts published from it | `MCPauliFrameTracker`, `PauliFrameTrackerProofs` |
| `JitCompiler` | expansion of checks and errors over ports | `MCJitController` |
| `JitController` | the JIT controller over an abstract coordinator | `MCJitController`, `JitControllerProofs` |
| `LossSites` | the loss compiler | `MCDecoding` |
| `DecoderProjection` | loss and reweight handlers: the problem of one shot | `MCDecoding` |
| `HufDecoder` | the union-find decoder | `MCDecoding` |
| `ForcedGap` | the risk of a readout | `MCDecoding` |
| `BitVector`, `BitMatrix` | `binar` | `MCAlgebra` |
| `Pauli`, `PauliGroup` | `paulimer`'s Paulis and groups | `MCAlgebra` |
| `Clifford`, `CliffordEncoders` | `paulimer`'s unitaries and what is computed of encoders | `MCStabilizerSimulation` |
| `StabilizerState` | abstract: a group of signed stabilizers | `MCStabilizerSimulation` |
| `StabilizerSimulation` | `pauliverse` | `MCStabilizerSimulation` |
| `QodecFiles`, `QodecSave`, `Qodec` | loading, saving, and a qodec in a process | `MCQodec` |

`MC...` modules give circuits, programs and configurations, and for the sequential
libraries the reference definitions the algorithms are checked against. An operator
whose name extends the name of the definition after it (`BlockersExplored` before
`Blockers`) is a plausible mistake in that code; it is used by nothing, and PROJECT.json
says which property it breaks.

### DecoderPool

One element of `Calls` is one RPC. `rpc[c]` is the await its future is at, `job[c]`
the rayon job it spawned; a future dropped at an await (`Cancel`) leaves its job
running. Sections under the `loaded` mutex are one step, except that reset's check of
the counter and its clear are two, since the counter is not under the mutex. A job
may answer, fail or panic. An instance is the hypergraph it was built for and whether
it carries the state of a shot.

### TaskCounter and ResetGate

One step per atomic access. `RelaxedReorder` says whether the machine may perform the
second acceptance check of `try_guard` before its relaxed increment is visible
(AArch64 may, x86 may not). `DroppedResets` says whether the client of a reset may go
away. Agents read the coordinator's token after admission, and background tasks
inherit it. In `ResetGate` work enters an open gate, and state is cleared behind a
closed one with nobody inside; `TaskCounter` implements it (`ImplementsGate`).

### WindowGeometry and WindowCoordinator

The coordinator's breadth-first and 0-1 searches are written as what they compute:
the closure of a set under a relation, the gadgets within a number of hops where
free-hops cost nothing (`Within`, stepped by `Enter` where a hop costs on entering a
hop-counted gadget, by `Leave` where it costs on leaving one: the code's two searches
count differently), and the gadgets at an exact distance. A step of
`WindowCoordinator` is what the code does between two awaits or under one hold of the
`gadgets` lock. `pc[g]` is where the decode of `g` is; the state variables are the
fields of the gadget table, the other functions the locals of each decode. Bits are
left out: outcomes, syndromes and corrections are there or not. A circuit says which
gadgets are connected, free-hops, left open, checked, and which other gadgets their
checks and errors reach; `IsCircuit` says what a program guarantees (a gadget is
connected to earlier ones).

Admission and the barrier of reset are `TaskCounter`: here `BeginReset` cancels the
token and `FinishReset` waits until every call has ended. Frames become ready when
the gadget and all of its past are committed, which is what `FramesConsistent` of
`PauliFrameTracker` says.

### WindowDecoding

Adds to each step of `WindowCoordinator` the values it moves: a window as a relative
program (gadgets and errors renamed in the order of the window), its hypergraph, the
key under which a loaded decoder is shared, the explanation a decoder may choose, the
errors fixed of it, and the syndrome that is left for later windows. A decoder that
is used carries the program it was loaded for, so `CacheExact` compares it with the
window it is used for.

### MonolithicCoordinator and WholeDecoding

The union-find nodes count, for a connected part, the gadgets without outcomes and
the output ports without a peer; the decode that brings both to zero takes the part
out and decodes it, the others wait for their readouts. Expansion tasks of checks and
errors are actors of their own. A decode may be dropped at every await, also at the
lock of the frame tracker (1747), which is a place of its own (`"raw"`): outcomes are
stored and counted, `load_raw` has not run. An execute may be dropped at that lock,
too (1505, `DropExecute`): its counters and the ports of its peers stay, the gadget is
in no table (`placed`, not `tracked`). Of these `frameless` keeps the gadgets that can
get no frame any more, and `UnwrapsRaw` is the unwrap in `propagate_from`
that fails for them. Locks that nobody else can hold at the time (the union-find
structure and its index at 1479, 1480, 1729, 1730, both only taken under `gadgets`)
are no awaits of the model, nor is the lock of the symbolic propagator (1508), which is
under the tracker's. The client does not execute a gadget again whose execute was
dropped. `WholeDecoding` is what a client sees: a program is decoded when complete,
as a whole, once.

### PauliFrameTracker

A bit vector is the set of its ones, a matrix maps a row to its ones; addition is
the symmetric difference, a product the parity of an intersection. `propagate_from`
is recursive; `stack` holds the calls still to make, in the order the code makes
them, so each visit is a step, and several visits of one gadget with transient values
are part of the model. `recommit` tells the two uses the module's documentation
names apart: final corrections (both coordinators) and replaceable ones. `Publish` is
what the coordinator does with the updates returned.

### JitCompiler and JitController

`JitCompiler` is the pure part: what a gadget's checks become when the virtual checks
of its inputs are replaced by measurements of earlier gadgets, and its errors by
checks of later ones. `JitController` keeps the compiler's table of open ports, the
types already sent, and the tasks that wait for the errors of later gadgets. The
coordinator is the list of what it received, and may fail a load or a reset. Gadget
types are numbers, finitely many, as the code's `gtype` keys are. A client executes
gadgets of a library, in a batch or not, after its load has returned. An error-model
task counts the ports it has resolved (`resolving[g].ports`), since it waits for the
connector of a port without virtual checks, too.

The compiler asserts what it needs of a library and a program, some of it in debug
builds only (`jit_compiler.rs` 262-274, 310, 371, 665): every check, port and
connector that is named exists and has the size of its peer, a port has one connector,
a finished check names a virtual check once. `ModelsAssumption` says this of the
constants, adds that an error names a finished check once (line 593 copies a list that
elsewhere is a set) and that the program can be executed in some order.

### LossSites, DecoderProjection, HufDecoder, ForcedGap

One shot, from its losses to the score of its readouts. A probability below 1/2 is
the natural number that adds under the combination of exclusive errors; time and
weights of the decoder are naturals in a unit that makes its divisions exact. Growth
events wait in a queue and may be stale; `answer` may be a time-out, after which the
decoder is asked again.

### Algebra and simulation

A row, a vector and the support of a Pauli are sets of indices. `BitVector` keeps the
blocks and words of the code, since its hazard is what is past the length; the other
modules keep the algorithm (pivots, swaps, phases, preimages) and leave the layout.
`StabilizerSimulation` feeds one circuit, instruction by instruction, to the three
simulations, the frame propagator, and `StabilizerState`.

### Qodec

A path is a sequence of components with `..`; a file system maps paths to documents.
`QodecFiles` is the loader (which errors it reports is left out: it answers, or does
not), `QodecSave` builds the list of writes, `Qodec` performs them one by one, and may
fail between two. Files outside the directory may change under an open qodec.

## 3. Runs

| Run | Instance | Shows |
|---|---|---|
| `decoder_pool` | 3 RPCs of any kind, 1 handle, 2 threads | counter, handles, pools, drain; every RPC ends |
| `task_counter_liveness` | 2 RPCs, 1 task, 2 resets that may be dropped, reordering machine | one pause, one owner; resets end |
| `task_counter_relaxed` (violation) | reordering machine | finding 1 |
| `windows` | 2 gadgets with failing decoders, dropped calls and resets; without faults 3 gadgets in line whose parallel windows overlap, 3 in sliding mode and isolated, 2 in serial mode; remote checks and readouts | reservations; order of leaders; cancellation ends every call; every decode returns |
| `window_decoding` | 4 gadgets, line and branch, all placements of free-hops, buffer 2, lookahead 1; 3 gadgets and 2 pairs with errors, every syndrome and every explanation | single commits, buffer, free-hops; corrections explain the outcomes; cached decoders fit |
| `pauli_frames` | a diamond and a circuit with conditional corrections, 4 gadgets | equations, published readouts, agreement with a single pass in program order |
| `monolithic` | 3 gadgets in programs that join parts, connect two ports at once, look ahead, decode twice; a pair with every fault, drops at the locks included | tables, readouts, panics only for a cause, refinement of `WholeDecoding`; calls end without faults, resets with them |
| `jit` | a memory, a two-port circuit whose checks cancel, short programs with every fault, one by one and in batches | order and types, models, failures with cause; every call ends |
| `decoding` | 2 programs of 3 gadgets with every loss mask, 5 policies, merged or not, window or program, 4 lists of updates, every syndrome of 3 checks | sites, problems, corrections, risks |
| `algebra` | vectors to 5 bits over words of 2, every matrix to 3 by 3 and pairs, groups to 3 generators and pairs | `binar` (padding until an `extract` or `selected_from`) and Pauli groups against their definitions; of intersections exactly what they lose |
| `stabilizer` | every circuit of 4 instructions from a set with every operation, to 4 qubits; a swap and a 3-cycle | the simulations agree in the direction of permutations they have; the frames, too, but behind a permutation that moves them elsewhere; encoders |
| `qodec` | directories and bundles with shared, external and climbing references; 1 edit, outside change or failed write; 2 saves | round trip, containment, saving in place |

**Bounds.** `MaxHid` (handles loaded) is 1: a second handle shares nothing with the
first but the counter. Three RPCs are enough for a reset, the work it waits for and
work that begins meanwhile. Two RPCs, a task and two resets are enough for a reset
that meets an admission, its task, and another reset. Four gadgets with buffer 2 are
the least where a window has an inside, an edge and a free-hop between; liveness runs
have two or three gadgets: in a line of three decoded in parallel, the windows of the
outer two share only the middle gadget, so each may find the other's reservation
while its own center is free, or its center claimed by the middle one.
Four gadgets of the tracker are enough for two paths of different length to one
gadget. Words of 2 bits and blocks of 2 words put every boundary (inside a word, at a
word, at a block, past it) within 5 bits. 3 by 3 is the least where a pivot is found
below and to the right of its place. Four instructions prepare, entangle, act and
measure. One edit between two saves is enough for a document that has to get a new
file while another keeps its own. An edit, an outside change and a failed write are one each,
so a failed write after an edit is not among the cases. The safety properties marked below are proved
without these bounds.

**Fairness.** Weak fairness of the futures and the worker threads (the tokio runtime
polls every ready task, rayon runs every queued job); of a reset's own steps; of
admissions and of *cancelled* work only, since other work may wait for outcomes that
come with a later request. `windows`, `monolithic` and `jit` also assume that the
client runs its program to the end (executes everything, sends all outcomes),
otherwise decodes wait, as they should. Nobody has to fail, cancel or reset.

**Deadlock** is checked in the runs of the runtime's services, where "all calls have
ended" has a stuttering step. It is not in `algebra`, `decoding`, `stabilizer` and
`qodec`: a case ends when it is answered, a circuit after its instructions, a qodec
after its saves.

## 4. Findings

1. `try_guard` counts with a relaxed increment before its second check
   (`misc/sync.rs:96`). "A second acceptance check closes the race" does not hold on
   a machine that reorders the two: reset then clears the maps under an admitted
   operation (`task_counter_relaxed`).

Seen while modelling, without a run of their own:

*Admission and windows*

- A reset dropped at its wait reopens admission with the token it cancelled still
  installed (`window_coordinator.rs:3972`); later decodes fail until another reset.
- A check model executed after a window was selected, but before its outcomes
  arrive, is decoded with the window while its gadget is committed without the
  corrections (`window_coordinator.rs:1550`, comment at 2040).
- Sliding mode promises to "commit causal history first" (738); it waits for the past
  of the center only (894), and commits other gadgets of the window before their other
  inputs. For the center the promise is proved.
- Windows committed in parallel can leave a check that no remaining error explains
  when a gadget has no error of its own check; so can errors that reach a check beyond
  the buffer by an absolute cid (`available_remote_check_owners` is read before the
  reservation, 2869 and 3801). `ReachAssumption` leaves both out (section 5).
- `shrink_window` puts free-hops at distance `buffer_radius` into the window but does
  not go on from them (1602), while the formula above it counts free-hops as no
  distance; the model has the code's zone (`Zone`).
- "The decoder never waits on lookahead gadgets" (1020): a free-hop of the lookahead
  zone counts as ready without its outcomes, which `decode_and_commit` waits for.
- A component of free-hops only has no leader when there is a buffer, and its decodes
  wait until a reset (3754).

*Monolithic coordinator, tracker, JIT*

- Subgraphs are joined through ports only. A gadget that comes before its inputs, or
  whose conditional correction reads a gadget of another, undecoded subgraph, gets no
  frame, and `monolithic_coordinator.rs:660` unwraps its missing update (the setup
  `Backward` does so). A reset racing an expansion gives a cut reference that is
  unwrapped.
- A decode dropped while it waits for the frame tracker (1747) has stored and counted
  its outcomes but not its raw readouts. Its part is decoded all the same, by the call
  that completes it, which panics in `propagate_from` (`pauli_frame_tracker.rs:258`;
  in debug builds at the assertion in 209), also in a program in order; when the
  dropped call was the last one, nobody decodes the part. The other calls of the part
  fail, or wait for a reset. `ReadoutsFinal` states it as an exception.
- An execute dropped at the same lock (1505) leaves a gadget that is counted and
  connected but in no table: its part never becomes complete, the ports of its peers
  are taken, and who looks it up (`expand_remote_gadget`, 1248 and 1307) panics.
- The tracker's documentation says that unchanged readouts are not returned when a
  correction is replaced; they are when only the residual changed, or when a second
  visit restored the value.
- Validation of a batch asks only that what is outside is compiled; a batch with a
  cycle waits until a reset. A cancelled batch answers with all its gids. After a
  failed reset that should have dropped the library, a later one that keeps it leaves
  executes that panic; a retry of a failed `load_library` fails an assertion.

*Shots*

- Unions over a diamond count an ancestor they share twice
  (`accumulated_site_probabilities`).

*binar, paulimer, pauliverse*

- `AlignedBitVec::selected_from` writes at the original index instead of packing
  (`bitvec.rs:358`); `BitVec::extract` keeps bits past the length; `ones` of both
  matrices sets padding bits; `random_with_rng` leaves one random word when the
  columns are a multiple of 64 but not of 512; `AlignedBitMatrix::resize` panics when
  it shrinks (`aligned_bitmatrix.rs:553`).
- The intersection of Pauli groups (`pauli_group.rs:546`) loses elements that are
  products of generators which differ in sign: <XI, IX> and <-XI, -IX> share XX. The
  laws of `pauli_group_test.rs` 531-594 (associative, monotone over unions) need not
  hold of it. `IntersectionExact` says how much is lost: of the generators of the bits
  that are common to both groups, those without a phase in both are counted, and from
  the second on each halves the answer; without two of them the intersection is right.
- `split_clifford_encoder` and `recover_z_images_phases` (`clifford_impl.rs:1812`) use
  a preimage where the image is needed, so that signs differ;
  `left_mul_permutation` (794) moves the other way than `pauliverse/src/lib.rs:165`
  says, the frame propagator (`frame_propagator.rs:291`) the way it says. The two
  differ for permutations that are not their own inverse (a 3-cycle): behind one, a
  fault of a noisy shot is on other qubits than where it happened. `SpecificExact` and
  `CompleteExact` take the direction of the encoders (`Backward`), and `NoisyExact`
  holds until such a permutation has moved a frame elsewhere (`astray`);
  `unitary_from_diagonal_resource_state` (403) needs reduced generators, which
  `EncodersExact` therefore asks for.
- `controlled_pauli` is documented for the +1 eigenstate (`lib.rs:153`) and acts on -1,
  as the reference of `SpecificExact` does;
  `OutcomeFreeSimulation::clifford` makes no room for new qubits, nor do
  `measure_with_hint` for the hint and `OutcomeSpecific::conditional_pauli`; faults on
  qubits a circuit never touches are not validated (`frame_propagator.rs:485`).

*qodec*

- A bundle whose manifest climbs above the destination writes its sources one level
  above the raised root (`builder.rs:742` against the comment at 206); `StaysInside`
  leaves out exactly that case.
- The manifest is written before the sources, and files are overwritten one by one: a
  crash on the way leaves a mixture. Nothing promises otherwise.
- Saving an unedited qodec in place turns references to files outside into absolute
  paths in the manifest.

## 5. Proofs

Every theorem holds for all values of the constants, from the named assumption of its
module (`PoolAssumption`, `CounterAssumption`, `WindowAssumption`,
`TrackerAssumption`, `MonolithicAssumption`, `JitAssumption`, `ModelsAssumption`,
`ProblemAssumption`, `ReachAssumption`):
finite sets of calls, agents, gadgets and types, ids that are numbers, and
well-formed programs. TLC evaluates these on the runs. `ReachAssumption` is used for
`CorrectionsExplain` only and is a condition on what a user configures:

- the terminal error model is the error model without the checks of later gadgets,
  one error for each (`jit_compiler.rs:185`);
- with a buffer, errors flip their own check and checks of later gadgets within
  `buffer_radius`: the buffer is there to give a committed gadget "sufficient decoder
  context on all sides" (`window_coordinator.rs:11`), and the code does not check that
  it does;
- without one, a decoder "uses only its own error models" (43), so that every check an
  error flips must be flipped by an error of its own gadget alone.

Without these conditions the corrections need not explain the outcomes (section 4).

- **DecoderPoolProofs**: `CounterExact`, `HandlesStable`, `PoolsClean`,
  `ResetIsBarrier`, `TypeCorrect`. The counter is the cardinality of the set of RPCs
  that own a unit; each step adds or removes one owner together with one unit. The
  strengthening ties the position of a future to the state of its job (`CallInv`),
  says that nothing is checked out while reset is about to clear (`ClearInv`), and
  that what a reset found at work is over once it is past its check (`DrainInv`).
- **TaskCounterProofs**: `Exclusive`, `PauseExact`, `Refinement`. The count is the
  number of guards; on a machine that keeps the order of `try_guard`
  (`~RelaxedReorder`) whoever is admitted was counted before it checked, so a zero
  count behind a closed gate means that nobody is inside. `PauseExact` does not need
  that order: a single owner closes admission on every machine.
- **WindowGeometryProofs**: lemmas about closures and distances, cited by the next
  module. What is within a distance is the least series of sets around its seeds
  closed under steps of that cost (`WithinLeast`), and grows with the distance and
  with the seeds. Where an argument goes by distance it takes the least distance at
  which a statement fails, from the theorem that strict subset orderings of finite
  sets are well founded, since no induction over an operator is to be had. A gadget is in the
  ball of another as far as the other is in the shell around it, although one counts
  on entering and the other on leaving (`BallToShell`, `ShellToBall`, from `Reverse`).
- **WindowCoordinatorProofs**: `TypeCorrect`, `Reservations`, `Commits`, `FreeHops`,
  `Buffers`, `SlidingOrder`, for every circuit, radius and mode. Every step either
  leaves commitments and reservations alone, reserves one window none of which is
  taken, fixes one window and releases it, or is the end of a reset (`StepKinds`). The
  strengthening adds that a commit region is closed under neighbouring free-hops
  (`FreeHopsHeld`, from the absorption loop), that what a sliding leader waits for
  is its past that is not committed (`PastNoted`), and that a leader past
  `explore_mandatory_zone` has explored its whole zone, with its ports connected, so
  that gadgets executed later cannot enter it (`Context`). For `Buffers`: an
  uncommitted gadget of the region is not shallow, so no gadget of the explored set
  with a connection out of it is near; hence its ball lies inside the explored set
  (`DeepEnclosed`), and `shrink_window` keeps it (`RegionBuffered`).
- **WindowDecodingProofs**: `ControlKept`, `CacheByKey`, `CachedDecoders`,
  `SyndromeInvariance`, `CorrectionsExplain`. The values
  never make the control do what `WindowCoordinator` does not. A decoding hypergraph
  written with places instead of gids is a function of the cache key alone
  (`KeyDecides`: the operator `Hypergraph` reads it off the key), and a relative
  program names each of its gadgets at one place (`ProgramLists`), so renaming back is
  exact (`PlacesAndBack`). Whatever was loaded is therefore right for every window
  that finds it.

  `CorrectionsExplain`: however windows overlap in time and whatever explanations
  their decoders choose, a check that only errors of committed gadgets flip is flipped
  by the outcomes exactly if an odd number of corrections flip it. The invariant (`SyndromeIInv`)
  says that a check is still flipped where outcomes and corrections differ
  (`Corrected`), and that what is still flipped some uncommitted gadget's errors flip
  (`Explicable`). A commit must keep the second. A free-hop of a commit region hangs
  on a hop-counted one by free-hops (`RegionCarried`), so each gadget of the region,
  free-hop or not, has the zone of the buffer radius inside the window
  (`RegionZones`); what a gadget's errors flip is in that zone (`FlipsInside`), so the
  window reads every check that errors of the region flip, and an error of the
  hypergraph flips each of them (`WindowCovered`). An explanation thus leaves none of
  the region's checks flipped but by the errors outside the region, which are not
  committed, and the errors it fixes have no check elsewhere (`WindowUsable`). Windows
  that decode at the same time are disjoint (`WindowsApart`), so what one has read the
  commit of another does not change. The parity of disjoint sets of errors is the
  exclusive or of their parities (`ParityUnion`), which is the step for the
  corrections. TLC finds `SyndromeIInv` true in all 424,124 states of
  `window_decoding`. The theorem is about what is committed; that a window has an explanation to
  choose is what its decoder promises.
- **MonolithicCoordinatorProofs**: `TablesAreExact`, `ReadoutsAreFinal`,
  `Implementation`, for every program, in order or not. The union-find structure is
  described from both sides: connected gadgets have the same root (`SameRoot`), and
  any set closed under connections is a union of classes (`Connected`); the second
  speaks of all sets instead of paths, and so needs no induction. The rest says what
  each counter counts while a gadget is being added (`CountersInv`), what a part that
  was taken out still owes (`TakenInv`, `TakeInv`, `WorkInv`), and who holds which end
  of a readout channel (`ChannelInv`). What dropped executes leave is between `placed`
  and `tracked`. A call at `"raw"` is alone under its locks (`RawInv`); in a program
  in order, the gadgets that can get no frame are those of dropped calls
  (`FramelessInv`). That a call panics only for one of the named causes needs that the
  past of what is decoded is decoded before or with it (`WorkInv`), so that an unwrap
  cuts no propagation short (`NothingSkipped`), that a frame, once there, stays
  (`FramesStay`), and that a dropped call has its connected part until a reset
  (`RootsKept`). Under the mapping of `WholeDecoding` each step
  is an abstract step or a stutter.
- **JitControllerProofs**: `StaysInStep`, `CallsBreakForCause`, `EncodingExact`, for every
  library and every program, with failed loads and resets. How far a load of the library has got
  decides what the compiler and the coordinator each have (`LibraryInStep`); ids are
  below their counters and unique, those a load has drawn but not yet sent are
  reserved (`IdsInStep`, `Reserved`); while a reset is between the two sides nothing
  is at work (`Quiet`); what a call may find depends on where it stands
  (`CallsInStep`, `BatchInStep`). Apart from the
  steps, `EncodingExact` says of the sequencers that references come back as they were
  compiled, whatever order a hash set yields the remote gadgets in.

  `ModelsAreExact`: the models the coordinator has say what the program says, for
  every library and program that satisfies `ModelsAssumption`. The reference is a recursion
  along the connectors; it has a solution because the program can be executed in some
  order (`IncludesSolved`, by extending a solution for the gadgets before a place to
  the next place). The exclusive or of a list is what is in an odd number of its
  entries, so the rest is parity: an entry of a sum of sums is counted along either
  index, and both counts are odd or both even. That gives the two halves,
  `CheckExpanded` (forward: a check over the virtual checks of its inputs is the
  measurements it includes) and `ResolveExact` (backward: a virtual check resolved at
  its peer is the set of finished checks that include it), and that an error built from
  resolved checks is the transpose of the checks. The invariant on top of the one above
  (`MInv`) follows the data on its way: what the tables of the compiler hold is exact
  (`CompilerExact`), what a task has resolved of its ports and published is exact, port by
  port (`ResolvedExact`), so is what is built and not yet sent, under its own type or
  the id of a cached one (`BuiltExact`), and what the coordinator was sent
  (`SentExact`); a gadget that is connected or has peers is one the compiler knows
  (`KnownInStep`). TLC finds `MInv` true in all states of the run `jit`.
- **PauliFrameTrackerProofs**: `TypeCorrect`, `FramesExact`, `ReadoutsPublished`,
  `ReadoutsOnce`, `ReadoutsAreExact`. During a call a gadget whose frame does not satisfy its equation
  has a visit on the stack (`Fresh`). A changed frame can only spoil the equations of
  gadgets that need it, and those are among its successors because `add_gadget`
  registered them (`Wired`). With final corrections a frame, once there, satisfies its
  equation for good (`FramesFinal`), so it is reported once. The frames between two
  calls are themselves a solution of the reference's recursion, and there is only one,
  since a gadget needs earlier ones (`ReferenceUnique`, by the least gid at which two
  solutions differ): so the readouts do not depend on the order of calls and visits.

Proved only: the refinement of `ResetGate` and exclusion on a machine that keeps the
order of `try_guard`.

Model-checked only: all liveness (`EveryCallEnds`, `ResetEnds`, `CancelEndsCalls`,
`EveryDecodeReturns`, `CallsEnd`), which rests on fairness; and the algorithms (shots, algebra,
simulation), which are defined by recursion or compared with definitions over all
inputs of a size. The properties of `Qodec` are checked, not proved: its loader
follows references recursively.

## 6. Not modelled

In the coordinators: `load_library`, the lists of instructions that refer to objects
not yet executed, tracing, the gap of a window. In `WindowDecoding` every gadget has
one check, and merged edges, losses and updates are left to `DecoderProjection`;
clearing the edge of an isolated window never clears a set bit in its circuits. A
reservation of a decode that failed or was dropped stays until reset, in the code and
in the model.

In `decoding`: probabilities above 1/2 (the decoder refuses them), the solver of a
cluster (any solution), random imputation of lost measurements.

In `qodec`: formatting, which of several errors is reported, the bindings, the
operations of parities and of the instruction language. A call list is respelled by
YAML and a circuit's format may become explicit, so a saved qodec is compared by the
format in effect.

Other components and the reasons are in PROJECT.json.

## 7. Plan

What is worth proving next, in this order:

1. Of `Qodec`, that nothing is written outside the directory (`StaysInside`): the
   list of writes is bounded by a normal form of paths, which needs no recursion over
   documents.
2. Lemmas about `BitMatrix` and `PauliGroup` that need no induction over rows: that a
   row operation keeps the row space, and a product the group.

---------------------------- MODULE DecoderPool ----------------------------
(***************************************************************************)
(* The thread-pooled black-box decoder service of deq_runtime              *)
(* (decoder/thread_pooling.rs): RPC futures, the rayon jobs they spawn,    *)
(* the map of loaded hypergraphs with its pools of decoder instances, and  *)
(* the `decoding` counter that reset waits on.                             *)
(*                                                                         *)
(* Every element of Calls is one RPC.  An RPC future can be dropped        *)
(* (cancelled) at any of its await points while its job keeps running.     *)
(* The tokio mutex around `loaded` is only ever held between two awaits,   *)
(* so a critical section is one action; the exception is the clear of      *)
(* reset, kept apart from the counter check because the counter is not     *)
(* protected by the mutex.                                                 *)
(***************************************************************************)
EXTENDS Integers, Sequences, FiniteSets

CONSTANTS Calls,     \* the RPCs issued to the service
          MaxHid,    \* bound on the hypergraph ids handed out
          Parallel   \* threads of the rayon pool (config.parallel)

ASSUME PoolAssumption == /\ IsFiniteSet(Calls)
                         /\ MaxHid \in Nat
                         /\ Parallel \in Nat \ {0}

VARIABLES op,        \* which RPC each call is
          rpc,       \* where its future is
          job,       \* the rayon job it spawned
          hid,       \* the hypergraph id the RPC is about (0: none)
          inst,      \* the decoder instance the job or the RPC holds
          loaded,    \* the keys of the `loaded` map
          pool,      \* the LIFO list of idle instances of every key
          next_hid,
          decoding,  \* the watch counter
          before     \* history: the work outstanding when a reset began

vars == <<op, rpc, job, hid, inst, loaded, pool, next_hid, decoding, before>>

Hids == 1..MaxHid

\* A decoder instance: the hypergraph it was built for, and whether it still
\* carries the state of a shot (syndrome, shot-scoped reweights).
Instance == [graph : Hids, dirty : BOOLEAN]
NoInstance == [graph |-> 0, dirty |-> FALSE]
NewInstance(h) == [graph |-> h, dirty |-> FALSE]

Terminal == {"returned", "failed", "not_found", "cancelled"}
JobAlive == {"queued", "running", "closing"}
RpcPC == {"idle", "dec_wait", "load_hid", "load_wait", "load_insert",
          "dl_lock", "dl_wait", "dl_return",
          "reset_lock", "reset_clear", "reset_wait", "plain_wait"} \cup Terminal

Init == /\ op = [c \in Calls |-> "none"]
        /\ rpc = [c \in Calls |-> "idle"]
        /\ job = [c \in Calls |-> "none"]
        /\ hid = [c \in Calls |-> 0]
        /\ inst = [c \in Calls |-> NoInstance]
        /\ loaded = {}
        /\ pool = [h \in Hids |-> << >>]
        /\ next_hid = 1
        /\ decoding = 0
        /\ before = [c \in Calls |-> {}]

\* RPCs that own one unit of `decoding`: through a live job, or through the
\* DecodingGuard that the future (or its oneshot channel) holds.
Holder(c) == \/ job[c] \in JobAlive
             \/ rpc[c] \in {"dl_lock", "load_insert", "dl_return"}
Holders == {c \in Calls : Holder(c)}

\* decode_loaded calls past their lookup: they may hold an instance of the
\* entry of hid[c] and will want to put one back.
CheckedOut(c) == /\ op[c] = "decode_loaded"
                 /\ job[c] \in JobAlive \/ rpc[c] = "dl_return"

\* Nobody is inside a critical section of the `loaded` mutex.
LockFree == \A c \in Calls : rpc[c] # "reset_clear"

Begin(c, name, to) == /\ rpc[c] = "idle"
                      /\ rpc' = [rpc EXCEPT ![c] = to]
                      /\ op' = [op EXCEPT ![c] = name]
Goto(c, from, to) == rpc[c] = from /\ rpc' = [rpc EXCEPT ![c] = to]
JobGoto(c, from, to) == job[c] = from /\ job' = [job EXCEPT ![c] = to]
Increment == decoding' = decoding + 1
Decrement == decoding' = decoding - 1

-----------------------------------------------------------------------------
(* decode: one shot on a hypergraph that travels with the request          *)

\* Invalid requests and the zero-syndrome shortcut answer at once.
DecodeShortcut(c) ==
    /\ \E reply \in {"returned", "failed"} : Begin(c, "decode", reply)
    /\ UNCHANGED <<job, hid, inst, loaded, pool, next_hid, decoding, before>>

\* Counter up, job spawned, guard defused: the worker owns the decrement.
Decode(c) ==
    /\ Begin(c, "decode", "dec_wait")
    /\ JobGoto(c, "none", "queued")
    /\ Increment
    /\ UNCHANGED <<hid, inst, loaded, pool, next_hid, before>>

-----------------------------------------------------------------------------
(* load_hypergraph                                                         *)

LoadHypergraph(c) ==
    /\ next_hid <= MaxHid
    /\ Begin(c, "load", "load_hid")
    /\ hid' = [hid EXCEPT ![c] = next_hid]
    /\ next_hid' = next_hid + 1
    /\ UNCHANGED <<job, inst, loaded, pool, decoding, before>>

\* The counter goes up after the id is taken; the guard moves into the job.
LoadSpawn(c) ==
    /\ Goto(c, "load_hid", "load_wait")
    /\ JobGoto(c, "none", "queued")
    /\ Increment
    /\ UNCHANGED <<op, hid, inst, loaded, pool, next_hid, before>>

\* The first instance enters the pool and the guard is dropped.
LoadInsert(c) ==
    /\ LockFree
    /\ Goto(c, "load_insert", "returned")
    /\ loaded' = loaded \cup {hid[c]}
    /\ pool' = [pool EXCEPT ![hid[c]] = <<inst[c]>>]
    /\ inst' = [inst EXCEPT ![c] = NoInstance]
    /\ Decrement
    /\ UNCHANGED <<op, job, hid, next_hid, before>>

-----------------------------------------------------------------------------
(* decode_loaded                                                           *)

\* The counter goes up before the loaded map is looked at.
DecodeLoaded(c) ==
    /\ Begin(c, "decode_loaded", "dl_lock")
    /\ \E h \in Hids : hid' = [hid EXCEPT ![c] = h]
    /\ Increment
    /\ UNCHANGED <<job, inst, loaded, pool, next_hid, before>>

\* Unknown handle, invalid side information or zero-syndrome shortcut: the
\* early returns under the lock drop the guard.
LookupReturns(c) ==
    /\ LockFree
    /\ IF hid[c] \in loaded
       THEN \E reply \in {"returned", "failed"} : Goto(c, "dl_lock", reply)
       ELSE Goto(c, "dl_lock", "not_found")
    /\ Decrement
    /\ UNCHANGED <<op, job, hid, inst, loaded, pool, next_hid, before>>

\* pop_back an idle instance, or leave it to the job to build one; spawn.
LookupSpawns(c) ==
    LET idle == pool[hid[c]] IN
    /\ LockFree
    /\ hid[c] \in loaded
    /\ Goto(c, "dl_lock", "dl_wait")
    /\ JobGoto(c, "none", "queued")
    /\ IF idle = << >>
       THEN UNCHANGED <<inst, pool>>
       ELSE /\ inst' = [inst EXCEPT ![c] = idle[Len(idle)]]
            /\ pool' = [pool EXCEPT ![hid[c]] = SubSeq(idle, 1, Len(idle) - 1)]
    /\ UNCHANGED <<op, hid, loaded, next_hid, decoding, before>>

\* Put the instance back if its entry still exists, drop the guard, answer.
\* No lock is taken when the reset of the instance had panicked.
ReturnInstance(c) ==
    /\ Goto(c, "dl_return", "returned")
    /\ IF inst[c] = NoInstance
       THEN UNCHANGED pool
       ELSE /\ LockFree
            /\ pool' = IF hid[c] \in loaded
                       THEN [pool EXCEPT ![hid[c]] = Append(@, inst[c])]
                       ELSE pool
    /\ inst' = [inst EXCEPT ![c] = NoInstance]
    /\ Decrement
    /\ UNCHANGED <<op, job, hid, loaded, next_hid, before>>

-----------------------------------------------------------------------------
(* The rayon jobs                                                          *)

\* A pool thread picks the job up.  Jobs without an instance build one
\* (T::new); decoding leaves the state of the shot in the instance.  The
\* instance of a one-shot decode never leaves its job and is not tracked.
JobStart(c) ==
    /\ Cardinality({d \in Calls : job[d] \in {"running", "closing"}}) < Parallel
    /\ JobGoto(c, "queued", "running")
    /\ inst' = [inst EXCEPT ![c] =
                  IF op[c] = "decode" THEN NoInstance
                  ELSE [graph |-> IF @ = NoInstance THEN hid[c] ELSE @.graph,
                        dirty |-> op[c] = "decode_loaded"]]
    /\ UNCHANGED <<op, rpc, hid, loaded, pool, next_hid, decoding, before>>

\* A one-shot decode answers first and decrements when the closure ends.
JobAnswersDecode(c) ==
    /\ op[c] = "decode"
    /\ JobGoto(c, "running", "closing")
    /\ rpc' = [rpc EXCEPT ![c] = IF @ = "dec_wait" THEN "returned" ELSE @]
    /\ UNCHANGED <<op, hid, inst, loaded, pool, next_hid, decoding, before>>

\* A finished load or decode_loaded job sends (instance, guard) through the
\* oneshot channel.  When the receiver is gone the payload is dropped, guard
\* included.
Deliver(c, payload) ==
    LET to == CASE rpc[c] = "load_wait" -> "load_insert"
                [] rpc[c] = "dl_wait" -> "dl_return"
                [] OTHER -> rpc[c]
        received == to # rpc[c]
    IN  /\ JobGoto(c, "running", "done")
        /\ rpc' = [rpc EXCEPT ![c] = to]
        /\ inst' = [inst EXCEPT ![c] = IF received THEN payload ELSE NoInstance]
        /\ decoding' = IF received THEN decoding ELSE decoding - 1
        /\ UNCHANGED <<op, hid, loaded, pool, next_hid, before>>

\* Mutant of JobDelivers: the instance goes back without its reset.
JobDeliversUnreset(c) ==
    /\ op[c] # "decode"
    /\ Deliver(c, inst[c])

\* The instance is reset between the decode and the delivery; a reset that
\* panics delivers the answer without the instance.
JobDelivers(c) ==
    /\ op[c] # "decode"
    /\ \/ Deliver(c, [inst[c] EXCEPT !.dirty = FALSE])
       \/ op[c] = "decode_loaded" /\ Deliver(c, NoInstance)

\* T::new or the decode panics, or the decode reports an error: the
\* instance is dropped, the closure unwinds.
JobFails(c) ==
    /\ JobGoto(c, "running", "closing")
    /\ inst' = [inst EXCEPT ![c] = NoInstance]
    /\ UNCHANGED <<op, rpc, hid, loaded, pool, next_hid, decoding, before>>

\* The closure ends: its guard (or its explicit send_modify) decrements.
JobEnds(c) ==
    /\ JobGoto(c, "closing", "done")
    /\ Decrement
    /\ UNCHANGED <<op, rpc, hid, inst, loaded, pool, next_hid, before>>

\* The RPC receives the error or finds the channel closed.
RpcFails(c) ==
    /\ job[c] \in {"closing", "done"}
    /\ \E from \in {"dec_wait", "load_wait", "dl_wait"} : Goto(c, from, "failed")
    /\ UNCHANGED <<op, job, hid, inst, loaded, pool, next_hid, decoding, before>>

-----------------------------------------------------------------------------
(* reset                                                                   *)

ResetHypergraphs(c) ==
    /\ Begin(c, "reset", "reset_lock")
    /\ before' = [before EXCEPT ![c] = Holders]
    /\ UNCHANGED <<job, hid, inst, loaded, pool, next_hid, decoding>>

\* Mutant of ResetCheck: the counter is not consulted under the mutex.
ResetCheckSkipped(c) ==
    /\ LockFree
    /\ Goto(c, "reset_lock", "reset_clear")
    /\ UNCHANGED <<op, job, hid, inst, loaded, pool, next_hid, decoding, before>>

\* With the mutex held: clear if the counter is zero, else release and wait.
ResetCheck(c) ==
    /\ LockFree
    /\ Goto(c, "reset_lock", IF decoding = 0 THEN "reset_clear" ELSE "reset_wait")
    /\ UNCHANGED <<op, job, hid, inst, loaded, pool, next_hid, decoding, before>>

ResetClear(c) ==
    /\ Goto(c, "reset_clear", "returned")
    /\ loaded' = {}
    /\ pool' = [h \in Hids |-> << >>]
    /\ UNCHANGED <<op, job, hid, inst, next_hid, decoding, before>>

\* wait_for(0) is over; the loop takes the lock and looks again.
ResetWake(c) ==
    /\ decoding = 0
    /\ Goto(c, "reset_wait", "reset_lock")
    /\ UNCHANGED <<op, job, hid, inst, loaded, pool, next_hid, decoding, before>>

\* Mutant of ResetPlain: no wait.
ResetPlainAtOnce(c) ==
    /\ Begin(c, "reset", "returned")
    /\ before' = [before EXCEPT ![c] = Holders]
    /\ UNCHANGED <<job, hid, inst, loaded, pool, next_hid, decoding>>

\* A reset that keeps the hypergraphs only waits for an idle moment.
ResetPlain(c) ==
    /\ Begin(c, "reset", IF decoding > 0 THEN "plain_wait" ELSE "returned")
    /\ before' = [before EXCEPT ![c] = Holders]
    /\ UNCHANGED <<job, hid, inst, loaded, pool, next_hid, decoding>>

PlainWake(c) ==
    /\ decoding = 0
    /\ Goto(c, "plain_wait", "returned")
    /\ UNCHANGED <<op, job, hid, inst, loaded, pool, next_hid, decoding, before>>

-----------------------------------------------------------------------------
(* Cancellation                                                            *)

AwaitPoint == {"dec_wait", "load_wait", "load_insert", "dl_lock", "dl_wait",
               "dl_return", "reset_lock", "reset_wait", "plain_wait"}

DropFuture(c, owned) ==
    /\ rpc[c] \in AwaitPoint
    /\ rpc' = [rpc EXCEPT ![c] = "cancelled"]
    /\ inst' = [inst EXCEPT ![c] = IF owned THEN NoInstance ELSE @]
    /\ decoding' = IF owned THEN decoding - 1 ELSE decoding
    /\ UNCHANGED <<op, job, hid, loaded, pool, next_hid, before>>

\* Mutant of Cancel: a future waiting for the lock leaks its unit.
CancelLeaks(c) == DropFuture(c, rpc[c] \in {"load_insert", "dl_return"})

\* The future is dropped at an await point, with the guard and the instance
\* it owns (or that wait in its channel).  What its job owns stays there.
Cancel(c) ==
    DropFuture(c, rpc[c] \in {"dl_lock", "load_insert", "dl_return"})

-----------------------------------------------------------------------------
Client(c) == \/ DecodeShortcut(c) \/ Decode(c) \/ LoadHypergraph(c)
             \/ DecodeLoaded(c) \/ ResetHypergraphs(c) \/ ResetPlain(c)

Future(c) == \/ LoadSpawn(c) \/ LoadInsert(c)
             \/ LookupReturns(c) \/ LookupSpawns(c) \/ ReturnInstance(c)
             \/ RpcFails(c)
             \/ ResetCheck(c) \/ ResetClear(c) \/ ResetWake(c) \/ PlainWake(c)

Worker(c) == \/ JobStart(c) \/ JobAnswersDecode(c) \/ JobDelivers(c)
             \/ JobFails(c) \/ JobEnds(c)

Done == /\ \A c \in Calls : rpc[c] \in Terminal /\ job[c] \in {"none", "done"}
        /\ UNCHANGED vars

Next == \/ \E c \in Calls : Client(c) \/ Future(c) \/ Worker(c) \/ Cancel(c)
        \/ Done

Spec == Init /\ [][Next]_vars

\* The tokio runtime polls every ready future and rayon runs every queued
\* job; clients may stop calling and nobody has to cancel.
Fairness == \A c \in Calls : WF_vars(Future(c)) /\ WF_vars(Worker(c))

FairSpec == Spec /\ Fairness

-----------------------------------------------------------------------------
(* Properties                                                              *)

\* Every variable keeps its type; `decoding`, a usize, never underflows.
TypeOK ==
    /\ op \in [Calls -> {"none", "decode", "load", "decode_loaded", "reset"}]
    /\ rpc \in [Calls -> RpcPC]
    /\ job \in [Calls -> JobAlive \cup {"none", "done"}]
    /\ hid \in [Calls -> 0..MaxHid]
    /\ inst \in [Calls -> Instance \cup {NoInstance}]
    /\ loaded \in SUBSET Hids
    /\ pool \in [Hids -> Seq(Instance)]
    /\ next_hid \in 1..(MaxHid + 1)
    /\ decoding \in Nat
    /\ before \in [Calls -> SUBSET Calls]

\* `decoding` is exactly the number of RPCs with a job or a guard alive, on
\* every path: early returns, panics, backend errors and futures dropped at
\* any await ("a cancelled decode leaks a +1 in the counter, causing
\* black_box_decoder.reset() to wait forever").
CounterMatchesWork == decoding = Cardinality(Holders)

\* An entry of the loaded map outlives every decode_loaded that took an
\* instance from it, cancelled or not: reset never clears it under a decode,
\* and the instance always finds its pool again.
HandleStable == \A c \in Calls : CheckedOut(c) => hid[c] \in loaded

\* What waits in the pool of a handle was built for that hypergraph and
\* carries nothing over from the last shot, and cleared handles keep no pool.
PooledInstancesClean ==
    \A h \in Hids :
        /\ \A i \in DOMAIN pool[h] : pool[h][i] = NewInstance(h)
        /\ h \notin loaded => pool[h] = << >>

\* A reset that has returned saw the end of all work that was outstanding
\* when it was called, jobs of cancelled RPCs included.
ResetDrains ==
    \A c \in Calls : op[c] = "reset" /\ rpc[c] = "returned"
                       => \A d \in before[c] : ~Holder(d)

\* Every RPC, reset included, ends: no leaked unit, no reset that waits for a
\* future which waits for the mutex.
EveryCallEnds ==
    \A c \in Calls : rpc[c] # "idle" ~> rpc[c] \in Terminal
=============================================================================

------------------------- MODULE DecoderPoolProofs -------------------------
(***************************************************************************)
(* Safety of the thread-pooled decoder for any number of RPCs, handles and *)
(* worker threads.                                                         *)
(***************************************************************************)
EXTENDS DecoderPool, FiniteSetTheorems, TLAPS

-----------------------------------------------------------------------------
(* The inductive invariant                                                 *)

\* What the place of a future says about its job, its handle and its instance.
CallInv(c) ==
    /\ rpc[c] = "idle" => op[c] = "none" /\ job[c] = "none"
    /\ rpc[c] = "dec_wait" => op[c] = "decode" /\ job[c] # "none"
    /\ rpc[c] = "load_hid" => op[c] = "load" /\ job[c] = "none"
    /\ rpc[c] = "load_wait" => op[c] = "load" /\ job[c] # "none"
    /\ rpc[c] = "load_insert" => /\ op[c] = "load" /\ job[c] = "done"
                                 /\ inst[c] = NewInstance(hid[c])
    /\ rpc[c] = "dl_lock" => op[c] = "decode_loaded" /\ job[c] = "none"
    /\ rpc[c] = "dl_wait" => op[c] = "decode_loaded" /\ job[c] # "none"
    /\ rpc[c] = "dl_return" => /\ op[c] = "decode_loaded" /\ job[c] = "done"
                               /\ inst[c] \in {NoInstance, NewInstance(hid[c])}
    /\ rpc[c] \in {"reset_lock", "reset_clear", "reset_wait", "plain_wait"}
          => op[c] = "reset" /\ job[c] = "none"
    /\ job[c] = "none" => inst[c] = NoInstance
    /\ job[c] = "queued" => inst[c] \in {NoInstance, NewInstance(hid[c])}
    /\ job[c] = "running" => \/ op[c] = "decode"
                             \/ /\ inst[c] \in Instance
                                /\ inst[c].graph = hid[c]
    /\ op[c] \in {"load", "decode_loaded"} => hid[c] \in Hids
    /\ op[c] \in {"none", "reset"} => job[c] = "none"

\* While reset holds the mutex to clear the map, nobody has an entry in use.
ClearInv == \A r \in Calls : rpc[r] = "reset_clear"
                               => \A c \in Calls : ~CheckedOut(c)

\* Work that a reset saw outstanding has begun, and is over once the reset is
\* past its check.
DrainInv ==
    \A r \in Calls : \A d \in before[r] :
        /\ rpc[d] \notin {"idle", "load_hid"}
        /\ op[r] = "reset" /\ rpc[r] \in {"reset_clear", "returned"} => ~Holder(d)

IInv == /\ TypeOK
        /\ \A c \in Calls : CallInv(c)
        /\ CounterMatchesWork
        /\ ClearInv
        /\ HandleStable
        /\ PooledInstancesClean
        /\ DrainInv

-----------------------------------------------------------------------------
(* The counter                                                             *)

\* Finitely many RPCs own a unit of the counter.
LEMMA HoldersFinite == IsFiniteSet(Holders)
BY PoolAssumption, FS_Subset DEF Holders

\* The same after a step.
LEMMA HoldersFinitePrimed == IsFiniteSet(Holders')
BY PoolAssumption, FS_Subset DEF Holders

\* A zero counter: no RPC owns a unit.
LEMMA ZeroMeansIdle ==
    ASSUME CounterMatchesWork, decoding = 0
    PROVE  \A c \in Calls : ~Holder(c)
BY HoldersFinite, FS_EmptySet DEF CounterMatchesWork, Holders

\* An owned unit keeps the counter positive, so its release does not underflow.
LEMMA HolderMeansPositive ==
    ASSUME CounterMatchesWork, decoding \in Nat, NEW c \in Calls, Holder(c)
    PROVE  decoding > 0
BY HoldersFinite, FS_EmptySet DEF CounterMatchesWork, Holders

\* A new owner comes with an increment.
LEMMA CountAdd ==
    ASSUME CounterMatchesWork, NEW c \in Calls, ~Holder(c), Holder(c)',
           \A d \in Calls \ {c} : Holder(d)' <=> Holder(d),
           decoding' = decoding + 1
    PROVE  CounterMatchesWork'
<1>1. Holders' = Holders \cup {c} /\ c \notin Holders
  BY DEF Holders
<1>2. QED
  BY <1>1, HoldersFinite, FS_AddElement DEF CounterMatchesWork

\* An owner that goes comes with a decrement.
LEMMA CountRemove ==
    ASSUME CounterMatchesWork, NEW c \in Calls, Holder(c), ~Holder(c)',
           \A d \in Calls \ {c} : Holder(d)' <=> Holder(d),
           decoding' = decoding - 1
    PROVE  CounterMatchesWork'
<1>1. Holders' = Holders \ {c} /\ c \in Holders
  BY DEF Holders
<1>2. QED
  BY <1>1, HoldersFinite, FS_RemoveElement DEF CounterMatchesWork

\* The same owners, the same counter.
LEMMA CountSame ==
    ASSUME CounterMatchesWork, \A d \in Calls : Holder(d)' <=> Holder(d),
           decoding' = decoding
    PROVE  CounterMatchesWork'
<1>1. Holders' = Holders
  BY DEF Holders
<1>2. QED
  BY <1>1 DEF CounterMatchesWork

-----------------------------------------------------------------------------
(* What a step does to the futures, jobs and instances                     *)

\* Where a future and its job are keep matching, whatever step is taken.
LEMMA CallStep == IInv /\ [Next]_vars => \A d \in Calls : CallInv(d)'
<1> SUFFICES ASSUME IInv, [Next]_vars, NEW d \in Calls PROVE CallInv(d)'
  OBVIOUS
<1>1. ASSUME NEW c \in Calls, DecodeShortcut(c) PROVE CallInv(d)'
  BY <1>1 DEF IInv, TypeOK, CallInv, DecodeShortcut, Begin
<1>2. ASSUME NEW c \in Calls, Decode(c) PROVE CallInv(d)'
  BY <1>2 DEF IInv, TypeOK, CallInv, Decode, Begin, JobGoto, Increment
<1>3. ASSUME NEW c \in Calls, LoadHypergraph(c) PROVE CallInv(d)'
  BY <1>3 DEF IInv, TypeOK, CallInv, LoadHypergraph, Begin, Hids
<1>4. ASSUME NEW c \in Calls, DecodeLoaded(c) PROVE CallInv(d)'
  BY <1>4 DEF IInv, TypeOK, CallInv, DecodeLoaded, Begin, Increment
<1>5. ASSUME NEW c \in Calls, ResetHypergraphs(c) PROVE CallInv(d)'
  BY <1>5 DEF IInv, TypeOK, CallInv, ResetHypergraphs, Begin
<1>6. ASSUME NEW c \in Calls, ResetPlain(c) PROVE CallInv(d)'
  BY <1>6 DEF IInv, TypeOK, CallInv, ResetPlain, Begin
<1>7. ASSUME NEW c \in Calls, LoadSpawn(c) PROVE CallInv(d)'
  BY <1>7 DEF IInv, TypeOK, CallInv, LoadSpawn, Goto, JobGoto, Increment
<1>8. ASSUME NEW c \in Calls, LoadInsert(c) PROVE CallInv(d)'
  BY <1>8 DEF IInv, TypeOK, CallInv, LoadInsert, Goto, Decrement
<1>9. ASSUME NEW c \in Calls, LookupReturns(c) PROVE CallInv(d)'
  BY <1>9 DEF IInv, TypeOK, CallInv, LookupReturns, Goto, Decrement
<1>10. ASSUME NEW c \in Calls, LookupSpawns(c) PROVE CallInv(d)'
  <2>0. /\ rpc[c] = "dl_lock" /\ job[c] = "none" /\ op[c] = "decode_loaded"
        /\ inst[c] = NoInstance /\ hid[c] \in Hids
        /\ rpc' = [rpc EXCEPT ![c] = "dl_wait"] /\ job' = [job EXCEPT ![c] = "queued"]
        /\ UNCHANGED <<op, hid>>
    BY <1>10 DEF IInv, TypeOK, CallInv, LookupSpawns, Goto, JobGoto
  <2>1. inst'[c] \in {NoInstance, NewInstance(hid[c])} /\ \A e \in Calls \ {c} : inst'[e] = inst[e]
    <3>1. CASE pool[hid[c]] = << >>
      BY <1>10, <2>0, <3>1 DEF LookupSpawns
    <3>2. CASE pool[hid[c]] # << >>
      <4>1. Len(pool[hid[c]]) \in DOMAIN pool[hid[c]]
        BY <2>0, <3>2 DEF IInv, TypeOK
      <4>2. pool[hid[c]][Len(pool[hid[c]])] = NewInstance(hid[c])
        BY <2>0, <4>1 DEF IInv, PooledInstancesClean
      <4>3. QED
        BY <1>10, <2>0, <3>2, <4>2 DEF LookupSpawns, IInv, TypeOK
    <3>3. QED
      BY <3>1, <3>2
  <2>2. CASE d # c
    BY <2>0, <2>1, <2>2 DEF IInv, TypeOK, CallInv
  <2>3. CASE d = c
    BY <2>0, <2>1, <2>3 DEF IInv, TypeOK, CallInv, RpcPC, JobAlive
  <2>4. QED
    BY <2>2, <2>3
<1>11. ASSUME NEW c \in Calls, ReturnInstance(c) PROVE CallInv(d)'
  BY <1>11 DEF IInv, TypeOK, CallInv, ReturnInstance, Goto, Decrement
<1>12. ASSUME NEW c \in Calls, RpcFails(c) PROVE CallInv(d)'
  BY <1>12 DEF IInv, TypeOK, CallInv, RpcFails, Goto
<1>13. ASSUME NEW c \in Calls, ResetCheck(c) PROVE CallInv(d)'
  BY <1>13 DEF IInv, TypeOK, CallInv, ResetCheck, Goto
<1>14. ASSUME NEW c \in Calls, ResetClear(c) PROVE CallInv(d)'
  BY <1>14 DEF IInv, TypeOK, CallInv, ResetClear, Goto
<1>15. ASSUME NEW c \in Calls, ResetWake(c) PROVE CallInv(d)'
  BY <1>15 DEF IInv, TypeOK, CallInv, ResetWake, Goto
<1>16. ASSUME NEW c \in Calls, PlainWake(c) PROVE CallInv(d)'
  BY <1>16 DEF IInv, TypeOK, CallInv, PlainWake, Goto
<1>17. ASSUME NEW c \in Calls, JobStart(c) PROVE CallInv(d)'
  <2>0. /\ job[c] = "queued" /\ job' = [job EXCEPT ![c] = "running"]
        /\ UNCHANGED <<op, rpc, hid>>
        /\ \A e \in Calls \ {c} : inst'[e] = inst[e]
    BY <1>17 DEF JobStart, JobGoto, IInv, TypeOK
  <2>1. CASE d # c
    BY <2>0, <2>1 DEF IInv, TypeOK, CallInv
  <2>2. CASE d = c
    <3>1. op[c] # "decode" => inst'[c] \in Instance /\ inst'[c].graph = hid[c]
      <4> SUFFICES ASSUME op[c] # "decode"
                   PROVE  inst'[c] \in Instance /\ inst'[c].graph = hid[c]
        OBVIOUS
      <4>1. hid[c] \in Hids /\ inst[c] \in {NoInstance, NewInstance(hid[c])}
        BY <2>0 DEF IInv, TypeOK, CallInv
      <4>2. inst'[c] = [graph |-> IF inst[c] = NoInstance THEN hid[c] ELSE inst[c].graph,
                        dirty |-> op[c] = "decode_loaded"]
        BY <1>17 DEF JobStart, IInv, TypeOK
      <4>3. QED
        BY <4>1, <4>2 DEF NewInstance, Instance
    <3>2. QED
      BY <2>0, <2>2, <3>1 DEF IInv, TypeOK, CallInv, RpcPC
  <2>3. QED
    BY <2>1, <2>2
<1>18. ASSUME NEW c \in Calls, JobAnswersDecode(c) PROVE CallInv(d)'
  BY <1>18 DEF IInv, TypeOK, CallInv, JobAnswersDecode, JobGoto
<1>19. ASSUME NEW c \in Calls, JobDelivers(c) PROVE CallInv(d)'
  <2>0. PICK payload \in {NoInstance, [inst[c] EXCEPT !.dirty = FALSE]} :
            /\ Deliver(c, payload)
            /\ payload = NoInstance => op[c] # "load"
    <3>1. CASE Deliver(c, [inst[c] EXCEPT !.dirty = FALSE])
      <4>1. job[c] = "running" /\ op[c] # "decode"
        BY <1>19, <3>1 DEF JobDelivers, Deliver, JobGoto
      <4>2. op[c] \in {"load", "decode_loaded"} /\ inst[c] \in Instance /\ inst[c].graph \in Hids
        BY <4>1 DEF IInv, TypeOK, CallInv
      <4>3. [inst[c] EXCEPT !.dirty = FALSE] # NoInstance
        BY <4>2 DEF NoInstance, Instance, Hids
      <4>4. QED
        BY <3>1, <4>3
    <3>2. CASE op[c] = "decode_loaded" /\ Deliver(c, NoInstance)
      BY <3>2
    <3>3. QED
      BY <1>19, <3>1, <3>2 DEF JobDelivers
  <2>1. /\ job[c] = "running" /\ op[c] \in {"load", "decode_loaded"}
        /\ inst[c] \in Instance /\ inst[c].graph = hid[c]
    BY <1>19, <2>0 DEF JobDelivers, Deliver, JobGoto, IInv, TypeOK, CallInv
  <2>2. payload \in {NoInstance, NewInstance(hid[c])}
    BY <2>1 DEF NewInstance, Instance
  <2>3. /\ job' = [job EXCEPT ![c] = "done"]
        /\ UNCHANGED <<op, hid>>
        /\ \A e \in Calls \ {c} : inst'[e] = inst[e] /\ rpc'[e] = rpc[e]
        /\ inst'[c] \in {NoInstance, payload}
        /\ rpc[c] = "load_wait" => rpc'[c] = "load_insert" /\ inst'[c] = payload
        /\ rpc[c] = "dl_wait" => rpc'[c] = "dl_return"
        /\ rpc[c] \notin {"load_wait", "dl_wait"} => rpc'[c] = rpc[c]
    BY <2>0 DEF Deliver, JobGoto, IInv, TypeOK
  <2>4. CASE d # c
    BY <2>3, <2>4 DEF IInv, TypeOK, CallInv
  <2>5. CASE d = c
    <3>1. CASE rpc[c] = "load_wait"
      BY <2>0, <2>1, <2>2, <2>3, <2>5, <3>1 DEF IInv, TypeOK, CallInv
    <3>2. CASE rpc[c] = "dl_wait"
      BY <2>1, <2>2, <2>3, <2>5, <3>2 DEF IInv, TypeOK, CallInv
    <3>3. CASE rpc[c] \notin {"load_wait", "dl_wait"}
      BY <2>1, <2>2, <2>3, <2>5, <3>3 DEF IInv, TypeOK, CallInv
    <3>4. QED
      BY <3>1, <3>2, <3>3
  <2>6. QED
    BY <2>4, <2>5
<1>20. ASSUME NEW c \in Calls, JobFails(c) PROVE CallInv(d)'
  <2>0. /\ job[c] = "running" /\ job' = [job EXCEPT ![c] = "closing"]
        /\ UNCHANGED <<op, rpc, hid>>
        /\ inst' = [inst EXCEPT ![c] = NoInstance]
    BY <1>20 DEF JobFails, JobGoto
  <2>1. CASE d # c
    BY <2>0, <2>1 DEF IInv, TypeOK, CallInv
  <2>2. CASE d = c
    BY <2>0, <2>2 DEF IInv, TypeOK, CallInv
  <2>3. QED
    BY <2>1, <2>2
<1>21. ASSUME NEW c \in Calls, JobEnds(c) PROVE CallInv(d)'
  BY <1>21 DEF IInv, TypeOK, CallInv, JobEnds, JobGoto, Decrement
<1>22. ASSUME NEW c \in Calls, Cancel(c) PROVE CallInv(d)'
  <2>0. /\ rpc[c] \in AwaitPoint /\ rpc' = [rpc EXCEPT ![c] = "cancelled"]
        /\ UNCHANGED <<op, job, hid>>
        /\ \A e \in Calls \ {c} : inst'[e] = inst[e]
        /\ \/ inst'[c] = NoInstance /\ rpc[c] \in {"dl_lock", "load_insert", "dl_return"}
           \/ inst'[c] = inst[c]
    BY <1>22 DEF Cancel, DropFuture, IInv, TypeOK
  <2>1. CASE d # c
    BY <2>0, <2>1 DEF IInv, TypeOK, CallInv
  <2>2. CASE d = c
    BY <2>0, <2>2 DEF IInv, TypeOK, CallInv, AwaitPoint
  <2>3. QED
    BY <2>1, <2>2
<1>23. CASE UNCHANGED vars
  BY <1>23 DEF IInv, CallInv, vars
<1>24. QED
  BY <1>1, <1>2, <1>3, <1>4, <1>5, <1>6, <1>7, <1>8, <1>9, <1>10, <1>11, <1>12, <1>13, <1>14, <1>15, <1>16, <1>17, <1>18, <1>19, <1>20, <1>21, <1>22, <1>23 DEF Next, Client, Future, Worker, Done

-----------------------------------------------------------------------------
(* What a step does to the counter                                         *)

\* The counter keeps counting the owners.
LEMMA CounterStep == IInv /\ [Next]_vars => CounterMatchesWork'
<1> SUFFICES ASSUME IInv, [Next]_vars PROVE CounterMatchesWork'
  OBVIOUS
<1>0. CounterMatchesWork
  BY DEF IInv
<1>1. ASSUME NEW c \in Calls, DecodeShortcut(c) PROVE CounterMatchesWork'
  <2>1. \A d \in Calls : Holder(d)' <=> Holder(d)
    BY <1>1 DEF IInv, TypeOK, CallInv, Holder, JobAlive, DecodeShortcut, Begin
  <2>2. QED
    BY <1>0, <1>1, <2>1, CountSame DEF DecodeShortcut
<1>2. ASSUME NEW c \in Calls, Decode(c) PROVE CounterMatchesWork'
  <2>1. /\ ~Holder(c) /\ Holder(c)'
        /\ \A d \in Calls \ {c} : Holder(d)' <=> Holder(d)
    BY <1>2 DEF IInv, TypeOK, CallInv, Holder, JobAlive, Decode, Begin, JobGoto, Increment
  <2>2. QED
    BY <1>0, <1>2, <2>1, CountAdd DEF Decode, Increment
<1>3. ASSUME NEW c \in Calls, LoadHypergraph(c) PROVE CounterMatchesWork'
  <2>1. \A d \in Calls : Holder(d)' <=> Holder(d)
    BY <1>3 DEF IInv, TypeOK, CallInv, Holder, JobAlive, LoadHypergraph, Begin
  <2>2. QED
    BY <1>0, <1>3, <2>1, CountSame DEF LoadHypergraph
<1>4. ASSUME NEW c \in Calls, DecodeLoaded(c) PROVE CounterMatchesWork'
  <2>1. /\ ~Holder(c) /\ Holder(c)'
        /\ \A d \in Calls \ {c} : Holder(d)' <=> Holder(d)
    BY <1>4 DEF IInv, TypeOK, CallInv, Holder, JobAlive, DecodeLoaded, Begin, Increment
  <2>2. QED
    BY <1>0, <1>4, <2>1, CountAdd DEF DecodeLoaded, Increment
<1>5. ASSUME NEW c \in Calls, ResetHypergraphs(c) PROVE CounterMatchesWork'
  <2>1. \A d \in Calls : Holder(d)' <=> Holder(d)
    BY <1>5 DEF IInv, TypeOK, CallInv, Holder, JobAlive, ResetHypergraphs, Begin
  <2>2. QED
    BY <1>0, <1>5, <2>1, CountSame DEF ResetHypergraphs
<1>6. ASSUME NEW c \in Calls, ResetPlain(c) PROVE CounterMatchesWork'
  <2>1. \A d \in Calls : Holder(d)' <=> Holder(d)
    BY <1>6 DEF IInv, TypeOK, CallInv, Holder, JobAlive, ResetPlain, Begin
  <2>2. QED
    BY <1>0, <1>6, <2>1, CountSame DEF ResetPlain
<1>7. ASSUME NEW c \in Calls, LoadSpawn(c) PROVE CounterMatchesWork'
  <2>1. /\ ~Holder(c) /\ Holder(c)'
        /\ \A d \in Calls \ {c} : Holder(d)' <=> Holder(d)
    BY <1>7 DEF IInv, TypeOK, CallInv, Holder, JobAlive, LoadSpawn, Goto, JobGoto, Increment
  <2>2. QED
    BY <1>0, <1>7, <2>1, CountAdd DEF LoadSpawn, Increment
<1>8. ASSUME NEW c \in Calls, LoadInsert(c) PROVE CounterMatchesWork'
  <2>1. /\ Holder(c) /\ ~Holder(c)'
        /\ \A d \in Calls \ {c} : Holder(d)' <=> Holder(d)
    BY <1>8 DEF IInv, TypeOK, CallInv, Holder, JobAlive, LoadInsert, Goto, Decrement
  <2>2. QED
    BY <1>0, <1>8, <2>1, CountRemove DEF LoadInsert, Decrement
<1>9. ASSUME NEW c \in Calls, LookupReturns(c) PROVE CounterMatchesWork'
  <2>1. /\ Holder(c) /\ ~Holder(c)'
        /\ \A d \in Calls \ {c} : Holder(d)' <=> Holder(d)
    BY <1>9 DEF IInv, TypeOK, CallInv, Holder, JobAlive, LookupReturns, Goto, Decrement
  <2>2. QED
    BY <1>0, <1>9, <2>1, CountRemove DEF LookupReturns, Decrement
<1>10. ASSUME NEW c \in Calls, LookupSpawns(c) PROVE CounterMatchesWork'
  <2>1. \A d \in Calls : Holder(d)' <=> Holder(d)
    BY <1>10 DEF IInv, TypeOK, CallInv, Holder, JobAlive, LookupSpawns, Goto, JobGoto
  <2>2. QED
    BY <1>0, <1>10, <2>1, CountSame DEF LookupSpawns
<1>11. ASSUME NEW c \in Calls, ReturnInstance(c) PROVE CounterMatchesWork'
  <2>1. /\ Holder(c) /\ ~Holder(c)'
        /\ \A d \in Calls \ {c} : Holder(d)' <=> Holder(d)
    BY <1>11 DEF IInv, TypeOK, CallInv, Holder, JobAlive, ReturnInstance, Goto, Decrement
  <2>2. QED
    BY <1>0, <1>11, <2>1, CountRemove DEF ReturnInstance, Decrement
<1>12. ASSUME NEW c \in Calls, RpcFails(c) PROVE CounterMatchesWork'
  <2>1. \A d \in Calls : Holder(d)' <=> Holder(d)
    BY <1>12 DEF IInv, TypeOK, CallInv, Holder, JobAlive, RpcFails, Goto
  <2>2. QED
    BY <1>0, <1>12, <2>1, CountSame DEF RpcFails
<1>13. ASSUME NEW c \in Calls, ResetCheck(c) PROVE CounterMatchesWork'
  <2>1. \A d \in Calls : Holder(d)' <=> Holder(d)
    BY <1>13 DEF IInv, TypeOK, CallInv, Holder, JobAlive, ResetCheck, Goto
  <2>2. QED
    BY <1>0, <1>13, <2>1, CountSame DEF ResetCheck
<1>14. ASSUME NEW c \in Calls, ResetClear(c) PROVE CounterMatchesWork'
  <2>1. \A d \in Calls : Holder(d)' <=> Holder(d)
    BY <1>14 DEF IInv, TypeOK, CallInv, Holder, JobAlive, ResetClear, Goto
  <2>2. QED
    BY <1>0, <1>14, <2>1, CountSame DEF ResetClear
<1>15. ASSUME NEW c \in Calls, ResetWake(c) PROVE CounterMatchesWork'
  <2>1. \A d \in Calls : Holder(d)' <=> Holder(d)
    BY <1>15 DEF IInv, TypeOK, CallInv, Holder, JobAlive, ResetWake, Goto
  <2>2. QED
    BY <1>0, <1>15, <2>1, CountSame DEF ResetWake
<1>16. ASSUME NEW c \in Calls, PlainWake(c) PROVE CounterMatchesWork'
  <2>1. \A d \in Calls : Holder(d)' <=> Holder(d)
    BY <1>16 DEF IInv, TypeOK, CallInv, Holder, JobAlive, PlainWake, Goto
  <2>2. QED
    BY <1>0, <1>16, <2>1, CountSame DEF PlainWake
<1>17. ASSUME NEW c \in Calls, JobStart(c) PROVE CounterMatchesWork'
  <2>1. \A d \in Calls : Holder(d)' <=> Holder(d)
    BY <1>17 DEF IInv, TypeOK, CallInv, Holder, JobAlive, JobStart, JobGoto
  <2>2. QED
    BY <1>0, <1>17, <2>1, CountSame DEF JobStart
<1>18. ASSUME NEW c \in Calls, JobAnswersDecode(c) PROVE CounterMatchesWork'
  <2>1. \A d \in Calls : Holder(d)' <=> Holder(d)
    BY <1>18 DEF IInv, TypeOK, CallInv, Holder, JobAlive, JobAnswersDecode, JobGoto
  <2>2. QED
    BY <1>0, <1>18, <2>1, CountSame DEF JobAnswersDecode
<1>19. ASSUME NEW c \in Calls, JobDelivers(c) PROVE CounterMatchesWork'
  <2>0. PICK payload \in {NoInstance, [inst[c] EXCEPT !.dirty = FALSE]} : Deliver(c, payload)
    BY <1>19 DEF JobDelivers
  <2>1. CASE rpc[c] \in {"load_wait", "dl_wait"}
    <3>1. \A d \in Calls : Holder(d)' <=> Holder(d)
      BY <2>0, <2>1 DEF IInv, TypeOK, Deliver, JobGoto, Holder, JobAlive
    <3>2. decoding' = decoding
      BY <2>0, <2>1 DEF Deliver
    <3>3. QED
      BY <1>0, <3>1, <3>2, CountSame
  <2>2. CASE rpc[c] \notin {"load_wait", "dl_wait"}
    <3>1. /\ Holder(c) /\ ~Holder(c)'
          /\ \A d \in Calls \ {c} : Holder(d)' <=> Holder(d)
      BY <2>0, <2>2 DEF IInv, TypeOK, CallInv, Deliver, JobGoto, Holder, JobAlive
    <3>2. decoding' = decoding - 1
      BY <2>0, <2>2 DEF Deliver
    <3>3. QED
      BY <1>0, <3>1, <3>2, CountRemove
  <2>3. QED
    BY <2>1, <2>2
<1>20. ASSUME NEW c \in Calls, JobFails(c) PROVE CounterMatchesWork'
  <2>1. \A d \in Calls : Holder(d)' <=> Holder(d)
    BY <1>20 DEF IInv, TypeOK, CallInv, Holder, JobAlive, JobFails, JobGoto
  <2>2. QED
    BY <1>0, <1>20, <2>1, CountSame DEF JobFails
<1>21. ASSUME NEW c \in Calls, JobEnds(c) PROVE CounterMatchesWork'
  <2>1. /\ Holder(c) /\ ~Holder(c)'
        /\ \A d \in Calls \ {c} : Holder(d)' <=> Holder(d)
    BY <1>21 DEF IInv, TypeOK, CallInv, Holder, JobAlive, JobEnds, JobGoto, Decrement
  <2>2. QED
    BY <1>0, <1>21, <2>1, CountRemove DEF JobEnds, Decrement
<1>22. ASSUME NEW c \in Calls, Cancel(c) PROVE CounterMatchesWork'
  <2>1. CASE rpc[c] \in {"dl_lock", "load_insert", "dl_return"}
    <3>1. /\ Holder(c) /\ ~Holder(c)'
          /\ \A d \in Calls \ {c} : Holder(d)' <=> Holder(d)
      BY <1>22, <2>1 DEF IInv, TypeOK, CallInv, Holder, JobAlive, Cancel, DropFuture, AwaitPoint
    <3>2. decoding' = decoding - 1
      BY <1>22, <2>1 DEF Cancel, DropFuture
    <3>3. QED
      BY <1>0, <3>1, <3>2, CountRemove
  <2>2. CASE rpc[c] \notin {"dl_lock", "load_insert", "dl_return"}
    <3>1. \A d \in Calls : Holder(d)' <=> Holder(d)
      BY <1>22, <2>2 DEF IInv, TypeOK, CallInv, Holder, JobAlive, Cancel, DropFuture, AwaitPoint
    <3>2. decoding' = decoding
      BY <1>22, <2>2 DEF Cancel, DropFuture
    <3>3. QED
      BY <1>0, <3>1, <3>2, CountSame
  <2>3. QED
    BY <2>1, <2>2
<1>23. CASE UNCHANGED vars
  BY <1>0, <1>23 DEF CounterMatchesWork, Holders, Holder, vars
<1>24. QED
  BY <1>1, <1>2, <1>3, <1>4, <1>5, <1>6, <1>7, <1>8, <1>9, <1>10, <1>11, <1>12, <1>13, <1>14, <1>15, <1>16, <1>17, <1>18, <1>19, <1>20, <1>21, <1>22, <1>23 DEF Next, Client, Future, Worker, Done

-----------------------------------------------------------------------------
(* The mutex, the handles, the drained work and the pools                  *)

\* Nothing starts on a hypergraph while reset clears them.
LEMMA ClearStep == IInv /\ [Next]_vars => ClearInv'
<1> SUFFICES ASSUME IInv, [Next]_vars PROVE ClearInv'
  OBVIOUS
<1>1. ASSUME NEW c \in Calls, DecodeShortcut(c) PROVE ClearInv'
  BY <1>1 DEF IInv, TypeOK, CallInv, ClearInv, CheckedOut, JobAlive, DecodeShortcut, Begin
<1>2. ASSUME NEW c \in Calls, Decode(c) PROVE ClearInv'
  BY <1>2 DEF IInv, TypeOK, CallInv, ClearInv, CheckedOut, JobAlive, Decode, Begin, JobGoto, Increment
<1>3. ASSUME NEW c \in Calls, LoadHypergraph(c) PROVE ClearInv'
  BY <1>3 DEF IInv, TypeOK, CallInv, ClearInv, CheckedOut, JobAlive, LoadHypergraph, Begin
<1>4. ASSUME NEW c \in Calls, DecodeLoaded(c) PROVE ClearInv'
  BY <1>4 DEF IInv, TypeOK, CallInv, ClearInv, CheckedOut, JobAlive, DecodeLoaded, Begin, Increment
<1>5. ASSUME NEW c \in Calls, ResetHypergraphs(c) PROVE ClearInv'
  BY <1>5 DEF IInv, TypeOK, CallInv, ClearInv, CheckedOut, JobAlive, ResetHypergraphs, Begin
<1>6. ASSUME NEW c \in Calls, ResetPlain(c) PROVE ClearInv'
  BY <1>6 DEF IInv, TypeOK, CallInv, ClearInv, CheckedOut, JobAlive, ResetPlain, Begin
<1>7. ASSUME NEW c \in Calls, LoadSpawn(c) PROVE ClearInv'
  BY <1>7 DEF IInv, TypeOK, CallInv, ClearInv, CheckedOut, JobAlive, LoadSpawn, Goto, JobGoto, Increment
<1>8. ASSUME NEW c \in Calls, LoadInsert(c) PROVE ClearInv'
  BY <1>8 DEF IInv, TypeOK, CallInv, ClearInv, CheckedOut, JobAlive, LoadInsert, Goto, Decrement
<1>9. ASSUME NEW c \in Calls, LookupReturns(c) PROVE ClearInv'
  <2>1. /\ UNCHANGED <<op, job>>
        /\ \E reply \in {"returned", "failed", "not_found"} : rpc' = [rpc EXCEPT ![c] = reply]
    BY <1>9 DEF LookupReturns, Goto
  <2>2. QED
    BY <2>1 DEF IInv, TypeOK, ClearInv, CheckedOut
<1>10. ASSUME NEW c \in Calls, LookupSpawns(c) PROVE ClearInv'
  <2>1. \A r \in Calls : rpc'[r] # "reset_clear"
    BY <1>10 DEF IInv, TypeOK, LookupSpawns, LockFree, Goto
  <2>2. QED
    BY <2>1 DEF ClearInv
<1>11. ASSUME NEW c \in Calls, ReturnInstance(c) PROVE ClearInv'
  BY <1>11 DEF IInv, TypeOK, CallInv, ClearInv, CheckedOut, JobAlive, ReturnInstance, Goto, Decrement
<1>12. ASSUME NEW c \in Calls, RpcFails(c) PROVE ClearInv'
  BY <1>12 DEF IInv, TypeOK, CallInv, ClearInv, CheckedOut, JobAlive, RpcFails, Goto
<1>13. ASSUME NEW c \in Calls, ResetCheck(c) PROVE ClearInv'
  <2>1. CASE decoding = 0
    <3>1. \A d \in Calls : ~CheckedOut(d)
      BY <2>1, ZeroMeansIdle DEF IInv, CheckedOut, Holder
    <3>2. QED
      BY <1>13, <3>1 DEF IInv, TypeOK, ClearInv, CheckedOut, ResetCheck, Goto
  <2>2. CASE decoding # 0
    BY <1>13, <2>2 DEF IInv, TypeOK, ClearInv, CheckedOut, ResetCheck, Goto
  <2>3. QED
    BY <2>1, <2>2
<1>14. ASSUME NEW c \in Calls, ResetClear(c) PROVE ClearInv'
  BY <1>14 DEF IInv, TypeOK, CallInv, ClearInv, CheckedOut, JobAlive, ResetClear, Goto
<1>15. ASSUME NEW c \in Calls, ResetWake(c) PROVE ClearInv'
  BY <1>15 DEF IInv, TypeOK, CallInv, ClearInv, CheckedOut, JobAlive, ResetWake, Goto
<1>16. ASSUME NEW c \in Calls, PlainWake(c) PROVE ClearInv'
  BY <1>16 DEF IInv, TypeOK, CallInv, ClearInv, CheckedOut, JobAlive, PlainWake, Goto
<1>17. ASSUME NEW c \in Calls, JobStart(c) PROVE ClearInv'
  BY <1>17 DEF IInv, TypeOK, CallInv, ClearInv, CheckedOut, JobAlive, JobStart, JobGoto
<1>18. ASSUME NEW c \in Calls, JobAnswersDecode(c) PROVE ClearInv'
  BY <1>18 DEF IInv, TypeOK, CallInv, ClearInv, CheckedOut, JobAlive, JobAnswersDecode, JobGoto
<1>19. ASSUME NEW c \in Calls, JobDelivers(c) PROVE ClearInv'
  BY <1>19 DEF IInv, TypeOK, CallInv, ClearInv, CheckedOut, JobAlive, JobDelivers, Deliver, JobGoto
<1>20. ASSUME NEW c \in Calls, JobFails(c) PROVE ClearInv'
  BY <1>20 DEF IInv, TypeOK, CallInv, ClearInv, CheckedOut, JobAlive, JobFails, JobGoto
<1>21. ASSUME NEW c \in Calls, JobEnds(c) PROVE ClearInv'
  BY <1>21 DEF IInv, TypeOK, CallInv, ClearInv, CheckedOut, JobAlive, JobEnds, JobGoto, Decrement
<1>22. ASSUME NEW c \in Calls, Cancel(c) PROVE ClearInv'
  BY <1>22 DEF IInv, TypeOK, CallInv, ClearInv, CheckedOut, JobAlive, Cancel, DropFuture, AwaitPoint
<1>23. CASE UNCHANGED vars
  BY <1>23 DEF IInv, TypeOK, CallInv, ClearInv, CheckedOut, JobAlive, vars
<1>24. QED
  BY <1>1, <1>2, <1>3, <1>4, <1>5, <1>6, <1>7, <1>8, <1>9, <1>10, <1>11, <1>12, <1>13, <1>14, <1>15, <1>16, <1>17, <1>18, <1>19, <1>20, <1>21, <1>22, <1>23 DEF Next, Client, Future, Worker, Done

\* The handle of work in progress stays loaded.
LEMMA HandleStep == IInv /\ [Next]_vars => HandleStable'
<1> SUFFICES ASSUME IInv, [Next]_vars PROVE HandleStable'
  OBVIOUS
<1>1. ASSUME NEW c \in Calls, DecodeShortcut(c) PROVE HandleStable'
  BY <1>1 DEF IInv, TypeOK, CallInv, ClearInv, HandleStable, CheckedOut, JobAlive, LockFree, DecodeShortcut, Begin
<1>2. ASSUME NEW c \in Calls, Decode(c) PROVE HandleStable'
  BY <1>2 DEF IInv, TypeOK, CallInv, ClearInv, HandleStable, CheckedOut, JobAlive, LockFree, Decode, Begin, JobGoto, Increment
<1>3. ASSUME NEW c \in Calls, LoadHypergraph(c) PROVE HandleStable'
  BY <1>3 DEF IInv, TypeOK, CallInv, ClearInv, HandleStable, CheckedOut, JobAlive, LockFree, LoadHypergraph, Begin
<1>4. ASSUME NEW c \in Calls, DecodeLoaded(c) PROVE HandleStable'
  BY <1>4 DEF IInv, TypeOK, CallInv, ClearInv, HandleStable, CheckedOut, JobAlive, LockFree, DecodeLoaded, Begin, Increment
<1>5. ASSUME NEW c \in Calls, ResetHypergraphs(c) PROVE HandleStable'
  BY <1>5 DEF IInv, TypeOK, CallInv, ClearInv, HandleStable, CheckedOut, JobAlive, LockFree, ResetHypergraphs, Begin
<1>6. ASSUME NEW c \in Calls, ResetPlain(c) PROVE HandleStable'
  BY <1>6 DEF IInv, TypeOK, CallInv, ClearInv, HandleStable, CheckedOut, JobAlive, LockFree, ResetPlain, Begin
<1>7. ASSUME NEW c \in Calls, LoadSpawn(c) PROVE HandleStable'
  BY <1>7 DEF IInv, TypeOK, CallInv, ClearInv, HandleStable, CheckedOut, JobAlive, LockFree, LoadSpawn, Goto, JobGoto, Increment
<1>8. ASSUME NEW c \in Calls, LoadInsert(c) PROVE HandleStable'
  BY <1>8 DEF IInv, TypeOK, CallInv, ClearInv, HandleStable, CheckedOut, JobAlive, LockFree, LoadInsert, Goto, Decrement
<1>9. ASSUME NEW c \in Calls, LookupReturns(c) PROVE HandleStable'
  BY <1>9 DEF IInv, TypeOK, CallInv, ClearInv, HandleStable, CheckedOut, JobAlive, LockFree, LookupReturns, Goto, Decrement
<1>10. ASSUME NEW c \in Calls, LookupSpawns(c) PROVE HandleStable'
  BY <1>10 DEF IInv, TypeOK, CallInv, ClearInv, HandleStable, CheckedOut, JobAlive, LockFree, LookupSpawns, Goto, JobGoto
<1>11. ASSUME NEW c \in Calls, ReturnInstance(c) PROVE HandleStable'
  BY <1>11 DEF IInv, TypeOK, CallInv, ClearInv, HandleStable, CheckedOut, JobAlive, LockFree, ReturnInstance, Goto, Decrement
<1>12. ASSUME NEW c \in Calls, RpcFails(c) PROVE HandleStable'
  BY <1>12 DEF IInv, TypeOK, CallInv, ClearInv, HandleStable, CheckedOut, JobAlive, LockFree, RpcFails, Goto
<1>13. ASSUME NEW c \in Calls, ResetCheck(c) PROVE HandleStable'
  BY <1>13 DEF IInv, TypeOK, CallInv, ClearInv, HandleStable, CheckedOut, JobAlive, LockFree, ResetCheck, Goto
<1>14. ASSUME NEW c \in Calls, ResetClear(c) PROVE HandleStable'
  BY <1>14 DEF IInv, TypeOK, CallInv, ClearInv, HandleStable, CheckedOut, JobAlive, LockFree, ResetClear, Goto
<1>15. ASSUME NEW c \in Calls, ResetWake(c) PROVE HandleStable'
  BY <1>15 DEF IInv, TypeOK, CallInv, ClearInv, HandleStable, CheckedOut, JobAlive, LockFree, ResetWake, Goto
<1>16. ASSUME NEW c \in Calls, PlainWake(c) PROVE HandleStable'
  BY <1>16 DEF IInv, TypeOK, CallInv, ClearInv, HandleStable, CheckedOut, JobAlive, LockFree, PlainWake, Goto
<1>17. ASSUME NEW c \in Calls, JobStart(c) PROVE HandleStable'
  BY <1>17 DEF IInv, TypeOK, CallInv, ClearInv, HandleStable, CheckedOut, JobAlive, LockFree, JobStart, JobGoto
<1>18. ASSUME NEW c \in Calls, JobAnswersDecode(c) PROVE HandleStable'
  BY <1>18 DEF IInv, TypeOK, CallInv, ClearInv, HandleStable, CheckedOut, JobAlive, LockFree, JobAnswersDecode, JobGoto
<1>19. ASSUME NEW c \in Calls, JobDelivers(c) PROVE HandleStable'
  BY <1>19 DEF IInv, TypeOK, CallInv, ClearInv, HandleStable, CheckedOut, JobAlive, LockFree, JobDelivers, Deliver, JobGoto
<1>20. ASSUME NEW c \in Calls, JobFails(c) PROVE HandleStable'
  BY <1>20 DEF IInv, TypeOK, CallInv, ClearInv, HandleStable, CheckedOut, JobAlive, LockFree, JobFails, JobGoto
<1>21. ASSUME NEW c \in Calls, JobEnds(c) PROVE HandleStable'
  BY <1>21 DEF IInv, TypeOK, CallInv, ClearInv, HandleStable, CheckedOut, JobAlive, LockFree, JobEnds, JobGoto, Decrement
<1>22. ASSUME NEW c \in Calls, Cancel(c) PROVE HandleStable'
  BY <1>22 DEF IInv, TypeOK, CallInv, ClearInv, HandleStable, CheckedOut, JobAlive, LockFree, Cancel, DropFuture, AwaitPoint
<1>23. CASE UNCHANGED vars
  BY <1>23 DEF IInv, TypeOK, CallInv, ClearInv, HandleStable, CheckedOut, JobAlive, LockFree, vars
<1>24. QED
  BY <1>1, <1>2, <1>3, <1>4, <1>5, <1>6, <1>7, <1>8, <1>9, <1>10, <1>11, <1>12, <1>13, <1>14, <1>15, <1>16, <1>17, <1>18, <1>19, <1>20, <1>21, <1>22, <1>23 DEF Next, Client, Future, Worker, Done

\* What was at work when a reset began is over when it returns.
LEMMA DrainStep == IInv /\ [Next]_vars => DrainInv'
<1> SUFFICES ASSUME IInv, [Next]_vars PROVE DrainInv'
  OBVIOUS
<1>1. ASSUME NEW c \in Calls, DecodeShortcut(c) PROVE DrainInv'
  BY <1>1 DEF IInv, TypeOK, CallInv, DrainInv, Holder, JobAlive, DecodeShortcut, Begin
<1>2. ASSUME NEW c \in Calls, Decode(c) PROVE DrainInv'
  BY <1>2 DEF IInv, TypeOK, CallInv, DrainInv, Holder, JobAlive, Decode, Begin, JobGoto, Increment
<1>3. ASSUME NEW c \in Calls, LoadHypergraph(c) PROVE DrainInv'
  BY <1>3 DEF IInv, TypeOK, CallInv, DrainInv, Holder, JobAlive, LoadHypergraph, Begin
<1>4. ASSUME NEW c \in Calls, DecodeLoaded(c) PROVE DrainInv'
  BY <1>4 DEF IInv, TypeOK, CallInv, DrainInv, Holder, JobAlive, DecodeLoaded, Begin, Increment
<1>5. ASSUME NEW c \in Calls, ResetHypergraphs(c) PROVE DrainInv'
  <2>1. \A d \in Holders : d \in Calls /\ Holder(d) /\ rpc[d] \notin {"idle", "load_hid"}
    BY DEF IInv, CallInv, Holders, Holder, JobAlive
  <2>2. \A d \in Calls : Holder(d)' <=> Holder(d)
    BY <1>5 DEF IInv, TypeOK, ResetHypergraphs, Begin, Holder, JobAlive
  <2>3. rpc[c] = "idle" /\ c \notin Holders
    BY <1>5, <2>1 DEF ResetHypergraphs, Begin
  <2>4. QED
    BY <1>5, <2>1, <2>2, <2>3 DEF IInv, TypeOK, DrainInv, ResetHypergraphs, Begin
<1>6. ASSUME NEW c \in Calls, ResetPlain(c) PROVE DrainInv'
  <2>1. \A d \in Holders : d \in Calls /\ Holder(d) /\ rpc[d] \notin {"idle", "load_hid"}
    BY DEF IInv, CallInv, Holders, Holder, JobAlive
  <2>2. \A d \in Calls : Holder(d)' <=> Holder(d)
    BY <1>6 DEF IInv, TypeOK, ResetPlain, Begin, Holder, JobAlive
  <2>3. rpc[c] = "idle" /\ c \notin Holders
    BY <1>6, <2>1 DEF ResetPlain, Begin
  <2>4. decoding = 0 => \A d \in Calls : ~Holder(d)
    BY ZeroMeansIdle DEF IInv
  <2>5. QED
    BY <1>6, <2>1, <2>2, <2>3, <2>4 DEF IInv, TypeOK, DrainInv, ResetPlain, Begin
<1>7. ASSUME NEW c \in Calls, LoadSpawn(c) PROVE DrainInv'
  BY <1>7 DEF IInv, TypeOK, CallInv, DrainInv, Holder, JobAlive, LoadSpawn, Goto, JobGoto, Increment
<1>8. ASSUME NEW c \in Calls, LoadInsert(c) PROVE DrainInv'
  BY <1>8 DEF IInv, TypeOK, CallInv, DrainInv, Holder, JobAlive, LoadInsert, Goto, Decrement
<1>9. ASSUME NEW c \in Calls, LookupReturns(c) PROVE DrainInv'
  BY <1>9 DEF IInv, TypeOK, CallInv, DrainInv, Holder, JobAlive, LookupReturns, Goto, Decrement
<1>10. ASSUME NEW c \in Calls, LookupSpawns(c) PROVE DrainInv'
  BY <1>10 DEF IInv, TypeOK, CallInv, DrainInv, Holder, JobAlive, LookupSpawns, Goto, JobGoto
<1>11. ASSUME NEW c \in Calls, ReturnInstance(c) PROVE DrainInv'
  BY <1>11 DEF IInv, TypeOK, CallInv, DrainInv, Holder, JobAlive, ReturnInstance, Goto, Decrement
<1>12. ASSUME NEW c \in Calls, RpcFails(c) PROVE DrainInv'
  BY <1>12 DEF IInv, TypeOK, CallInv, DrainInv, Holder, JobAlive, RpcFails, Goto
<1>13. ASSUME NEW c \in Calls, ResetCheck(c) PROVE DrainInv'
  <2>1. \A d \in Calls : Holder(d)' <=> Holder(d)
    BY <1>13 DEF IInv, TypeOK, ResetCheck, Goto, Holder
  <2>2. decoding = 0 => \A d \in Calls : ~Holder(d)
    BY ZeroMeansIdle DEF IInv
  <2>3. QED
    BY <1>13, <2>1, <2>2 DEF IInv, TypeOK, DrainInv, ResetCheck, Goto
<1>14. ASSUME NEW c \in Calls, ResetClear(c) PROVE DrainInv'
  BY <1>14 DEF IInv, TypeOK, CallInv, DrainInv, Holder, JobAlive, ResetClear, Goto
<1>15. ASSUME NEW c \in Calls, ResetWake(c) PROVE DrainInv'
  BY <1>15 DEF IInv, TypeOK, CallInv, DrainInv, Holder, JobAlive, ResetWake, Goto
<1>16. ASSUME NEW c \in Calls, PlainWake(c) PROVE DrainInv'
  <2>1. \A d \in Calls : Holder(d)' <=> Holder(d)
    BY <1>16 DEF IInv, TypeOK, PlainWake, Goto, Holder
  <2>2. \A d \in Calls : ~Holder(d)
    BY <1>16, ZeroMeansIdle DEF IInv, PlainWake
  <2>3. QED
    BY <1>16, <2>1, <2>2 DEF IInv, TypeOK, DrainInv, PlainWake, Goto
<1>17. ASSUME NEW c \in Calls, JobStart(c) PROVE DrainInv'
  BY <1>17 DEF IInv, TypeOK, CallInv, DrainInv, Holder, JobAlive, JobStart, JobGoto
<1>18. ASSUME NEW c \in Calls, JobAnswersDecode(c) PROVE DrainInv'
  BY <1>18 DEF IInv, TypeOK, CallInv, DrainInv, Holder, JobAlive, JobAnswersDecode, JobGoto
<1>19. ASSUME NEW c \in Calls, JobDelivers(c) PROVE DrainInv'
  BY <1>19 DEF IInv, TypeOK, CallInv, DrainInv, Holder, JobAlive, JobDelivers, Deliver, JobGoto
<1>20. ASSUME NEW c \in Calls, JobFails(c) PROVE DrainInv'
  BY <1>20 DEF IInv, TypeOK, CallInv, DrainInv, Holder, JobAlive, JobFails, JobGoto
<1>21. ASSUME NEW c \in Calls, JobEnds(c) PROVE DrainInv'
  BY <1>21 DEF IInv, TypeOK, CallInv, DrainInv, Holder, JobAlive, JobEnds, JobGoto, Decrement
<1>22. ASSUME NEW c \in Calls, Cancel(c) PROVE DrainInv'
  BY <1>22 DEF IInv, TypeOK, CallInv, DrainInv, Holder, JobAlive, Cancel, DropFuture, AwaitPoint
<1>23. CASE UNCHANGED vars
  BY <1>23 DEF IInv, TypeOK, CallInv, DrainInv, Holder, JobAlive, vars
<1>24. QED
  BY <1>1, <1>2, <1>3, <1>4, <1>5, <1>6, <1>7, <1>8, <1>9, <1>10, <1>11, <1>12, <1>13, <1>14, <1>15, <1>16, <1>17, <1>18, <1>19, <1>20, <1>21, <1>22, <1>23 DEF Next, Client, Future, Worker, Done

\* Only clean instances of the right hypergraph go into a pool.
LEMMA PoolStep == IInv /\ [Next]_vars => PooledInstancesClean'
<1> SUFFICES ASSUME IInv, [Next]_vars PROVE PooledInstancesClean'
  OBVIOUS
<1>1. ASSUME NEW c \in Calls, DecodeShortcut(c) PROVE PooledInstancesClean'
  BY <1>1 DEF IInv, TypeOK, CallInv, PooledInstancesClean, LockFree, DecodeShortcut, Begin
<1>2. ASSUME NEW c \in Calls, Decode(c) PROVE PooledInstancesClean'
  BY <1>2 DEF IInv, TypeOK, CallInv, PooledInstancesClean, LockFree, Decode, Begin, JobGoto, Increment
<1>3. ASSUME NEW c \in Calls, LoadHypergraph(c) PROVE PooledInstancesClean'
  BY <1>3 DEF IInv, TypeOK, CallInv, PooledInstancesClean, LockFree, LoadHypergraph, Begin
<1>4. ASSUME NEW c \in Calls, DecodeLoaded(c) PROVE PooledInstancesClean'
  BY <1>4 DEF IInv, TypeOK, CallInv, PooledInstancesClean, LockFree, DecodeLoaded, Begin, Increment
<1>5. ASSUME NEW c \in Calls, ResetHypergraphs(c) PROVE PooledInstancesClean'
  BY <1>5 DEF IInv, TypeOK, CallInv, PooledInstancesClean, LockFree, ResetHypergraphs, Begin
<1>6. ASSUME NEW c \in Calls, ResetPlain(c) PROVE PooledInstancesClean'
  BY <1>6 DEF IInv, TypeOK, CallInv, PooledInstancesClean, LockFree, ResetPlain, Begin
<1>7. ASSUME NEW c \in Calls, LoadSpawn(c) PROVE PooledInstancesClean'
  BY <1>7 DEF IInv, TypeOK, CallInv, PooledInstancesClean, LockFree, LoadSpawn, Goto, JobGoto, Increment
<1>8. ASSUME NEW c \in Calls, LoadInsert(c) PROVE PooledInstancesClean'
  BY <1>8 DEF IInv, TypeOK, CallInv, PooledInstancesClean, LockFree, LoadInsert, Goto, Decrement
<1>9. ASSUME NEW c \in Calls, LookupReturns(c) PROVE PooledInstancesClean'
  BY <1>9 DEF IInv, TypeOK, CallInv, PooledInstancesClean, LockFree, LookupReturns, Goto, Decrement
<1>10. ASSUME NEW c \in Calls, LookupSpawns(c) PROVE PooledInstancesClean'
  <2>1. hid[c] \in Hids /\ hid[c] \in loaded /\ UNCHANGED loaded
    BY <1>10 DEF IInv, TypeOK, LookupSpawns
  <2>2. CASE pool[hid[c]] = << >>
    BY <1>10, <2>2 DEF IInv, PooledInstancesClean, LookupSpawns
  <2>3. CASE pool[hid[c]] # << >>
    <3> DEFINE idle == pool[hid[c]]
               rest == SubSeq(idle, 1, Len(idle) - 1)
    <3>1. idle \in Seq(Instance) /\ idle # << >>
      BY <2>1, <2>3 DEF IInv, TypeOK
    <3>2. DOMAIN rest \subseteq DOMAIN idle /\ \A i \in DOMAIN rest : rest[i] = idle[i]
      BY <3>1
    <3>3. \A i \in DOMAIN rest : rest[i] = NewInstance(hid[c])
      BY <2>1, <3>2 DEF IInv, PooledInstancesClean
    <3>4. pool' = [pool EXCEPT ![hid[c]] = rest]
      BY <1>10, <2>3 DEF LookupSpawns
    <3>5. QED
      BY <2>1, <3>3, <3>4 DEF IInv, TypeOK, PooledInstancesClean
  <2>4. QED
    BY <2>2, <2>3
<1>11. ASSUME NEW c \in Calls, ReturnInstance(c) PROVE PooledInstancesClean'
  <2>1. hid[c] \in Hids /\ UNCHANGED loaded /\ inst[c] \in {NoInstance, NewInstance(hid[c])}
    BY <1>11 DEF IInv, CallInv, ReturnInstance, Goto
  <2>2. CASE pool' = pool
    BY <2>1, <2>2 DEF IInv, PooledInstancesClean
  <2>3. CASE /\ inst[c] = NewInstance(hid[c]) /\ hid[c] \in loaded
             /\ pool' = [pool EXCEPT ![hid[c]] = Append(@, inst[c])]
    <3> DEFINE more == Append(pool[hid[c]], NewInstance(hid[c]))
    <3>1. pool[hid[c]] \in Seq(Instance)
      BY <2>1 DEF IInv, TypeOK
    <3>2. \A i \in DOMAIN more : more[i] = NewInstance(hid[c])
      BY <2>1, <3>1 DEF IInv, PooledInstancesClean
    <3>3. pool' = [pool EXCEPT ![hid[c]] = more]
      BY <2>3
    <3>4. QED
      BY <2>1, <2>3, <3>2, <3>3 DEF IInv, TypeOK, PooledInstancesClean
  <2>4. QED
    BY <1>11, <2>1, <2>2, <2>3 DEF ReturnInstance
<1>12. ASSUME NEW c \in Calls, RpcFails(c) PROVE PooledInstancesClean'
  BY <1>12 DEF IInv, TypeOK, CallInv, PooledInstancesClean, LockFree, RpcFails, Goto
<1>13. ASSUME NEW c \in Calls, ResetCheck(c) PROVE PooledInstancesClean'
  BY <1>13 DEF IInv, TypeOK, CallInv, PooledInstancesClean, LockFree, ResetCheck, Goto
<1>14. ASSUME NEW c \in Calls, ResetClear(c) PROVE PooledInstancesClean'
  BY <1>14 DEF IInv, TypeOK, CallInv, PooledInstancesClean, LockFree, ResetClear, Goto
<1>15. ASSUME NEW c \in Calls, ResetWake(c) PROVE PooledInstancesClean'
  BY <1>15 DEF IInv, TypeOK, CallInv, PooledInstancesClean, LockFree, ResetWake, Goto
<1>16. ASSUME NEW c \in Calls, PlainWake(c) PROVE PooledInstancesClean'
  BY <1>16 DEF IInv, TypeOK, CallInv, PooledInstancesClean, LockFree, PlainWake, Goto
<1>17. ASSUME NEW c \in Calls, JobStart(c) PROVE PooledInstancesClean'
  BY <1>17 DEF IInv, TypeOK, CallInv, PooledInstancesClean, LockFree, JobStart, JobGoto
<1>18. ASSUME NEW c \in Calls, JobAnswersDecode(c) PROVE PooledInstancesClean'
  BY <1>18 DEF IInv, TypeOK, CallInv, PooledInstancesClean, LockFree, JobAnswersDecode, JobGoto
<1>19. ASSUME NEW c \in Calls, JobDelivers(c) PROVE PooledInstancesClean'
  BY <1>19 DEF IInv, TypeOK, CallInv, PooledInstancesClean, LockFree, JobDelivers, Deliver, JobGoto
<1>20. ASSUME NEW c \in Calls, JobFails(c) PROVE PooledInstancesClean'
  BY <1>20 DEF IInv, TypeOK, CallInv, PooledInstancesClean, LockFree, JobFails, JobGoto
<1>21. ASSUME NEW c \in Calls, JobEnds(c) PROVE PooledInstancesClean'
  BY <1>21 DEF IInv, TypeOK, CallInv, PooledInstancesClean, LockFree, JobEnds, JobGoto, Decrement
<1>22. ASSUME NEW c \in Calls, Cancel(c) PROVE PooledInstancesClean'
  BY <1>22 DEF IInv, TypeOK, CallInv, PooledInstancesClean, LockFree, Cancel, DropFuture, AwaitPoint
<1>23. CASE UNCHANGED vars
  BY <1>23 DEF IInv, TypeOK, CallInv, PooledInstancesClean, LockFree, vars
<1>24. QED
  BY <1>1, <1>2, <1>3, <1>4, <1>5, <1>6, <1>7, <1>8, <1>9, <1>10, <1>11, <1>12, <1>13, <1>14, <1>15, <1>16, <1>17, <1>18, <1>19, <1>20, <1>21, <1>22, <1>23 DEF Next, Client, Future, Worker, Done

-----------------------------------------------------------------------------
(* Types                                                                   *)

\* Types are preserved.
LEMMA TypeStep == IInv /\ [Next]_vars => TypeOK'
<1> SUFFICES ASSUME IInv, [Next]_vars PROVE TypeOK'
  OBVIOUS
<1>0. decoding' \in Nat
  BY CounterStep, HoldersFinitePrimed, FS_CardinalityType DEF CounterMatchesWork
<1>1. ASSUME NEW c \in Calls, DecodeShortcut(c) PROVE TypeOK'
  BY <1>1, <1>0 DEF IInv, TypeOK, RpcPC, JobAlive, Terminal, DecodeShortcut, Begin
<1>2. ASSUME NEW c \in Calls, Decode(c) PROVE TypeOK'
  BY <1>2, <1>0 DEF IInv, TypeOK, RpcPC, JobAlive, Terminal, Decode, Begin, JobGoto, Increment
<1>3. ASSUME NEW c \in Calls, LoadHypergraph(c) PROVE TypeOK'
  BY <1>3, <1>0, PoolAssumption DEF IInv, TypeOK, RpcPC, LoadHypergraph, Begin
<1>4. ASSUME NEW c \in Calls, DecodeLoaded(c) PROVE TypeOK'
  BY <1>4, <1>0, PoolAssumption DEF IInv, TypeOK, RpcPC, DecodeLoaded, Begin, Hids
<1>5. ASSUME NEW c \in Calls, ResetHypergraphs(c) PROVE TypeOK'
  BY <1>5, <1>0 DEF IInv, TypeOK, RpcPC, ResetHypergraphs, Begin, Holders
<1>6. ASSUME NEW c \in Calls, ResetPlain(c) PROVE TypeOK'
  BY <1>6, <1>0 DEF IInv, TypeOK, RpcPC, Terminal, ResetPlain, Begin, Holders
<1>7. ASSUME NEW c \in Calls, LoadSpawn(c) PROVE TypeOK'
  BY <1>7, <1>0 DEF IInv, TypeOK, RpcPC, JobAlive, Terminal, LoadSpawn, Goto, JobGoto, Increment
<1>8. ASSUME NEW c \in Calls, LoadInsert(c) PROVE TypeOK'
  <2>1. hid[c] \in Hids /\ inst[c] = NewInstance(hid[c])
    BY <1>8 DEF IInv, CallInv, LoadInsert, Goto
  <2>2. <<inst[c]>> \in Seq(Instance)
    BY <2>1 DEF NewInstance, Instance
  <2>3. QED
    BY <1>8, <1>0, <2>1, <2>2 DEF IInv, TypeOK, RpcPC, Terminal, LoadInsert, Goto
<1>9. ASSUME NEW c \in Calls, LookupReturns(c) PROVE TypeOK'
  <2>1. \E reply \in {"returned", "failed", "not_found"} : rpc' = [rpc EXCEPT ![c] = reply]
    BY <1>9 DEF LookupReturns, Goto
  <2>2. QED
    BY <1>9, <1>0, <2>1 DEF IInv, TypeOK, RpcPC, Terminal, LookupReturns
<1>10. ASSUME NEW c \in Calls, LookupSpawns(c) PROVE TypeOK'
  <2>1. hid[c] \in Hids /\ pool[hid[c]] \in Seq(Instance)
    BY <1>10 DEF IInv, TypeOK, LookupSpawns
  <2>2. pool' \in [Hids -> Seq(Instance)] /\ inst' \in [Calls -> Instance \cup {NoInstance}]
    <3>1. CASE pool[hid[c]] = << >>
      BY <1>10, <3>1 DEF IInv, TypeOK, LookupSpawns
    <3>2. CASE pool[hid[c]] # << >>
      <4>1. /\ pool[hid[c]][Len(pool[hid[c]])] \in Instance
            /\ SubSeq(pool[hid[c]], 1, Len(pool[hid[c]]) - 1) \in Seq(Instance)
        BY <2>1, <3>2
      <4>2. QED
        BY <1>10, <2>1, <3>2, <4>1 DEF IInv, TypeOK, LookupSpawns
    <3>3. QED
      BY <3>1, <3>2
  <2>3. QED
    BY <1>10, <1>0, <2>2 DEF IInv, TypeOK, RpcPC, JobAlive, LookupSpawns, Goto, JobGoto
<1>11. ASSUME NEW c \in Calls, ReturnInstance(c) PROVE TypeOK'
  <2>1. hid[c] \in Hids /\ inst[c] \in {NoInstance, NewInstance(hid[c])}
    BY <1>11 DEF IInv, CallInv, ReturnInstance, Goto
  <2>2. inst[c] # NoInstance => inst[c] \in Instance
    BY DEF IInv, TypeOK
  <2>3. pool' \in [Hids -> Seq(Instance)]
    <3>1. CASE pool' = pool
      BY <3>1 DEF IInv, TypeOK
    <3>2. CASE inst[c] # NoInstance /\ pool' = [pool EXCEPT ![hid[c]] = Append(@, inst[c])]
      <4>1. Append(pool[hid[c]], inst[c]) \in Seq(Instance)
        BY <2>1, <2>2, <3>2 DEF IInv, TypeOK
      <4>2. QED
        BY <2>1, <3>2, <4>1 DEF IInv, TypeOK
    <3>3. QED
      BY <1>11, <3>1, <3>2 DEF ReturnInstance
  <2>4. QED
    BY <1>11, <1>0, <2>3 DEF IInv, TypeOK, RpcPC, Terminal, ReturnInstance, Goto
<1>12. ASSUME NEW c \in Calls, RpcFails(c) PROVE TypeOK'
  BY <1>12, <1>0 DEF IInv, TypeOK, RpcPC, Terminal, RpcFails, Goto
<1>13. ASSUME NEW c \in Calls, ResetCheck(c) PROVE TypeOK'
  BY <1>13, <1>0 DEF IInv, TypeOK, RpcPC, JobAlive, Terminal, ResetCheck, Goto
<1>14. ASSUME NEW c \in Calls, ResetClear(c) PROVE TypeOK'
  BY <1>14, <1>0 DEF IInv, TypeOK, RpcPC, JobAlive, Terminal, ResetClear, Goto
<1>15. ASSUME NEW c \in Calls, ResetWake(c) PROVE TypeOK'
  BY <1>15, <1>0 DEF IInv, TypeOK, RpcPC, JobAlive, Terminal, ResetWake, Goto
<1>16. ASSUME NEW c \in Calls, PlainWake(c) PROVE TypeOK'
  BY <1>16, <1>0 DEF IInv, TypeOK, RpcPC, JobAlive, Terminal, PlainWake, Goto
<1>17. ASSUME NEW c \in Calls, JobStart(c) PROVE TypeOK'
  <2>1. inst'[c] \in Instance \cup {NoInstance}
    <3>1. CASE op[c] = "decode"
      BY <1>17, <3>1 DEF IInv, TypeOK, JobStart
    <3>2. CASE op[c] # "decode"
      <4>1. hid[c] \in Hids /\ inst[c] \in {NoInstance, NewInstance(hid[c])}
        BY <1>17, <3>2 DEF IInv, TypeOK, CallInv, JobStart, JobGoto
      <4>2. inst'[c] = [graph |-> IF inst[c] = NoInstance THEN hid[c] ELSE inst[c].graph,
                        dirty |-> op[c] = "decode_loaded"]
        BY <1>17, <3>2 DEF JobStart, IInv, TypeOK
      <4>3. QED
        BY <4>1, <4>2 DEF NewInstance, Instance
    <3>3. QED
      BY <3>1, <3>2
  <2>2. inst' \in [Calls -> Instance \cup {NoInstance}]
    BY <1>17, <2>1 DEF IInv, TypeOK, JobStart
  <2>3. QED
    BY <1>17, <1>0, <2>2 DEF IInv, TypeOK, JobAlive, JobStart, JobGoto
<1>18. ASSUME NEW c \in Calls, JobAnswersDecode(c) PROVE TypeOK'
  BY <1>18, <1>0 DEF IInv, TypeOK, RpcPC, JobAlive, Terminal, JobAnswersDecode, JobGoto
<1>19. ASSUME NEW c \in Calls, JobDelivers(c) PROVE TypeOK'
  <2>1. PICK payload \in {NoInstance, [inst[c] EXCEPT !.dirty = FALSE]} : Deliver(c, payload)
    BY <1>19 DEF JobDelivers
  <2>2. payload \in Instance \cup {NoInstance}
    <3>1. CASE inst[c] \in Instance
      BY <3>1 DEF Instance
    <3>2. CASE inst[c] = NoInstance
      BY <3>2 DEF NoInstance
    <3>3. QED
      BY <3>1, <3>2 DEF IInv, TypeOK
  <2>3. rpc' \in [Calls -> RpcPC] /\ inst' \in [Calls -> Instance \cup {NoInstance}]
    BY <2>1, <2>2 DEF IInv, TypeOK, RpcPC, Deliver
  <2>4. QED
    BY <1>0, <2>1, <2>3 DEF IInv, TypeOK, JobAlive, Deliver, JobGoto
<1>20. ASSUME NEW c \in Calls, JobFails(c) PROVE TypeOK'
  BY <1>20, <1>0 DEF IInv, TypeOK, RpcPC, JobAlive, Terminal, JobFails, JobGoto
<1>21. ASSUME NEW c \in Calls, JobEnds(c) PROVE TypeOK'
  BY <1>21, <1>0 DEF IInv, TypeOK, RpcPC, JobAlive, Terminal, JobEnds, JobGoto, Decrement
<1>22. ASSUME NEW c \in Calls, Cancel(c) PROVE TypeOK'
  BY <1>22, <1>0 DEF IInv, TypeOK, RpcPC, Terminal, Cancel, DropFuture
<1>23. CASE UNCHANGED vars
  BY <1>23 DEF IInv, TypeOK, RpcPC, JobAlive, Terminal, vars
<1>24. QED
  BY <1>1, <1>2, <1>3, <1>4, <1>5, <1>6, <1>7, <1>8, <1>9, <1>10, <1>11, <1>12, <1>13, <1>14, <1>15, <1>16, <1>17, <1>18, <1>19, <1>20, <1>21, <1>22, <1>23 DEF Next, Client, Future, Worker, Done

-----------------------------------------------------------------------------
(* Theorems                                                                *)

\* The idle service satisfies the invariant.
LEMMA InitIInv == Init => IInv
<1> SUFFICES ASSUME Init PROVE IInv
  OBVIOUS
<1>1. TypeOK
  BY PoolAssumption DEF Init, TypeOK, RpcPC, JobAlive, Hids
<1>2. CounterMatchesWork
  <2>1. Holders = {}
    BY DEF Init, Holders, Holder, JobAlive
  <2>2. QED
    BY <2>1, FS_EmptySet DEF Init, CounterMatchesWork
<1>3. \A c \in Calls : CallInv(c)
  BY DEF Init, CallInv
<1>4. ClearInv /\ HandleStable /\ PooledInstancesClean /\ DrainInv
  BY DEF Init, ClearInv, HandleStable, CheckedOut, JobAlive, PooledInstancesClean, DrainInv
<1>5. QED
  BY <1>1, <1>2, <1>3, <1>4 DEF IInv

\* IInv is inductive, so it holds throughout every behaviour of the service.
THEOREM Invariance == Spec => []IInv
<1>1. IInv /\ [Next]_vars => IInv'
  BY TypeStep, CallStep, CounterStep, ClearStep, HandleStep, PoolStep, DrainStep DEF IInv
<1>2. QED
  BY InitIInv, <1>1, PTL DEF Spec

\* Type correctness; in particular the usize counter never underflows.
THEOREM TypeCorrect == Spec => []TypeOK
BY Invariance, PTL DEF IInv

\* No path through the RPCs, cancellation and panics included, leaks or
\* double-counts a unit of `decoding`.
THEOREM CounterExact == Spec => []CounterMatchesWork
BY Invariance, PTL DEF IInv

\* reset never clears an entry that a decode_loaded, cancelled or not, is
\* still working for.
THEOREM HandlesStable == Spec => []HandleStable
BY Invariance, PTL DEF IInv

\* Instances return to the pool of their own hypergraph and only after reset.
THEOREM PoolsClean == Spec => []PooledInstancesClean
BY Invariance, PTL DEF IInv

\* A returned reset outlived everything that was running when it began.
THEOREM ResetIsBarrier == Spec => []ResetDrains
<1>1. IInv => ResetDrains
  BY DEF IInv, DrainInv, ResetDrains
<1>2. QED
  BY Invariance, <1>1, PTL
=============================================================================

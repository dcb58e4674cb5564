---------------------------- MODULE TaskCounter ----------------------------
(***************************************************************************)
(* The admission counter of misc/sync.rs and the reset protocol that both  *)
(* coordinators build on it: try_guard / guard / TaskGuard::drop on one    *)
(* side, try_pause / cancel / wait_for_zero / clear on the other.  Every   *)
(* atomic access is a step of its own.                                     *)
(*                                                                         *)
(* try_guard increments `count` with Relaxed ordering and then loads       *)
(* `accepting` with Acquire.  Nothing orders the two for another thread,   *)
(* and AArch64 may perform the load first; x86 may not, its read-modify-   *)
(* writes are full fences.  RelaxedReorder says which machine it is.       *)
(***************************************************************************)
EXTENDS Integers, FiniteSets

CONSTANTS Ops,              \* top-level RPCs: load_library, execute, decode
          Tasks,            \* background tasks the RPCs may spawn
          Resets,           \* reset RPCs
          RelaxedReorder,   \* may the second check overtake the increment?
          DroppedResets     \* may a reset future be dropped at an await?

Agents == Ops \cup Tasks

ASSUME CounterAssumption ==
    /\ IsFiniteSet(Ops) /\ IsFiniteSet(Tasks)
    /\ Ops \cap Tasks = {}
    /\ RelaxedReorder \in BOOLEAN /\ DroppedResets \in BOOLEAN

VARIABLES count, accepting,
          waiters,      \* Notified futures created and not yet woken
          ag,           \* where each agent is
          rs,           \* where each reset is
          cancelled,    \* is the coordinator's current token cancelled?
          tok           \* does the agent hold a token, and which one?

vars == <<count, accepting, waiters, ag, rs, cancelled, tok>>

AgentPC == {"idle", "first", "early_yes", "early_no", "counted", "running",
            "working", "backout", "notify", "done"}
ResetPC == {"idle", "cancel", "register", "load", "wait", "fresh", "clear",
            "decoders", "done"}

Init == /\ count = 0
        /\ accepting = TRUE
        /\ waiters = {}
        /\ ag = [a \in Agents |-> "idle"]
        /\ rs = [r \in Resets |-> "idle"]
        /\ cancelled = FALSE
        /\ tok = [a \in Agents |-> "none"]

Goto(a, from, to) == ag[a] = from /\ ag' = [ag EXCEPT ![a] = to]
ResetGoto(r, from, to) == rs[r] = from /\ rs' = [rs EXCEPT ![r] = to]

-----------------------------------------------------------------------------
(* try_guard, guard and TaskGuard::drop                                    *)

TryGuardFirst(o) ==
    /\ Goto(o, "idle", IF accepting THEN "first" ELSE "done")
    /\ UNCHANGED <<count, accepting, waiters, rs, cancelled, tok>>

\* fetch_add; where an early second check sent the agent decides what is next.
TryGuardCount(o) ==
    /\ \/ Goto(o, "first", "counted")
       \/ Goto(o, "early_yes", "running")
       \/ Goto(o, "early_no", "backout")
    /\ count' = count + 1
    /\ UNCHANGED <<accepting, waiters, rs, cancelled, tok>>

TryGuardSecond(o) ==
    /\ Goto(o, "counted", IF accepting THEN "running" ELSE "backout")
    /\ UNCHANGED <<count, accepting, waiters, rs, cancelled, tok>>

\* The same load, performed before the relaxed increment becomes visible.
TryGuardSecondEarly(o) ==
    /\ RelaxedReorder
    /\ Goto(o, "first", IF accepting THEN "early_yes" ELSE "early_no")
    /\ UNCHANGED <<count, accepting, waiters, rs, cancelled, tok>>

\* An admitted operation clones the coordinator's current token.
ReadToken(a) ==
    /\ Goto(a, "running", "working")
    /\ tok' = [tok EXCEPT ![a] = IF cancelled THEN "cancelled" ELSE "current"]
    /\ UNCHANGED <<count, accepting, waiters, rs, cancelled>>

\* guard() while the parent still holds its own, then tokio::spawn; the task
\* inherits the parent's token.
Spawn(a, t) ==
    /\ ag[a] = "working"
    /\ Goto(t, "idle", "working")
    /\ count' = count + 1
    /\ tok' = [tok EXCEPT ![t] = tok[a]]
    /\ UNCHANGED <<accepting, waiters, rs, cancelled>>

Leave(a, to) ==
    /\ \E from \in {"running", "working", "backout"} : Goto(a, from, to)
    /\ count' = count - 1
    /\ UNCHANGED <<accepting, waiters, rs, cancelled, tok>>

\* Mutant of DropGuard: fetch_sub taken for the new value.
DropGuardOffByOne(a) == Leave(a, IF count = 0 THEN "notify" ELSE "done")

\* TaskGuard::drop, at the end of the work or with a dropped future: the
\* agent that takes the counter to zero notifies.
DropGuard(a) == Leave(a, IF count = 1 THEN "notify" ELSE "done")

NotifyWaiters(a) ==
    /\ Goto(a, "notify", "done")
    /\ waiters' = {}
    /\ UNCHANGED <<count, accepting, rs, cancelled, tok>>

-----------------------------------------------------------------------------
(* reset                                                                   *)

TryPause(r) ==
    /\ ResetGoto(r, "idle", IF accepting THEN "cancel" ELSE "done")
    /\ accepting' = FALSE
    /\ UNCHANGED <<count, waiters, ag, cancelled, tok>>

\* Every clone of the current token is cancelled with it.
CancelToken(r) ==
    /\ ResetGoto(r, "cancel", "register")
    /\ cancelled' = TRUE
    /\ tok' = [a \in Agents |-> IF tok[a] = "current" THEN "cancelled" ELSE tok[a]]
    /\ UNCHANGED <<count, accepting, waiters, ag>>

\* notify.notified(): from here on notify_waiters reaches this future.
WaitRegister(r) ==
    /\ ResetGoto(r, "register", "load")
    /\ waiters' = waiters \cup {r}
    /\ UNCHANGED <<count, accepting, ag, cancelled, tok>>

WaitLoad(r) ==
    /\ ResetGoto(r, "load", IF count = 0 THEN "fresh" ELSE "wait")
    /\ waiters' = IF count = 0 THEN waiters \ {r} ELSE waiters
    /\ UNCHANGED <<count, accepting, ag, cancelled, tok>>

WaitWoken(r) ==
    /\ r \notin waiters
    /\ ResetGoto(r, "wait", "register")
    /\ UNCHANGED <<count, accepting, waiters, ag, cancelled, tok>>

FreshToken(r) ==
    /\ ResetGoto(r, "fresh", "clear")
    /\ cancelled' = FALSE
    /\ UNCHANGED <<count, accepting, waiters, ag, tok>>

\* The maps are cleared, then the decoder services are reset.
ClearState(r) ==
    /\ ResetGoto(r, "clear", "decoders")
    /\ UNCHANGED <<count, accepting, waiters, ag, cancelled, tok>>

\* Success or a decoder error alike: dropping the pause reopens admission.
EndReset(r) ==
    /\ ResetGoto(r, "decoders", "done")
    /\ accepting' = TRUE
    /\ UNCHANGED <<count, waiters, ag, cancelled, tok>>

\* Mutant of DropReset: the pause is not a guard, its owner has to release it.
DropResetStaysClosed(r) ==
    /\ DroppedResets
    /\ \E from \in {"cancel", "wait", "fresh", "clear", "decoders"} :
           ResetGoto(r, from, "done")
    /\ waiters' = waiters \ {r}
    /\ UNCHANGED <<count, accepting, ag, cancelled, tok>>

\* The RPC future is dropped at one of its awaits, and the pause with it.
DropReset(r) ==
    /\ DroppedResets
    /\ \E from \in {"cancel", "wait", "fresh", "clear", "decoders"} :
           ResetGoto(r, from, "done")
    /\ accepting' = TRUE
    /\ waiters' = waiters \ {r}
    /\ UNCHANGED <<count, ag, cancelled, tok>>

-----------------------------------------------------------------------------
Admission(a) == \/ TryGuardCount(a) \/ TryGuardSecond(a)
                \/ TryGuardSecondEarly(a) \/ ReadToken(a)
                \/ NotifyWaiters(a)
                \/ ag[a] = "backout" /\ DropGuard(a)

\* Cancelled work runs to its end; other work may wait for a future shot.
CancelledEnds(a) == tok[a] = "cancelled" /\ DropGuard(a)

ResetStep(r) == \/ CancelToken(r) \/ WaitRegister(r) \/ WaitLoad(r)
                \/ WaitWoken(r) \/ FreshToken(r) \/ ClearState(r) \/ EndReset(r)

Finished == /\ \A a \in Agents : ag[a] \in {"idle", "done"}
            /\ \A r \in Resets : rs[r] = "done"
            /\ UNCHANGED vars

Next == \/ \E o \in Ops : TryGuardFirst(o)
        \/ \E a \in Agents : Admission(a) \/ DropGuard(a)
        \/ \E a \in Ops, t \in Tasks : Spawn(a, t)
        \/ \E r \in Resets : TryPause(r) \/ ResetStep(r) \/ DropReset(r)
        \/ Finished

Spec == Init /\ [][Next]_vars

\* Threads run on; an operation is only known to end once it is cancelled.
Fairness == /\ \A a \in Agents : WF_vars(Admission(a)) /\ WF_vars(CancelledEnds(a))
            /\ \A r \in Resets : WF_vars(ResetStep(r))

FairSpec == Spec /\ Fairness

-----------------------------------------------------------------------------
(* Properties                                                              *)

Active(a) == ag[a] \in {"running", "working"}
Counted(a) == ag[a] \in {"counted", "running", "working", "backout"}
Paused(r) == rs[r] \in ResetPC \ {"idle", "done"}
Clearing(r) == rs[r] \in {"fresh", "clear", "decoders"}

\* Every variable keeps its type; `count`, a usize, never underflows.
TypeOK == /\ count \in Nat
          /\ accepting \in BOOLEAN
          /\ waiters \in SUBSET Resets
          /\ ag \in [Agents -> AgentPC]
          /\ rs \in [Resets -> ResetPC]
          /\ cancelled \in BOOLEAN
          /\ tok \in [Agents -> {"none", "current", "cancelled"}]

\* While a reset replaces the token and clears the shared state, no admitted
\* operation and no task is at work, and none is admitted: "A second
\* acceptance check closes the race with try_pause".
ResetExclusive == \A r \in Resets : Clearing(r) => \A a \in Agents : ~Active(a)

\* At most one reset owns the pause, and admission is closed exactly while
\* one does: a reset that ends early leaves the coordinator open.
PauseOwned == /\ \A r, s \in Resets : Paused(r) /\ Paused(s) => r = s
              /\ accepting = ~(\E r \in Resets : Paused(r))

\* wait_for_zero loses no wakeup: every reset ends once the operations it
\* cancelled have ended.
ResetEnds == \A r \in Resets : rs[r] # "idle" ~> rs[r] = "done"

\* The counter implements the gate the coordinators rely on.
Gate == INSTANCE ResetGate WITH
            phase <- IF \E r \in Resets : Clearing(r) THEN "clearing"
                     ELSE IF \E r \in Resets : Paused(r) THEN "draining"
                     ELSE "open",
            inside <- {a \in Agents : Active(a)}

\* Refinement: admission and reset behave like the abstract gate.
ImplementsGate == Gate!Spec
=============================================================================

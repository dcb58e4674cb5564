------------------------- MODULE TaskCounterProofs -------------------------
(***************************************************************************)
(* The admission counter, for any number of RPCs, tasks and resets: one    *)
(* owner of the pause on every machine; and on a machine that keeps the    *)
(* order of the increment and the second check of try_guard, it implements *)
(* the reset gate.                                                         *)
(***************************************************************************)
EXTENDS TaskCounter, FiniteSetTheorems, TLAPS

-----------------------------------------------------------------------------
(* The inductive invariant                                                 *)

Holders == {a \in Agents : Counted(a)}

CountInv == count = Cardinality(Holders)

\* No agent has taken its second check ahead of its increment.
OrderInv == \A a \in Agents : ag[a] \notin {"early_yes", "early_no"}

IInv == /\ TypeOK
        /\ CountInv
        /\ PauseOwned
        /\ ~RelaxedReorder => OrderInv /\ ResetExclusive

-----------------------------------------------------------------------------
(* The counter                                                             *)

\* Finitely many agents are counted.
LEMMA HoldersFinite == IsFiniteSet(Holders) /\ IsFiniteSet(Holders')
<1>1. IsFiniteSet(Agents)
  BY CounterAssumption, FS_Union DEF Agents
<1>2. QED
  BY <1>1, FS_Subset DEF Holders

\* A new guard comes with an increment.
LEMMA CountAdd ==
    ASSUME CountInv, NEW c \in Agents, ~Counted(c), Counted(c)',
           \A d \in Agents \ {c} : Counted(d)' <=> Counted(d),
           count' = count + 1
    PROVE  CountInv'
<1>1. Holders' = Holders \cup {c} /\ c \notin Holders
  BY DEF Holders
<1>2. QED
  BY <1>1, HoldersFinite, FS_AddElement DEF CountInv

\* A dropped guard comes with a decrement.
LEMMA CountRemove ==
    ASSUME CountInv, NEW c \in Agents, Counted(c), ~Counted(c)',
           \A d \in Agents \ {c} : Counted(d)' <=> Counted(d),
           count' = count - 1
    PROVE  CountInv'
<1>1. Holders' = Holders \ {c} /\ c \in Holders
  BY DEF Holders
<1>2. QED
  BY <1>1, HoldersFinite, FS_RemoveElement DEF CountInv

\* The same guards, the same count.
LEMMA CountSame ==
    ASSUME CountInv, \A d \in Agents : Counted(d)' <=> Counted(d),
           count' = count
    PROVE  CountInv'
<1>1. Holders' = Holders
  BY DEF Holders
<1>2. QED
  BY <1>1 DEF CountInv

\* A zero count: no agent is counted.
LEMMA ZeroMeansEmpty ==
    ASSUME CountInv, count = 0
    PROVE  \A a \in Agents : ~Active(a)
<1>1. Holders = {}
  BY HoldersFinite, FS_EmptySet DEF CountInv
<1>2. QED
  BY <1>1 DEF Holders, Active, Counted

\* The count keeps being the number of guards.
LEMMA CountStep == IInv /\ [Next]_vars => CountInv'
<1> SUFFICES ASSUME IInv, [Next]_vars PROVE CountInv'
  OBVIOUS
<1>0. CountInv
  BY DEF IInv
<1>1. ASSUME NEW a \in Ops, TryGuardFirst(a) PROVE CountInv'
  <2>1. \A e \in Agents : Counted(e)' <=> Counted(e)
    BY <1>1 DEF IInv, TypeOK, Counted, Agents, TryGuardFirst, Goto
  <2>2. QED
    BY <1>0, <1>1, <2>1, CountSame DEF TryGuardFirst
<1>2. ASSUME NEW a \in Agents, TryGuardCount(a) PROVE CountInv'
  <2>1. /\ ~Counted(a) /\ Counted(a)'
        /\ \A e \in Agents \ {a} : Counted(e)' <=> Counted(e)
    BY <1>2 DEF IInv, TypeOK, Counted, TryGuardCount, Goto
  <2>2. QED
    BY <1>0, <1>2, <2>1, CountAdd DEF TryGuardCount, Goto
<1>3. ASSUME NEW a \in Agents, TryGuardSecond(a) PROVE CountInv'
  <2>1. \A e \in Agents : Counted(e)' <=> Counted(e)
    BY <1>3 DEF IInv, TypeOK, Counted, Agents, TryGuardSecond, Goto
  <2>2. QED
    BY <1>0, <1>3, <2>1, CountSame DEF TryGuardSecond
<1>4. ASSUME NEW a \in Agents, TryGuardSecondEarly(a) PROVE CountInv'
  <2>1. \A e \in Agents : Counted(e)' <=> Counted(e)
    BY <1>4 DEF IInv, TypeOK, Counted, Agents, TryGuardSecondEarly, Goto
  <2>2. QED
    BY <1>0, <1>4, <2>1, CountSame DEF TryGuardSecondEarly
<1>5. ASSUME NEW a \in Agents, ReadToken(a) PROVE CountInv'
  <2>1. \A e \in Agents : Counted(e)' <=> Counted(e)
    BY <1>5 DEF IInv, TypeOK, Counted, Agents, ReadToken, Goto
  <2>2. QED
    BY <1>0, <1>5, <2>1, CountSame DEF ReadToken
<1>6. ASSUME NEW a \in Agents, NotifyWaiters(a) PROVE CountInv'
  <2>1. \A e \in Agents : Counted(e)' <=> Counted(e)
    BY <1>6 DEF IInv, TypeOK, Counted, Agents, NotifyWaiters, Goto
  <2>2. QED
    BY <1>0, <1>6, <2>1, CountSame DEF NotifyWaiters
<1>7. ASSUME NEW a \in Agents, DropGuard(a) PROVE CountInv'
  <2>1. /\ Counted(a) /\ ~Counted(a)'
        /\ \A e \in Agents \ {a} : Counted(e)' <=> Counted(e)
    BY <1>7 DEF IInv, TypeOK, Counted, DropGuard, Leave, Goto
  <2>2. QED
    BY <1>0, <1>7, <2>1, CountRemove DEF DropGuard, Leave, Goto
<1>8. ASSUME NEW r \in Resets, TryPause(r) PROVE CountInv'
  <2>1. \A e \in Agents : Counted(e)' <=> Counted(e)
    BY <1>8 DEF IInv, TypeOK, Counted, Agents, TryPause, ResetGoto
  <2>2. QED
    BY <1>0, <1>8, <2>1, CountSame DEF TryPause
<1>9. ASSUME NEW r \in Resets, CancelToken(r) PROVE CountInv'
  <2>1. \A e \in Agents : Counted(e)' <=> Counted(e)
    BY <1>9 DEF IInv, TypeOK, Counted, Agents, CancelToken, ResetGoto
  <2>2. QED
    BY <1>0, <1>9, <2>1, CountSame DEF CancelToken
<1>10. ASSUME NEW r \in Resets, WaitRegister(r) PROVE CountInv'
  <2>1. \A e \in Agents : Counted(e)' <=> Counted(e)
    BY <1>10 DEF IInv, TypeOK, Counted, Agents, WaitRegister, ResetGoto
  <2>2. QED
    BY <1>0, <1>10, <2>1, CountSame DEF WaitRegister
<1>11. ASSUME NEW r \in Resets, WaitLoad(r) PROVE CountInv'
  <2>1. \A e \in Agents : Counted(e)' <=> Counted(e)
    BY <1>11 DEF IInv, TypeOK, Counted, Agents, WaitLoad, ResetGoto
  <2>2. QED
    BY <1>0, <1>11, <2>1, CountSame DEF WaitLoad
<1>12. ASSUME NEW r \in Resets, WaitWoken(r) PROVE CountInv'
  <2>1. \A e \in Agents : Counted(e)' <=> Counted(e)
    BY <1>12 DEF IInv, TypeOK, Counted, Agents, WaitWoken, ResetGoto
  <2>2. QED
    BY <1>0, <1>12, <2>1, CountSame DEF WaitWoken
<1>13. ASSUME NEW r \in Resets, FreshToken(r) PROVE CountInv'
  <2>1. \A e \in Agents : Counted(e)' <=> Counted(e)
    BY <1>13 DEF IInv, TypeOK, Counted, Agents, FreshToken, ResetGoto
  <2>2. QED
    BY <1>0, <1>13, <2>1, CountSame DEF FreshToken
<1>14. ASSUME NEW r \in Resets, ClearState(r) PROVE CountInv'
  <2>1. \A e \in Agents : Counted(e)' <=> Counted(e)
    BY <1>14 DEF IInv, TypeOK, Counted, Agents, ClearState, ResetGoto
  <2>2. QED
    BY <1>0, <1>14, <2>1, CountSame DEF ClearState
<1>15. ASSUME NEW r \in Resets, EndReset(r) PROVE CountInv'
  <2>1. \A e \in Agents : Counted(e)' <=> Counted(e)
    BY <1>15 DEF IInv, TypeOK, Counted, Agents, EndReset, ResetGoto
  <2>2. QED
    BY <1>0, <1>15, <2>1, CountSame DEF EndReset
<1>16. ASSUME NEW r \in Resets, DropReset(r) PROVE CountInv'
  <2>1. \A e \in Agents : Counted(e)' <=> Counted(e)
    BY <1>16 DEF IInv, TypeOK, Counted, Agents, DropReset, ResetGoto
  <2>2. QED
    BY <1>0, <1>16, <2>1, CountSame DEF DropReset
<1>17. ASSUME NEW a \in Ops, NEW t \in Tasks, Spawn(a, t) PROVE CountInv'
  <2>0. t \in Agents
    BY DEF Agents
  <2>1. /\ ~Counted(t) /\ Counted(t)'
        /\ \A e \in Agents \ {t} : Counted(e)' <=> Counted(e)
    BY <1>17, <2>0 DEF IInv, TypeOK, Counted, Spawn, Goto
  <2>2. QED
    BY <1>0, <1>17, <2>0, <2>1, CountAdd DEF Spawn
<1>18. CASE UNCHANGED vars
  BY <1>0, <1>18 DEF CountInv, Holders, Counted, vars
<1>19. QED
  BY <1>1, <1>2, <1>3, <1>4, <1>5, <1>6, <1>7, <1>8, <1>9, <1>10, <1>11, <1>12, <1>13, <1>14, <1>15, <1>16, <1>17, <1>18 DEF Next, Admission, ResetStep, Finished

\* Types are preserved.
LEMMA TypeStep == IInv /\ [Next]_vars => TypeOK'
<1> SUFFICES ASSUME IInv, [Next]_vars PROVE TypeOK'
  OBVIOUS
<1>0. count' \in Nat
  BY CountStep, HoldersFinite, FS_CardinalityType DEF CountInv
<1>1. ASSUME NEW a \in Ops, TryGuardFirst(a) PROVE TypeOK'
  BY <1>1, <1>0 DEF IInv, TypeOK, AgentPC, ResetPC, Agents, TryGuardFirst, Goto
<1>2. ASSUME NEW a \in Agents, TryGuardCount(a) PROVE TypeOK'
  BY <1>2, <1>0 DEF IInv, TypeOK, AgentPC, ResetPC, Agents, TryGuardCount, Goto
<1>3. ASSUME NEW a \in Agents, TryGuardSecond(a) PROVE TypeOK'
  BY <1>3, <1>0 DEF IInv, TypeOK, AgentPC, ResetPC, Agents, TryGuardSecond, Goto
<1>4. ASSUME NEW a \in Agents, TryGuardSecondEarly(a) PROVE TypeOK'
  BY <1>4, <1>0 DEF IInv, TypeOK, AgentPC, ResetPC, Agents, TryGuardSecondEarly, Goto
<1>5. ASSUME NEW a \in Agents, ReadToken(a) PROVE TypeOK'
  BY <1>5, <1>0 DEF IInv, TypeOK, AgentPC, ResetPC, Agents, ReadToken, Goto
<1>6. ASSUME NEW a \in Agents, NotifyWaiters(a) PROVE TypeOK'
  BY <1>6, <1>0 DEF IInv, TypeOK, AgentPC, ResetPC, Agents, NotifyWaiters, Goto
<1>7. ASSUME NEW a \in Agents, DropGuard(a) PROVE TypeOK'
  BY <1>7, <1>0 DEF IInv, TypeOK, AgentPC, ResetPC, Agents, DropGuard, Leave, Goto
<1>8. ASSUME NEW r \in Resets, TryPause(r) PROVE TypeOK'
  BY <1>8, <1>0 DEF IInv, TypeOK, AgentPC, ResetPC, Agents, TryPause, ResetGoto
<1>9. ASSUME NEW r \in Resets, CancelToken(r) PROVE TypeOK'
  BY <1>9, <1>0 DEF IInv, TypeOK, AgentPC, ResetPC, Agents, CancelToken, ResetGoto
<1>10. ASSUME NEW r \in Resets, WaitRegister(r) PROVE TypeOK'
  BY <1>10, <1>0 DEF IInv, TypeOK, AgentPC, ResetPC, Agents, WaitRegister, ResetGoto
<1>11. ASSUME NEW r \in Resets, WaitLoad(r) PROVE TypeOK'
  BY <1>11, <1>0 DEF IInv, TypeOK, AgentPC, ResetPC, Agents, WaitLoad, ResetGoto
<1>12. ASSUME NEW r \in Resets, WaitWoken(r) PROVE TypeOK'
  BY <1>12, <1>0 DEF IInv, TypeOK, AgentPC, ResetPC, Agents, WaitWoken, ResetGoto
<1>13. ASSUME NEW r \in Resets, FreshToken(r) PROVE TypeOK'
  BY <1>13, <1>0 DEF IInv, TypeOK, AgentPC, ResetPC, Agents, FreshToken, ResetGoto
<1>14. ASSUME NEW r \in Resets, ClearState(r) PROVE TypeOK'
  BY <1>14, <1>0 DEF IInv, TypeOK, AgentPC, ResetPC, Agents, ClearState, ResetGoto
<1>15. ASSUME NEW r \in Resets, EndReset(r) PROVE TypeOK'
  BY <1>15, <1>0 DEF IInv, TypeOK, AgentPC, ResetPC, Agents, EndReset, ResetGoto
<1>16. ASSUME NEW r \in Resets, DropReset(r) PROVE TypeOK'
  BY <1>16, <1>0 DEF IInv, TypeOK, AgentPC, ResetPC, Agents, DropReset, ResetGoto
<1>17. ASSUME NEW a \in Ops, NEW t \in Tasks, Spawn(a, t) PROVE TypeOK'
  BY <1>17, <1>0 DEF IInv, TypeOK, AgentPC, ResetPC, Agents, Spawn, Goto
<1>18. CASE UNCHANGED vars
  BY <1>18, <1>0 DEF IInv, TypeOK, AgentPC, ResetPC, Agents, vars
<1>19. QED
  BY <1>1, <1>2, <1>3, <1>4, <1>5, <1>6, <1>7, <1>8, <1>9, <1>10, <1>11, <1>12, <1>13, <1>14, <1>15, <1>16, <1>17, <1>18 DEF Next, Admission, ResetStep, Finished

\* The pause keeps having one owner.
LEMMA PauseStep == IInv /\ [Next]_vars => PauseOwned'
<1> SUFFICES ASSUME IInv, [Next]_vars PROVE PauseOwned'
  OBVIOUS
<1>1. ASSUME NEW a \in Ops, TryGuardFirst(a) PROVE PauseOwned'
  BY <1>1 DEF IInv, TypeOK, PauseOwned, Paused, ResetPC, TryGuardFirst, Goto
<1>2. ASSUME NEW a \in Agents, TryGuardCount(a) PROVE PauseOwned'
  BY <1>2 DEF IInv, TypeOK, PauseOwned, Paused, ResetPC, TryGuardCount, Goto
<1>3. ASSUME NEW a \in Agents, TryGuardSecond(a) PROVE PauseOwned'
  BY <1>3 DEF IInv, TypeOK, PauseOwned, Paused, ResetPC, TryGuardSecond, Goto
<1>4. ASSUME NEW a \in Agents, TryGuardSecondEarly(a) PROVE PauseOwned'
  BY <1>4 DEF IInv, TypeOK, PauseOwned, Paused, ResetPC, TryGuardSecondEarly, Goto
<1>5. ASSUME NEW a \in Agents, ReadToken(a) PROVE PauseOwned'
  BY <1>5 DEF IInv, TypeOK, PauseOwned, Paused, ResetPC, ReadToken, Goto
<1>6. ASSUME NEW a \in Agents, NotifyWaiters(a) PROVE PauseOwned'
  BY <1>6 DEF IInv, TypeOK, PauseOwned, Paused, ResetPC, NotifyWaiters, Goto
<1>7. ASSUME NEW a \in Agents, DropGuard(a) PROVE PauseOwned'
  BY <1>7 DEF IInv, TypeOK, PauseOwned, Paused, ResetPC, DropGuard, Leave, Goto
<1>8. ASSUME NEW r \in Resets, TryPause(r) PROVE PauseOwned'
  BY <1>8 DEF IInv, TypeOK, PauseOwned, Paused, ResetPC, TryPause, ResetGoto
<1>9. ASSUME NEW r \in Resets, CancelToken(r) PROVE PauseOwned'
  BY <1>9 DEF IInv, TypeOK, PauseOwned, Paused, ResetPC, CancelToken, ResetGoto
<1>10. ASSUME NEW r \in Resets, WaitRegister(r) PROVE PauseOwned'
  BY <1>10 DEF IInv, TypeOK, PauseOwned, Paused, ResetPC, WaitRegister, ResetGoto
<1>11. ASSUME NEW r \in Resets, WaitLoad(r) PROVE PauseOwned'
  BY <1>11 DEF IInv, TypeOK, PauseOwned, Paused, ResetPC, WaitLoad, ResetGoto
<1>12. ASSUME NEW r \in Resets, WaitWoken(r) PROVE PauseOwned'
  BY <1>12 DEF IInv, TypeOK, PauseOwned, Paused, ResetPC, WaitWoken, ResetGoto
<1>13. ASSUME NEW r \in Resets, FreshToken(r) PROVE PauseOwned'
  BY <1>13 DEF IInv, TypeOK, PauseOwned, Paused, ResetPC, FreshToken, ResetGoto
<1>14. ASSUME NEW r \in Resets, ClearState(r) PROVE PauseOwned'
  BY <1>14 DEF IInv, TypeOK, PauseOwned, Paused, ResetPC, ClearState, ResetGoto
<1>15. ASSUME NEW r \in Resets, EndReset(r) PROVE PauseOwned'
  BY <1>15 DEF IInv, TypeOK, PauseOwned, Paused, ResetPC, EndReset, ResetGoto
<1>16. ASSUME NEW r \in Resets, DropReset(r) PROVE PauseOwned'
  BY <1>16 DEF IInv, TypeOK, PauseOwned, Paused, ResetPC, DropReset, ResetGoto
<1>17. ASSUME NEW a \in Ops, NEW t \in Tasks, Spawn(a, t) PROVE PauseOwned'
  BY <1>17 DEF IInv, TypeOK, PauseOwned, Paused, ResetPC, Spawn, Goto
<1>18. CASE UNCHANGED vars
  BY <1>18 DEF IInv, TypeOK, PauseOwned, Paused, ResetPC, vars
<1>19. QED
  BY <1>1, <1>2, <1>3, <1>4, <1>5, <1>6, <1>7, <1>8, <1>9, <1>10, <1>11, <1>12, <1>13, <1>14, <1>15, <1>16, <1>17, <1>18 DEF Next, Admission, ResetStep, Finished

\* Where the increment is not overtaken, an admitted agent is counted.
LEMMA OrderStep == IInv /\ [Next]_vars => (~RelaxedReorder => OrderInv')
<1> SUFFICES ASSUME IInv, [Next]_vars, ~RelaxedReorder PROVE OrderInv'
  OBVIOUS
<1>1. ASSUME NEW a \in Ops, TryGuardFirst(a) PROVE OrderInv'
  BY <1>1 DEF IInv, TypeOK, OrderInv, Agents, TryGuardFirst, Goto
<1>2. ASSUME NEW a \in Agents, TryGuardCount(a) PROVE OrderInv'
  BY <1>2 DEF IInv, TypeOK, OrderInv, Agents, TryGuardCount, Goto
<1>3. ASSUME NEW a \in Agents, TryGuardSecond(a) PROVE OrderInv'
  BY <1>3 DEF IInv, TypeOK, OrderInv, Agents, TryGuardSecond, Goto
<1>4. ASSUME NEW a \in Agents, TryGuardSecondEarly(a) PROVE OrderInv'
  BY <1>4 DEF IInv, TypeOK, OrderInv, Agents, TryGuardSecondEarly, Goto
<1>5. ASSUME NEW a \in Agents, ReadToken(a) PROVE OrderInv'
  BY <1>5 DEF IInv, TypeOK, OrderInv, Agents, ReadToken, Goto
<1>6. ASSUME NEW a \in Agents, NotifyWaiters(a) PROVE OrderInv'
  BY <1>6 DEF IInv, TypeOK, OrderInv, Agents, NotifyWaiters, Goto
<1>7. ASSUME NEW a \in Agents, DropGuard(a) PROVE OrderInv'
  BY <1>7 DEF IInv, TypeOK, OrderInv, Agents, DropGuard, Leave, Goto
<1>8. ASSUME NEW r \in Resets, TryPause(r) PROVE OrderInv'
  BY <1>8 DEF IInv, TypeOK, OrderInv, Agents, TryPause, ResetGoto
<1>9. ASSUME NEW r \in Resets, CancelToken(r) PROVE OrderInv'
  BY <1>9 DEF IInv, TypeOK, OrderInv, Agents, CancelToken, ResetGoto
<1>10. ASSUME NEW r \in Resets, WaitRegister(r) PROVE OrderInv'
  BY <1>10 DEF IInv, TypeOK, OrderInv, Agents, WaitRegister, ResetGoto
<1>11. ASSUME NEW r \in Resets, WaitLoad(r) PROVE OrderInv'
  BY <1>11 DEF IInv, TypeOK, OrderInv, Agents, WaitLoad, ResetGoto
<1>12. ASSUME NEW r \in Resets, WaitWoken(r) PROVE OrderInv'
  BY <1>12 DEF IInv, TypeOK, OrderInv, Agents, WaitWoken, ResetGoto
<1>13. ASSUME NEW r \in Resets, FreshToken(r) PROVE OrderInv'
  BY <1>13 DEF IInv, TypeOK, OrderInv, Agents, FreshToken, ResetGoto
<1>14. ASSUME NEW r \in Resets, ClearState(r) PROVE OrderInv'
  BY <1>14 DEF IInv, TypeOK, OrderInv, Agents, ClearState, ResetGoto
<1>15. ASSUME NEW r \in Resets, EndReset(r) PROVE OrderInv'
  BY <1>15 DEF IInv, TypeOK, OrderInv, Agents, EndReset, ResetGoto
<1>16. ASSUME NEW r \in Resets, DropReset(r) PROVE OrderInv'
  BY <1>16 DEF IInv, TypeOK, OrderInv, Agents, DropReset, ResetGoto
<1>17. ASSUME NEW a \in Ops, NEW t \in Tasks, Spawn(a, t) PROVE OrderInv'
  BY <1>17 DEF IInv, TypeOK, OrderInv, Agents, Spawn, Goto
<1>18. CASE UNCHANGED vars
  BY <1>18 DEF IInv, TypeOK, OrderInv, Agents, vars
<1>19. QED
  BY <1>1, <1>2, <1>3, <1>4, <1>5, <1>6, <1>7, <1>8, <1>9, <1>10, <1>11, <1>12, <1>13, <1>14, <1>15, <1>16, <1>17, <1>18 DEF Next, Admission, ResetStep, Finished

\* Nobody is at work behind a zero count and a closed gate.
LEMMA ExclusiveStep == IInv /\ [Next]_vars /\ ~RelaxedReorder => ResetExclusive'
<1> SUFFICES ASSUME IInv, [Next]_vars, ~RelaxedReorder PROVE ResetExclusive'
  OBVIOUS
<1>1. ASSUME NEW a \in Ops, TryGuardFirst(a) PROVE ResetExclusive'
  BY <1>1 DEF IInv, TypeOK, ResetExclusive, PauseOwned, Paused, Clearing, ResetPC, Active, OrderInv, Agents, TryGuardFirst, Goto
<1>2. ASSUME NEW a \in Agents, TryGuardCount(a) PROVE ResetExclusive'
  BY <1>2 DEF IInv, TypeOK, ResetExclusive, PauseOwned, Paused, Clearing, ResetPC, Active, OrderInv, Agents, TryGuardCount, Goto
<1>3. ASSUME NEW a \in Agents, TryGuardSecond(a) PROVE ResetExclusive'
  BY <1>3 DEF IInv, TypeOK, ResetExclusive, PauseOwned, Paused, Clearing, ResetPC, Active, OrderInv, Agents, TryGuardSecond, Goto
<1>4. ASSUME NEW a \in Agents, TryGuardSecondEarly(a) PROVE ResetExclusive'
  BY <1>4 DEF IInv, TypeOK, ResetExclusive, PauseOwned, Paused, Clearing, ResetPC, Active, OrderInv, Agents, TryGuardSecondEarly, Goto
<1>5. ASSUME NEW a \in Agents, ReadToken(a) PROVE ResetExclusive'
  BY <1>5 DEF IInv, TypeOK, ResetExclusive, PauseOwned, Paused, Clearing, ResetPC, Active, OrderInv, Agents, ReadToken, Goto
<1>6. ASSUME NEW a \in Agents, NotifyWaiters(a) PROVE ResetExclusive'
  BY <1>6 DEF IInv, TypeOK, ResetExclusive, PauseOwned, Paused, Clearing, ResetPC, Active, OrderInv, Agents, NotifyWaiters, Goto
<1>7. ASSUME NEW a \in Agents, DropGuard(a) PROVE ResetExclusive'
  BY <1>7 DEF IInv, TypeOK, ResetExclusive, PauseOwned, Paused, Clearing, ResetPC, Active, OrderInv, Agents, DropGuard, Leave, Goto
<1>8. ASSUME NEW r \in Resets, TryPause(r) PROVE ResetExclusive'
  BY <1>8 DEF IInv, TypeOK, ResetExclusive, PauseOwned, Paused, Clearing, ResetPC, Active, OrderInv, Agents, TryPause, ResetGoto
<1>9. ASSUME NEW r \in Resets, CancelToken(r) PROVE ResetExclusive'
  BY <1>9 DEF IInv, TypeOK, ResetExclusive, PauseOwned, Paused, Clearing, ResetPC, Active, OrderInv, Agents, CancelToken, ResetGoto
<1>10. ASSUME NEW r \in Resets, WaitRegister(r) PROVE ResetExclusive'
  BY <1>10 DEF IInv, TypeOK, ResetExclusive, PauseOwned, Paused, Clearing, ResetPC, Active, OrderInv, Agents, WaitRegister, ResetGoto
<1>11. ASSUME NEW r \in Resets, WaitLoad(r) PROVE ResetExclusive'
  <2>1. CASE count = 0
    <3>1. \A a \in Agents : ~Active(a)
      BY <2>1, ZeroMeansEmpty DEF IInv
    <3>2. QED
      BY <1>11, <3>1 DEF ResetExclusive, Active, WaitLoad
  <2>2. CASE count # 0
    BY <1>11, <2>2 DEF IInv, TypeOK, ResetExclusive, Clearing, Active, WaitLoad, ResetGoto
  <2>3. QED
    BY <2>1, <2>2
<1>12. ASSUME NEW r \in Resets, WaitWoken(r) PROVE ResetExclusive'
  BY <1>12 DEF IInv, TypeOK, ResetExclusive, PauseOwned, Paused, Clearing, ResetPC, Active, OrderInv, Agents, WaitWoken, ResetGoto
<1>13. ASSUME NEW r \in Resets, FreshToken(r) PROVE ResetExclusive'
  BY <1>13 DEF IInv, TypeOK, ResetExclusive, PauseOwned, Paused, Clearing, ResetPC, Active, OrderInv, Agents, FreshToken, ResetGoto
<1>14. ASSUME NEW r \in Resets, ClearState(r) PROVE ResetExclusive'
  BY <1>14 DEF IInv, TypeOK, ResetExclusive, PauseOwned, Paused, Clearing, ResetPC, Active, OrderInv, Agents, ClearState, ResetGoto
<1>15. ASSUME NEW r \in Resets, EndReset(r) PROVE ResetExclusive'
  BY <1>15 DEF IInv, TypeOK, ResetExclusive, PauseOwned, Paused, Clearing, ResetPC, Active, OrderInv, Agents, EndReset, ResetGoto
<1>16. ASSUME NEW r \in Resets, DropReset(r) PROVE ResetExclusive'
  BY <1>16 DEF IInv, TypeOK, ResetExclusive, PauseOwned, Paused, Clearing, ResetPC, Active, OrderInv, Agents, DropReset, ResetGoto
<1>17. ASSUME NEW a \in Ops, NEW t \in Tasks, Spawn(a, t) PROVE ResetExclusive'
  BY <1>17 DEF IInv, TypeOK, ResetExclusive, PauseOwned, Paused, Clearing, ResetPC, Active, OrderInv, Agents, Spawn, Goto
<1>18. CASE UNCHANGED vars
  BY <1>18 DEF IInv, TypeOK, ResetExclusive, PauseOwned, Paused, Clearing, ResetPC, Active, OrderInv, Agents, vars
<1>19. QED
  BY <1>1, <1>2, <1>3, <1>4, <1>5, <1>6, <1>7, <1>8, <1>9, <1>10, <1>11, <1>12, <1>13, <1>14, <1>15, <1>16, <1>17, <1>18 DEF Next, Admission, ResetStep, Finished

-----------------------------------------------------------------------------
(* Theorems                                                                *)

\* The idle coordinator satisfies the invariant.
LEMMA InitIInv == Init => IInv
<1> SUFFICES ASSUME Init PROVE IInv
  OBVIOUS
<1>1. CountInv
  <2>1. Holders = {}
    BY DEF Init, Holders, Counted
  <2>2. QED
    BY <2>1, FS_EmptySet DEF Init, CountInv
<1>2. TypeOK /\ PauseOwned /\ ResetExclusive /\ OrderInv
  BY DEF Init, TypeOK, AgentPC, ResetPC, PauseOwned, Paused, ResetExclusive,
         Clearing, OrderInv
<1>3. QED
  BY <1>1, <1>2 DEF IInv

\* IInv is inductive; of exclusion, where the second check of try_guard stays in order.
THEOREM Invariance == Spec => []IInv
<1>1. IInv /\ [Next]_vars => IInv'
  BY TypeStep, CountStep, PauseStep, OrderStep, ExclusiveStep DEF IInv
<1>2. QED
  BY InitIInv, <1>1, PTL DEF Spec

\* While a reset clears, nothing it did not wait for is at work.
THEOREM Exclusive == ASSUME ~RelaxedReorder PROVE Spec => []ResetExclusive
BY Invariance, PTL DEF IInv

\* One reset at a time owns the pause and every way out of it reopens, in whatever
\* order a machine performs the accesses of try_guard.
THEOREM PauseExact == Spec => []PauseOwned
BY Invariance, PTL DEF IInv

-----------------------------------------------------------------------------
(* Refinement                                                              *)

inside == {a \in Agents : Active(a)}
phase == IF \E r \in Resets : Clearing(r) THEN "clearing"
         ELSE IF \E r \in Resets : Paused(r) THEN "draining"
         ELSE "open"

GateNext == \/ \E a \in Agents : \/ /\ phase = "open" /\ a \notin inside
                                    /\ inside' = inside \cup {a} /\ phase' = phase
                                 \/ /\ a \in inside
                                    /\ inside' = inside \ {a} /\ phase' = phase
            \/ \E a, b \in Agents : /\ a \in inside /\ b \notin inside
                                     /\ inside' = inside \cup {b} /\ phase' = phase
            \/ phase = "open" /\ phase' = "draining" /\ inside' = inside
            \/ /\ phase = "draining" /\ inside = {}
               /\ phase' = "clearing" /\ inside' = inside
            \/ phase # "open" /\ phase' = "open" /\ inside' = inside

\* The steps of the gate used below are steps of its Next.
LEMMA GateNextIsNext == GateNext => Gate!Next
BY DEF GateNext, inside, phase, Gate!Next, Gate!Enter, Gate!Leave, Gate!Fork,
       Gate!Close, Gate!Clear, Gate!Reopen

\* Steps of agents leave the phase alone, steps of resets the agents.
LEMMA PhaseFrame == rs' = rs => phase' = phase
BY DEF phase, Clearing, Paused

\* Who is inside depends on where the agents are only.
LEMMA InsideFrame == ag' = ag => inside' = inside
BY DEF inside, Active

\* Every step of the counter is a step of the gate or none.
LEMMA GateStep ==
    ASSUME ~RelaxedReorder, IInv, [Next]_vars
    PROVE  GateNext \/ (phase' = phase /\ inside' = inside)
<1>1. ASSUME NEW a \in Ops, TryGuardFirst(a) PROVE GateNext \/ (phase' = phase /\ inside' = inside)
  <2>1. phase' = phase
    BY <1>1, PhaseFrame DEF TryGuardFirst
  <2>2. inside' = inside
    BY <1>1 DEF IInv, TypeOK, OrderInv, TryGuardFirst, Goto, inside, Active, Agents
  <2>3. QED
    BY <2>1, <2>2
<1>2. ASSUME NEW a \in Agents, TryGuardCount(a) PROVE GateNext \/ (phase' = phase /\ inside' = inside)
  <2>1. phase' = phase
    BY <1>2, PhaseFrame DEF TryGuardCount
  <2>2. inside' = inside
    BY <1>2 DEF IInv, TypeOK, OrderInv, TryGuardCount, Goto, inside, Active, Agents
  <2>3. QED
    BY <2>1, <2>2
<1>3. ASSUME NEW a \in Agents, TryGuardSecond(a) PROVE GateNext \/ (phase' = phase /\ inside' = inside)
  <2>1. phase' = phase /\ a \notin inside
    BY <1>3, PhaseFrame DEF TryGuardSecond, Goto, inside, Active
  <2>2. CASE accepting
    <3>1. inside' = inside \cup {a}
      BY <1>3, <2>2 DEF IInv, TypeOK, TryGuardSecond, Goto, inside, Active
    <3>2. phase = "open"
      BY <2>2 DEF IInv, PauseOwned, phase, Clearing, Paused, ResetPC
    <3>3. QED
      BY <2>1, <3>1, <3>2 DEF GateNext
  <2>3. CASE ~accepting
    <3>1. inside' = inside
      BY <1>3, <2>3 DEF IInv, TypeOK, TryGuardSecond, Goto, inside, Active
    <3>2. QED
      BY <2>1, <3>1
  <2>4. QED
    BY <2>2, <2>3
<1>4. ASSUME NEW a \in Agents, TryGuardSecondEarly(a) PROVE GateNext \/ (phase' = phase /\ inside' = inside)
  <2>1. phase' = phase
    BY <1>4, PhaseFrame DEF TryGuardSecondEarly
  <2>2. inside' = inside
    BY <1>4 DEF IInv, TypeOK, OrderInv, TryGuardSecondEarly, Goto, inside, Active, Agents
  <2>3. QED
    BY <2>1, <2>2
<1>5. ASSUME NEW a \in Agents, ReadToken(a) PROVE GateNext \/ (phase' = phase /\ inside' = inside)
  <2>1. phase' = phase
    BY <1>5, PhaseFrame DEF ReadToken
  <2>2. inside' = inside
    BY <1>5 DEF IInv, TypeOK, OrderInv, ReadToken, Goto, inside, Active, Agents
  <2>3. QED
    BY <2>1, <2>2
<1>6. ASSUME NEW a \in Agents, NotifyWaiters(a) PROVE GateNext \/ (phase' = phase /\ inside' = inside)
  <2>1. phase' = phase
    BY <1>6, PhaseFrame DEF NotifyWaiters
  <2>2. inside' = inside
    BY <1>6 DEF IInv, TypeOK, OrderInv, NotifyWaiters, Goto, inside, Active, Agents
  <2>3. QED
    BY <2>1, <2>2
<1>7. ASSUME NEW a \in Agents, DropGuard(a) PROVE GateNext \/ (phase' = phase /\ inside' = inside)
  <2>1. phase' = phase
    BY <1>7, PhaseFrame DEF DropGuard, Leave
  <2>2. inside' = inside \ {a}
    BY <1>7 DEF IInv, TypeOK, DropGuard, Leave, Goto, inside, Active
  <2>3. CASE a \in inside
    BY <2>1, <2>2, <2>3 DEF GateNext
  <2>4. CASE a \notin inside
    BY <2>1, <2>2, <2>4
  <2>5. QED
    BY <2>3, <2>4
<1>8. ASSUME NEW r \in Resets, TryPause(r) PROVE GateNext \/ (phase' = phase /\ inside' = inside)
  <2>1. inside' = inside
    BY <1>8, InsideFrame DEF TryPause
  <2>2. CASE accepting
    <3>1. phase = "open"
      BY <2>2 DEF IInv, PauseOwned, phase, Clearing, Paused, ResetPC
    <3>2. Paused(r)' /\ \A s \in Resets : ~Clearing(s)'
      BY <1>8, <2>2 DEF IInv, TypeOK, PauseOwned, Paused, Clearing, ResetPC, TryPause, ResetGoto
    <3>3. phase' = "draining"
      BY <3>2 DEF phase
    <3>4. QED
      BY <2>1, <3>1, <3>3 DEF GateNext
  <2>3. CASE ~accepting
    <3>1. \A s \in Resets : (Paused(s)' <=> Paused(s)) /\ (Clearing(s)' <=> Clearing(s))
      BY <1>8, <2>3 DEF IInv, TypeOK, Paused, Clearing, ResetPC, TryPause, ResetGoto
    <3>2. phase' = phase
      BY <3>1 DEF phase
    <3>3. QED
      BY <2>1, <3>2
  <2>4. QED
    BY <2>2, <2>3
<1>9. ASSUME NEW r \in Resets, CancelToken(r) PROVE GateNext \/ (phase' = phase /\ inside' = inside)
  <2>1. inside' = inside
    BY <1>9, InsideFrame DEF CancelToken
  <2>2. \A s \in Resets : (Paused(s)' <=> Paused(s)) /\ (Clearing(s)' <=> Clearing(s))
    BY <1>9 DEF IInv, TypeOK, Paused, Clearing, ResetPC, CancelToken, ResetGoto
  <2>3. phase' = phase
    BY <2>2 DEF phase
  <2>4. QED
    BY <2>1, <2>3
<1>10. ASSUME NEW r \in Resets, WaitRegister(r) PROVE GateNext \/ (phase' = phase /\ inside' = inside)
  <2>1. inside' = inside
    BY <1>10, InsideFrame DEF WaitRegister
  <2>2. \A s \in Resets : (Paused(s)' <=> Paused(s)) /\ (Clearing(s)' <=> Clearing(s))
    BY <1>10 DEF IInv, TypeOK, Paused, Clearing, ResetPC, WaitRegister, ResetGoto
  <2>3. phase' = phase
    BY <2>2 DEF phase
  <2>4. QED
    BY <2>1, <2>3
<1>11. ASSUME NEW r \in Resets, WaitLoad(r) PROVE GateNext \/ (phase' = phase /\ inside' = inside)
  <2>1. inside' = inside
    BY <1>11, InsideFrame DEF WaitLoad
  <2>2. CASE count = 0
    <3>1. inside = {}
      BY <2>2, ZeroMeansEmpty DEF IInv, inside
    <3>2. Paused(r) /\ \A s \in Resets : ~Clearing(s)
      BY <1>11 DEF IInv, PauseOwned, Paused, Clearing, ResetPC, WaitLoad, ResetGoto
    <3>3. Clearing(r)'
      BY <1>11, <2>2 DEF IInv, TypeOK, Clearing, WaitLoad, ResetGoto
    <3>4. phase = "draining" /\ phase' = "clearing"
      BY <3>2, <3>3 DEF phase
    <3>5. QED
      BY <2>1, <3>1, <3>4 DEF GateNext
  <2>3. CASE count # 0
    <3>1. \A s \in Resets : (Paused(s)' <=> Paused(s)) /\ (Clearing(s)' <=> Clearing(s))
      BY <1>11, <2>3 DEF IInv, TypeOK, Paused, Clearing, ResetPC, WaitLoad, ResetGoto
    <3>2. phase' = phase
      BY <3>1 DEF phase
    <3>3. QED
      BY <2>1, <3>2
  <2>4. QED
    BY <2>2, <2>3
<1>12. ASSUME NEW r \in Resets, WaitWoken(r) PROVE GateNext \/ (phase' = phase /\ inside' = inside)
  <2>1. inside' = inside
    BY <1>12, InsideFrame DEF WaitWoken
  <2>2. \A s \in Resets : (Paused(s)' <=> Paused(s)) /\ (Clearing(s)' <=> Clearing(s))
    BY <1>12 DEF IInv, TypeOK, Paused, Clearing, ResetPC, WaitWoken, ResetGoto
  <2>3. phase' = phase
    BY <2>2 DEF phase
  <2>4. QED
    BY <2>1, <2>3
<1>13. ASSUME NEW r \in Resets, FreshToken(r) PROVE GateNext \/ (phase' = phase /\ inside' = inside)
  <2>1. inside' = inside
    BY <1>13, InsideFrame DEF FreshToken
  <2>2. \A s \in Resets : (Paused(s)' <=> Paused(s)) /\ (Clearing(s)' <=> Clearing(s))
    BY <1>13 DEF IInv, TypeOK, Paused, Clearing, ResetPC, FreshToken, ResetGoto
  <2>3. phase' = phase
    BY <2>2 DEF phase
  <2>4. QED
    BY <2>1, <2>3
<1>14. ASSUME NEW r \in Resets, ClearState(r) PROVE GateNext \/ (phase' = phase /\ inside' = inside)
  <2>1. inside' = inside
    BY <1>14, InsideFrame DEF ClearState
  <2>2. \A s \in Resets : (Paused(s)' <=> Paused(s)) /\ (Clearing(s)' <=> Clearing(s))
    BY <1>14 DEF IInv, TypeOK, Paused, Clearing, ResetPC, ClearState, ResetGoto
  <2>3. phase' = phase
    BY <2>2 DEF phase
  <2>4. QED
    BY <2>1, <2>3
<1>15. ASSUME NEW r \in Resets, EndReset(r) PROVE GateNext \/ (phase' = phase /\ inside' = inside)
  <2>1. inside' = inside
    BY <1>15, InsideFrame DEF EndReset
  <2>2. Paused(r)
    BY <1>15 DEF Paused, ResetPC, EndReset, ResetGoto
  <2>3. \A s \in Resets : ~Paused(s)' /\ ~Clearing(s)'
    BY <1>15, <2>2 DEF IInv, TypeOK, PauseOwned, Paused, Clearing, ResetPC, EndReset, ResetGoto
  <2>4. phase # "open" /\ phase' = "open"
    BY <2>2, <2>3 DEF phase
  <2>5. QED
    BY <2>1, <2>4 DEF GateNext
<1>16. ASSUME NEW r \in Resets, DropReset(r) PROVE GateNext \/ (phase' = phase /\ inside' = inside)
  <2>1. inside' = inside
    BY <1>16, InsideFrame DEF DropReset
  <2>2. Paused(r)
    BY <1>16 DEF Paused, ResetPC, DropReset, ResetGoto
  <2>3. \A s \in Resets : ~Paused(s)' /\ ~Clearing(s)'
    BY <1>16, <2>2 DEF IInv, TypeOK, PauseOwned, Paused, Clearing, ResetPC, DropReset, ResetGoto
  <2>4. phase # "open" /\ phase' = "open"
    BY <2>2, <2>3 DEF phase
  <2>5. QED
    BY <2>1, <2>4 DEF GateNext
<1>17. ASSUME NEW a \in Ops, NEW t \in Tasks, Spawn(a, t) PROVE GateNext \/ (phase' = phase /\ inside' = inside)
  <2>1. phase' = phase
    BY <1>17, PhaseFrame DEF Spawn
  <2>2. a \in inside /\ t \in Agents /\ t \notin inside /\ inside' = inside \cup {t}
    BY <1>17 DEF IInv, TypeOK, Spawn, Goto, inside, Active, Agents
  <2>3. QED
    BY <2>1, <2>2 DEF GateNext, inside
<1>18. CASE UNCHANGED vars
  BY <1>18, PhaseFrame, InsideFrame DEF vars
<1>19. QED
  BY <1>1, <1>2, <1>3, <1>4, <1>5, <1>6, <1>7, <1>8, <1>9, <1>10, <1>11, <1>12, <1>13, <1>14, <1>15, <1>16, <1>17, <1>18 DEF Next, Admission, ResetStep, Finished

\* The counter implements the gate: what a reset relies on is what it gets.
THEOREM Refinement == ASSUME ~RelaxedReorder PROVE Spec => ImplementsGate
<1>1. Init => Gate!Init
  BY DEF Init, Gate!Init, Clearing, Paused, Active, ResetPC
<1>2. IInv /\ [Next]_vars => [Gate!Next]_(Gate!gvars)
  BY GateStep, GateNextIsNext DEF inside, phase, Gate!gvars
<1>3. QED
  BY Invariance, <1>1, <1>2, PTL DEF Spec, ImplementsGate, Gate!Spec
=============================================================================

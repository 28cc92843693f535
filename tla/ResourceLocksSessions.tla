----------------------- MODULE ResourceLocksSessions ------------------------
(***************************************************************************)
(* The steps that release locks, end runtimes and recover locks keep the   *)
(* inductive invariant of ResourceLocks.                                   *)
(***************************************************************************)
EXTENDS ResourceLocksInvariant

(***************************************************************************)
(* Steps that touch neither locks nor queues.                              *)
(***************************************************************************)
LEMMA SessionInv ==
    ASSUME IInv,
           \/ \E r \in Resources : RecoverRead(r)
           \/ RecoverInspect
           \/ \E rt \in Runtimes, result \in {"failed", "ok"} : Retire(rt, result)
           \/ \E rt \in Runtimes : DropSession(rt)
           \/ UNCHANGED vars
    PROVE  IInv'
<1>1. UNCHANGED <<lockVars, queueVars, callVars, shutting, released>>
  BY DEF RecoverRead, RecoverInspect, Retire, DropSession, vars, sessionVars
<1>2. TypeOK' /\ DrainFenced'
  <2>1. CASE \E r \in Resources : RecoverRead(r)
    <3>1. PICK r \in Resources : RecoverRead(r)
      BY <2>1
    <3>2. r \in Resources /\ holder[r] \in Runtimes
      BY <3>1 DEF RecoverRead, IInv, TypeOK
    <3>3. token[r] \in Tokens
      BY <3>1, <3>2 DEF RecoverRead, IInv, TypeOK
    <3> QED
      BY <1>1, <3>1, <3>2, <3>3 DEF IInv, TypeOK, DrainFenced, RecoverRead, NoRecovery,
          lockVars, queueVars, callVars, sessionVars
  <2>2. CASE RecoverInspect
    BY <1>1, <2>2 DEF IInv, TypeOK, DrainFenced, RecoverInspect, DrainProved, NoRecovery,
        lockVars, queueVars, callVars, sessionVars
  <2>3. CASE \E rt \in Runtimes, result \in {"failed", "ok"} : Retire(rt, result)
    BY <1>1, <2>3 DEF IInv, TypeOK, DrainFenced, Retire, NoRecovery,
        lockVars, queueVars, callVars
  <2>4. CASE \E rt \in Runtimes : DropSession(rt)
    BY <1>1, <2>4 DEF IInv, TypeOK, DrainFenced, DropSession,
        lockVars, queueVars, callVars
  <2>5. CASE UNCHANGED vars
    BY <2>5 DEF IInv, TypeOK, DrainFenced, vars, lockVars, queueVars, callVars, sessionVars
  <2> QED
    BY <2>1, <2>2, <2>3, <2>4, <2>5
<1>3. QueueInv'
  BY <1>1, QueueShrinks DEF IInv, QueueInv, QueueOrdered, queueVars, callVars
<1>4. NoLostWakeup' /\ WaitsOrdered' /\ ReleasedHoldsNothing'
  BY <1>1 DEF IInv, NoLostWakeup, QueuedOn, WaitsOrdered, ReleasedHoldsNothing,
              ResourceOf, RuntimeOf, lockVars, queueVars, callVars
<1> QED
  BY <1>2, <1>3, <1>4 DEF IInv

(***************************************************************************)
(* recover removes a lock only after the drain of the runtime it read.     *)
(***************************************************************************)
LEMMA RecoverCommitInv ==
    ASSUME IInv, RecoverCommit
    PROVE  IInv'
<1>1. /\ recovery' = NoRecovery /\ UNCHANGED <<callVars, sessionVars>>
      /\ recovery.resource \in Resources
      /\ \/ Unlock({recovery.resource})
         \/ UNCHANGED <<lockVars, queueVars>>
  BY DEF RecoverCommit, NoRecovery, IInv, TypeOK
<1>2. DrainFenced'
  BY <1>1 DEF IInv, DrainFenced, NoRecovery, sessionVars
<1>3. CASE Unlock({recovery.resource})
  <2> DEFINE r == recovery.resource
  <2> HIDE DEF r
  <2>1. Unlock({r}) /\ r \in Resources
    BY <1>1, <1>3 DEF r
  <2>2. /\ TypeOK' /\ QueueInv' /\ NoLostWakeup' /\ WaitsOrdered'
        /\ \A h \in Resources : holder'[h] = NoRuntime \/ holder'[h] = holder[h]
    BY <1>1, <2>1, UnlockServes DEF IInv, TypeOK, callVars, sessionVars
  <2>3. ReleasedHoldsNothing'
    BY <1>1, <2>2, NullsAreFresh DEF IInv, TypeOK, ReleasedHoldsNothing, sessionVars
  <2> QED
    BY <1>2, <2>2, <2>3 DEF IInv
<1>4. CASE UNCHANGED <<lockVars, queueVars>>
  <2>1. TypeOK'
    BY <1>1, <1>4 DEF IInv, TypeOK, lockVars, queueVars, callVars, sessionVars
  <2>2. QueueInv'
    BY <1>1, <1>4, QueueShrinks DEF IInv, QueueInv, QueueOrdered, queueVars, callVars
  <2>3. NoLostWakeup' /\ WaitsOrdered' /\ ReleasedHoldsNothing'
    BY <1>1, <1>4 DEF IInv, NoLostWakeup, QueuedOn, WaitsOrdered, ReleasedHoldsNothing,
                      ResourceOf, RuntimeOf, lockVars, queueVars, callVars, sessionVars
  <2> QED
    BY <1>2, <2>1, <2>2, <2>3 DEF IInv
<1> QED
  BY <1>1, <1>3, <1>4

(***************************************************************************)
(* release frees one lock of the caller.                                   *)
(***************************************************************************)
LEMMA ReleaseInv ==
    ASSUME IInv, NEW rt \in Runtimes, NEW r \in Resources, NEW t \in Tokens, Release(rt, r, t)
    PROVE  IInv'
<1>1. Unlock({r}) /\ UNCHANGED <<callVars, sessionVars, recovery>>
  BY DEF Release
<1>2. /\ TypeOK' /\ QueueInv' /\ NoLostWakeup' /\ WaitsOrdered'
      /\ \A h \in Resources : holder'[h] = NoRuntime \/ holder'[h] = holder[h]
  BY <1>1, UnlockServes DEF IInv, TypeOK, callVars, sessionVars
<1>3. DrainFenced' /\ ReleasedHoldsNothing'
  BY <1>1, <1>2, NullsAreFresh
  DEF IInv, TypeOK, DrainFenced, ReleasedHoldsNothing, sessionVars
<1> QED
  BY <1>2, <1>3 DEF IInv

(***************************************************************************)
(* release_session frees every lock of a drained runtime, which is fenced  *)
(* by then.                                                                *)
(***************************************************************************)
LEMMA ReleaseSessionInv ==
    ASSUME IInv, NEW rt \in Runtimes, ReleaseSession(rt)
    PROVE  IInv'
<1> DEFINE held == {r \in Resources : holder[r] = rt}
<1>1. /\ Unlock(held) /\ UNCHANGED <<callVars, shutting, retirement, gone, recovery>>
      /\ released' = released \cup {rt} /\ retirement[rt] = "ok"
      /\ held \in SUBSET Resources
  BY DEF ReleaseSession
<1>2. \A r \in Resources : r \in held <=> holder[r] = rt
  OBVIOUS
<1> HIDE DEF held
<1>3. /\ TypeOK' /\ QueueInv' /\ NoLostWakeup' /\ WaitsOrdered'
      /\ \A h \in Resources : holder'[h] = IF h \in held THEN NoRuntime ELSE holder[h]
  BY <1>1, UnlockServes DEF IInv, TypeOK, callVars
<1>4. DrainFenced' /\ ReleasedHoldsNothing'
  BY <1>1, <1>2, <1>3, NullsAreFresh
     DEF IInv, TypeOK, DrainFenced, ReleasedHoldsNothing
<1> QED
  BY <1>3, <1>4 DEF IInv

(***************************************************************************)
(* fence_session removes the queued waiters of its runtime.                *)
(***************************************************************************)
LEMMA FenceSessionInv ==
    ASSUME IInv, NEW rt \in Runtimes, FenceSession(rt)
    PROVE  IInv'
<1> DEFINE out == {w \in queued : RuntimeOf(w) = rt}
<1>1. /\ shutting' = shutting \cup {rt}
      /\ queued' = queued \ out /\ ahead' = Dequeued(ahead, out)
      /\ UNCHANGED <<lockVars, notified, pending, callVars, retirement, released, gone, recovery>>
  BY DEF FenceSession
<1> HIDE DEF out
<1>2. ahead' \in [Waiters -> SUBSET Waiters] /\ Ordered(queued', ahead') /\ queued' \subseteq queued
  BY <1>1, DequeuedOrdered, Zenon DEF IInv, TypeOK, QueueInv, QueueOrdered
<1>3. TypeOK'
  BY <1>1, <1>2 DEF IInv, TypeOK, lockVars, callVars
<1>4. QueueInv'
  BY <1>1, <1>2, QueueShrinks DEF IInv, callVars
<1>5. NoLostWakeup' /\ WaitsOrdered' /\ DrainFenced' /\ ReleasedHoldsNothing'
  BY <1>1, <1>2 DEF IInv, NoLostWakeup, QueuedOn, WaitsOrdered, DrainFenced, ReleasedHoldsNothing,
                    ResourceOf, RuntimeOf, lockVars, callVars
<1> QED
  BY <1>3, <1>4, <1>5 DEF IInv
=============================================================================

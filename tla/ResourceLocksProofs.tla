------------------------ MODULE ResourceLocksProofs -------------------------
(***************************************************************************)
(* Theorems about ResourceLocks, for any set of calls, runtimes, resources *)
(* and tokens.                                                             *)
(***************************************************************************)
EXTENDS ResourceLocksAcquire, ResourceLocksDrop, ResourceLocksSessions

(***************************************************************************)
(* The inductive invariant holds initially.                                *)
(***************************************************************************)
LEMMA InitInv == Init => IInv
<1> SUFFICES ASSUME Init PROVE IInv
  OBVIOUS
<1>1. TypeOK
  BY DEF Init, TypeOK, NoRecovery
<1>2. QueueInv
  BY NullsAreFresh DEF Init, QueueInv, CallsOwn, PendingOwned, QueuedOwned, NotifiedOwned,
       QueueOrdered, Ordered, Waiters
<1>3. NoLostWakeup /\ WaitsOrdered /\ DrainFenced /\ ReleasedHoldsNothing
  BY DEF Init, NoLostWakeup, QueuedOn, WaitsOrdered, DrainFenced, ReleasedHoldsNothing,
         NoRecovery
<1> QED
  BY <1>1, <1>2, <1>3 DEF IInv

(***************************************************************************)
(* acquire_wait: the call begins.                                          *)
(***************************************************************************)
LEMMA AcquireWaitInv ==
    ASSUME IInv, NEW c \in Calls, NEW r \in Resources, AcquireWait(c, r)
    PROVE  IInv'
<1> USE DEF AcquireWait
<1>1. TypeOK'
  BY DEF IInv, TypeOK, lockVars, queueVars, sessionVars
<1>2. \A w \in Waiters : w \in pending \cup queued => w[1] # c
  BY NullsAreFresh DEF IInv, QueueInv, CallsOwn, PendingOwned, QueuedOwned
<1>3. \A w \in pending \cup queued : ResourceOf(w)' = ResourceOf(w)
  BY <1>2 DEF ResourceOf, IInv, TypeOK
<1>4. CallsOwn'
  BY DEF IInv, TypeOK, QueueInv, CallsOwn
<1>5. PendingOwned' /\ QueuedOwned'
  BY <1>2 DEF IInv, TypeOK, QueueInv, PendingOwned, QueuedOwned, queueVars
<1>6. NotifiedOwned'
  BY <1>3 DEF IInv, QueueInv, NotifiedOwned, queueVars
<1>7. QueueOrdered'
  BY <1>3 DEF IInv, QueueInv, QueueOrdered, Ordered, queueVars
<1>8. NoLostWakeup'
  BY <1>3 DEF IInv, NoLostWakeup, QueuedOn, queueVars, lockVars
<1>9. WaitsOrdered' /\ DrainFenced' /\ ReleasedHoldsNothing'
  BY <1>3 DEF IInv, WaitsOrdered, DrainFenced, ReleasedHoldsNothing, RuntimeOf,
              queueVars, lockVars, sessionVars
<1> QED
  BY <1>1, <1>4, <1>5, <1>6, <1>7, <1>8, <1>9 DEF IInv, QueueInv

(***************************************************************************)
(* Steps that only move a call between waiting, attempting and leaving, or *)
(* mark it cancelled or expired.                                           *)
(***************************************************************************)
LEMMA CallMovesInv ==
    ASSUME IInv, NEW c \in Calls,
           Signalled(c) \/ GiveUp(c) \/ DropFuture(c) \/ Cancel(c) \/ Expire(c)
    PROVE  IInv'
<1>1. /\ UNCHANGED <<lockVars, queueVars, target, reg, old, sessionVars, recovery>>
      /\ cancelled' \subseteq Calls /\ expired' \subseteq Calls
  BY DEF IInv, TypeOK, Signalled, GiveUp, DropFuture, Cancel, Expire
<1>2. \/ pc' = pc
      \/ pc[c] = "waiting" /\ pc' = [pc EXCEPT ![c] = "exit"]
      \/ pc[c] = "waiting" /\ pc' = [pc EXCEPT ![c] = "attempt"] /\ reg[c] \notin queued
  BY DEF Signalled, GiveUp, DropFuture, Cancel, Expire
<1>3. TypeOK'
  BY <1>1, <1>2 DEF IInv, TypeOK, lockVars, queueVars, sessionVars
<1>4. CallsOwn' /\ PendingOwned'
  BY <1>1, <1>2 DEF IInv, TypeOK, QueueInv, CallsOwn, PendingOwned, queueVars
<1>5. QueuedOwned'
  BY <1>1, <1>2, WaiterCall DEF IInv, TypeOK, QueueInv, QueuedOwned, queueVars
<1>6. NotifiedOwned' /\ QueueOrdered' /\ NoLostWakeup' /\ WaitsOrdered'
      /\ DrainFenced' /\ ReleasedHoldsNothing'
  BY <1>1 DEF IInv, QueueInv, NotifiedOwned, QueueOrdered, Ordered, NoLostWakeup, QueuedOn,
              WaitsOrdered, DrainFenced, ReleasedHoldsNothing, ResourceOf, RuntimeOf,
              queueVars, lockVars, sessionVars
<1> QED
  BY <1>3, <1>4, <1>5, <1>6 DEF IInv, QueueInv

(***************************************************************************)
(* Every step keeps the inductive invariant.                               *)
(***************************************************************************)
LEMMA NextInv == IInv /\ [Next]_vars => IInv'
<1> SUFFICES ASSUME IInv, [Next]_vars PROVE IInv'
  OBVIOUS
<1>1. ASSUME NEW c \in Calls, Attempt(c) PROVE IInv'
  BY <1>1, RegisterInv, AnswerInv DEF Attempt
<1>2. ASSUME NEW c \in Calls, CallStep(c) PROVE IInv'
  BY <1>1, <1>2, SettleInv, CallMovesInv, DeregisterInv DEF CallStep
<1> QED
  BY <1>2, AcquireInv, AcquireWaitInv, CallMovesInv, ReleaseInv, SessionInv, RecoverCommitInv,
     FenceSessionInv, ReleaseSessionInv DEF Next

(***************************************************************************)
(* The inductive invariant holds in every reachable state.                 *)
(***************************************************************************)
THEOREM Invariance == Spec => []IInv
  BY InitInv, NextInv, PTL DEF Spec

(***************************************************************************)
(* The owner state always has its type, and a lock entry always carries    *)
(* both its owner and its token.                                           *)
(***************************************************************************)
THEOREM TypeCorrect == Spec => []TypeOK
<1>1. IInv => TypeOK
  BY DEF IInv
<1> QED
  BY <1>1, Invariance, PTL

(***************************************************************************)
(* For any number of calls, runtimes and resources: no free resource has a *)
(* queue without a retry in flight (notify_next, WaitRegistration::drop).  *)
(***************************************************************************)
THEOREM WakeupsAreKept == Spec => []NoLostWakeup
<1>1. IInv => NoLostWakeup
  BY DEF IInv
<1> QED
  BY <1>1, Invariance, PTL

(***************************************************************************)
(* release_session leaves nothing behind: calls that were in flight at the *)
(* fence cannot acquire afterwards (shutting_down in acquire_locked).      *)
(***************************************************************************)
THEOREM ReleaseIsFinal == Spec => []ReleasedHoldsNothing
<1>1. IInv => ReleasedHoldsNothing
  BY DEF IInv
<1> QED
  BY <1>1, Invariance, PTL

(***************************************************************************)
(* "Lock waits stay acyclic": of the runtimes of a supposed cycle take the *)
(* one that waits for the highest resource; whoever holds that resource    *)
(* waits for a higher one, because acquire_locked admits a wait only above *)
(* everything the runtime holds.                                           *)
(***************************************************************************)
LEMMA OrderedWaitsAreAcyclic == IInv => NoWaitCycle
<1> SUFFICES ASSUME IInv, NEW S \in SUBSET Runtimes, S # {},
                    \A a \in S : \E b \in S : WaitsFor(a, b)
             PROVE  FALSE
  BY DEF NoWaitCycle
<1> DEFINE edge(w, b) == w \in pending /\ RuntimeOf(w) \in S /\ b \in S
                         /\ RuntimeOf(w) # b /\ holder[ResourceOf(w)] = b
           dist == {NumResources - ResourceOf(w) : w \in {v \in pending : \E b \in S : edge(v, b)}}
<1>1. \A w \in pending : ResourceOf(w) \in Resources
  BY PendingTarget DEF IInv
<1>2. \A a \in S : \E w \in pending, b \in S : edge(w, b) /\ RuntimeOf(w) = a
  BY DEF WaitsFor
<1>3. dist \in SUBSET Nat
  BY <1>1, NumResourcesType DEF Resources
<1>4. dist # {}
  <2>1. PICK a \in S : TRUE
    OBVIOUS
  <2>2. PICK w \in pending, b \in S : edge(w, b)
    BY <1>2, <2>1
  <2> QED
    BY <2>2
<1>5. PICK m \in dist : \A n \in dist : m <= n
  <2> HIDE DEF dist
  <2> QED
    BY <1>3, <1>4, LeastNatural
<1>6. PICK w \in pending, b \in S : edge(w, b) /\ m = NumResources - ResourceOf(w)
  OBVIOUS
<1>7. PICK v \in pending, d \in S : edge(v, d) /\ RuntimeOf(v) = b
  BY <1>2, <1>6
<1>8. ResourceOf(w) <= ResourceOf(v) /\ ResourceOf(w) # ResourceOf(v)
  BY <1>1, <1>6, <1>7 DEF IInv, WaitsOrdered
<1>9. m <= NumResources - ResourceOf(v)
  BY <1>5, <1>7
<1> QED
  BY <1>1, <1>6, <1>8, <1>9, NumResourcesType DEF Resources

(***************************************************************************)
(* Waiting runtimes never wait for each other in a circle: locks are       *)
(* acquired in their order and a pending wait excludes the acquisition of  *)
(* other locks (acquire_locked).                                           *)
(***************************************************************************)
THEOREM WaitsStayAcyclic == Spec => []NoWaitCycle
  BY OrderedWaitsAreAcyclic, Invariance, PTL

(***************************************************************************)
(* A step takes a held lock from its holder only by the holder's own       *)
(* release or after the holder's drain was confirmed: acquire_locked       *)
(* grants free resources only, and recover compares the acquisition it     *)
(* inspected with the one it removes.                                      *)
(***************************************************************************)
LEMMA LockLost ==
    ASSUME IInv, Next, NEW r \in Resources,
           holder[r] # NoRuntime, holder'[r] # holder[r]
    PROVE  Release(holder[r], r, token[r]) \/ retirement[holder[r]] = "ok"
<1>1. ASSUME NEW rt \in Runtimes, NEW s \in Resources, NEW own, NEW status,
             Grant(rt, s, status),
             status = "granted" => AcquireStatus(rt, s, own) = "granted"
      PROVE  holder'[r] = holder[r]
  BY <1>1 DEF Grant, AcquireStatus, lockVars, IInv, TypeOK
<1>2. ASSUME NEW c \in Calls, NEW s \in Resources, Acquire(c, s) PROVE FALSE
  BY <1>1, <1>2, CallerType DEF Acquire
<1>3. ASSUME NEW c \in Calls, CallStep(c) PROVE FALSE
  <2>1. CASE Attempt(c)
    <3>1. target[c] \in Resources
      BY <2>1 DEF Attempt, IInv, QueueInv, CallsOwn
    <3>2. AttemptStatus(c) = "granted" => AcquireStatus(Caller[c], target[c], reg[c]) = "granted"
      BY DEF AttemptStatus
    <3>3. CASE Answer(c, AttemptStatus(c))
      BY <1>1, <3>1, <3>2, <3>3, CallerType DEF Answer
    <3>4. CASE Register(c)
      BY <3>4 DEF Register, lockVars
    <3> QED
      BY <2>1, <3>3, <3>4 DEF Attempt
  <2> QED
    BY <1>3, <2>1 DEF CallStep, Settle, Signalled, GiveUp, Deregister, lockVars
<1>4. ASSUME NEW rt \in Runtimes, NEW s \in Resources, NEW t \in Tokens, Release(rt, s, t)
      PROVE  Release(holder[r], r, token[r])
  <2>1. s = r
    BY <1>4 DEF Release, Unlock, IInv, TypeOK
  <2>2. rt = holder[r] /\ t = token[r]
    BY <1>4, <2>1 DEF Release
  <2> QED
    BY <1>4, <2>1, <2>2
<1>5. ASSUME RecoverCommit PROVE retirement[holder[r]] = "ok"
  <2>1. SameAcquisition /\ Unlock({recovery.resource})
    BY <1>5 DEF RecoverCommit, lockVars
  <2>2. recovery.resource = r
    BY <2>1 DEF Unlock, IInv, TypeOK
  <2> QED
    BY <1>5, <2>1, <2>2 DEF SameAcquisition, RecoverCommit, IInv, DrainFenced
<1>6. ASSUME NEW rt \in Runtimes, ReleaseSession(rt) PROVE retirement[holder[r]] = "ok"
  BY <1>6 DEF ReleaseSession, Unlock, IInv, TypeOK
<1>7. ASSUME UNCHANGED holder PROVE FALSE
  BY <1>7
<1> QED
  BY <1>2, <1>3, <1>4, <1>5, <1>6, <1>7, Zenon
     DEF Next, AcquireWait, DropFuture, Cancel, Expire, RecoverRead, RecoverInspect,
         FenceSession, Retire, DropSession, lockVars

(***************************************************************************)
(* A lock leaves its holder only by the holder's own release, by           *)
(* release_session, or by a recovery that proved the holder drained        *)
(* (release, release_session, recover).                                    *)
(***************************************************************************)
THEOREM LocksAreNotStolen == Spec => LostOnlyWhenReleasedOrDrained
<1>1. IInv /\ [Next]_vars =>
        [\A r \in Resources :
            holder[r] # NoRuntime /\ holder'[r] # holder[r] =>
                \/ Release(holder[r], r, token[r])
                \/ retirement[holder[r]] = "ok"]_vars
  BY LockLost
<1> QED
  BY <1>1, Invariance, PTL DEF Spec, LostOnlyWhenReleasedOrDrained
=============================================================================

------------------------ MODULE ResourceLocksAcquire ------------------------
(***************************************************************************)
(* The critical sections of acquire and of acquire_wait keep the           *)
(* inductive invariant of ResourceLocks.                                   *)
(***************************************************************************)
EXTENDS ResourceLocksInvariant

(***************************************************************************)
(* acquire_wait, any other answer: a grant wakes the other waiters of its  *)
(* runtime.                                                                *)
(***************************************************************************)
LEMMA AnswerInv ==
    ASSUME IInv, NEW c \in Calls, pc[c] = "attempt", Answer(c, AttemptStatus(c)),
           UNCHANGED <<sessionVars, recovery>>
    PROVE  IInv'
<1> DEFINE status == AttemptStatus(c)
           rt == Caller[c]
           r == target[c]
<1>1. /\ old[c] = NoWaiter /\ reg[c] \in Own(c) \cup {NoWaiter}
      /\ r \in Resources /\ rt \in Runtimes /\ TypeOK /\ QueueInv
  BY CallerType DEF IInv, QueueInv, CallsOwn
<1>2. /\ Grant(rt, r, status) /\ WakeRuntime(rt, r, status)
      /\ reg' = [reg EXCEPT ![c] = NoWaiter]
      /\ old' = [old EXCEPT ![c] = reg[c]]
      /\ \/ /\ reg[c] = NoWaiter
            /\ pc' = [pc EXCEPT ![c] = "idle"]
            /\ target' = [target EXCEPT ![c] = 0]
         \/ /\ reg[c] # NoWaiter
            /\ pc' = [pc EXCEPT ![c] = "settle"]
            /\ target' = target
      /\ cancelled' \subseteq Calls /\ expired' \subseteq Calls
      /\ UNCHANGED <<notified, pending, sessionVars, recovery>>
  BY DEF Answer, Return, IInv, TypeOK
<1>3. status = "granted" =>
        /\ rt \notin shutting
        /\ \A w \in pending : RuntimeOf(w) = rt => ResourceOf(w) = r
        /\ \A h \in Resources : holder[h] = rt => ~(h >= r)
  <2>1. reg[c] \notin pending \/ ResourceOf(reg[c]) = r
    BY <1>1, NullsAreFresh, CallTypes DEF Own, ResourceOf
  <2> QED
    BY <2>1 DEF AttemptStatus, AcquireStatus
<1> HIDE DEF status
<1>4. /\ holder' \in [Resources -> Runtimes \cup {NoRuntime}]
      /\ token' \in [Resources -> Tokens \cup {NoToken}]
      /\ \A h \in Resources : holder'[h] = NoRuntime <=> token'[h] = NoToken
      /\ queued' \subseteq queued
      /\ ahead' \in [Waiters -> SUBSET Waiters]
      /\ Ordered(queued', ahead')
      /\ \A h \in Resources :
            holder'[h] = IF h = r /\ status = "granted" THEN rt ELSE holder[h]
  <2> HIDE DEF r, rt
  <2> QED
    BY <1>1, <1>2, GrantAndWake
<1>5. \A w \in queued : w[1] # c
  BY DEF IInv, QueueInv, QueuedOwned
<1>6. \A w \in Waiters : w \in pending /\ w[1] = c => reg[c] = w
  BY <1>1, NullsAreFresh DEF IInv, QueueInv, PendingOwned
<1>7. \A w \in pending \cup queued : ResourceOf(w)' = ResourceOf(w)
  BY <1>2, <1>5, <1>6, WaiterCall, NullsAreFresh, CallTypes DEF ResourceOf
<1>8. TypeOK'
  BY <1>1, <1>2, <1>4 DEF TypeOK, sessionVars
<1>9. CallsOwn'
  BY <1>1, <1>2, CallTypes DEF IInv, QueueInv, CallsOwn
<1>10. PendingOwned'
  <2>1. ASSUME NEW v \in Waiters, v[1] # c
        PROVE  reg'[v[1]] = reg[v[1]] /\ old'[v[1]] = old[v[1]]
    BY <1>2, <2>1, WaiterCall, CallTypes
  <2>2. ASSUME NEW v \in Waiters, v[1] = c
        PROVE  v \in pending <=> reg'[v[1]] = v \/ old'[v[1]] = v
    <3>1. reg'[c] = NoWaiter /\ old'[c] = reg[c]
      BY <1>2, CallTypes
    <3>2. v \in pending <=> reg[c] = v
      BY <1>1, <2>2, NullsAreFresh DEF IInv, QueueInv, PendingOwned
    <3> QED
      BY <2>2, <3>1, <3>2, NullsAreFresh
  <2> QED
    BY <1>2, <2>1, <2>2 DEF IInv, QueueInv, PendingOwned
<1>11. QueuedOwned'
  <2>1. ASSUME NEW v \in queued
        PROVE  reg'[v[1]] = reg[v[1]] /\ pc'[v[1]] = pc[v[1]]
    BY <1>2, <1>5, WaiterCall, CallTypes
  <2> QED
    BY <1>4, <2>1 DEF IInv, QueueInv, QueuedOwned
<1>12. NotifiedOwned'
  BY <1>2, <1>7 DEF IInv, QueueInv, NotifiedOwned
<1>13. QueueOrdered'
  BY <1>4, <1>7 DEF QueueOrdered, Ordered
<1>14. NoLostWakeup'
  BY <1>1, <1>2, <1>4, <1>7, NullsAreFresh DEF IInv, NoLostWakeup, QueuedOn
<1>15. WaitsOrdered'
  <2>1. \A w \in pending, h \in Resources :
            holder'[h] = RuntimeOf(w) => h <= ResourceOf(w)
    BY <1>3, <1>4, NumResourcesType DEF IInv, WaitsOrdered, Resources
  <2>2. pending' = pending
    BY <1>2
  <2> QED
    BY <1>7, <2>1, <2>2 DEF IInv, WaitsOrdered, RuntimeOf
<1>16. DrainFenced' /\ ReleasedHoldsNothing'
  BY <1>2, <1>3, <1>4 DEF IInv, DrainFenced, ReleasedHoldsNothing, sessionVars
<1> QED
  BY <1>8, <1>9, <1>10, <1>11, <1>12, <1>13, <1>14, <1>15, <1>16 DEF IInv, QueueInv

(***************************************************************************)
(* acquire: a nonwaiting acquisition keeps the invariant.                  *)
(***************************************************************************)
LEMMA AcquireInv ==
    ASSUME IInv, NEW c \in Calls, NEW r \in Resources, Acquire(c, r)
    PROVE  IInv'
<1> DEFINE status == AcquireStatus(Caller[c], r, NoWaiter)
<1>1. /\ TypeOK /\ QueueInv /\ Caller[c] \in Runtimes
      /\ Grant(Caller[c], r, status) /\ WakeRuntime(Caller[c], r, status)
      /\ UNCHANGED <<notified, pending, callVars, sessionVars, recovery>>
  BY CallerType DEF Acquire, IInv
<1>2. /\ holder' \in [Resources -> Runtimes \cup {NoRuntime}]
      /\ token' \in [Resources -> Tokens \cup {NoToken}]
      /\ \A h \in Resources : holder'[h] = NoRuntime <=> token'[h] = NoToken
      /\ queued' \subseteq queued
      /\ ahead' \in [Waiters -> SUBSET Waiters]
      /\ Ordered(queued', ahead')
      /\ \A h \in Resources :
            holder'[h] = IF h = r /\ status = "granted" THEN Caller[c] ELSE holder[h]
  <2> HIDE DEF status
  <2> QED
    BY <1>1, GrantAndWake
<1>3. status = "granted" =>
        /\ Caller[c] \notin shutting
        /\ \A w \in pending : RuntimeOf(w) = Caller[c] => ResourceOf(w) = r
        /\ \A h \in Resources : holder[h] = Caller[c] => ~(h >= r)
  BY NullsAreFresh DEF AcquireStatus, IInv, TypeOK
<1> HIDE DEF status
<1>4. TypeOK'
  BY <1>1, <1>2 DEF TypeOK, callVars, sessionVars
<1>5. QueueInv'
  BY <1>1, <1>2, QueueShrinks DEF callVars
<1>6. NoLostWakeup'
  BY <1>1, <1>2, NullsAreFresh DEF IInv, NoLostWakeup, QueuedOn, ResourceOf, callVars
<1>7. WaitsOrdered'
  <2>1. UNCHANGED <<pending, target>>
    BY <1>1 DEF callVars
  <2>2. \A w \in pending, h \in Resources :
            holder'[h] = RuntimeOf(w) => h <= ResourceOf(w)
    BY <1>2, <1>3, NumResourcesType DEF IInv, WaitsOrdered, Resources
  <2> QED
    BY <2>1, <2>2 DEF IInv, WaitsOrdered, ResourceOf, RuntimeOf
<1>8. DrainFenced'
  BY <1>1 DEF IInv, DrainFenced, sessionVars
<1>9. ReleasedHoldsNothing'
  BY <1>1, <1>2, <1>3 DEF IInv, ReleasedHoldsNothing, DrainFenced, sessionVars
<1> QED
  BY <1>4, <1>5, <1>6, <1>7, <1>8, <1>9 DEF IInv

(***************************************************************************)
(* acquire_wait, busy: the new waiter is the last of its queue and the     *)
(* order of locks allows the wait.                                         *)
(***************************************************************************)
LEMMA RegisterInv ==
    ASSUME IInv, NEW c \in Calls, pc[c] = "attempt", Register(c),
           AttemptStatus(c) = "busy", UNCHANGED <<sessionVars, recovery>>
    PROVE  IInv'
<1> DEFINE w == NextRegistration(c)
<1>1. /\ w \in Own(c) /\ w \in Waiters /\ w # reg[c] /\ w # NoWaiter
      /\ old[c] = NoWaiter /\ reg[c] \in Own(c) \cup {NoWaiter} /\ target[c] \in Resources
  BY NullsAreFresh DEF NextRegistration, Own, Waiters, IInv, QueueInv, CallsOwn
<1>2. w \notin pending /\ w \notin queued /\ w[1] = c
  BY <1>1 DEF Own, IInv, QueueInv, PendingOwned, QueuedOwned
<1> HIDE DEF w
<1>3. /\ queued' = queued \cup {w}
      /\ ahead' = [ahead EXCEPT ![w] = QueuedOn(target[c])]
      /\ pending' = pending \cup {w}
      /\ reg' = [reg EXCEPT ![c] = w]
      /\ old' = [old EXCEPT ![c] = reg[c]]
      /\ pc' = [pc EXCEPT ![c] = IF reg[c] = NoWaiter THEN "waiting" ELSE "settle"]
      /\ UNCHANGED <<lockVars, notified, target, cancelled, expired, sessionVars, recovery>>
  BY DEF Register, w
<1>4. TypeOK'
  <2>1. QueuedOn(target[c]) \subseteq Waiters
    BY DEF QueuedOn, IInv, TypeOK
  <2> QED
    BY <1>1, <1>3, <2>1 DEF IInv, TypeOK, lockVars, sessionVars
<1>5. CallsOwn'
  BY <1>1, <1>3 DEF IInv, TypeOK, QueueInv, CallsOwn
<1>6. PendingOwned'
  <2>1. ASSUME NEW v \in Waiters, v[1] # c
        PROVE  /\ v \in pending' <=> v \in pending
               /\ reg'[v[1]] = reg[v[1]] /\ old'[v[1]] = old[v[1]]
    BY <1>2, <1>3, <2>1, WaiterCall, CallTypes
  <2>2. ASSUME NEW v \in Waiters, v[1] = c
        PROVE  v \in pending' <=> reg'[v[1]] = v \/ old'[v[1]] = v
    <3>1. reg'[c] = w /\ old'[c] = reg[c]
      BY <1>3 DEF IInv, TypeOK
    <3>2. v \in pending <=> reg[c] = v
      BY <1>1, <2>2, NullsAreFresh DEF IInv, QueueInv, PendingOwned
    <3> QED
      BY <1>3, <2>2, <3>1, <3>2
  <2> QED
    BY <2>1, <2>2 DEF IInv, QueueInv, PendingOwned
<1>7. QueuedOwned'
  <2>1. \A v \in queued : v[1] # c
    BY DEF IInv, QueueInv, QueuedOwned
  <2>2. \A v \in queued : v[1] \in Calls
    BY DEF IInv, TypeOK, Waiters
  <2> QED
    BY <1>1, <1>2, <1>3, <2>1, <2>2 DEF IInv, TypeOK, QueueInv, QueuedOwned
<1>8. NotifiedOwned'
  BY <1>3 DEF IInv, QueueInv, NotifiedOwned, ResourceOf
<1>9. QueueOrdered'
  <2>1. ahead'[w] = {v \in queued : ResourceOf(v) = ResourceOf(w)}
    BY <1>1, <1>2, <1>3 DEF IInv, TypeOK, QueuedOn, ResourceOf
  <2>2. \A v \in queued : ahead'[v] = ahead[v]
    BY <1>2, <1>3 DEF IInv, TypeOK
  <2>3. \A v : ResourceOf(v)' = ResourceOf(v)
    BY <1>3 DEF ResourceOf
  <2>4. queued' = queued \cup {w} /\ w \notin queued
    BY <1>2, <1>3
  <2> QED
    BY <2>1, <2>2, <2>3, <2>4 DEF IInv, QueueInv, QueueOrdered, Ordered
<1>10. /\ Caller[c] \notin shutting
       /\ holder[target[c]] # NoRuntime
       /\ \A v \in pending : RuntimeOf(v) = Caller[c] => ResourceOf(v) = target[c]
       /\ \A h \in Resources : holder[h] = Caller[c] => ~(h >= target[c])
  <2>1. AcquireStatus(Caller[c], target[c], reg[c]) = "busy"
    BY DEF AttemptStatus
  <2>2. reg[c] \in Own(c) => ResourceOf(reg[c]) = target[c]
    BY DEF Own, ResourceOf
  <2>3. reg[c] \notin pending \/ ResourceOf(reg[c]) = target[c]
    BY <1>1, <2>2, NullsAreFresh DEF IInv, TypeOK
  <2> QED
    BY <2>1, <2>3 DEF AcquireStatus
<1>11. NoLostWakeup'
  BY <1>2, <1>3, <1>10 DEF IInv, NoLostWakeup, QueuedOn, ResourceOf, lockVars
<1>12. WaitsOrdered'
  <2>1. UNCHANGED <<holder, target>> /\ pending' = pending \cup {w}
    BY <1>3 DEF lockVars
  <2>2. RuntimeOf(w) = Caller[c] /\ ResourceOf(w) = target[c]
    BY <1>2 DEF RuntimeOf, ResourceOf
  <2>3. \A v \in pending : RuntimeOf(v) = RuntimeOf(w) => ResourceOf(v) = ResourceOf(w)
    BY <1>10, <2>2
  <2>4. \A h \in Resources : holder[h] = RuntimeOf(w) => h <= ResourceOf(w)
    BY <1>1, <1>10, <2>2, NumResourcesType DEF Resources
  <2>5. (\A v : ResourceOf(v)' = ResourceOf(v)) /\ (\A v : RuntimeOf(v)' = RuntimeOf(v))
    BY <2>1 DEF ResourceOf, RuntimeOf
  <2> QED
    BY <2>1, <2>3, <2>4, <2>5 DEF IInv, WaitsOrdered
<1>13. DrainFenced' /\ ReleasedHoldsNothing'
  BY <1>3 DEF IInv, DrainFenced, ReleasedHoldsNothing, lockVars, sessionVars
<1> QED
  BY <1>4, <1>5, <1>6, <1>7, <1>8, <1>9, <1>11, <1>12, <1>13 DEF IInv, QueueInv
=============================================================================

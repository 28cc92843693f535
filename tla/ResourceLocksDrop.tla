------------------------ MODULE ResourceLocksDrop --------------------------
(***************************************************************************)
(* The steps of acquire_wait that drop a registration keep the inductive   *)
(* invariant of ResourceLocks.                                             *)
(***************************************************************************)
EXTENDS ResourceLocksInvariant

(***************************************************************************)
(* Dropping a registration serves its resource, for both places in         *)
(* acquire_wait where one is dropped.                                      *)
(***************************************************************************)
LEMMA DropInv ==
    ASSUME IInv, NEW c \in Calls, NEW w \in pending, w[1] = c, DropRegistration(w),
           \/ target' = target
           \/ target' = [target EXCEPT ![c] = 0] /\ (pending \cap Own(c) = {w}),
           UNCHANGED <<lockVars, sessionVars, recovery>>
    PROVE  /\ pending' = pending \ {w}
           /\ queued' \subseteq queued \ {w}
           /\ ahead' \in [Waiters -> SUBSET Waiters]
           /\ notified' \in [Resources -> Waiters \cup {NoWaiter}]
           /\ NotifiedOwned' /\ QueueOrdered' /\ NoLostWakeup' /\ WaitsOrdered'
<1> DEFINE r == ResourceOf(w)
           N == [notified EXCEPT ![r] = IF @ = w THEN NoWaiter ELSE @]
<1>1. pending' = pending \ {w} /\ Served({r}, holder, queued \ {w}, N)
  BY DropServes, Zenon DEF IInv
<1>2. queued \subseteq pending /\ pending \subseteq Waiters /\ r \in Resources
  BY PendingTarget DEF IInv, QueueInv, QueuedOwned, PendingOwned, TypeOK
<1>3. \A v \in pending \ {w} : ResourceOf(v)' = ResourceOf(v)
  BY <1>2, WaiterCall DEF ResourceOf, IInv, TypeOK
<1>4. /\ \A s \in Resources : N[s] # w
      /\ \A s \in Resources : N[s] # NoWaiter => N[s] = notified[s]
      /\ \A s \in Resources : s # r => N[s] = notified[s]
  <2>1. w # NoWaiter
    BY <1>2, NullsAreFresh
  <2> QED
    BY <2>1, <1>2 DEF IInv, TypeOK, QueueInv, NotifiedOwned
<1> HIDE DEF N, r
<1>5. NotifiedOwned'
  <2> SUFFICES ASSUME NEW s \in Resources, notified'[s] # NoWaiter
               PROVE  notified'[s] \in pending \ {w} /\ ResourceOf(notified'[s]) = s
    BY <1>1, <1>3 DEF NotifiedOwned
  <2>1. CASE notified'[s] = N[s]
    BY <1>4, <2>1 DEF IInv, QueueInv, NotifiedOwned
  <2>2. CASE notified'[s] \in queued \ {w} /\ ResourceOf(notified'[s]) = s
    BY <1>2, <2>2
  <2> QED
    BY <1>1, <2>1, <2>2 DEF Served
<1>6. QueueOrdered'
  BY <1>1, <1>2, <1>3 DEF Served, QueueOrdered, Ordered
<1>7. NoLostWakeup'
  <2> SUFFICES ASSUME NEW s \in Resources, holder[s] = NoRuntime,
                      NEW v \in queued', ResourceOf(v) = s
               PROVE  notified'[s] # NoWaiter
    BY <1>1, <1>2, <1>3 DEF NoLostWakeup, QueuedOn, lockVars, Served
  <2>1. CASE s = r
    BY <1>1, <2>1 DEF Served
  <2>2. CASE s # r
    BY <1>1, <1>4, <2>2 DEF Served, IInv, NoLostWakeup, QueuedOn
  <2> QED
    BY <2>1, <2>2
<1>8. WaitsOrdered'
  BY <1>1, <1>3 DEF IInv, WaitsOrdered, RuntimeOf, lockVars
<1> QED
  BY <1>1, <1>5, <1>6, <1>7, <1>8 DEF Served

(***************************************************************************)
(* acquire_wait: the previous registration is dropped after the critical   *)
(* section.                                                                *)
(***************************************************************************)
LEMMA SettleInv ==
    ASSUME IInv, NEW c \in Calls, Settle(c)
    PROVE  IInv'
<1> DEFINE w == old[c]
<1>1. /\ w \in Own(c) /\ w \in Waiters /\ w[1] = c /\ w \in pending
      /\ reg[c] \in Own(c) \cup {NoWaiter} /\ reg[c] # w /\ pc[c] = "settle"
  BY DEF Settle, IInv, QueueInv, CallsOwn, PendingOwned, Own, Waiters
<1>2. reg[c] = NoWaiter => pending \cap Own(c) = {w}
  BY <1>1, WaiterCall, NullsAreFresh DEF IInv, TypeOK, QueueInv, PendingOwned, Own
<1>3. /\ DropRegistration(w)
      /\ old' = [old EXCEPT ![c] = NoWaiter]
      /\ \/ /\ reg[c] = NoWaiter
            /\ pc' = [pc EXCEPT ![c] = "idle"]
            /\ target' = [target EXCEPT ![c] = 0]
         \/ /\ reg[c] # NoWaiter
            /\ pc' = [pc EXCEPT ![c] = "waiting"]
            /\ target' = target
      /\ cancelled' \subseteq Calls /\ expired' \subseteq Calls
      /\ UNCHANGED <<lockVars, reg, sessionVars, recovery>>
  BY DEF Settle, Return, IInv, TypeOK
<1> HIDE DEF w
<1>4. /\ pending' = pending \ {w}
      /\ queued' \subseteq queued \ {w}
      /\ ahead' \in [Waiters -> SUBSET Waiters]
      /\ notified' \in [Resources -> Waiters \cup {NoWaiter}]
      /\ NotifiedOwned' /\ QueueOrdered' /\ NoLostWakeup' /\ WaitsOrdered'
  BY <1>1, <1>2, <1>3, DropInv
<1>5. TypeOK'
  BY <1>3, <1>4 DEF IInv, TypeOK, lockVars, sessionVars
<1>6. CallsOwn'
  BY <1>1, <1>3, CallTypes DEF IInv, QueueInv, CallsOwn
<1>7. PendingOwned'
  <2>1. ASSUME NEW v \in Waiters, v[1] # c
        PROVE  (v \in pending' <=> v \in pending) /\ old'[v[1]] = old[v[1]]
    BY <1>1, <1>3, <1>4, <2>1, WaiterCall, CallTypes
  <2>2. ASSUME NEW v \in Waiters, v[1] = c
        PROVE  v \in pending' <=> reg'[v[1]] = v \/ old'[v[1]] = v
    <3>1. old'[c] = NoWaiter /\ reg' = reg /\ v # NoWaiter
      BY <1>3, NullsAreFresh DEF IInv, TypeOK
    <3>2. v \in pending <=> reg[c] = v \/ v = w
      BY <2>2 DEF IInv, QueueInv, PendingOwned, w
    <3> QED
      BY <1>1, <1>4, <2>2, <3>1, <3>2
  <2> QED
    BY <1>3, <2>1, <2>2 DEF IInv, QueueInv, PendingOwned
<1>8. QueuedOwned'
  BY <1>1, <1>3, <1>4, WaiterCall, NullsAreFresh DEF IInv, TypeOK, QueueInv, QueuedOwned
<1>9. DrainFenced' /\ ReleasedHoldsNothing'
  BY <1>3 DEF IInv, DrainFenced, ReleasedHoldsNothing, lockVars, sessionVars
<1> QED
  BY <1>4, <1>5, <1>6, <1>7, <1>8, <1>9 DEF IInv, QueueInv

(***************************************************************************)
(* acquire_wait leaves on cancellation, on the deadline or because its     *)
(* future was dropped.                                                     *)
(***************************************************************************)
LEMMA DeregisterInv ==
    ASSUME IInv, NEW c \in Calls, Deregister(c)
    PROVE  IInv'
<1> DEFINE w == reg[c]
<1>1. /\ w \in Own(c) /\ w \in Waiters /\ w[1] = c /\ w \in pending
      /\ old[c] = NoWaiter /\ pc[c] = "exit"
  BY DEF Deregister, IInv, QueueInv, CallsOwn, PendingOwned, Own, Waiters
<1>2. pending \cap Own(c) = {w}
  BY <1>1, WaiterCall, NullsAreFresh DEF IInv, TypeOK, QueueInv, PendingOwned, Own
<1>3. /\ DropRegistration(w)
      /\ reg' = [reg EXCEPT ![c] = NoWaiter]
      /\ pc' = [pc EXCEPT ![c] = "idle"]
      /\ target' = [target EXCEPT ![c] = 0]
      /\ cancelled' \subseteq Calls /\ expired' \subseteq Calls
      /\ UNCHANGED <<lockVars, old, sessionVars, recovery>>
  BY DEF Deregister, Return, IInv, TypeOK
<1> HIDE DEF w
<1>4. /\ pending' = pending \ {w}
      /\ queued' \subseteq queued \ {w}
      /\ ahead' \in [Waiters -> SUBSET Waiters]
      /\ notified' \in [Resources -> Waiters \cup {NoWaiter}]
      /\ NotifiedOwned' /\ QueueOrdered' /\ NoLostWakeup' /\ WaitsOrdered'
  BY <1>1, <1>2, <1>3, DropInv, Zenon
<1>5. TypeOK'
  BY <1>3, <1>4 DEF IInv, TypeOK, lockVars, sessionVars
<1>6. CallsOwn'
  BY <1>1, <1>3, CallTypes DEF IInv, QueueInv, CallsOwn
<1>7. PendingOwned'
  <2>1. ASSUME NEW v \in Waiters, v[1] # c
        PROVE  (v \in pending' <=> v \in pending) /\ reg'[v[1]] = reg[v[1]]
    BY <1>1, <1>3, <1>4, <2>1, WaiterCall, CallTypes
  <2>2. ASSUME NEW v \in Waiters, v[1] = c
        PROVE  v \in pending' <=> reg'[v[1]] = v \/ old'[v[1]] = v
    <3>1. reg'[c] = NoWaiter /\ old' = old /\ v # NoWaiter
      BY <1>3, NullsAreFresh DEF IInv, TypeOK
    <3>2. v \in pending <=> v = w
      BY <1>1, <2>2, NullsAreFresh DEF IInv, QueueInv, PendingOwned, w
    <3> QED
      BY <1>1, <1>4, <2>2, <3>1, <3>2
  <2> QED
    BY <1>3, <2>1, <2>2 DEF IInv, QueueInv, PendingOwned
<1>8. QueuedOwned'
  <2>1. \A v \in queued \ {w} : v[1] # c
    BY DEF IInv, QueueInv, QueuedOwned, w
  <2> QED
    BY <1>3, <1>4, <2>1, WaiterCall DEF IInv, TypeOK, QueueInv, QueuedOwned
<1>9. DrainFenced' /\ ReleasedHoldsNothing'
  BY <1>3 DEF IInv, DrainFenced, ReleasedHoldsNothing, lockVars, sessionVars
<1> QED
  BY <1>4, <1>5, <1>6, <1>7, <1>8, <1>9 DEF IInv, QueueInv
=============================================================================

----------------------- MODULE ResourceLocksInvariant -----------------------
(***************************************************************************)
(* The inductive invariant of ResourceLocks and what its operators do to it, *)
(* for any set of calls, runtimes, resources and tokens.                   *)
(***************************************************************************)
EXTENDS ResourceLocks, FiniteSetTheorems, WellFoundedInduction, TLAPS

(***************************************************************************)
(* A nonempty set of naturals has a least element.                         *)
(***************************************************************************)
LEMMA LeastNatural ==
    ASSUME NEW T \in SUBSET Nat, T # {}
    PROVE  \E m \in T : \A n \in T : m <= n
<1> DEFINE Less == OpToRel(<, Nat)
<1>1. PICK m \in T : \A n \in T : ~(<<n, m>> \in Less)
  <2>1. IsWellFoundedOn(Less, Nat)
    BY NatLessThanWellFounded, Zenon
  <2> HIDE DEF Less
  <2> QED
    BY <2>1, WFMin, Zenon
<1>2. ASSUME NEW n \in T
      PROVE  m <= n
  <2>1. ~(n < m)
    BY <1>1, Zenon DEF OpToRel
  <2> QED
    BY <2>1
<1> QED
  BY <1>2

(***************************************************************************)
(* The waiters are finitely many.                                          *)
(***************************************************************************)
LEMMA WaitersFinite == IsFiniteSet(Waiters)
<1>1. IsFiniteSet({0, 1})
  <2>1. IsFiniteSet({0} \cup {1})
    BY FS_Singleton, FS_AddElement, Zenon
  <2> QED
    BY <2>1, {0, 1} = {0} \cup {1}, Zenon
<1> QED
  BY <1>1, CallsFinite, FS_Product DEF Waiters

(***************************************************************************)
(* A queue has a front: WaitQueue.queued.pop_front() finds a waiter as     *)
(* long as one is left that takes the signal.                              *)
(***************************************************************************)
LEMMA FrontExists ==
    ASSUME NEW A \in [Waiters -> SUBSET Waiters],
           NEW S \in SUBSET Waiters, S # {},
           \A w \in S : w \notin A[w],
           \A w \in S : \A v \in A[w] : A[v] \subseteq A[w]
    PROVE  Front(S, A) \in S /\ A[Front(S, A)] \cap S = {}
<1> DEFINE size(w) == Cardinality(A[w])
           sizes == {size(w) : w \in S}
<1>1. ASSUME NEW w \in S
      PROVE  IsFiniteSet(A[w]) /\ size(w) \in Nat
  BY WaitersFinite, FS_Subset, FS_CardinalityType
<1>2. PICK m \in sizes : \A n \in sizes : m <= n
  <2>1. sizes \in SUBSET Nat /\ sizes # {}
    BY <1>1
  <2> HIDE DEF sizes
  <2> QED
    BY <2>1, LeastNatural
<1>3. PICK w \in S : size(w) = m
  OBVIOUS
<1>4. A[w] \cap S = {}
  <2> SUFFICES ASSUME NEW v \in A[w] \cap S
               PROVE  FALSE
    OBVIOUS
  <2>1. A[v] \in SUBSET A[w] /\ A[v] # A[w]
    OBVIOUS
  <2>2. size(v) < size(w)
    BY <1>1, <2>1, FS_Subset
  <2>3. size(w) <= size(v)
    BY <1>2, <1>3
  <2> QED
    BY <1>1, <2>2, <2>3
<1> QED
  BY <1>4 DEF Front

-----------------------------------------------------------------------------
(***************************************************************************)
(* The inductive invariant.  Where a call is determines which              *)
(* registrations it owns (CallsOwn); those are exactly the pending waits   *)
(* (PendingOwned), only a current one can be queued (QueuedOwned), and a   *)
(* retry in flight belongs to one of them (NotifiedOwned), so that its     *)
(* drop will serve the queue again.                                        *)
(***************************************************************************)
Own(c) == {<<c, 0>>, <<c, 1>>}

CallsOwn ==
    \A c \in Calls :
        /\ pc[c] = "idle" => reg[c] = NoWaiter /\ old[c] = NoWaiter
        /\ pc[c] = "attempt" => reg[c] \in Own(c) \cup {NoWaiter} /\ old[c] = NoWaiter
        /\ pc[c] = "settle" => /\ old[c] \in Own(c)
                               /\ reg[c] \in Own(c) \cup {NoWaiter}
                               /\ reg[c] # old[c]
        /\ pc[c] \in {"waiting", "exit"} => reg[c] \in Own(c) /\ old[c] = NoWaiter
        /\ pc[c] # "idle" => target[c] \in Resources

PendingOwned ==
    \A w \in Waiters : w \in pending <=> reg[w[1]] = w \/ old[w[1]] = w

QueuedOwned ==
    \A w \in queued : reg[w[1]] = w /\ pc[w[1]] \in {"settle", "waiting", "exit"}

NotifiedOwned ==
    \A r \in Resources :
        notified[r] # NoWaiter => notified[r] \in pending /\ ResourceOf(notified[r]) = r

(***************************************************************************)
(* ahead orders every queue.                                               *)
(***************************************************************************)
Ordered(Q, A) ==
    \A w \in Q :
        /\ w \notin A[w]
        /\ A[w] \subseteq {v \in Q : ResourceOf(v) = ResourceOf(w)}
        /\ \A v \in A[w] : A[v] \subseteq A[w]

QueueOrdered == Ordered(queued, ahead)

(***************************************************************************)
(* What makes waits acyclic: the pending waits of a runtime are all for    *)
(* one resource, and it holds nothing above that resource.                 *)
(***************************************************************************)
WaitsOrdered ==
    /\ \A v, w \in pending : RuntimeOf(v) = RuntimeOf(w) => ResourceOf(v) = ResourceOf(w)
    /\ \A w \in pending, h \in Resources :
           holder[h] = RuntimeOf(w) => h <= ResourceOf(w)

(***************************************************************************)
(* A confirmed drain was preceded by the fence, and recover commits only   *)
(* for a drained runtime.                                                  *)
(***************************************************************************)
DrainFenced ==
    /\ \A rt \in Runtimes : retirement[rt] = "ok" => rt \in shutting
    /\ released \subseteq shutting
    /\ recovery.phase = "commit" => retirement[recovery.runtime] = "ok"

QueueInv == CallsOwn /\ PendingOwned /\ QueuedOwned /\ NotifiedOwned /\ QueueOrdered

IInv ==
    /\ TypeOK
    /\ QueueInv
    /\ NoLostWakeup
    /\ WaitsOrdered
    /\ DrainFenced
    /\ ReleasedHoldsNothing

-----------------------------------------------------------------------------
(***************************************************************************)
(* Removing any set of waiters keeps the queues ordered.                   *)
(***************************************************************************)
LEMMA DequeuedOrdered ==
    ASSUME NEW Q \in SUBSET Waiters, NEW A \in [Waiters -> SUBSET Waiters],
           NEW out, Ordered(Q, A)
    PROVE  /\ Dequeued(A, out) \in [Waiters -> SUBSET Waiters]
           /\ Ordered(Q \ out, Dequeued(A, out))
<1>1. Dequeued(A, out) \in [Waiters -> SUBSET Waiters]
  BY DEF Dequeued
<1>2. ASSUME NEW w \in Q \ out
      PROVE  Dequeued(A, out)[w] = A[w] \ out
  BY DEF Dequeued
<1>3. Ordered(Q \ out, Dequeued(A, out))
  BY <1>2 DEF Ordered
<1> QED
  BY <1>1, <1>3

(***************************************************************************)
(* What notify_next guarantees for the resources R: it only shortens       *)
(* queues, names only waiters it found in the queue of the resource, and   *)
(* leaves no served resource free with a queue and without a retry in      *)
(* flight.                                                                 *)
(***************************************************************************)
Served(R, H, Q, N) ==
    /\ queued' \subseteq Q
    /\ ahead' \in [Waiters -> SUBSET Waiters]
    /\ Ordered(queued', ahead')
    /\ notified' \in [Resources -> Waiters \cup {NoWaiter}]
    /\ \A r \in Resources :
          /\ \/ notified'[r] = N[r]
             \/ notified'[r] \in Q /\ ResourceOf(notified'[r]) = r
             \/ notified'[r] = NoWaiter
          /\ r \notin R \/ N[r] # NoWaiter => notified'[r] = N[r]
          /\ r \in R /\ H[r] = NoRuntime /\ (\E w \in queued' : ResourceOf(w) = r)
                => notified'[r] # NoWaiter

(***************************************************************************)
(* notify_next leaves no free resource it was called for with a queue and  *)
(* no retry in flight, and keeps the queues ordered.                       *)
(***************************************************************************)
LEMMA NotifyNextServes ==
    ASSUME NEW R \in SUBSET Resources, NEW H, NEW Q \in SUBSET Waiters,
           NEW A \in [Waiters -> SUBSET Waiters],
           NEW N \in [Resources -> Waiters \cup {NoWaiter}],
           Ordered(Q, A), NotifyNext(R, H, Q, A, N)
    PROVE  Served(R, H, Q, N)
<1> DEFINE due == {r \in R : H[r] = NoRuntime /\ N[r] = NoWaiter}
           on(r) == {w \in Q : ResourceOf(w) = r}
           live(r) == {w \in on(r) : TakesSignal(w)}
           woken(r) == IF live(r) = {} THEN NoWaiter ELSE Front(live(r), A)
           popped(r) == IF live(r) = {} THEN on(r)
                        ELSE {woken(r)} \cup (on(r) \cap A[woken(r)])
           out == UNION {popped(r) : r \in due}
<1>1. /\ queued' = Q \ out
      /\ ahead' = Dequeued(A, out)
      /\ notified' = [r \in Resources |-> IF r \in due THEN woken(r) ELSE N[r]]
  BY DEF NotifyNext
<1>2. ASSUME NEW r \in Resources
      PROVE  (woken(r) = NoWaiter /\ live(r) = {}) \/ woken(r) \in on(r)
  <2>1. CASE live(r) # {}
    <3>1. live(r) \in SUBSET Waiters
      OBVIOUS
    <3>2. /\ \A w \in live(r) : w \notin A[w]
          /\ \A w \in live(r) : \A v \in A[w] : A[v] \subseteq A[w]
      BY DEF Ordered
    <3> HIDE DEF live
    <3>3. Front(live(r), A) \in live(r)
      BY <2>1, <3>1, <3>2, FrontExists
    <3> QED
      BY <2>1, <3>3 DEF live
  <2> QED
    BY <2>1
<1> HIDE DEF out, woken
<1>3. /\ queued' \subseteq Q
      /\ ahead' \in [Waiters -> SUBSET Waiters]
      /\ Ordered(queued', ahead')
  BY <1>1, DequeuedOrdered, Zenon
<1>4. notified' \in [Resources -> Waiters \cup {NoWaiter}]
  BY <1>1, <1>2
<1>5. ASSUME NEW r \in Resources
      PROVE  /\ \/ notified'[r] = N[r]
                \/ notified'[r] \in Q /\ ResourceOf(notified'[r]) = r
                \/ notified'[r] = NoWaiter
             /\ r \notin R \/ N[r] # NoWaiter => notified'[r] = N[r]
  BY <1>1, <1>2
<1>6. ASSUME NEW r \in R, H[r] = NoRuntime, NEW w \in queued', ResourceOf(w) = r
      PROVE  notified'[r] # NoWaiter
  <2>1. CASE N[r] # NoWaiter
    BY <1>1, <2>1
  <2>2. CASE r \in due
    <3>1. live(r) # {}
      BY <1>1, <1>6, <2>2 DEF out
    <3>2. woken(r) \in Waiters
      BY <1>2, <3>1
    <3> QED
      BY <1>1, <2>2, <3>2, NullsAreFresh
  <2> QED
    BY <1>6, <2>1, <2>2
<1> QED
  BY <1>3, <1>4, <1>5, <1>6 DEF Served

-----------------------------------------------------------------------------
(***************************************************************************)
(* A step that leaves the calls alone keeps the queue invariant if it only *)
(* removes waiters and names retries among the queued ones.                *)
(***************************************************************************)
LEMMA QueueShrinks ==
    ASSUME TypeOK, QueueInv, UNCHANGED <<pending, pc, target, reg, old>>,
           queued' \subseteq queued, Ordered(queued', ahead'),
           \A r \in Resources :
               \/ notified'[r] = notified[r]
               \/ notified'[r] \in queued /\ ResourceOf(notified'[r]) = r
               \/ notified'[r] = NoWaiter
    PROVE  QueueInv'
<1>1. CallsOwn' /\ PendingOwned'
  BY DEF QueueInv, CallsOwn, PendingOwned
<1>2. QueuedOwned'
  BY DEF QueueInv, QueuedOwned
<1>3. NotifiedOwned'
  BY DEF QueueInv, NotifiedOwned, QueuedOwned, PendingOwned, TypeOK, ResourceOf
<1>4. QueueOrdered'
  BY DEF QueueOrdered, Ordered, ResourceOf
<1> QED
  BY <1>1, <1>2, <1>3, <1>4 DEF QueueInv

(***************************************************************************)
(* acquire_locked: a runtime that is not fenced may get the free resource  *)
(* it asks for, and loses only its own waiters for that resource.          *)
(***************************************************************************)
LEMMA GrantAndWake ==
    ASSUME TypeOK, QueueInv, NEW rt \in Runtimes, NEW r \in Resources, NEW status,
           Grant(rt, r, status), WakeRuntime(rt, r, status)
    PROVE  /\ holder' \in [Resources -> Runtimes \cup {NoRuntime}]
           /\ token' \in [Resources -> Tokens \cup {NoToken}]
           /\ \A h \in Resources : holder'[h] = NoRuntime <=> token'[h] = NoToken
           /\ queued' \subseteq queued
           /\ ahead' \in [Waiters -> SUBSET Waiters]
           /\ Ordered(queued', ahead')
           /\ \A h \in Resources :
                 holder'[h] = IF h = r /\ status = "granted" THEN rt ELSE holder[h]
<1>1. /\ holder' \in [Resources -> Runtimes \cup {NoRuntime}]
      /\ token' \in [Resources -> Tokens \cup {NoToken}]
      /\ \A h \in Resources : holder'[h] = NoRuntime <=> token'[h] = NoToken
      /\ \A h \in Resources :
             holder'[h] = IF h = r /\ status = "granted" THEN rt ELSE holder[h]
  BY NullsAreFresh DEF Grant, FreshTokens, TypeOK, lockVars
<1>2. /\ queued' \subseteq queued
      /\ ahead' \in [Waiters -> SUBSET Waiters]
      /\ Ordered(queued', ahead')
  BY DequeuedOrdered, Zenon DEF WakeRuntime, TypeOK, QueueInv, QueueOrdered
<1> QED
  BY <1>1, <1>2

(***************************************************************************)
(* Freeing any resources keeps the lock and queue invariants.              *)
(***************************************************************************)
LEMMA UnlockServes ==
    ASSUME IInv, NEW R \in SUBSET Resources, Unlock(R), UNCHANGED callVars
    PROVE  /\ holder' \in [Resources -> Runtimes \cup {NoRuntime}]
           /\ token' \in [Resources -> Tokens \cup {NoToken}]
           /\ \A h \in Resources : holder'[h] = NoRuntime <=> token'[h] = NoToken
           /\ queued' \subseteq Waiters
           /\ ahead' \in [Waiters -> SUBSET Waiters]
           /\ notified' \in [Resources -> Waiters \cup {NoWaiter}]
           /\ pending' = pending
           /\ QueueInv' /\ NoLostWakeup' /\ WaitsOrdered'
           /\ \A r \in Resources : holder'[r] = IF r \in R THEN NoRuntime ELSE holder[r]
<1> DEFINE free == [r \in Resources |-> IF r \in R THEN NoRuntime ELSE holder[r]]
<1>1. /\ holder' = free
      /\ holder' \in [Resources -> Runtimes \cup {NoRuntime}]
      /\ token' \in [Resources -> Tokens \cup {NoToken}]
      /\ \A h \in Resources : holder'[h] = NoRuntime <=> token'[h] = NoToken
      /\ pending' = pending
  BY DEF Unlock, IInv, TypeOK
<1>2. Served(R, free, queued, notified)
  <2>1. NotifyNext(R, free, queued, ahead, notified)
    BY DEF Unlock
  <2>2. /\ Ordered(queued, ahead)
        /\ queued \in SUBSET Waiters
        /\ ahead \in [Waiters -> SUBSET Waiters]
        /\ notified \in [Resources -> Waiters \cup {NoWaiter}]
    BY DEF IInv, TypeOK, QueueInv, QueueOrdered
  <2> HIDE DEF free
  <2> QED
    BY <2>1, <2>2, NotifyNextServes
<1>3. QueueInv'
  BY <1>1, <1>2, QueueShrinks DEF Served, IInv, callVars
<1>4. NoLostWakeup'
  BY <1>1, <1>2 DEF Served, IInv, NoLostWakeup, QueuedOn, ResourceOf, callVars
<1>5. WaitsOrdered'
  <2>1. ASSUME NEW w \in pending PROVE RuntimeOf(w) # NoRuntime
    BY NullsAreFresh, CallerType DEF RuntimeOf, IInv, TypeOK, Waiters
  <2>2. target' = target
    BY DEF callVars
  <2>3. \A h \in Resources : holder'[h] = NoRuntime \/ holder'[h] = holder[h]
    BY <1>1
  <2> HIDE DEF free
  <2> QED
    BY <1>1, <2>1, <2>2, <2>3 DEF IInv, WaitsOrdered, ResourceOf, RuntimeOf
<1> QED
  BY <1>1, <1>2, <1>3, <1>4, <1>5 DEF Served, IInv, TypeOK

(***************************************************************************)
(* A registration belongs to one of the two identities of its call.        *)
(***************************************************************************)
LEMMA WaiterCall == \A w \in Waiters : w[1] \in Calls /\ w \in Own(w[1])
  BY DEF Waiters, Own

(***************************************************************************)
(* A pending wait is owned by a call under way, for a resource.            *)
(***************************************************************************)
LEMMA PendingTarget ==
    ASSUME TypeOK, QueueInv, NEW w \in pending
    PROVE  /\ w[1] \in Calls /\ w \in Own(w[1])
           /\ pc[w[1]] # "idle"
           /\ ResourceOf(w) \in Resources
           /\ RuntimeOf(w) \in Runtimes
<1>1. w \in Waiters /\ w[1] \in Calls /\ w \in Own(w[1])
  BY DEF TypeOK, Waiters, Own
<1>2. w # NoWaiter /\ (reg[w[1]] = w \/ old[w[1]] = w)
  BY <1>1, NullsAreFresh DEF QueueInv, PendingOwned
<1>3. pc[w[1]] # "idle" /\ target[w[1]] \in Resources
  BY <1>1, <1>2 DEF QueueInv, CallsOwn, TypeOK
<1> QED
  BY <1>1, <1>3, CallerType DEF ResourceOf, RuntimeOf

(***************************************************************************)
(* WaitRegistration::drop keeps the queue invariants of the waiters that   *)
(* stay.                                                                   *)
(***************************************************************************)
LEMMA DropServes ==
    ASSUME TypeOK, QueueInv, NEW w \in pending, DropRegistration(w)
    PROVE  LET r == ResourceOf(w) IN
           /\ pending' = pending \ {w}
           /\ Served({r}, holder, queued \ {w},
                     [notified EXCEPT ![r] = IF @ = w THEN NoWaiter ELSE @])
<1> DEFINE r == ResourceOf(w)
           N == [notified EXCEPT ![r] = IF @ = w THEN NoWaiter ELSE @]
<1>1. r \in Resources
  BY PendingTarget
<1>2. Ordered(queued \ {w}, Dequeued(ahead, {w})) /\ Dequeued(ahead, {w}) \in [Waiters -> SUBSET Waiters]
  BY DequeuedOrdered, Zenon DEF TypeOK, QueueInv, QueueOrdered
<1>3. N \in [Resources -> Waiters \cup {NoWaiter}] /\ queued \ {w} \in SUBSET Waiters
  BY Zenon DEF TypeOK
<1>4. pending' = pending \ {w} /\ NotifyNext({r}, holder, queued \ {w}, Dequeued(ahead, {w}), N)
  BY DEF DropRegistration
<1>5. {r} \in SUBSET Resources
  BY <1>1
<1> HIDE DEF r, N
<1>6. Served({r}, holder, queued \ {w}, N)
  BY <1>2, <1>3, <1>4, <1>5, NotifyNextServes, Zenon
<1> QED
  BY <1>4, <1>6 DEF r, N

(***************************************************************************)
(* The part of the type invariant that most steps of a call need.          *)
(***************************************************************************)
LEMMA CallTypes ==
    ASSUME IInv
    PROVE  /\ pc \in [Calls -> {"idle", "attempt", "settle", "waiting", "exit"}]
           /\ target \in [Calls -> Resources \cup {0}]
           /\ reg \in [Calls -> Waiters \cup {NoWaiter}]
           /\ old \in [Calls -> Waiters \cup {NoWaiter}]
           /\ pending \subseteq Waiters
           /\ queued \subseteq Waiters
  BY DEF IInv, TypeOK
=============================================================================

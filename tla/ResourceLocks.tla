--------------------------- MODULE ResourceLocks ---------------------------
(***************************************************************************)
(* The cooperative locks that the agents of one tree share                 *)
(* (core/src/agent/resource_locks.rs).  Every critical section of the      *)
(* owner mutex is one atomic step; what a caller does between two critical *)
(* sections (waiting, being cancelled, dropping a registration) is a step  *)
(* of its own, so all their interleavings are explored.                    *)
(*                                                                         *)
(* A lock name is abstracted to its rank in the UTF-8 order.  An agent     *)
(* runtime is one Session object: a thread resumed later is a different    *)
(* runtime, which is how the code compares owners (pointer identity).      *)
(***************************************************************************)
EXTENDS Naturals, FiniteSets

CONSTANTS
    Calls,          \* slots for concurrent agent_lock tool calls
    Runtimes,       \* Session objects
    Caller,         \* the runtime on whose behalf a call slot runs
    NumResources,   \* lock names are 1 .. NumResources
    Tokens,         \* acquisition tokens (uuids)
    Cancellable,    \* bound: the calls that may be interrupted
    Expiring,       \* bound: the calls whose deadline may pass
    Mortal,         \* bound: the runtimes that may shut down or be dropped
    Recoverable,    \* bound: the resources the root tries to recover
    NoRuntime,
    NoWaiter,
    NoToken

Resources == 1 .. NumResources

(***************************************************************************)
(* A wait registration gets a fresh uuid.  A call owns at most two at a    *)
(* time, the one it retries with and its successor, and dropping one       *)
(* erases every trace of it, so two identities per call are enough.        *)
(***************************************************************************)
Waiters == Calls \X {0, 1}

ASSUME CallsFinite == IsFiniteSet(Calls)
ASSUME CallerType == Caller \in [Calls -> Runtimes]
ASSUME NumResourcesType == NumResources \in Nat
ASSUME NullsAreFresh ==
    NoRuntime \notin Runtimes /\ NoWaiter \notin Waiters /\ NoToken \notin Tokens

VARIABLES
    holder,       \* LockState.locks: the runtime that holds a resource
    token,        \* ... and the token of that acquisition
    queued,       \* WaitQueue.queued, all resources together
    ahead,        \* the waiters in front of a queued one in its VecDeque
    notified,     \* WaitQueue.notified: the retry in flight on a resource
    pending,      \* LockState.pending_waits
    pc,           \* where an acquire_wait call is
    target,       \* the resource it asks for, 0 for none
    reg,          \* its current WaitRegistration
    old,          \* the previous registration, not dropped yet
    cancelled,    \* calls whose cancellation token is set
    expired,      \* calls whose deadline has passed
    shutting,     \* runtimes with shutting_down set
    retirement,   \* persistence_retirement_result
    released,     \* runtimes whose release_session ran
    gone,         \* runtimes whose Session was dropped
    recovery      \* the root's recover call between its critical sections

lockVars == <<holder, token>>
queueVars == <<queued, ahead, notified, pending>>
callVars == <<pc, target, reg, old, cancelled, expired>>
sessionVars == <<shutting, retirement, released, gone>>
vars == <<lockVars, queueVars, callVars, sessionVars, recovery>>

RuntimeOf(w) == Caller[w[1]]
ResourceOf(w) == target[w[1]]
QueuedOn(r) == {w \in queued : ResourceOf(w) = r}
Active(rt) == {c \in Calls : Caller[c] = rt /\ pc[c] # "idle"}

NoRecovery == [phase |-> "idle"]

TypeOK ==
    /\ holder \in [Resources -> Runtimes \cup {NoRuntime}]
    /\ token \in [Resources -> Tokens \cup {NoToken}]
    /\ \A r \in Resources : holder[r] = NoRuntime <=> token[r] = NoToken
    /\ queued \subseteq Waiters
    /\ ahead \in [Waiters -> SUBSET Waiters]
    /\ notified \in [Resources -> Waiters \cup {NoWaiter}]
    /\ pending \subseteq Waiters
    /\ pc \in [Calls -> {"idle", "attempt", "settle", "waiting", "exit"}]
    /\ target \in [Calls -> Resources \cup {0}]
    /\ reg \in [Calls -> Waiters \cup {NoWaiter}]
    /\ old \in [Calls -> Waiters \cup {NoWaiter}]
    /\ cancelled \subseteq Calls
    /\ expired \subseteq Calls
    /\ shutting \subseteq Runtimes
    /\ retirement \in [Runtimes -> {"none", "failed", "ok"}]
    /\ released \subseteq Runtimes
    /\ gone \subseteq Runtimes
    /\ \/ recovery = NoRecovery
       \/ recovery \in [phase : {"proof", "commit"}, resource : Resources,
                        token : Tokens, runtime : Runtimes]

Init ==
    /\ holder = [r \in Resources |-> NoRuntime]
    /\ token = [r \in Resources |-> NoToken]
    /\ queued = {}
    /\ ahead = [w \in Waiters |-> {}]
    /\ notified = [r \in Resources |-> NoWaiter]
    /\ pending = {}
    /\ pc = [c \in Calls |-> "idle"]
    /\ target = [c \in Calls |-> 0]
    /\ reg = [c \in Calls |-> NoWaiter]
    /\ old = [c \in Calls |-> NoWaiter]
    /\ cancelled = {}
    /\ expired = {}
    /\ shutting = {}
    /\ retirement = [rt \in Runtimes |-> "none"]
    /\ released = {}
    /\ gone = {}
    /\ recovery = NoRecovery

-----------------------------------------------------------------------------
(***************************************************************************)
(* LockState::notify_next, for the resources R after the holders became H, *)
(* the queues Q (ordered by A) and the retries in flight N.  A free        *)
(* resource without a retry in flight gets one: the queue is popped until  *)
(* a waiter takes the signal, which a cancelled one, one whose runtime is  *)
(* gone or one whose receiver was dropped does not.                        *)
(***************************************************************************)
TakesSignal(w) ==
    /\ w[1] \notin cancelled
    /\ RuntimeOf(w) \notin gone
    /\ pc[w[1]] \in {"settle", "waiting"}
    /\ reg[w[1]] = w

Dequeued(A, popped) ==
    [w \in Waiters |-> IF w \in popped THEN {} ELSE A[w] \ popped]

Front(S, A) == CHOOSE w \in S : A[w] \cap S = {}

NotifyNext(R, H, Q, A, N) ==
    LET due == {r \in R : H[r] = NoRuntime /\ N[r] = NoWaiter}
        on(r) == {w \in Q : ResourceOf(w) = r}
        live(r) == {w \in on(r) : TakesSignal(w)}
        woken(r) == IF live(r) = {} THEN NoWaiter ELSE Front(live(r), A)
        popped(r) == IF live(r) = {} THEN on(r)
                     ELSE {woken(r)} \cup (on(r) \cap A[woken(r)])
        out == UNION {popped(r) : r \in due}
    IN  /\ queued' = Q \ out
        /\ ahead' = Dequeued(A, out)
        /\ notified' = [r \in Resources |-> IF r \in due THEN woken(r) ELSE N[r]]

\* Mutant of DropRegistration: a notified waiter that leaves keeps the wakeup.
DropKeepsWakeup(w) ==
    LET r == ResourceOf(w) IN
    /\ pending' = pending \ {w}
    /\ queued' = queued \ {w}
    /\ ahead' = Dequeued(ahead, {w})
    /\ notified' = [notified EXCEPT ![r] = IF @ = w THEN NoWaiter ELSE @]

\* Mutant of DropRegistration: the retry stays recorded as in flight.
DropKeepsNotified(w) ==
    /\ pending' = pending \ {w}
    /\ NotifyNext({ResourceOf(w)}, holder, queued \ {w}, Dequeued(ahead, {w}), notified)

(***************************************************************************)
(* WaitRegistration::drop: forget the waiter, and pass a wakeup it may     *)
(* have been holding on to the next one.                                   *)
(***************************************************************************)
DropRegistration(w) ==
    LET r == ResourceOf(w) IN
    /\ pending' = pending \ {w}
    /\ NotifyNext({r}, holder, queued \ {w}, Dequeued(ahead, {w}),
                  [notified EXCEPT ![r] = IF @ = w THEN NoWaiter ELSE @])

\* Mutant of AcquireStatus: the shutdown fence is not checked.
AcquireWithoutFence(rt, r, own) ==
    IF holder[r] = rt THEN "owned"
    ELSE IF \E w \in pending : w # own /\ RuntimeOf(w) = rt /\ ResourceOf(w) # r
         THEN "order_violation"
    ELSE IF \E h \in Resources : holder[h] = rt /\ h >= r THEN "order_violation"
    ELSE IF holder[r] # NoRuntime THEN "busy"
    ELSE "granted"

\* Mutant of AcquireStatus: a pending wait does not exclude other resources.
AcquireWithoutPending(rt, r, own) ==
    IF rt \in shutting THEN "shutting_down"
    ELSE IF holder[r] = rt THEN "owned"
    ELSE IF \E h \in Resources : holder[h] = rt /\ h >= r THEN "order_violation"
    ELSE IF holder[r] # NoRuntime THEN "busy"
    ELSE "granted"

(***************************************************************************)
(* AgentResourceLocks::acquire_locked: the answer for runtime rt asking    *)
(* for resource r, where own is the registration the caller retries with.  *)
(***************************************************************************)
AcquireStatus(rt, r, own) ==
    IF rt \in shutting THEN "shutting_down"
    ELSE IF holder[r] = rt THEN "owned"
    ELSE IF \E w \in pending : w # own /\ RuntimeOf(w) = rt /\ ResourceOf(w) # r
         THEN "order_violation"
    ELSE IF \E h \in Resources : holder[h] = rt /\ h >= r THEN "order_violation"
    ELSE IF holder[r] # NoRuntime THEN "busy"
    ELSE "granted"

(***************************************************************************)
(* A uuid no lock and no operation in progress refers to.                  *)
(***************************************************************************)
FreshTokens ==
    Tokens \ ({token[r] : r \in Resources}
              \cup IF recovery = NoRecovery THEN {} ELSE {recovery.token})

(***************************************************************************)
(* The state change of acquire_locked.  An acquisition, and an idempotent  *)
(* repetition of one, closes the senders of the runtime's other waiters    *)
(* for the resource (LockState::wake_runtime).                             *)
(***************************************************************************)
Grant(rt, r, status) ==
    IF status = "granted"
    THEN /\ holder' = [holder EXCEPT ![r] = rt]
         /\ \E t \in FreshTokens : token' = [token EXCEPT ![r] = t]
    ELSE UNCHANGED lockVars

WokenBy(rt, r, status) ==
    IF status \in {"owned", "granted"}
    THEN {w \in QueuedOn(r) : RuntimeOf(w) = rt}
    ELSE {}

WakeRuntime(rt, r, status) ==
    LET out == WokenBy(rt, r, status) IN
    /\ queued' = queued \ out
    /\ ahead' = Dequeued(ahead, out)

-----------------------------------------------------------------------------
(***************************************************************************)
(* acquire: one critical section, never registers a waiter.                *)
(***************************************************************************)
Acquire(c, r) ==
    LET status == AcquireStatus(Caller[c], r, NoWaiter) IN
    /\ pc[c] = "idle"
    /\ Caller[c] \notin gone
    /\ Grant(Caller[c], r, status)
    /\ WakeRuntime(Caller[c], r, status)
    /\ UNCHANGED <<notified, pending, callVars, sessionVars, recovery>>

(***************************************************************************)
(* acquire_wait is called.                                                 *)
(***************************************************************************)
AcquireWait(c, r) ==
    /\ pc[c] = "idle"
    /\ Caller[c] \notin gone
    /\ pc' = [pc EXCEPT ![c] = "attempt"]
    /\ target' = [target EXCEPT ![c] = r]
    /\ UNCHANGED <<lockVars, queueVars, reg, old, cancelled, expired,
                   sessionVars, recovery>>

(***************************************************************************)
(* The call is over: its locals are gone.                                  *)
(***************************************************************************)
Return(c) ==
    /\ pc' = [pc EXCEPT ![c] = "idle"]
    /\ target' = [target EXCEPT ![c] = 0]
    /\ cancelled' = cancelled \ {c}
    /\ expired' = expired \ {c}

(***************************************************************************)
(* The critical section at the top of acquire_wait's loop: a timeout is    *)
(* answered only to a registered caller, everything else is                *)
(* acquire_locked; a busy answer registers a new waiter in the same        *)
(* critical section.  The previous registration is dropped afterwards.     *)
(***************************************************************************)
AttemptStatus(c) ==
    IF c \in cancelled THEN "cancelled"
    ELSE IF reg[c] # NoWaiter /\ c \in expired THEN "timed_out"
    ELSE AcquireStatus(Caller[c], target[c], reg[c])

NextRegistration(c) == IF reg[c] = <<c, 0>> THEN <<c, 1>> ELSE <<c, 0>>

Register(c) ==
    LET w == NextRegistration(c) IN
    /\ queued' = queued \cup {w}
    /\ ahead' = [ahead EXCEPT ![w] = QueuedOn(target[c])]
    /\ pending' = pending \cup {w}
    /\ reg' = [reg EXCEPT ![c] = w]
    /\ old' = [old EXCEPT ![c] = reg[c]]
    /\ pc' = [pc EXCEPT ![c] = IF reg[c] = NoWaiter THEN "waiting" ELSE "settle"]
    /\ UNCHANGED <<lockVars, notified, target, cancelled, expired>>

Answer(c, status) ==
    /\ Grant(Caller[c], target[c], status)
    /\ WakeRuntime(Caller[c], target[c], status)
    /\ reg' = [reg EXCEPT ![c] = NoWaiter]
    /\ old' = [old EXCEPT ![c] = reg[c]]
    /\ IF reg[c] = NoWaiter
       THEN Return(c)
       ELSE /\ pc' = [pc EXCEPT ![c] = "settle"]
            /\ UNCHANGED <<target, cancelled, expired>>
    /\ UNCHANGED <<notified, pending>>

Attempt(c) ==
    /\ pc[c] = "attempt"
    /\ LET status == AttemptStatus(c) IN
       IF status = "busy" THEN Register(c) ELSE Answer(c, status)
    /\ UNCHANGED <<sessionVars, recovery>>

(***************************************************************************)
(* drop(registration.take()) after the critical section.                   *)
(***************************************************************************)
Settle(c) ==
    /\ pc[c] = "settle"
    /\ DropRegistration(old[c])
    /\ old' = [old EXCEPT ![c] = NoWaiter]
    /\ IF reg[c] = NoWaiter
       THEN Return(c)
       ELSE /\ pc' = [pc EXCEPT ![c] = "waiting"]
            /\ UNCHANGED <<target, cancelled, expired>>
    /\ UNCHANGED <<lockVars, reg, sessionVars, recovery>>

(***************************************************************************)
(* The select of acquire_wait, biased to cancellation, then the deadline,  *)
(* then the signal.  The receiver is ready once the waiter left the queue: *)
(* it was sent a signal or its sender was dropped.  Leaving on             *)
(* cancellation, on the deadline or because the future was dropped first   *)
(* drops the receiver and only then the registration.                      *)
(***************************************************************************)
Signalled(c) ==
    /\ pc[c] = "waiting"
    /\ reg[c] \notin queued
    /\ c \notin cancelled
    /\ c \notin expired
    /\ pc' = [pc EXCEPT ![c] = "attempt"]
    /\ UNCHANGED <<lockVars, queueVars, target, reg, old, cancelled, expired,
                   sessionVars, recovery>>

GiveUp(c) ==
    /\ pc[c] = "waiting"
    /\ c \in cancelled \cup expired
    /\ pc' = [pc EXCEPT ![c] = "exit"]
    /\ UNCHANGED <<lockVars, queueVars, target, reg, old, cancelled, expired,
                   sessionVars, recovery>>

DropFuture(c) ==
    /\ pc[c] = "waiting"
    /\ pc' = [pc EXCEPT ![c] = "exit"]
    /\ UNCHANGED <<lockVars, queueVars, target, reg, old, cancelled, expired,
                   sessionVars, recovery>>

Deregister(c) ==
    /\ pc[c] = "exit"
    /\ DropRegistration(reg[c])
    /\ reg' = [reg EXCEPT ![c] = NoWaiter]
    /\ Return(c)
    /\ UNCHANGED <<lockVars, old, sessionVars, recovery>>

(***************************************************************************)
(* The environment of a call: an interruption, and the passing of time.    *)
(***************************************************************************)
Cancel(c) ==
    /\ c \in Cancellable
    /\ pc[c] # "idle"
    /\ c \notin cancelled
    /\ cancelled' = cancelled \cup {c}
    /\ UNCHANGED <<lockVars, queueVars, pc, target, reg, old, expired,
                   sessionVars, recovery>>

Expire(c) ==
    /\ c \in Expiring
    /\ pc[c] # "idle"
    /\ c \notin expired
    /\ expired' = expired \cup {c}
    /\ UNCHANGED <<lockVars, queueVars, pc, target, reg, old, cancelled,
                   sessionVars, recovery>>

-----------------------------------------------------------------------------
(***************************************************************************)
(* Remove the locks of the resources R and serve their queues.             *)
(***************************************************************************)
Unlock(R) ==
    LET free == [r \in Resources |-> IF r \in R THEN NoRuntime ELSE holder[r]] IN
    /\ holder' = free
    /\ token' = [r \in Resources |-> IF r \in R THEN NoToken ELSE token[r]]
    /\ NotifyNext(R, free, queued, ahead, notified)
    /\ UNCHANGED pending

(***************************************************************************)
(* release: refused (not_found, not_owner, stale_token) without effect     *)
(* unless the acquiring runtime presents the token of the current lock.    *)
(***************************************************************************)
Release(rt, r, t) ==
    /\ rt \notin gone
    /\ holder[r] = rt
    /\ token[r] = t
    /\ Unlock({r})
    /\ UNCHANGED <<callVars, sessionVars, recovery>>

(***************************************************************************)
(* recover, called by the root: read the lock, inspect its holder outside  *)
(* the mutex, then remove the lock if it is still the same acquisition.    *)
(***************************************************************************)
\* Mutant of RecoverRead: a resource that is not locked is recovered all the same.
RecoverReadUnheld(r) ==
    /\ r \in Recoverable
    /\ recovery = NoRecovery
    /\ recovery' = [phase |-> "proof", resource |-> r, token |-> token[r],
                    runtime |-> holder[r]]
    /\ UNCHANGED <<lockVars, queueVars, callVars, sessionVars>>

RecoverRead(r) ==
    /\ r \in Recoverable
    /\ recovery = NoRecovery
    /\ holder[r] # NoRuntime
    /\ recovery' = [phase |-> "proof", resource |-> r, token |-> token[r],
                    runtime |-> holder[r]]
    /\ UNCHANGED <<lockVars, queueVars, callVars, sessionVars>>

DrainProved(rt) ==
    rt \notin gone /\ rt \in shutting /\ retirement[rt] = "ok"

RecoverInspect ==
    /\ recovery.phase = "proof"
    /\ recovery' = IF DrainProved(recovery.runtime)
                   THEN [recovery EXCEPT !.phase = "commit"]
                   ELSE NoRecovery
    /\ UNCHANGED <<lockVars, queueVars, callVars, sessionVars>>

\* Mutant of SameAcquisition: the lock is not compared with the one inspected.
StillLocked == holder[recovery.resource] # NoRuntime

SameAcquisition ==
    /\ holder[recovery.resource] = recovery.runtime
    /\ token[recovery.resource] = recovery.token

RecoverCommit ==
    /\ recovery.phase = "commit"
    /\ recovery' = NoRecovery
    /\ IF SameAcquisition
       THEN Unlock({recovery.resource})
       ELSE UNCHANGED <<lockVars, queueVars>>
    /\ UNCHANGED <<callVars, sessionVars>>

-----------------------------------------------------------------------------
(***************************************************************************)
(* The life of a runtime.  begin_shutdown fences it: shutting_down is set  *)
(* under the owner mutex, and its queued waiters lose their senders.       *)
(***************************************************************************)
FenceSession(rt) ==
    LET out == {w \in queued : RuntimeOf(w) = rt} IN
    /\ rt \in Mortal \ gone
    /\ shutting' = shutting \cup {rt}
    /\ queued' = queued \ out
    /\ ahead' = Dequeued(ahead, out)
    /\ UNCHANGED <<lockVars, notified, pending, callVars, retirement, released,
                   gone, recovery>>

(***************************************************************************)
(* One pass of the loop in shutdown_thread_persistence: the result of the  *)
(* drain is published, and only a confirmed one is followed by             *)
(* release_session, in a second critical section.                          *)
(***************************************************************************)
Retire(rt, result) ==
    /\ rt \in shutting
    /\ rt \notin gone
    /\ retirement[rt] # "ok"
    /\ retirement' = [retirement EXCEPT ![rt] = result]
    /\ UNCHANGED <<lockVars, queueVars, callVars, shutting, released, gone,
                   recovery>>

ReleaseSession(rt) ==
    /\ retirement[rt] = "ok"
    /\ rt \notin released
    /\ released' = released \cup {rt}
    /\ Unlock({r \in Resources : holder[r] = rt})
    /\ UNCHANGED <<callVars, shutting, retirement, gone, recovery>>

(***************************************************************************)
(* The last reference to the Session goes away.  Its calls hold one, and   *)
(* so does the owner of its persistence from the fence to release_session. *)
(***************************************************************************)
DropSession(rt) ==
    /\ rt \in Mortal \ gone
    /\ Active(rt) = {}
    /\ rt \in shutting => rt \in released
    /\ gone' = gone \cup {rt}
    /\ UNCHANGED <<lockVars, queueVars, callVars, shutting, retirement,
                   released, recovery>>

CallStep(c) ==
    \/ Attempt(c)
    \/ Settle(c)
    \/ Signalled(c)
    \/ GiveUp(c)
    \/ Deregister(c)

Next ==
    \/ \E c \in Calls, r \in Resources : Acquire(c, r) \/ AcquireWait(c, r)
    \/ \E c \in Calls : CallStep(c)
    \/ \E c \in Calls : DropFuture(c) \/ Cancel(c) \/ Expire(c)
    \/ \E rt \in Runtimes, r \in Resources, t \in Tokens : Release(rt, r, t)
    \/ \E r \in Resources : RecoverRead(r)
    \/ RecoverInspect
    \/ RecoverCommit
    \/ \E rt \in Runtimes : FenceSession(rt)
    \/ \E rt \in Runtimes, result \in {"failed", "ok"} : Retire(rt, result)
    \/ \E rt \in Runtimes : ReleaseSession(rt) \/ DropSession(rt)

Spec == Init /\ [][Next]_vars

(***************************************************************************)
(* A runnable tokio task is eventually polled.  Nothing is assumed about   *)
(* callers, deadlines, cancellation or the holders of locks.               *)
(***************************************************************************)
FairSpec == Spec /\ \A c \in Calls : WF_vars(CallStep(c))

-----------------------------------------------------------------------------
(***************************************************************************)
(* A free resource somebody is queued for has a retry in flight: neither a *)
(* release that races a registration, nor a notified waiter that is        *)
(* cancelled, fenced, timed out or beaten by a nonwaiting acquire, strands *)
(* the others (notify_next and WaitRegistration::drop).                    *)
(***************************************************************************)
NoLostWakeup ==
    \A r \in Resources :
        holder[r] = NoRuntime /\ QueuedOn(r) # {} => notified[r] # NoWaiter

(***************************************************************************)
(* Runtime a has a wait:true acquisition of something runtime b holds.     *)
(***************************************************************************)
WaitsFor(a, b) ==
    \E w \in pending : RuntimeOf(w) = a /\ a # b /\ holder[ResourceOf(w)] = b

(***************************************************************************)
(* "Lock waits stay acyclic" (the comment on pending_waits): no set of     *)
(* runtimes in which everyone waits for a lock another member holds.       *)
(***************************************************************************)
NoWaitCycle ==
    \A S \in SUBSET Runtimes :
        S # {} => \E a \in S : \A b \in S : ~WaitsFor(a, b)

(***************************************************************************)
(* Once release_session has run for a runtime it holds nothing, whatever   *)
(* its calls that were still in flight at the fence go on to do.           *)
(***************************************************************************)
ReleasedHoldsNothing ==
    \A rt \in released, r \in Resources : holder[r] # rt

(***************************************************************************)
(* A lock is lost only by a release of its own holder, or after the        *)
(* holder's drain was confirmed; a recover that read an earlier            *)
(* acquisition of the resource never takes it from the present holder.     *)
(***************************************************************************)
LostOnlyWhenReleasedOrDrained ==
    [][\A r \in Resources :
          holder[r] # NoRuntime /\ holder'[r] # holder[r] =>
              \/ Release(holder[r], r, token[r])
              \/ retirement[holder[r]] = "ok"]_vars

(***************************************************************************)
(* A free resource does not stay free while a call waits for it, however   *)
(* many of the calls before it give up: the wakeup is passed on until      *)
(* somebody acquires or this call returns.                                 *)
(***************************************************************************)
FreeLockIsTaken ==
    \A c \in Calls, r \in Resources :
        (pc[c] = "waiting" /\ target[c] = r /\ holder[r] = NoRuntime)
            ~> (holder[r] # NoRuntime \/ pc[c] = "idle")
=============================================================================

------------------------------ MODULE FsWatch ------------------------------
(***************************************************************************)
(* File-system watches of client connections                               *)
(* (app-server-handlers/src/fs_watch.rs) under the connection gate.  A     *)
(* watch has three parties: the handler of fs/watch, the blocking setup it *)
(* starts, and the worker that forwards changes; the handler may be        *)
(* dropped at any await once its connection closes, the other two go on.   *)
(*                                                                         *)
(* Calls are numbered in the order they begin; the number of an fs/watch   *)
(* call is its reservation id.  Calls with the same connection and watch   *)
(* id run one after the other (RequestSerialization).                      *)
(***************************************************************************)
EXTENDS Naturals, Sequences, FiniteSets

CONSTANTS
    Gates,        \* connections
    Ids,          \* watch ids of clients
    Scripts,      \* bound: the sequences of calls clients may make
    MaxCalls,     \* the length of the longest of them
    SetupSlots    \* permits of setup_slots

Calls == 1..MaxCalls
Keys == Gates \X Ids
Prefixes == UNION {{SubSeq(t, 1, n) : n \in 1..Len(t)} : t \in Scripts}

VARIABLES
    accepting, tracked, aborted, phase,   \* ConnectionRpcGate
    calls,       \* the calls that began: [key, op]
    pc,          \* call -> where its handler is
    target,      \* unwatch call -> the watch it stops
    entries,     \* FsWatchState.entries: key -> no entry, or a reservation
    cancelled,   \* watches whose own cancellation token is set
    setup,       \* watch -> its blocking setup
    worker,      \* watch -> its forwarding task
    native,      \* watch -> its native handles
    removing,    \* spawned tasks of dropped PendingReservations
    stopping,    \* active entries taken out of the map that are being stopped
    cleaned      \* connections that connection_closed has cleaned up

INSTANCE ConnectionRpcGate WITH Tasks <- Calls

connectionVars == <<accepting, tracked, aborted, phase>>
watchVars == <<entries, cancelled, setup, worker, native, removing, stopping>>
vars == <<connectionVars, calls, pc, target, watchVars, cleaned>>

NoEntry == [kind |-> "none", id |-> 0]
Pending(w) == [kind |-> "pending", id |-> w]
Active(w) == [kind |-> "active", id |-> w]

TypeOK ==
    /\ GateTypeOK
    /\ Len(calls) <= MaxCalls
    /\ calls \in Seq([key : Keys, op : {"watch", "unwatch"}])
    /\ pc \in [Calls -> {"none", "begin", "slot", "setup", "stop", "unreserve", "done"}]
    /\ target \in [Calls -> Calls \cup {0}]
    /\ entries \in [Keys -> {NoEntry} \cup {Pending(w) : w \in Calls} \cup {Active(w) : w \in Calls}]
    /\ cancelled \subseteq Calls
    /\ setup \in [Calls -> {"none", "queued", "checked", "ready", "failed"}]
    /\ worker \in [Calls -> {"none", "waiting", "running", "retiring", "done"}]
    /\ native \in [Calls -> {"none", "open", "closing", "closed"}]
    /\ removing \subseteq Calls
    /\ stopping \subseteq Calls
    /\ cleaned \subseteq Gates
    /\ \A g \in Gates : tracked[g] = {c \in 1..Len(calls) : calls[c].key[1] = g /\ pc[c] # "done"}
    /\ \A w \in Calls : native[w] = "none" <=> worker[w] = "none"

Init ==
    /\ GateInit
    /\ calls = <<>>
    /\ pc = [c \in Calls |-> "none"]
    /\ target = [c \in Calls |-> 0]
    /\ entries = [k \in Keys |-> NoEntry]
    /\ cancelled = {}
    /\ setup = [c \in Calls |-> "none"]
    /\ worker = [c \in Calls |-> "none"]
    /\ native = [c \in Calls |-> "none"]
    /\ removing = {}
    /\ stopping = {}
    /\ cleaned = {}

KeyOf(c) == calls[c].key
ConnOf(c) == KeyOf(c)[1]

\* A watch's token is a child of its connection's.
Cancelled(w) == w \in cancelled \/ ~accepting[ConnOf(w)]

GoTo(c, where) ==
    /\ pc' = [pc EXCEPT ![c] = where]
    /\ UNCHANGED connectionVars

\* The handler is over: its task leaves the gate.
Return(c) ==
    /\ pc' = [pc EXCEPT ![c] = "done"]
    /\ TaskEnds(ConnOf(c), c)

(***************************************************************************)
(* A call is launched when the previous one for its key is over.           *)
(***************************************************************************)
Begin(key, op) ==
    LET c == Len(calls) + 1
    IN  /\ Append(calls, [key |-> key, op |-> op]) \in Prefixes
        /\ MayCommit(key[1])
        /\ \A b \in 1..Len(calls) : KeyOf(b) = key => pc[b] = "done"
        /\ calls' = Append(calls, [key |-> key, op |-> op])
        /\ pc' = [pc EXCEPT ![c] = "begin"]
        /\ SpawnWithCommit(key[1], c)
        /\ UNCHANGED <<target, watchVars, cleaned>>

(***************************************************************************)
(* watch_with_gate: reserve the key under the fence of the gate.           *)
(***************************************************************************)
Reserve(c) ==
    /\ pc[c] = "begin" /\ calls[c].op = "watch"
    /\ IF MayCommit(ConnOf(c)) /\ entries[KeyOf(c)] = NoEntry
       THEN /\ entries' = [entries EXCEPT ![KeyOf(c)] = Pending(c)]
            /\ GoTo(c, "slot")
       ELSE /\ UNCHANGED entries
            /\ Return(c)
    /\ UNCHANGED <<calls, target, cancelled, setup, worker, native, removing, stopping, cleaned>>

\* Mutant of Abandon: the dropped reservation stays in the map.
AbandonSilently(c) ==
    /\ cancelled' = cancelled \cup {c}
    /\ UNCHANGED removing

\* The guards of a handler that returns or is dropped with its reservation armed.
Abandon(c) ==
    /\ cancelled' = cancelled \cup {c}
    /\ removing' = removing \cup {c}

\* Wait for a setup permit, unless cancelled; then start the blocking setup.
InSetup == {c \in Calls : setup[c] \in {"queued", "checked"}}

TakeSlot(c) ==
    /\ pc[c] = "slot"
    /\ IF Cancelled(c)
       THEN Abandon(c) /\ Return(c) /\ UNCHANGED setup
       ELSE /\ Cardinality(InSetup) < SetupSlots
            /\ setup' = [setup EXCEPT ![c] = "queued"]
            /\ GoTo(c, "setup")
            /\ UNCHANGED <<cancelled, removing>>
    /\ UNCHANGED <<calls, target, entries, worker, native, stopping, cleaned>>

(***************************************************************************)
(* The blocking setup: it looks at the token, then registers the path and  *)
(* spawns the worker, or fails.  When nobody waits for its result any more *)
(* the result is dropped: the handles go to a blocking teardown and the    *)
(* worker sees its start channel closed.                                   *)
(***************************************************************************)
CheckSetup(c) ==
    /\ setup[c] = "queued"
    /\ setup' = [setup EXCEPT ![c] = IF Cancelled(c) THEN "failed" ELSE "checked"]
    /\ UNCHANGED <<connectionVars, calls, pc, target, entries, cancelled, worker, native,
                   removing, stopping, cleaned>>

\* Mutant of RegisterFails: the worker is spawned before the path is registered.
RegisterFailsLate(c) ==
    /\ setup[c] = "checked"
    /\ setup' = [setup EXCEPT ![c] = "failed"]
    /\ worker' = [worker EXCEPT ![c] = "waiting"]
    /\ UNCHANGED <<connectionVars, calls, pc, target, entries, cancelled, native, removing,
                   stopping, cleaned>>

RegisterFails(c) ==
    /\ setup[c] = "checked"
    /\ setup' = [setup EXCEPT ![c] = "failed"]
    /\ UNCHANGED <<connectionVars, calls, pc, target, entries, cancelled, worker, native,
                   removing, stopping, cleaned>>

Awaited(c) == pc[c] = "setup"

\* Mutant of RegisterPaths: nobody tears down the handles of an abandoned setup.
RegisterForgotten(c) ==
    /\ setup[c] = "checked"
    /\ setup' = [setup EXCEPT ![c] = "ready"]
    /\ worker' = [worker EXCEPT ![c] = IF Awaited(c) THEN "waiting" ELSE "retiring"]
    /\ native' = [native EXCEPT ![c] = "open"]
    /\ UNCHANGED <<connectionVars, calls, pc, target, entries, cancelled, removing, stopping,
                   cleaned>>

RegisterPaths(c) ==
    /\ setup[c] = "checked"
    /\ setup' = [setup EXCEPT ![c] = "ready"]
    /\ worker' = [worker EXCEPT ![c] = IF Awaited(c) THEN "waiting" ELSE "retiring"]
    /\ native' = [native EXCEPT ![c] = IF Awaited(c) THEN "open" ELSE "closing"]
    /\ UNCHANGED <<connectionVars, calls, pc, target, entries, cancelled, removing, stopping,
                   cleaned>>

(***************************************************************************)
(* remove_pending_reservation                                              *)
(***************************************************************************)
RemovePending(c) ==
    entries' = [entries EXCEPT ![KeyOf(c)] = IF @ = Pending(c) THEN NoEntry ELSE @]

SetupFailed(c) ==
    /\ pc[c] = "setup" /\ setup[c] = "failed"
    /\ RemovePending(c)
    /\ cancelled' = cancelled \cup {c}
    /\ Return(c)
    /\ UNCHANGED <<calls, target, setup, worker, native, removing, stopping, cleaned>>

\* A setup that panicked: the handler returns with its reservation armed.
SetupPanicked(c) ==
    /\ pc[c] = "setup" /\ setup[c] = "failed"
    /\ Abandon(c)
    /\ Return(c)
    /\ UNCHANGED <<calls, target, entries, setup, worker, native, stopping, cleaned>>

RemoveReservation(c) ==
    /\ c \in removing
    /\ removing' = removing \ {c}
    /\ RemovePending(c)
    /\ UNCHANGED <<connectionVars, calls, pc, target, cancelled, setup, worker, native, stopping,
                   cleaned>>

(***************************************************************************)
(* The commit under the fence of the gate: the reservation becomes an      *)
(* active entry and the worker starts; or the worker is turned away and    *)
(* what was set up is stopped.                                             *)
(***************************************************************************)
Commit(c) ==
    /\ pc[c] = "setup" /\ setup[c] = "ready"
    /\ IF MayCommit(ConnOf(c)) /\ entries[KeyOf(c)] = Pending(c)
       THEN /\ entries' = [entries EXCEPT ![KeyOf(c)] = Active(c)]
            /\ worker' = [worker EXCEPT ![c] = "running"]
            /\ Return(c)
            /\ UNCHANGED <<target, cancelled, stopping>>
       ELSE /\ worker' = [worker EXCEPT ![c] = "retiring"]
            /\ cancelled' = cancelled \cup {c}
            /\ stopping' = stopping \cup {c}
            /\ target' = [target EXCEPT ![c] = c]
            /\ GoTo(c, "stop")
            /\ UNCHANGED entries
    /\ UNCHANGED <<calls, setup, native, removing, cleaned>>

(***************************************************************************)
(* WatchEntry::stop of an active entry: wait for the worker, then hand the *)
(* native handles to their teardown; after the grace period do it all the  *)
(* same and abort the worker, which may have one more step in it.          *)
(***************************************************************************)
HandOver(w) == native' = [native EXCEPT ![w] = IF @ = "open" THEN "closing" ELSE @]

StopEnds(w) ==
    /\ w \in stopping
    /\ stopping' = stopping \ {w}
    /\ HandOver(w)
    /\ worker' \in {worker, [worker EXCEPT ![w] = "done"]}
    /\ UNCHANGED <<connectionVars, calls, pc, target, entries, cancelled, setup, removing, cleaned>>

\* The handler that stopped an entry goes on.
AfterStop(c) ==
    /\ pc[c] = "stop" /\ target[c] \notin stopping
    /\ IF calls[c].op = "watch" THEN GoTo(c, "unreserve") ELSE Return(c)
    /\ UNCHANGED <<calls, target, watchVars, cleaned>>

Unreserve(c) ==
    /\ pc[c] = "unreserve"
    /\ RemovePending(c)
    /\ Return(c)
    /\ UNCHANGED <<calls, target, cancelled, setup, worker, native, removing, stopping, cleaned>>

(***************************************************************************)
(* The worker leaves its loop because it is cancelled, or because the      *)
(* watcher or the delivery of a notification failed.  Then it removes its  *)
(* own entry, if that is still there, and stops the native handles.        *)
(***************************************************************************)
WorkerStops(w) ==
    /\ worker[w] = "running"
    /\ worker' = [worker EXCEPT ![w] = "retiring"]
    /\ UNCHANGED <<connectionVars, calls, pc, target, entries, cancelled, setup, native, removing,
                   stopping, cleaned>>

\* Mutant of OwnEntry: the worker does not compare reservations.
AnyEntry(w) == entries[KeyOf(w)].kind = "active"

OwnEntry(w) == entries[KeyOf(w)] = Active(w)

WorkerRetires(w) ==
    /\ worker[w] = "retiring"
    /\ worker' = [worker EXCEPT ![w] = "done"]
    /\ IF OwnEntry(w)
       THEN /\ entries' = [entries EXCEPT ![KeyOf(w)] = NoEntry]
            /\ HandOver(entries[KeyOf(w)].id)
       ELSE UNCHANGED <<entries, native>>
    /\ UNCHANGED <<connectionVars, calls, pc, target, cancelled, setup, removing, stopping, cleaned>>

\* The blocking teardown drops the handles.
Teardown(w) ==
    /\ native[w] = "closing"
    /\ native' = [native EXCEPT ![w] = "closed"]
    /\ UNCHANGED <<connectionVars, calls, pc, target, entries, cancelled, setup, worker, removing,
                   stopping, cleaned>>

(***************************************************************************)
(* unwatch                                                                 *)
(***************************************************************************)
Unwatch(c) ==
    LET e == entries[KeyOf(c)]
    IN  /\ pc[c] = "begin" /\ calls[c].op = "unwatch"
        /\ entries' = [entries EXCEPT ![KeyOf(c)] = NoEntry]
        /\ cancelled' = IF e = NoEntry THEN cancelled ELSE cancelled \cup {e.id}
        /\ IF e.kind = "active"
           THEN /\ stopping' = stopping \cup {e.id}
                /\ target' = [target EXCEPT ![c] = e.id]
                /\ GoTo(c, "stop")
           ELSE Return(c) /\ UNCHANGED <<stopping, target>>
        /\ UNCHANGED <<calls, setup, worker, native, removing, cleaned>>

(***************************************************************************)
(* A handler is dropped at an await: its connection closed.  What it owns  *)
(* is dropped with it: the reservation, the result of the setup, the entry *)
(* it is stopping.                                                         *)
(***************************************************************************)
DropHandler(c) ==
    LET reserved == calls[c].op = "watch" /\ pc[c] # "begin"
        unread == pc[c] = "setup" /\ setup[c] = "ready"
        owned == IF unread THEN c ELSE target[c]
    IN  /\ c \in 1..Len(calls)
        /\ pc[c] \notin {"none", "done"}
        /\ ~accepting[ConnOf(c)]
        /\ IF reserved THEN Abandon(c) ELSE UNCHANGED <<cancelled, removing>>
        /\ IF owned # 0 THEN HandOver(owned) ELSE UNCHANGED native
        /\ stopping' = stopping \ {target[c]}
        /\ worker' = IF unread THEN [worker EXCEPT ![c] = "retiring"] ELSE worker
        /\ Return(c)
        /\ UNCHANGED <<calls, target, entries, setup, cleaned>>

(***************************************************************************)
(* The connection closes, shuts its gate down, and connection_closed takes *)
(* its entries out of the map and stops them.                              *)
(***************************************************************************)
CloseConnection(g) ==
    /\ Close(g)
    /\ UNCHANGED <<calls, pc, target, watchVars, cleaned>>

CancelQueued(g) ==
    /\ phase[g] = "closing"
    /\ phase' = [phase EXCEPT ![g] = "draining"]
    /\ UNCHANGED <<accepting, tracked, aborted, calls, pc, target, watchVars, cleaned>>

Shutdown(g) ==
    /\ ShutdownStep(g)
    /\ UNCHANGED <<calls, pc, target, watchVars, cleaned>>

ConnectionClosed(g) ==
    LET taken == {entries[k] : k \in {g} \X Ids} \ {NoEntry}
    IN  /\ phase[g] = "closed" /\ g \notin cleaned
        /\ cleaned' = cleaned \cup {g}
        /\ entries' = [k \in Keys |-> IF k[1] = g THEN NoEntry ELSE entries[k]]
        /\ cancelled' = cancelled \cup {e.id : e \in taken}
        /\ stopping' = stopping \cup {e.id : e \in {x \in taken : x.kind = "active"}}
        /\ UNCHANGED <<connectionVars, calls, pc, target, setup, worker, native, removing>>

HandlerStep(c) ==
    \/ Reserve(c) \/ TakeSlot(c) \/ SetupFailed(c) \/ SetupPanicked(c) \/ Commit(c)
    \/ AfterStop(c) \/ Unreserve(c) \/ Unwatch(c)

BackgroundStep(w) ==
    \/ CheckSetup(w) \/ RegisterPaths(w) \/ RegisterFails(w)
    \/ RemoveReservation(w) \/ StopEnds(w) \/ WorkerRetires(w) \/ Teardown(w)

Next ==
    \/ \E k \in Keys, op \in {"watch", "unwatch"} : Begin(k, op)
    \/ \E c \in 1..Len(calls) : HandlerStep(c) \/ BackgroundStep(c) \/ WorkerStops(c) \/ DropHandler(c)
    \/ \E g \in Gates : CloseConnection(g) \/ CancelQueued(g) \/ Shutdown(g) \/ ConnectionClosed(g)

Spec == Init /\ [][Next]_vars

(***************************************************************************)
(* Handlers, blocking threads and spawned tasks are scheduled, and so is   *)
(* the cleanup of a connection; nothing is assumed of clients, of native   *)
(* failures or of the transport.                                           *)
(***************************************************************************)
FairSpec ==
    /\ Spec
    /\ WF_vars(\/ \E c \in 1..Len(calls) : HandlerStep(c) \/ BackgroundStep(c)
               \/ \E g \in Gates : CancelQueued(g) \/ Shutdown(g) \/ ConnectionClosed(g))

-----------------------------------------------------------------------------
(***************************************************************************)
(* Once connection_closed has taken the entries of a connection out of the *)
(* map, none ever appears again: a handler that outlived both graces of    *)
(* the shutdown finds the gate closed (try_commit in watch_with_gate).     *)
(***************************************************************************)
ClosedConnectionWatchesNothing ==
    \A k \in Keys : k[1] \in cleaned => entries[k] = NoEntry

(***************************************************************************)
(* An active watch goes away only when somebody cancelled it or its own    *)
(* worker gave up: "an old worker must never remove a later reuse of the   *)
(* connection/watch ID" (the completion of the worker).                    *)
(***************************************************************************)
ActiveWatchesAreKept ==
    [][\A k \in Keys, w \in Calls :
         entries[k] = Active(w) /\ entries'[k] # Active(w)
           => w \in cancelled' \/ worker[w] = "retiring"]_vars

(***************************************************************************)
(* A reservation does not block its watch id for ever, even if its handler *)
(* is dropped while the setup is running (PendingReservation).             *)
(***************************************************************************)
ReservationsSettle ==
    \A k \in Keys : entries[k].kind = "pending" ~> entries[k].kind # "pending"

(***************************************************************************)
(* Native handles are released once no entry holds them, whoever owned     *)
(* them when the handler, the worker or the connection went away           *)
(* (NativeWatchHandles).                                                   *)
(***************************************************************************)
InEntry(w) == \E k \in Keys : entries[k] = Active(w)

NativeHandlesAreReleased ==
    \A w \in Calls : native[w] = "open" /\ ~InEntry(w) ~> native[w] = "closed" \/ InEntry(w)

=============================================================================

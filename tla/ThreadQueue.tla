---------------------------- MODULE ThreadQueue ----------------------------
(***************************************************************************)
(* The durable follow-up queue of one thread                               *)
(* (app-server-handlers/src/request_processors/thread_queue.rs) with the   *)
(* core it starts turns in and the listener that feeds events back to it.  *)
(*                                                                         *)
(* The per-thread file lock is held by at most one operation, op.  What an *)
(* operation does between two awaits is one step; the queue row cannot     *)
(* change under the lock, so the copy an operation works on is the row     *)
(* itself and every in-memory change is a step together with its save.     *)
(* Revisions of the row and their publication are left out: no step of the *)
(* queue reads them.                                                       *)
(***************************************************************************)
EXTENDS Naturals, FiniteSets, Sequences, SequencesExt, BagsExt

CONSTANTS
    Ids,          \* submission ids (uuids), used once each
    Conns,        \* connection ids, used once each
    Clients,      \* clientUserMessageIds
    Inputs,       \* submitted inputs
    Images,       \* the inputs that contain a local image
    MaxAccepted,  \* MAX_ACCEPTED_SUBMISSIONS
    MaxTurns,     \* bound: turn ids
    MaxTasks,     \* bound: background tasks when a client makes a request
    MaxSealing,   \* bound: image adds that seal their input side by side
    Workloads,    \* bound: what clients, connections and faults do, see Workload
    NoId, NoConn, NoClient, NoInput

ASSUME NullsAreNull ==
    NoId \notin Ids /\ NoConn \notin Conns /\ NoClient \notin Clients /\ NoInput \notin Inputs
ASSUME BoundsAreNat == {MaxAccepted, MaxTurns, MaxTasks, MaxSealing} \subseteq Nat

(***************************************************************************)
(* A run explores some workloads side by side.  Each bounds its identities *)
(* and the limits of the queue (MAX_QUEUE_ENTRIES; MAX_QUEUE_BYTES counted *)
(* in submissions and receipts), and says which requests are made, which   *)
(* clients and inputs occur, how many turns run and how many of them a     *)
(* client starts directly, and what goes wrong.                            *)
(***************************************************************************)
Workload ==
    [ids : SUBSET Ids, conns : SUBSET Conns, clients : SUBSET Clients, inputs : SUBSET Inputs,
     entries : Nat, payload : Nat, turns : 0 .. MaxTurns, direct : Nat,
     requests : SUBSET {"list", "add", "update", "delete", "reorder", "start", "interrupt",
                        "close", "unsubscribe"},
     faults : SUBSET {"io", "reject", "ack", "abort", "crash", "unload"}]
ASSUME WorkloadsType == Workloads \subseteq Workload

VARIABLES
    \* durable, but for the buffer
    queue,         \* the thread_queues row
    history,       \* turns whose user input is in the rollout
    receipts,      \* start rows of input_receipts, per client id
    buffered,      \* turns whose input is appended to the rollout, not yet on disk
    \* core and the thread listener
    loaded,        \* the thread is in the ThreadManager
    turn,          \* the active turn
    status,        \* AgentStatus
    events,        \* events the listener has not processed
    inProgress,    \* ThreadState.in_progress_turn_id
    \* the queue processor
    op,            \* the holder of the file lock
    preparing,     \* image adds that dropped the lock to seal their input, a bag
    pausing,       \* how far the pauses outside the lock are
    kicks,         \* spawned kick tasks
    reconciles,    \* spawned recovery tasks
    starts,        \* kick tasks that found the agent idle
    added,         \* adds that have answered and not yet looked at the status
    forgetting,    \* deletes that have not removed their origin yet
    origins,       \* QueueOrigins.submissions
    retiring,      \* QueueOrigins.retiring
    \* connections
    live, subscribed, closing, leaving,
    \* identities handed out so far, and what became of them
    used, deleted, lastTurn, claimed,
    workload       \* never changes

durable == <<queue, history, receipts, buffered>>
core == <<loaded, turn, status, events, inProgress>>
tasks == <<preparing, pausing, kicks, starts, reconciles, added, forgetting>>
capabilities == <<origins, retiring>>
connections == <<live, subscribed, closing, leaving>>
identities == <<used, deleted, lastTurn, claimed, workload>>
vars == <<durable, core, op, tasks, capabilities, connections, identities>>

Turns == 1 .. MaxTurns
NoTurn == [id |-> 0, phase |-> "none"]
NoClaim == [sub |-> NoId, client |-> NoClient, input |-> NoInput]
NoStart == [sub |-> NoId, turn |-> 0]
NoReceipt == [turn |-> 0, state |-> "none"]
NoPauses == [listener |-> "no", interrupt |-> "no"]
NoOrigins == [i \in Ids |-> NoConn]
HasOrigins == origins # NoOrigins

Submission == [id : Ids, client : Clients \cup {NoClient}, input : Inputs]
IdsOf(entries) == {entries[k].id : k \in 1 .. Len(entries)}
Entry(i) == CHOOSE e \in ToSet(queue.subs) : e.id = i

(***************************************************************************)
(* An operation that holds the lock: its request, and how far it is.       *)
(***************************************************************************)
Op(kind) ==
    [kind |-> kind, phase |-> "none", id |-> NoId, conn |-> NoConn, client |-> NoClient,
     input |-> NoInput, sealed |-> "no", order |-> <<>>, thread |-> FALSE, recorded |-> FALSE]
NoOp == Op("none")

TypeOK ==
    /\ queue.subs \in Seq(Submission)
    /\ queue.paused \in BOOLEAN
    /\ queue.pending \in [sub : Ids \cup {NoId}, turn : Turns \cup {0}]
    /\ queue.pending.sub = NoId <=> queue.pending.turn = 0
    /\ queue.accepted \in Seq([entry : Submission, turn : Turns])
    /\ queue.sealed \subseteq Ids
    /\ history \subseteq Turns /\ buffered \subseteq Turns \ history
    /\ receipts \in [Clients -> [turn : Turns \cup {0},
                                 state : {"none", "reserved", "accepted", "consumed"}]]
    /\ loaded \in BOOLEAN
    /\ turn \in [id : Turns \cup {0},
                phase : {"none", "installed", "started", "appended", "flushed", "recorded"}]
    /\ status \in {"idle", "running", "stopped"}
    /\ inProgress \in Turns \cup {0}
    /\ IsABag(preparing)
    /\ pausing \in [{"listener", "interrupt"} -> {"no", "read", "lock"}]
    /\ kicks \in Nat /\ starts \in Nat /\ reconciles \in Nat /\ added \in Nat
    /\ forgetting \subseteq Ids
    /\ origins \in [Ids -> Conns \cup {NoConn}]
    /\ retiring \in BOOLEAN
    /\ subscribed \subseteq live /\ live \subseteq Conns
    /\ closing \subseteq Conns /\ leaving \subseteq Conns
    /\ deleted \subseteq used /\ used \subseteq Ids
    /\ lastTurn \in Turns \cup {0}
    /\ claimed \in [Turns -> [sub : Ids \cup {NoId}, client : Clients \cup {NoClient},
                              input : Inputs \cup {NoInput}]]
    /\ workload \in Workloads

Init ==
    /\ queue = [subs |-> <<>>, paused |-> FALSE, pending |-> NoStart, accepted |-> <<>>, sealed |-> {}]
    /\ workload \in Workloads
    /\ history = {} /\ buffered = {}
    /\ receipts = [c \in Clients |-> NoReceipt]
    /\ loaded = TRUE /\ turn = NoTurn /\ status = "idle" /\ events = <<>> /\ inProgress = 0
    /\ op = NoOp
    /\ preparing = EmptyBag /\ pausing = NoPauses
    /\ kicks = 0 /\ starts = 0 /\ reconciles = 0 /\ added = 0 /\ forgetting = {}
    /\ origins = NoOrigins /\ retiring = FALSE
    /\ live = workload.conns /\ subscribed = workload.conns /\ closing = {} /\ leaving = {}
    /\ used = {} /\ deleted = {} /\ lastTurn = 0
    /\ claimed = [t \in Turns |-> NoClaim]

-----------------------------------------------------------------------------
(***************************************************************************)
(* The queue row (impl Queue, save).  Encoding evicts the oldest receipts  *)
(* until the payload fits; pending submissions are never evicted.          *)
(***************************************************************************)
Fits(q) == Len(q.subs) <= workload.payload

Saved(q) ==
    LET over == Len(q.subs) + Len(q.accepted)
        drop == IF over > workload.payload THEN over - workload.payload ELSE 0
    IN  [q EXCEPT !.accepted = SubSeq(@, drop + 1, Len(@)),
                  !.sealed = @ \cap IdsOf(q.subs),
                  !.paused = @ /\ (q.subs # <<>> \/ q.pending # NoStart)]

Save(q) == Fits(q) /\ queue' = Saved(q)

Existing(client) ==
    {e \in ToSet(queue.subs) \cup {a.entry : a \in ToSet(queue.accepted)} :
        client # NoClient /\ e.client = client}

(***************************************************************************)
(* sort_by_key over the positions in ids: listed entries first, in the     *)
(* order of the list, the others after them in their present order.        *)
(***************************************************************************)
Reordered(ids) ==
    LET listed == [k \in 1 .. Len(ids) |-> Entry(ids[k])]
    IN  listed \o SelectSeq(queue.subs, LAMBDA e : e.id \notin ToSet(ids))

\* Mutant of Consumed: the claim is not reset with its entry.
ConsumedKeepsTurn(q) ==
    [q EXCEPT !.pending.sub = NoId, !.subs = SelectSeq(@, LAMBDA e : e.id # q.pending.sub)]

(***************************************************************************)
(* recover: the pending entry moves to the receipts.                       *)
(***************************************************************************)
Consumed(q) ==
    LET started == SelectSeq(q.subs, LAMBDA e : e.id = q.pending.sub)
        receipts1 == q.accepted \o [k \in 1 .. Len(started) |->
                                        [entry |-> started[k], turn |-> q.pending.turn]]
        drop == IF Len(receipts1) > MaxAccepted THEN 1 ELSE 0
    IN  [q EXCEPT !.pending = NoStart,
                  !.subs = SelectSeq(@, LAMBDA e : e.id # q.pending.sub),
                  !.accepted = SubSeq(receipts1, drop + 1, Len(receipts1))]

-----------------------------------------------------------------------------
(***************************************************************************)
(* The file lock (lock, load).  Its next owner completes a retirement that *)
(* could not take it.  An operation that finds a pending start goes        *)
(* through recover before its own mutation.                                *)
(***************************************************************************)
Lock(o) ==
    /\ op = NoOp
    /\ op' = [o EXCEPT !.phase = IF queue.pending = NoStart THEN "apply" ELSE "evidence"]
    /\ retiring' = FALSE
    /\ origins' = IF retiring THEN NoOrigins ELSE origins

Unlock == op' = NoOp

\* Mutant of MayInsertOrigin: a closed connection may still publish a capability.
MayInsertClosed(c) == ~retiring

\* Mutant of MayInsertOrigin: a retiring thread still admits capabilities.
MayInsertRetiring(c) == c \in live

(***************************************************************************)
(* insert_origin, under the connection registry's lock.                    *)
(***************************************************************************)
MayInsertOrigin(c) == c \in live /\ ~retiring

WithoutConn(c) == [i \in Ids |-> IF origins[i] = c THEN NoConn ELSE origins[i]]

(***************************************************************************)
(* The listener is done with its first event                               *)
(* (track_current_turn_event_with_reconciled_wait_items).                  *)
(***************************************************************************)
NextEvent ==
    /\ events' = Tail(events)
    /\ inProgress' = CASE Head(events).type = "started" -> Head(events).turn
                       [] Head(events).type = "message" -> inProgress
                       [] OTHER -> 0

(***************************************************************************)
(* The operation is over: the lock is free, and a listener that waited for *)
(* its pause goes on.                                                      *)
(***************************************************************************)
Done ==
    /\ Unlock
    /\ IF op.kind = "listener" THEN NextEvent ELSE UNCHANGED <<events, inProgress>>

(***************************************************************************)
(* An error before the operation's own effect on the row: every ? of load, *)
(* recover, save and the mutations.                                        *)
(***************************************************************************)
Fail ==
    /\ "io" \in workload.faults
    /\ op.phase \in {"evidence", "live", "status", "settle", "apply", "claim"}
    /\ Done
    /\ UNCHANGED <<durable, loaded, turn, status, tasks, capabilities, connections, identities>>

-----------------------------------------------------------------------------
(***************************************************************************)
(* recover.  Each step is one of its awaited reads: history, the listener's*)
(* view of the turn, the agent status; then the row is saved.  The history *)
(* of a loaded thread is flushed before it is read, in one critical        *)
(* section with the appends (durable_input_recorded).                      *)
(***************************************************************************)
Flush == history' = history \cup buffered /\ buffered' = {}

\* Mutant of RecoverEvidence: an append that is not on disk counts as recorded.
AppendedIsEvidence ==
    /\ op.phase = "evidence"
    /\ LET recorded == queue.pending.turn \in history \cup buffered
       IN  op' = [op EXCEPT !.thread = loaded, !.recorded = recorded,
                            !.phase = IF recorded THEN "settle" ELSE "live"]
    /\ UNCHANGED <<durable, core, tasks, capabilities, connections, identities>>

RecoverEvidence ==
    /\ op.phase = "evidence"
    /\ Flush
    /\ LET recorded == queue.pending.turn \in history'
       IN  op' = [op EXCEPT !.thread = loaded, !.recorded = recorded,
                            !.phase = IF recorded THEN "settle" ELSE "live"]
    /\ UNCHANGED <<queue, receipts, core, tasks, capabilities, connections, identities>>

RecoverLive ==
    /\ op.phase = "live"
    /\ op' = [op EXCEPT !.phase = IF inProgress = queue.pending.turn THEN "apply" ELSE "status"]
    /\ UNCHANGED <<durable, core, tasks, capabilities, connections, identities>>

RecoverStatus ==
    /\ op.phase = "status"
    /\ op' = [op EXCEPT !.phase = IF op.thread /\ status = "running" THEN "apply" ELSE "settle"]
    /\ UNCHANGED <<durable, core, tasks, capabilities, connections, identities>>

RecoverSettle ==
    /\ op.phase = "settle"
    /\ LET sub == queue.pending.sub
           taken == IF op.recorded THEN Consumed(queue) ELSE [queue EXCEPT !.pending = NoStart]
       IN  /\ Save([taken EXCEPT !.paused = @ \/ ~op.recorded \/ origins[sub] = NoConn])
           /\ origins' = IF op.recorded THEN [origins EXCEPT ![sub] = NoConn] ELSE origins
    /\ op' = [op EXCEPT !.phase = "apply"]
    /\ UNCHANGED <<history, receipts, buffered, core, tasks, retiring, connections, identities>>

-----------------------------------------------------------------------------
(***************************************************************************)
(* The client requests.  A request names entries by ids it has seen.       *)
(***************************************************************************)
Busy == kicks + starts + reconciles + added >= MaxTasks

Orders == {<<i>> : i \in used} \cup {<<i, j>> : i \in used, j \in used}

Request(o) ==
    /\ o.kind \in workload.requests /\ ~Busy
    /\ Lock(o)
    /\ UNCHANGED <<durable, core, tasks, connections, identities>>

List == Request(Op("list"))
Add(c, m, x) ==
    /\ used # workload.ids /\ c \in live
    /\ x \in Images => BagCardinality(preparing) < MaxSealing
    /\ Request([Op("add") EXCEPT !.conn = c, !.client = m, !.input = x])
Update(i, x) == Request([Op("update") EXCEPT !.id = i, !.input = x])
Delete(i) == Request([Op("delete") EXCEPT !.id = i])
ReorderIds(ids) == Request([Op("reorder") EXCEPT !.order = ids])
Start(c, i) == c \in live /\ Request([Op("start") EXCEPT !.conn = c, !.id = i])

(***************************************************************************)
(* What an operation leaves alone unless it says otherwise.                *)
(***************************************************************************)
KeepRest == UNCHANGED <<history, receipts, buffered, loaded, turn, status, retiring, connections>>

ApplyNothing ==
    /\ op.phase = "apply" /\ op.kind \in {"list", "reconcile"}
    /\ Done
    /\ KeepRest /\ UNCHANGED <<queue, tasks, origins, identities>>

(***************************************************************************)
(* The part of add that resolves duplicates and limits before any image is *)
(* read: a new image add drops the lock to seal its input, each one on its *)
(* own, so equal adds may be sealing side by side.                         *)
(***************************************************************************)
Full == Len(queue.subs) >= workload.entries
Unprepared == op.input \in Images /\ op.sealed = "no"

ApplyPrepare ==
    /\ op.phase = "apply" /\ op.kind = "add" /\ Unprepared /\ Existing(op.client) = {}
    /\ preparing' = IF Full THEN preparing
                    ELSE BagAdd(preparing, [conn |-> op.conn, client |-> op.client, input |-> op.input])
    /\ Done
    /\ KeepRest
    /\ UNCHANGED <<queue, pausing, kicks, starts, reconciles, added, forgetting, origins, identities>>

AddSealed(p, sealed) ==
    /\ preparing' = BagRemove(preparing, p)
    /\ Lock([Op("add") EXCEPT !.conn = p.conn, !.client = p.client, !.input = p.input, !.sealed = sealed])
    /\ UNCHANGED <<durable, core, pausing, kicks, starts, reconciles, added, forgetting, connections,
                   identities>>

AbandonPreparation(p) ==
    /\ (p.conn \notin live \/ "io" \in workload.faults)
    /\ preparing' = BagRemove(preparing, p)
    /\ UNCHANGED <<durable, core, op, pausing, kicks, starts, reconciles, added, forgetting,
                   capabilities, connections, identities>>

Appended(i) ==
    [queue EXCEPT !.subs = Append(@, [id |-> i, client |-> op.client, input |-> op.input]),
                  !.sealed = IF op.input \in Images THEN @ \cup {i} ELSE @]

NewId == CHOOSE i \in workload.ids : i \notin used

\* Mutant of Admitted: the duplicate check made before sealing is not repeated.
AdmittedAsPrepared ==
    /\ op.sealed = "no" => Existing(op.client) = {}
    /\ ~Full /\ used # workload.ids /\ Fits(Appended(NewId))
    /\ op.input \in Images => op.sealed = "ok"

Admitted ==
    /\ Existing(op.client) = {}
    /\ ~Full /\ used # workload.ids /\ Fits(Appended(NewId))
    /\ op.input \in Images => op.sealed = "ok"

\* Mutant of Authorized: a retry publishes a capability for the entry it repeats.
AuthorizedByRetry ==
    IF MayInsertOrigin(op.conn)
    THEN [i \in Ids |-> IF (Admitted /\ i = NewId) \/ \E e \in Existing(op.client) : e.id = i
                        THEN op.conn ELSE origins[i]]
    ELSE origins

Authorized ==
    IF Admitted /\ MayInsertOrigin(op.conn) THEN [origins EXCEPT ![NewId] = op.conn] ELSE origins

(***************************************************************************)
(* add_owned.  A duplicate with the same input is answered like a new      *)
(* entry; the answer is followed by a look at the agent status.            *)
(***************************************************************************)
ApplyAdd ==
    /\ op.phase = "apply" /\ op.kind = "add" /\ ~(Unprepared /\ Existing(op.client) = {})
    /\ IF Admitted
       THEN Save(Appended(NewId)) /\ used' = used \cup {NewId}
       ELSE UNCHANGED <<queue, used>>
    /\ origins' = Authorized
    /\ added' = IF Admitted \/ \E e \in Existing(op.client) : e.input = op.input THEN added + 1 ELSE added
    /\ Done
    /\ KeepRest
    /\ UNCHANGED <<preparing, pausing, kicks, starts, reconciles, forgetting, deleted, lastTurn,
                   claimed, workload>>

(***************************************************************************)
(* update, delete: refused for the entry that is starting.                 *)
(***************************************************************************)
\* Mutant of Updatable: the entry that is starting may be edited.
UpdatableWhileStarting(i) == i \in IdsOf(queue.subs)

Updatable(i) == queue.pending.sub # i /\ i \in IdsOf(queue.subs)

\* Mutant of Deletable: the entry that is starting may be deleted.
DeletableWhileStarting(i) == i \in IdsOf(queue.subs)

Deletable(i) == queue.pending.sub # i /\ i \in IdsOf(queue.subs)

\* Mutant of ApplyUpdate: the snapshot of the old input is kept.
UpdateKeepsSnapshot ==
    /\ op.phase = "apply" /\ op.kind = "update"
    /\ IF Updatable(op.id)
       THEN Save([queue EXCEPT
                     !.subs = [k \in DOMAIN @ |-> IF @[k].id = op.id THEN [@[k] EXCEPT !.input = op.input]
                                                   ELSE @[k]]])
       ELSE UNCHANGED queue
    /\ Done
    /\ KeepRest /\ UNCHANGED <<tasks, origins, identities>>

ApplyUpdate ==
    /\ op.phase = "apply" /\ op.kind = "update"
    /\ IF Updatable(op.id)
       THEN Save([queue EXCEPT
                     !.subs = [k \in DOMAIN @ |-> IF @[k].id = op.id THEN [@[k] EXCEPT !.input = op.input]
                                                   ELSE @[k]],
                     !.sealed = IF op.input \in Images THEN @ \cup {op.id} ELSE @ \ {op.id}])
       ELSE UNCHANGED queue
    /\ Done
    /\ KeepRest /\ UNCHANGED <<tasks, origins, identities>>

ApplyDelete ==
    /\ op.phase = "apply" /\ op.kind = "delete"
    /\ IF Deletable(op.id)
       THEN /\ Save([queue EXCEPT !.subs = SelectSeq(@, LAMBDA e : e.id # op.id)])
            /\ deleted' = deleted \cup {op.id} /\ forgetting' = forgetting \cup {op.id}
       ELSE UNCHANGED <<queue, deleted, forgetting>>
    /\ Done
    /\ KeepRest
    /\ UNCHANGED <<preparing, pausing, kicks, starts, reconciles, added, origins, used, lastTurn,
                   claimed, workload>>

Forget(i) ==
    /\ i \in forgetting
    /\ forgetting' = forgetting \ {i}
    /\ origins' = [origins EXCEPT ![i] = NoConn]
    /\ UNCHANGED <<durable, core, op, preparing, pausing, kicks, starts, reconciles, added, retiring,
                   connections, identities>>

ApplyReorder ==
    /\ op.phase = "apply" /\ op.kind = "reorder"
    /\ IF IsInjective(op.order) /\ ToSet(op.order) \subseteq IdsOf(queue.subs)
       THEN queue' = IF Reordered(op.order) = queue.subs THEN queue
                     ELSE Saved([queue EXCEPT !.subs = Reordered(op.order)])
       ELSE UNCHANGED queue
    /\ Done
    /\ KeepRest /\ UNCHANGED <<tasks, origins, identities>>

AfterAdd ==
    /\ added > 0
    /\ added' = added - 1
    /\ kicks' = IF loaded /\ status # "running" /\ HasOrigins THEN kicks + 1 ELSE kicks
    /\ UNCHANGED <<durable, core, op, preparing, pausing, starts, reconciles, forgetting, capabilities,
                   connections, identities>>

-----------------------------------------------------------------------------
(***************************************************************************)
(* start_inner.  An explicit start names its entry and brings its own      *)
(* connection; an automatic one takes the first entry of an unpaused queue *)
(* and needs the entry's own submitter, still subscribed.  The capability  *)
(* is published, then the claim is saved before core sees the input; one   *)
(* step each, because connections may go away and pauses begin in between. *)
(* A claim that fails keeps the capability.                                *)
(***************************************************************************)
Selected == IF op.kind = "start" THEN {e \in ToSet(queue.subs) : e.id = op.id}
            ELSE IF queue.subs = <<>> THEN {} ELSE {Head(queue.subs)}
Origin(e) == IF op.kind = "start" THEN op.conn ELSE origins[e.id]

\* Mutant of Eligible: an automatic start ignores the pause.
EligiblePaused(e) ==
    /\ queue.pending = NoStart /\ Origin(e) # NoConn
    /\ op.kind = "auto" => Origin(e) \in subscribed

Eligible(e) ==
    /\ queue.pending = NoStart /\ Origin(e) # NoConn
    /\ op.kind = "auto" => ~queue.paused /\ Origin(e) \in subscribed

Starting == op.phase = "apply" /\ op.kind \in {"start", "auto"}

Refuse ==
    /\ Starting /\ \A e \in Selected : ~Eligible(e)
    /\ Done
    /\ KeepRest /\ UNCHANGED <<queue, tasks, origins, identities>>

Select(e) ==
    /\ Starting /\ e \in Selected /\ Eligible(e)
    /\ op' = [op EXCEPT !.phase = "insert", !.id = e.id, !.conn = Origin(e)]
    /\ UNCHANGED <<durable, core, tasks, capabilities, connections, identities>>

InsertOrigin ==
    /\ op.phase = "insert"
    /\ IF MayInsertOrigin(op.conn)
       THEN /\ origins' = [origins EXCEPT ![op.id] = op.conn]
            /\ op' = [op EXCEPT !.phase = "claim"]
            /\ UNCHANGED <<events, inProgress>>
       ELSE UNCHANGED origins /\ Done
    /\ KeepRest /\ UNCHANGED <<queue, tasks, identities>>

Claimable(e) ==
    /\ loaded /\ lastTurn < workload.turns
    /\ e.input \in Images => e.id \in queue.sealed

ClaimRefused ==
    /\ op.phase = "claim" /\ ~Claimable(Entry(op.id))
    /\ Done
    /\ KeepRest /\ UNCHANGED <<queue, tasks, origins, identities>>

Claim ==
    LET e == Entry(op.id) IN
    /\ op.phase = "claim" /\ Claimable(e)
    /\ lastTurn' = lastTurn + 1
    /\ claimed' = [claimed EXCEPT ![lastTurn + 1] = [sub |-> e.id, client |-> e.client, input |-> e.input]]
    /\ Save([queue EXCEPT !.paused = FALSE, !.pending = [sub |-> e.id, turn |-> lastTurn + 1]])
    /\ op' = [op EXCEPT !.phase = "submit"]
    /\ KeepRest /\ UNCHANGED <<events, inProgress, tasks, origins, used, deleted, workload>>

(***************************************************************************)
(* start_queued_turn, turn_start_inner: a known client id replays its      *)
(* original turn; an active turn or an unloaded thread rejects; otherwise  *)
(* the receipt is reserved, accepted by core and the turn installed.  A    *)
(* receipt that was reserved keeps its identity, cancelled or not.         *)
(***************************************************************************)
\* Mutant of Known: a consumed receipt no longer identifies its submission.
KnownUnconsumed(m) == m # NoClient /\ receipts[m].state \in {"reserved", "accepted"}

Known(m) == m # NoClient /\ receipts[m].state # "none"
Receipted(m, t, state) ==
    IF m = NoClient THEN receipts ELSE [receipts EXCEPT ![m] = [turn |-> t, state |-> state]]

SubmitReplay ==
    /\ op.phase = "submit" /\ Known(Entry(queue.pending.sub).client)
    /\ Done
    /\ reconciles' \in {reconciles, reconciles + 1}
    /\ KeepRest
    /\ UNCHANGED <<queue, preparing, pausing, kicks, starts, added, forgetting, origins, identities>>

SubmitReject ==
    LET m == Entry(queue.pending.sub).client IN
    /\ op.phase = "submit" /\ ~Known(m)
    /\ \/ (~loaded \/ turn # NoTurn \/ "reject" \in workload.faults) /\ UNCHANGED receipts
       \/ "reject" \in workload.faults /\ loaded /\ receipts' = Receipted(m, queue.pending.turn, "reserved")
    /\ Done
    /\ reconciles' = reconciles + 1
    /\ UNCHANGED <<queue, history, buffered, loaded, turn, status, preparing, pausing, kicks, starts,
                   added, forgetting, capabilities, connections, identities>>

SubmitInstall ==
    LET m == Entry(queue.pending.sub).client IN
    /\ op.phase = "submit" /\ ~Known(m) /\ loaded /\ turn = NoTurn
    /\ receipts' = Receipted(m, queue.pending.turn, "accepted")
    /\ turn' = [id |-> queue.pending.turn, phase |-> "installed"]
    /\ op' = [op EXCEPT !.phase = "ack"]
    /\ UNCHANGED <<queue, history, buffered, loaded, status, events, inProgress, tasks, capabilities,
                   connections, identities>>

(***************************************************************************)
(* The acknowledgement, which may be lost after installation.              *)
(***************************************************************************)
Acknowledge ==
    /\ op.phase = "ack"
    /\ Done
    /\ \/ UNCHANGED reconciles
       \/ "ack" \in workload.faults /\ reconciles' = reconciles + 1
    /\ KeepRest
    /\ UNCHANGED <<queue, preparing, pausing, kicks, starts, added, forgetting, origins, identities>>

-----------------------------------------------------------------------------
(***************************************************************************)
(* kick, and the recovery tasks of start_inner and input_recorded.  A task *)
(* that cannot take the lock in time gives up.                             *)
(***************************************************************************)
KickReady ==
    /\ kicks > 0 /\ (~loaded \/ status # "running")
    /\ kicks' = kicks - 1
    /\ starts' = IF loaded /\ status = "idle" THEN starts + 1 ELSE starts
    /\ UNCHANGED <<durable, core, op, preparing, pausing, reconciles, added, forgetting, capabilities,
                   connections, identities>>

KickTimeout ==
    /\ kicks > 0 /\ status = "running"
    /\ kicks' = kicks - 1
    /\ UNCHANGED <<durable, core, op, preparing, pausing, starts, reconciles, added, forgetting,
                   capabilities, connections, identities>>

AutoStart ==
    /\ starts > 0
    /\ starts' = starts - 1
    /\ Lock(Op("auto")) \/ ("io" \in workload.faults /\ UNCHANGED <<op, capabilities>>)
    /\ UNCHANGED <<durable, core, preparing, pausing, kicks, reconciles, added, forgetting,
                   connections, identities>>

Reconcile ==
    /\ reconciles > 0
    /\ reconciles' = reconciles - 1
    /\ Lock(Op("reconcile")) \/ ("io" \in workload.faults /\ UNCHANGED <<op, capabilities>>)
    /\ UNCHANGED <<durable, core, preparing, pausing, kicks, starts, added, forgetting, connections,
                   identities>>

-----------------------------------------------------------------------------
(***************************************************************************)
(* pause_with_result, called by the listener and by a startup interrupt:   *)
(* the capabilities go at once; the row is read without the lock and, if   *)
(* it has entries or cannot be read, marked under the lock.                *)
(***************************************************************************)
HasQueued == queue.subs # <<>> \/ queue.pending # NoStart

PauseBegins(who) ==
    /\ origins' = NoOrigins
    /\ pausing' = [pausing EXCEPT ![who] = "read"]

PauseRead(who) ==
    /\ pausing[who] = "read"
    /\ \/ /\ HasQueued \/ "io" \in workload.faults
          /\ pausing' = [pausing EXCEPT ![who] = "lock"]
          /\ UNCHANGED <<events, inProgress>>
       \/ /\ ~HasQueued
          /\ pausing' = [pausing EXCEPT ![who] = "no"]
          /\ IF who = "listener" THEN NextEvent ELSE UNCHANGED <<events, inProgress>>
    /\ UNCHANGED <<durable, loaded, turn, status, op, preparing, kicks, starts, reconciles, added,
                   forgetting, capabilities, connections, identities>>

PauseLock(who) ==
    /\ pausing[who] = "lock"
    /\ pausing' = [pausing EXCEPT ![who] = "no"]
    /\ Lock(Op(who))
    /\ UNCHANGED <<durable, core, preparing, kicks, starts, reconciles, added, forgetting, connections,
                   identities>>

PauseTimeout(who) ==
    /\ "io" \in workload.faults /\ pausing[who] = "lock"
    /\ pausing' = [pausing EXCEPT ![who] = "no"]
    /\ IF who = "listener" THEN NextEvent ELSE UNCHANGED <<events, inProgress>>
    /\ UNCHANGED <<durable, loaded, turn, status, op, preparing, kicks, starts, reconciles, added,
                   forgetting, capabilities, connections, identities>>

ApplyPause ==
    /\ op.phase = "apply" /\ op.kind \in {"listener", "interrupt"}
    /\ queue' = IF queue.paused THEN queue ELSE Saved([queue EXCEPT !.paused = TRUE])
    /\ Done
    /\ KeepRest /\ UNCHANGED <<tasks, origins, identities>>

Interrupt ==
    /\ "interrupt" \in workload.requests /\ loaded /\ pausing["interrupt"] = "no" /\ op.kind # "interrupt"
    /\ PauseBegins("interrupt")
    /\ UNCHANGED <<durable, core, op, preparing, kicks, starts, reconciles, added, forgetting, retiring,
                   connections, identities>>

(***************************************************************************)
(* process_thread_listener_event.                                          *)
(***************************************************************************)
Listening(type) ==
    /\ events # <<>> /\ Head(events).type = type
    /\ pausing["listener"] = "no" /\ op.kind # "listener"
CurrentTurn == inProgress \in {0, Head(events).turn}

ListenStarted ==
    /\ Listening("started")
    /\ NextEvent
    /\ UNCHANGED <<durable, loaded, turn, status, op, tasks, capabilities, connections, identities>>

ListenMessage ==
    /\ Listening("message")
    /\ reconciles' = IF HasOrigins THEN reconciles + 1 ELSE reconciles
    /\ NextEvent
    /\ UNCHANGED <<durable, loaded, turn, status, op, preparing, pausing, kicks, starts, added, forgetting,
                   capabilities, connections, identities>>

\* Mutant of ListenComplete: the completion starts nothing.
CompleteWithoutKick ==
    /\ Listening("complete")
    /\ NextEvent
    /\ UNCHANGED <<durable, loaded, turn, status, op, tasks, capabilities, connections, identities>>

ListenComplete ==
    /\ Listening("complete")
    /\ kicks' = IF CurrentTurn /\ HasOrigins THEN kicks + 1 ELSE kicks
    /\ NextEvent
    /\ UNCHANGED <<durable, loaded, turn, status, op, preparing, pausing, starts, reconciles, added,
                   forgetting, capabilities, connections, identities>>

ListenStopped ==
    /\ Listening("stopped")
    /\ IF CurrentTurn
       THEN PauseBegins("listener") /\ UNCHANGED <<events, inProgress>>
       ELSE NextEvent /\ UNCHANGED <<pausing, origins>>
    /\ UNCHANGED <<durable, loaded, turn, status, op, preparing, kicks, starts, reconciles, added,
                   forgetting, retiring, connections, identities>>

-----------------------------------------------------------------------------
(***************************************************************************)
(* Core.  A turn is installed before its worker publishes TurnStarted; the *)
(* status and the event are published together.  The input is appended and *)
(* its event published; it is on disk before its receipt is consumed.  A   *)
(* start waits out a turn that is finalizing, so the end of a turn is one  *)
(* step; it flushes first, and goes on if that fails.                      *)
(***************************************************************************)
StartDirect(m) ==
    /\ loaded /\ turn = NoTurn /\ ~Known(m) /\ lastTurn < workload.turns
    /\ Cardinality({t \in 1 .. lastTurn : claimed[t].sub = NoId}) < workload.direct
    /\ lastTurn' = lastTurn + 1
    /\ claimed' = [claimed EXCEPT ![lastTurn + 1].client = m]
    /\ turn' = [id |-> lastTurn + 1, phase |-> "installed"]
    /\ receipts' = Receipted(m, lastTurn + 1, "accepted")
    /\ UNCHANGED <<queue, history, buffered, loaded, status, events, inProgress, op, tasks, capabilities,
                   connections, used, deleted, workload>>

Publish(type) == events' = Append(events, [type |-> type, turn |-> turn.id])

TurnStarted ==
    /\ turn.phase = "installed"
    /\ turn' = [turn EXCEPT !.phase = "started"]
    /\ status' = "running"
    /\ Publish("started")
    /\ UNCHANGED <<durable, loaded, inProgress, op, tasks, capabilities, connections, identities>>

RecordInput ==
    /\ turn.phase = "started"
    /\ turn' = [turn EXCEPT !.phase = "appended"]
    /\ buffered' = buffered \cup {turn.id}
    /\ Publish("message")
    /\ UNCHANGED <<queue, history, receipts, loaded, status, inProgress, op, tasks, capabilities,
                   connections, identities>>

FlushInput ==
    /\ turn.phase = "appended"
    /\ turn' = [turn EXCEPT !.phase = "flushed"]
    /\ Flush
    /\ UNCHANGED <<queue, receipts, loaded, status, events, inProgress, op, tasks, capabilities,
                   connections, identities>>

ConsumeReceipt ==
    /\ turn.phase = "flushed"
    /\ turn' = [turn EXCEPT !.phase = "recorded"]
    /\ receipts' = Receipted(claimed[turn.id].client, turn.id, "consumed")
    /\ UNCHANGED <<queue, history, buffered, loaded, status, events, inProgress, op, tasks, capabilities,
                   connections, identities>>

TurnComplete ==
    /\ turn.phase = "recorded"
    /\ turn' = NoTurn
    /\ status' = "idle"
    /\ Publish("complete")
    /\ UNCHANGED <<durable, loaded, inProgress, op, tasks, capabilities, connections, identities>>

(***************************************************************************)
(* A failed or interrupted turn.  Before TurnStarted the status may belong *)
(* to an earlier turn and then stays.                                      *)
(***************************************************************************)
TurnStopped ==
    /\ "abort" \in workload.faults /\ turn # NoTurn
    /\ turn' = NoTurn
    /\ status' \in {"stopped"} \cup (IF turn.phase = "installed" THEN {status} ELSE {})
    /\ Flush \/ ("io" \in workload.faults /\ UNCHANGED <<history, buffered>>)
    /\ Publish("stopped")
    /\ UNCHANGED <<queue, receipts, loaded, inProgress, op, tasks, capabilities, connections, identities>>

-----------------------------------------------------------------------------
(***************************************************************************)
(* Connections (connection_closed, thread_unsubscribe).                    *)
(***************************************************************************)
Close(c) ==
    /\ "close" \in workload.requests /\ c \in live
    /\ live' = live \ {c} /\ subscribed' = subscribed \ {c}
    /\ closing' = closing \cup {c}
    /\ UNCHANGED <<durable, core, op, tasks, capabilities, leaving, identities>>

RetireConnection(c) ==
    /\ c \in closing
    /\ closing' = closing \ {c}
    /\ origins' = WithoutConn(c)
    /\ UNCHANGED <<durable, core, op, tasks, retiring, live, subscribed, leaving, identities>>

Unsubscribe(c) ==
    /\ "unsubscribe" \in workload.requests /\ c \in subscribed
    /\ subscribed' = subscribed \ {c}
    /\ leaving' = leaving \cup {c}
    /\ UNCHANGED <<durable, core, op, tasks, capabilities, live, closing, identities>>

RetireThreadConnection(c) ==
    /\ c \in leaving /\ (op = NoOp \/ "io" \in workload.faults)
    /\ leaving' = leaving \ {c}
    /\ origins' = IF op = NoOp /\ retiring THEN NoOrigins ELSE WithoutConn(c)
    /\ retiring' = (retiring /\ op # NoOp)
    /\ UNCHANGED <<durable, core, op, tasks, live, subscribed, closing, identities>>

(***************************************************************************)
(* Unloading (finish_thread_unload), the teardown of a thread that is      *)
(* already absent (finalize_thread_teardown), resuming, and the death of   *)
(* the process.                                                            *)
(***************************************************************************)
Unload ==
    /\ "unload" \in workload.faults /\ turn = NoTurn /\ events = <<>> /\ op.phase \notin {"submit", "ack"}
    /\ loaded' = FALSE /\ status' = "idle" /\ inProgress' = 0
    /\ retiring' = TRUE /\ origins' = NoOrigins
    /\ op' = [op EXCEPT !.thread = FALSE]
    /\ subscribed' = {}
    /\ Flush
    /\ UNCHANGED <<queue, receipts, turn, events, tasks, live, closing, leaving, identities>>

RetireThread ==
    /\ retiring /\ op = NoOp
    /\ retiring' = FALSE /\ origins' = NoOrigins
    /\ UNCHANGED <<durable, core, op, tasks, connections, identities>>

(***************************************************************************)
(* Accepted start input that never reached history is recorded under its   *)
(* original turn, without running it (reconcile_input_receipts).           *)
(***************************************************************************)
Resume(c) ==
    /\ ~loaded /\ c \in live
    /\ loaded' = TRUE
    /\ history' = history \cup {receipts[m].turn : m \in {n \in Clients : receipts[n].state = "accepted"}}
    /\ receipts' = [m \in Clients |-> IF receipts[m].state = "none" THEN receipts[m]
                                      ELSE [receipts[m] EXCEPT !.state = "consumed"]]
    /\ subscribed' = subscribed \cup {c}
    /\ UNCHANGED <<queue, buffered, turn, status, events, inProgress, op, tasks, capabilities, live,
                   closing, leaving, identities>>

Crash ==
    /\ "crash" \in workload.faults
    /\ loaded' = FALSE /\ turn' = NoTurn /\ status' = "idle" /\ events' = <<>> /\ inProgress' = 0
    /\ op' = NoOp
    /\ buffered' = {}
    /\ preparing' = EmptyBag /\ pausing' = NoPauses
    /\ kicks' = 0 /\ starts' = 0 /\ reconciles' = 0 /\ added' = 0 /\ forgetting' = {}
    /\ origins' = NoOrigins /\ retiring' = FALSE
    /\ live' = workload.conns /\ subscribed' = {} /\ closing' = {} /\ leaving' = {}
    /\ UNCHANGED <<queue, history, receipts, identities>>

-----------------------------------------------------------------------------
ClientStep ==
    \/ List
    \/ \E c \in Conns, m \in workload.clients \cup {NoClient}, x \in workload.inputs : Add(c, m, x)
    \/ \E i \in used : Delete(i) \/ \E x \in workload.inputs : Update(i, x)
    \/ \E ids \in Orders : ReorderIds(ids)
    \/ \E c \in Conns, i \in used : Start(c, i)
    \/ \E m \in workload.clients \cup {NoClient} : StartDirect(m)
    \/ Interrupt

LockStep ==
    \/ RecoverEvidence \/ RecoverLive \/ RecoverStatus \/ RecoverSettle
    \/ ApplyNothing \/ ApplyPrepare \/ ApplyAdd \/ ApplyUpdate \/ ApplyDelete \/ ApplyReorder \/ ApplyPause
    \/ Refuse \/ (\E e \in Selected : Select(e)) \/ InsertOrigin \/ ClaimRefused \/ Claim
    \/ SubmitReplay \/ SubmitReject \/ SubmitInstall \/ Acknowledge

TaskStep ==
    \/ \E p \in BagToSet(preparing) : AddSealed(p, "ok")
    \/ \E i \in forgetting : Forget(i)
    \/ AfterAdd \/ KickReady \/ AutoStart \/ Reconcile
    \/ \E who \in DOMAIN pausing : PauseRead(who) \/ PauseLock(who)

ListenerStep == ListenStarted \/ ListenMessage \/ ListenComplete \/ ListenStopped
CoreStep == TurnStarted \/ RecordInput \/ FlushInput \/ ConsumeReceipt \/ TurnComplete

ConnectionStep ==
    \E c \in Conns : Close(c) \/ RetireConnection(c) \/ Unsubscribe(c) \/ RetireThreadConnection(c) \/ Resume(c)

FaultStep ==
    \/ Fail \/ KickTimeout \/ TurnStopped \/ Unload \/ RetireThread \/ Crash
    \/ \E p \in BagToSet(preparing) : AbandonPreparation(p) \/ AddSealed(p, "failed")
    \/ \E who \in DOMAIN pausing : PauseTimeout(who)

Next == ClientStep \/ LockStep \/ TaskStep \/ ListenerStep \/ CoreStep \/ ConnectionStep \/ FaultStep

Spec == Init /\ [][Next]_vars

(***************************************************************************)
(* The lock holder, the spawned tasks, the listener and the worker of a    *)
(* turn all run to their end; a start task polls a lock that every holder  *)
(* gives back, and the waiters are finitely many in the fair runs.         *)
(***************************************************************************)
FairSpec ==
    /\ Spec
    /\ WF_vars(LockStep)
    /\ WF_vars(AfterAdd) /\ WF_vars(KickReady) /\ WF_vars(AutoStart) /\ WF_vars(Reconcile)
    /\ WF_vars(ListenerStep) /\ WF_vars(CoreStep)

-----------------------------------------------------------------------------
(***************************************************************************)
(* Acknowledged input is never lost: an entry that was added and that no   *)
(* client deleted is in the durable queue or its turn's input is in        *)
(* history, whatever crashes, failures and recoveries happen between the   *)
(* durable claim (start_inner), installation and recording.                *)
(***************************************************************************)
NoInputLost ==
    \A i \in used \ deleted :
        i \in IdsOf(queue.subs) \/ \E t \in history : claimed[t].sub = i

(***************************************************************************)
(* A retained accepted receipt (thread/queue/list, acceptedSubmissions)    *)
(* maps a submission to the turn that was claimed for it, recorded it and  *)
(* was given the input the receipt shows, also when clients edit, delete   *)
(* and reorder entries while they start (update_owned, recover).           *)
(***************************************************************************)
ReceiptsAreTrue ==
    \A a \in ToSet(queue.accepted) :
        /\ a.turn \in history
        /\ claimed[a.turn].sub = a.entry.id /\ claimed[a.turn].input = a.entry.input

(***************************************************************************)
(* A pending start always has its input: the entry it names stays in the   *)
(* queue until recovery settles the claim (update_owned, delete_owned).    *)
(***************************************************************************)
PendingKeepsEntry == queue.pending # NoStart => queue.pending.sub \in IdsOf(queue.subs)

(***************************************************************************)
(* A clientUserMessageId names at most one pending or accepted submission, *)
(* also when image adds with the same id seal their input side by side     *)
(* outside the lock (add, existing_submission).                            *)
(***************************************************************************)
OneEntryPerClient ==
    LET entries == ToSet(queue.subs) \cup {a.entry : a \in ToSet(queue.accepted)}
    IN  \A d, e \in entries : d.client # NoClient /\ d.client = e.client => d.id = e.id

(***************************************************************************)
(* Execution never rereads a mutable image: an entry that can be started   *)
(* has its sealed snapshot, through adds, updates and saves                *)
(* (finish_sealed_add, update_owned, save).                                *)
(***************************************************************************)
ImagesAreSealed ==
    /\ \A e \in ToSet(queue.subs) : e.input \in Images <=> e.id \in queue.sealed
    /\ queue.sealed \subseteq IdsOf(queue.subs)

(***************************************************************************)
(* A client submission is recorded under at most one turn, however often   *)
(* its queue entry is restored and started again, and if the client also   *)
(* sent it directly (reserve_start_receipt, reconcile_input_receipts).     *)
(***************************************************************************)
RecordedOnce ==
    \A t, u \in history :
        claimed[t].client = claimed[u].client /\ claimed[t].client # NoClient => t = u

(***************************************************************************)
(* Once the retirement of a closed connection has run, no capability of it *)
(* remains or appears, though adds and starts of that connection go on in  *)
(* the background (insert_origin, connection_closed, retire_connection).   *)
(***************************************************************************)
ClosedConnectionsAreForgotten ==
    \A i \in Ids : origins[i] # NoConn => origins[i] \in live \cup closing

(***************************************************************************)
(* After a thread is unloaded no capability admitted before the unload     *)
(* starts an entry: an operation that held the lock across the unload      *)
(* cannot publish one (retire_thread, insert_origin, lock).                *)
(***************************************************************************)
RetirementIsFenced == retiring => ~HasOrigins

(***************************************************************************)
(* Once paused, a queue that still has entries is only resumed by an       *)
(* explicit start: no save, recovery, restart or automatic start drops the *)
(* pause (save, recover, start_inner).                                     *)
(***************************************************************************)
OnlyStartResumes ==
    [][queue.paused /\ ~queue'.paused => op.kind = "start" \/ queue'.subs = <<>>]_vars

(***************************************************************************)
(* A capability that was dropped by a pause, a closed connection or an     *)
(* unload comes back only through an explicit start, or through the start  *)
(* that had already read it; no later add or retry authorizes an automatic *)
(* start of an older entry, even when the pause could not take the lock or *)
(* save the row (pause_with_result, add_owned, start_inner).               *)
(***************************************************************************)
DroppedStaysDropped ==
    [][\A i \in used : origins[i] = NoConn /\ origins'[i] # NoConn =>
          op.id = i /\ op.kind \in {"start", "auto"}]_vars

(***************************************************************************)
(* No wakeup is lost: while the submitter stays subscribed and no step     *)
(* fails, every acknowledged entry is eventually recorded by a turn, or    *)
(* the queue is paused for an explicit start, whatever the order of adds,  *)
(* direct turns, completions and recovery tasks (kick, add_owned,          *)
(* input_recorded).                                                        *)
(***************************************************************************)
Ran(i) == \E t \in history : claimed[t].sub = i

FollowUpsSettle == \A i \in Ids : i \in used ~> Ran(i) \/ queue.paused

(***************************************************************************)
(* recover: "Without that evidence, worker installation is not enough to   *)
(* release custody: it may still be starting or recording the prompt."  An *)
(* entry whose claimed turn is installed and not recorded stays pending.   *)
(***************************************************************************)
CustodyUntilRecorded ==
    turn.phase \in {"installed", "started"} /\ claimed[turn.id].sub # NoId =>
        queue.pending = [sub |-> claimed[turn.id].sub, turn |-> turn.id]

=============================================================================

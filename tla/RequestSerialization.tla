----------------------- MODULE RequestSerialization -----------------------
(***************************************************************************)
(* The per-key request queues of the app server                            *)
(* (app-server-rpc/src/request_serialization.rs) with the dispatch that    *)
(* fills them and the connection gates that run what leaves them           *)
(* (message_processor.rs).  Every critical section of the queues' mutex    *)
(* and of a gate's mutex is one step.                                      *)
(*                                                                         *)
(* An ordinary thread request is two jobs: its preparation, which resolves *)
(* the key in the order of arrival on a global lane, and its handler,      *)
(* which the preparation enqueues.  Other requests are only a handler.     *)
(***************************************************************************)
EXTENDS Naturals, Sequences, FiniteSets, SequencesExt, FiniteSetsExt

CONSTANTS
    Gates,              \* connections
    Closing,            \* bound: the connections that may close
    Kinds,              \* [gate, key, access, bytes, ordered]: requests clients send
    Traffic,            \* bound: the sequences of requests that may arrive
    MaxRequests,        \* the length of the longest of them
    Unscoped,           \* the key of requests with no serialization scope
    MaxQueued,          \* MAX_TOTAL_QUEUED_REQUESTS
    MaxPerKey,          \* MAX_QUEUED_REQUESTS_PER_KEY
    MaxBytes,           \* MAX_TOTAL_QUEUED_BYTES
    MaxKeyBytes,        \* MAX_QUEUED_BYTES_PER_KEY
    MaxReaders,         \* MAX_CONCURRENT_SHARED_READS
    MaxControlPerKey,   \* MAX_QUEUED_CONTROL_REQUESTS_PER_KEY
    MaxControlBytes     \* the 64 KiB envelope of a control request

Accesses == {"exclusive", "shared", "ordered_control", "control"}
PrepKey == "thread-request-preparation"
Requests == 1..MaxRequests
Jobs == Requests \X {"prepare", "handle"}
Arrivals == UNION {{SubSeq(t, 1, n) : n \in 1..Len(t)} : t \in Traffic}
Keys == {k.key : k \in Kinds} \ {Unscoped}
Lanes == (Keys \cup {PrepKey}) \X {"main", "control"}

ASSUME KindsType ==
    /\ Kinds \subseteq [gate : Gates, key : {k.key : k \in Kinds}, access : Accesses,
                        bytes : Nat, ordered : BOOLEAN]
    /\ Traffic \subseteq UNION {[1..n -> Kinds] : n \in 0..MaxRequests}
    /\ \A k \in Kinds : k.ordered => k.access = "exclusive" /\ k.key # Unscoped

VARIABLES
    accepting, tracked, aborted, phase,   \* ConnectionRpcGate
    arrived,        \* number of requests that arrived
    request,        \* request -> its kind
    stage,          \* job -> where it is
    queue,          \* lane -> KeyQueues.control or KeyQueues.ordered
    changed,        \* lane -> the permit of KeyQueues.changed
    drain,          \* lane -> what its drain task is about to do
    running,        \* lane -> the jobs in the drain's FuturesUnordered
    exclusive,      \* lane -> the drain's local of this name
    totalQueued, totalBytes, totalControl

INSTANCE ConnectionRpcGate WITH Tasks <- Jobs

connectionVars == <<accepting, tracked, aborted, phase>>
queueVars == <<queue, changed, drain, running, exclusive,
               totalQueued, totalBytes, totalControl>>
vars == <<connectionVars, arrived, request, stage, queueVars>>

Stages == {"none", "queued", "held", "running", "ended", "done", "dropped"}

GateOf(j) == request[j[1]].gate
\* Mutant of AccessOf: preparations may overlap.
AccessSharedPrepare(j) == IF j[2] = "prepare" THEN "shared" ELSE request[j[1]].access

AccessOf(j) == IF j[2] = "prepare" THEN "exclusive" ELSE request[j[1]].access
BytesOf(j) == request[j[1]].bytes
IsControl(j) == AccessOf(j) \in {"control", "ordered_control"}
IsShared(j) == AccessOf(j) = "shared"

\* Mutant of LaneFor: control requests only come first in the queue of their key.
OneLane(key, access) == <<key, "main">>

\* Control requests have a drain of their own.
LaneFor(key, access) == <<key, IF access = "control" THEN "control" ELSE "main">>
LaneOf(j) == LaneFor(IF j[2] = "prepare" THEN PrepKey ELSE request[j[1]].key, AccessOf(j))

\* KeyQueues::ordered_len, control_len and ordered_bytes, on the jobs S of a lane.
OrderedOf(S) == {j \in S : ~IsControl(j)}
ControlsOf(S) == {j \in S : IsControl(j)}
BytesIn(S) == MapThenSumSet(BytesOf, OrderedOf(S))

TypeOK ==
    /\ GateTypeOK
    /\ arrived \in 0..MaxRequests
    /\ request \in [1..arrived -> Kinds]
    /\ stage \in [Jobs -> Stages]
    /\ queue \in [Lanes -> Seq(Jobs)]
    /\ changed \in [Lanes -> BOOLEAN]
    /\ drain \in [Lanes -> {"none", "refill", "select", "release"}]
    /\ running \in [Lanes -> SUBSET Jobs]
    /\ exclusive \in [Lanes -> BOOLEAN]
    /\ totalQueued \in 0..MaxQueued
    /\ totalBytes \in 0..MaxBytes
    /\ totalControl \in 0..MaxQueued
    \* a job is where its stage says
    /\ \A l \in Lanes : /\ ToSet(queue[l]) = {j \in Jobs : stage[j] = "queued" /\ LaneOf(j) = l}
                        /\ running[l] = {j \in Jobs : /\ stage[j] \in {"held", "running", "ended"}
                                                      /\ LaneOf(j) = l}
    /\ \A g \in Gates : tracked[g] = {j \in Jobs : stage[j] = "running" /\ GateOf(j) = g}

Init ==
    /\ GateInit
    /\ arrived = 0
    /\ request = <<>>
    /\ stage = [j \in Jobs |-> "none"]
    /\ queue = [l \in Lanes |-> <<>>]
    /\ changed = [l \in Lanes |-> FALSE]
    /\ drain = [l \in Lanes |-> "none"]
    /\ running = [l \in Lanes |-> {}]
    /\ exclusive = [l \in Lanes |-> FALSE]
    /\ totalQueued = 0
    /\ totalBytes = 0
    /\ totalControl = 0

\* Mutant of Admits: the control budget is not checked.
AdmitsAllControl(lane, control, bytes) ==
    \/ control
    \/ /\ totalQueued < MaxQueued
       /\ totalBytes + bytes <= MaxBytes

(***************************************************************************)
(* enqueue.  A refused job is answered with an overload error.  The first  *)
(* job of a lane spawns the lane's drain.                                  *)
(***************************************************************************)
Admits(lane, control, bytes) ==
    LET S == ToSet(queue[lane])
    IN  IF control
        THEN /\ bytes <= MaxControlBytes
             /\ totalControl < MaxQueued
             /\ Cardinality(ControlsOf(S)) < MaxControlPerKey
        ELSE /\ totalQueued < MaxQueued
             /\ Cardinality(OrderedOf(S)) < MaxPerKey
             /\ totalBytes + bytes <= MaxBytes
             /\ BytesIn(S) + bytes <= MaxKeyBytes

Enqueue(j, key, access, bytes) ==
    LET lane == LaneFor(key, access)
        control == access \in {"control", "ordered_control"}
    IN  IF Admits(lane, control, bytes)
        THEN /\ stage' = [stage EXCEPT ![j] = "queued"]
             /\ queue' = [queue EXCEPT ![lane] = Append(@, j)]
             /\ changed' = [changed EXCEPT ![lane] = TRUE]
             /\ drain' = [drain EXCEPT ![lane] = IF @ = "none" THEN "refill" ELSE @]
             /\ totalControl' = IF control THEN totalControl + 1 ELSE totalControl
             /\ totalQueued' = IF control THEN totalQueued ELSE totalQueued + 1
             /\ totalBytes' = IF control THEN totalBytes ELSE totalBytes + bytes
             /\ UNCHANGED <<running, exclusive>>
        ELSE /\ stage' = [stage EXCEPT ![j] = "dropped"]
             /\ UNCHANGED queueVars

(***************************************************************************)
(* dispatch_initialized_client_request: a request arrives.  The reader *)
(* of its connection may dispatch it although the gate was just closed.    *)
(***************************************************************************)
Dispatch(k) ==
    LET r == arrived + 1
    IN  /\ Append(request, k) \in Arrivals
        /\ arrived' = r
        /\ request' = Append(request, k)
        /\ \/ /\ k.ordered
              /\ Enqueue(<<r, "prepare">>, PrepKey, "exclusive", k.bytes)
           \/ /\ ~k.ordered /\ k.key # Unscoped
              /\ Enqueue(<<r, "handle">>, k.key, k.access, k.bytes)
           \/ /\ k.key = Unscoped
              /\ stage' = [stage EXCEPT ![<<r, "handle">>] = "held"]
              /\ UNCHANGED queueVars
        /\ UNCHANGED connectionVars

(***************************************************************************)
(* The running preparation of r has resolved its key and publishes the     *)
(* handler; it has yet to return.                                          *)
(***************************************************************************)
Prepare(r) ==
    /\ stage[<<r, "prepare">>] = "running"
    /\ stage[<<r, "handle">>] = "none"
    /\ Enqueue(<<r, "handle">>, request[r].key, request[r].access, request[r].bytes)
    /\ UNCHANGED <<connectionVars, arrived, request>>

\* Mutant of Pops: free reader slots are filled across a queued writer.
PopsAcrossWriters(l) ==
    IF exclusive[l] THEN 0
    ELSE Max({n \in 0..Len(queue[l]) :
                n = 0 \/ Cardinality(running[l]) + n <= MaxReaders})

(***************************************************************************)
(* A drain holds the mutex: it pops what may run beside what is running,   *)
(* and ends, removing the lane, when nothing is running.                   *)
(***************************************************************************)
\* The number of jobs at the front of q the inner loop of drain pops.
Pops(l) ==
    LET q == queue[l]
        reads(n) == \A i \in 1..n : IsShared(q[i])
        fits(n) ==
            \/ n = 0
            \/ n = 1 /\ running[l] = {}
            \/ /\ ~exclusive[l]
               /\ reads(n)
               /\ Cardinality(running[l]) + n <= MaxReaders
    IN  Max({n \in 0..Len(q) : fits(n)})

Refill(l) ==
    LET n == Pops(l)
        popped == ToSet(SubSeq(queue[l], 1, n))
    IN  /\ drain[l] = "refill"
        /\ queue' = [queue EXCEPT ![l] = SubSeq(@, n + 1, Len(@))]
        /\ running' = [running EXCEPT ![l] = @ \cup popped]
        /\ exclusive' = [exclusive EXCEPT ![l] = IF n = 0 THEN @ ELSE ~IsShared(queue[l][n])]
        /\ stage' = [j \in Jobs |-> IF j \in popped THEN "held" ELSE stage[j]]
        /\ totalQueued' = totalQueued - Cardinality(OrderedOf(popped))
        /\ totalBytes' = totalBytes - BytesIn(popped)
        /\ IF running'[l] = {}
           THEN /\ drain' = [drain EXCEPT ![l] = "none"]
                /\ changed' = [changed EXCEPT ![l] = FALSE]
           ELSE /\ drain' = [drain EXCEPT ![l] = "select"]
                /\ UNCHANGED changed
        /\ UNCHANGED <<connectionVars, arrived, request, totalControl>>

(***************************************************************************)
(* QueuedInitializedRequest::run, first polled: the gate spawns the task   *)
(* of the job, or refuses it.                                              *)
(***************************************************************************)
Polls(j) == LaneOf(j) \in Lanes => drain[LaneOf(j)] = "select"

Launch(j) ==
    /\ stage[j] = "held"
    /\ Polls(j)
    /\ SpawnWithCommit(GateOf(j), j)
    /\ stage' = [stage EXCEPT ![j] = IF MayCommit(GateOf(j)) THEN "running" ELSE "ended"]
    /\ UNCHANGED <<arrived, request, queueVars>>

\* The handler returns, panics, sees the cancellation, or is aborted.
Finish(j) ==
    /\ stage[j] = "running"
    /\ TaskEnds(GateOf(j), j)
    /\ stage' = [stage EXCEPT ![j] = "ended"]
    /\ UNCHANGED <<arrived, request, queueVars>>

\* Mutant of Completed: the drain does not look at its queue again.
CompletedWithoutRefill(l, j) ==
    /\ drain[l] = "select"
    /\ j \in running[l] /\ stage[j] = "ended"
    /\ running' = [running EXCEPT ![l] = @ \ {j}]
    /\ stage' = [stage EXCEPT ![j] = "done"]
    /\ UNCHANGED <<connectionVars, arrived, request, queue, changed, drain, exclusive,
                   totalQueued, totalBytes, totalControl>>

(***************************************************************************)
(* The select of a drain: a job has completed, or else the lane changed.   *)
(***************************************************************************)
Completed(l, j) ==
    /\ drain[l] = "select"
    /\ j \in running[l] /\ stage[j] = "ended"
    /\ running' = [running EXCEPT ![l] = @ \ {j}]
    /\ exclusive' = [exclusive EXCEPT ![l] = @ /\ running'[l] # {}]
    /\ stage' = [stage EXCEPT ![j] = "done"]
    /\ drain' = [drain EXCEPT ![l] = IF IsControl(j) THEN "release" ELSE "refill"]
    /\ UNCHANGED <<connectionVars, arrived, request, queue, changed,
                   totalQueued, totalBytes, totalControl>>

Release(l) ==
    /\ drain[l] = "release"
    /\ totalControl' = totalControl - 1
    /\ drain' = [drain EXCEPT ![l] = "refill"]
    /\ UNCHANGED <<connectionVars, arrived, request, stage, queue, changed, running, exclusive,
                   totalQueued, totalBytes>>

Notified(l) ==
    /\ drain[l] = "select"
    /\ changed[l]
    /\ \A j \in running[l] : stage[j] = "running"   \* biased: no completion to take first
    /\ changed' = [changed EXCEPT ![l] = FALSE]
    /\ drain' = [drain EXCEPT ![l] = "refill"]
    /\ UNCHANGED <<connectionVars, arrived, request, stage, queue, running, exclusive,
                   totalQueued, totalBytes, totalControl>>

\* Mutants of CancelForGate: it wakes no drain; it returns no control slot.
CancelSilently(g) ==
    LET gone == {j \in Jobs : stage[j] = "queued" /\ GateOf(j) = g}
    IN  /\ phase[g] = "closing"
        /\ phase' = [phase EXCEPT ![g] = "draining"]
        /\ queue' = [l \in Lanes |-> SelectSeq(queue[l], LAMBDA j : j \notin gone)]
        /\ stage' = [j \in Jobs |-> IF j \in gone THEN "dropped" ELSE stage[j]]
        /\ totalQueued' = totalQueued - Cardinality(OrderedOf(gone))
        /\ totalControl' = totalControl - Cardinality(ControlsOf(gone))
        /\ totalBytes' = totalBytes - BytesIn(gone)
        /\ UNCHANGED <<accepting, tracked, aborted, arrived, request, changed, drain, running,
                       exclusive>>

CancelKeepsControl(g) ==
    LET gone == {j \in Jobs : stage[j] = "queued" /\ GateOf(j) = g}
    IN  /\ phase[g] = "closing"
        /\ phase' = [phase EXCEPT ![g] = "draining"]
        /\ queue' = [l \in Lanes |-> SelectSeq(queue[l], LAMBDA j : j \notin gone)]
        /\ changed' = [l \in Lanes |-> changed[l] \/ \E j \in gone : LaneOf(j) = l]
        /\ stage' = [j \in Jobs |-> IF j \in gone THEN "dropped" ELSE stage[j]]
        /\ totalQueued' = totalQueued - Cardinality(OrderedOf(gone))
        /\ totalBytes' = totalBytes - BytesIn(gone)
        /\ UNCHANGED <<accepting, tracked, aborted, arrived, request, drain, running, exclusive,
                       totalControl>>

(***************************************************************************)
(* cancel_for_gate, called by connection_closed between closing the gate   *)
(* and shutting it down.                                                   *)
(***************************************************************************)
CancelForGate(g) ==
    LET gone == {j \in Jobs : stage[j] = "queued" /\ GateOf(j) = g}
    IN  /\ phase[g] = "closing"
        /\ phase' = [phase EXCEPT ![g] = "draining"]
        /\ queue' = [l \in Lanes |-> SelectSeq(queue[l], LAMBDA j : j \notin gone)]
        /\ changed' = [l \in Lanes |-> changed[l] \/ \E j \in gone : LaneOf(j) = l]
        /\ stage' = [j \in Jobs |-> IF j \in gone THEN "dropped" ELSE stage[j]]
        /\ totalQueued' = totalQueued - Cardinality(OrderedOf(gone))
        /\ totalControl' = totalControl - Cardinality(ControlsOf(gone))
        /\ totalBytes' = totalBytes - BytesIn(gone)
        /\ UNCHANGED <<accepting, tracked, aborted, arrived, request, drain, running, exclusive>>

CloseGate(g) == g \in Closing /\ Close(g) /\ UNCHANGED <<arrived, request, stage, queueVars>>
Shutdown(g) == ShutdownStep(g) /\ UNCHANGED <<arrived, request, stage, queueVars>>

DrainStep(l) ==
    \/ Refill(l)
    \/ Release(l)
    \/ Notified(l)
    \/ \E j \in running[l] : Completed(l, j)

Next ==
    \/ \E k \in Kinds : Dispatch(k)
    \/ \E r \in Requests : Prepare(r)
    \/ \E l \in Lanes : DrainStep(l)
    \/ \E j \in Jobs : Launch(j) \/ Finish(j)
    \/ \E g \in Gates : CloseGate(g) \/ CancelForGate(g) \/ Shutdown(g)

Spec == Init /\ [][Next]_vars
(***************************************************************************)
(* The budgets that admission reads are those of the jobs: whatever mix of *)
(* completions, refusals by a closed gate and cancellations took the jobs  *)
(* away, enqueue, drain and cancel_for_gate leave no slot or byte behind.  *)
(***************************************************************************)
TotalsAreExact ==
    LET queued == {j \in Jobs : stage[j] = "queued"}
        popped == UNION {running[l] : l \in Lanes}
        releasing == {l \in Lanes : drain[l] = "release"}
    IN  /\ totalQueued = Cardinality(OrderedOf(queued))
        /\ totalBytes = BytesIn(queued)
        /\ totalControl = Cardinality(ControlsOf(queued \cup popped)) + Cardinality(releasing)

(***************************************************************************)
(* No request is stranded: a lane with requests has a drain, and a drain   *)
(* that sleeps in its select without a permit of KeyQueues.changed has     *)
(* nothing it could admit (push and cancel_for_gate notify).               *)
(***************************************************************************)
NoStrandedRequest ==
    \A l \in Lanes :
        /\ queue[l] # <<>> => drain[l] # "none"
        /\ drain[l] = "select" /\ ~changed[l] /\ (\A j \in running[l] : stage[j] = "running")
             => Pops(l) = 0

(***************************************************************************)
(* Ordinary thread requests of one key are handled in the order in which   *)
(* they arrived, across both queues: the preparation ticket keeps the      *)
(* order while keys are being resolved                                     *)
(* (dispatch_initialized_client_request).                                  *)
(***************************************************************************)
Started(j) == stage[j] \in {"held", "running", "ended", "done"}
MayYetStart(r) ==
    \/ stage[<<r, "handle">>] = "queued"
    \/ /\ stage[<<r, "handle">>] = "none"
       /\ stage[<<r, "prepare">>] \in {"queued", "held", "running"}

ThreadRequestsInOrder ==
    \A r \in 1..arrived, s \in 1..arrived :
        /\ r < s
        /\ request[r].ordered /\ request[s].ordered
        /\ request[r].key = request[s].key
        /\ MayYetStart(r)
        => ~Started(<<s, "handle">>)

(***************************************************************************)
(* The queues implement the readers-writer order of OrderedAccess on every *)
(* lane: enqueue is an arrival, a refill admits a prefix, a completion     *)
(* ends a job, and cancel_for_gate withdraws.                              *)
(***************************************************************************)
ReadsInLanes ==
    {j \in UNION {ToSet(queue[l]) \cup running[l] : l \in Lanes} : IsShared(j)}

Abstract == INSTANCE OrderedAccess WITH
    waiting <- queue, active <- running, reads <- ReadsInLanes

ImplementsOrderedAccess == Abstract!OrderedAccessSpec

(***************************************************************************)
(* Fairness.  Drains, gate launches and the cleanup of a closed connection *)
(* are tasks of the runtime that only wait for a mutex: it does not stop   *)
(* while one of them can take a step.                                      *)
(***************************************************************************)
RuntimeStep ==
    \/ \E l \in Lanes : DrainStep(l)
    \/ \E j \in Jobs : Launch(j)
    \/ \E g \in Gates : CancelForGate(g) \/ Shutdown(g)

\* Only handlers of control requests are assumed to return.
FairSpec ==
    /\ Spec
    /\ WF_vars(RuntimeStep \/ \E j \in Jobs : Finish(j) /\ AccessOf(j) = "control")

(***************************************************************************)
(* A read at the head of its queue gets a free reader slot even when the   *)
(* reads that are running never return: the writer that stood before it    *)
(* may have been cancelled with its connection (cancel_for_gate).          *)
(***************************************************************************)
ReaderWaits(l) ==
    /\ queue[l] # <<>>
    /\ running[l] # {}
    /\ \A j \in running[l] \cup {Head(queue[l])} : IsShared(j)
    /\ Cardinality(running[l]) < MaxReaders

FreeReaderSlotsFill == \A l \in Lanes : ReaderWaits(l) ~> ~ReaderWaits(l)

(***************************************************************************)
(* An accepted control request leaves its queue although no ordinary       *)
(* handler of its thread ever returns: "queue priority alone cannot        *)
(* interrupt a handler that is already running" (enqueue).                 *)
(***************************************************************************)
ControlIsNotBlocked ==
    \A r \in Requests :
        stage[<<r, "handle">>] = "queued" /\ AccessOf(<<r, "handle">>) = "control"
            ~> stage[<<r, "handle">>] # "queued"

(***************************************************************************)
(* ThreadControl (client_requests.rs): a control request "Shares the       *)
(* thread's queue key so control work is still serialized against that     *)
(* thread".  Its handler never runs beside another handler of the key.     *)
(***************************************************************************)
ControlIsSerialized ==
    \A r, s \in {n \in 1..arrived : stage[<<n, "handle">>] = "running"} :
        request[r].key = request[s].key /\ request[r].access = "control" => r = s

(***************************************************************************)
(* If handlers return, every accepted request is handled or dropped with   *)
(* its connection, and leaves its drain (enqueue, drain, cancel_for_gate). *)
(***************************************************************************)
HandlersReturn ==
    WF_vars((\E r \in Requests : Prepare(r)) \/ (\E j \in Jobs : Finish(j)))

AcceptedRequestsSettle ==
    HandlersReturn => \A j \in Jobs : stage[j] = "queued" ~> stage[j] \in {"done", "dropped"}

=============================================================================

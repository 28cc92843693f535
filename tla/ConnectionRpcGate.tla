------------------------- MODULE ConnectionRpcGate -------------------------
(***************************************************************************)
(* The gate of a connection (app-server-rpc/src/connection_rpc_gate.rs).   *)
(* It owns the tasks of the connection's request handlers; closing it is   *)
(* final.  Each critical section of its mutex is one step.  abort_handles  *)
(* has a handle for exactly the tracked tasks: a task gets its handle      *)
(* before it may start and removes it when it ends.                        *)
(***************************************************************************)
CONSTANTS
    Gates,   \* connections
    Tasks    \* tasks that handlers run in

VARIABLES
    accepting,   \* ConnectionRpcGateState.accepting
    tracked,     \* the TaskTracker: tasks that have not ended
    aborted,     \* tasks whose abort handle was used
    phase        \* how far the connection's shutdown is

Phases == {"open", "closing", "draining", "aborting", "closed"}

GateTypeOK ==
    /\ accepting \in [Gates -> BOOLEAN]
    /\ tracked \in [Gates -> SUBSET Tasks]
    /\ aborted \subseteq Tasks
    /\ phase \in [Gates -> Phases]
    /\ \A g \in Gates : accepting[g] <=> phase[g] = "open"

GateInit ==
    /\ accepting = [g \in Gates |-> TRUE]
    /\ tracked = [g \in Gates |-> {}]
    /\ aborted = {}
    /\ phase = [g \in Gates |-> "open"]

\* Mutant of MayCommit: the fence is not read.
CommitAlways(g) == g \in Gates

(***************************************************************************)
(* try_commit and spawn_with_commit: the commit runs under the mutex, and  *)
(* only while the gate accepts.                                            *)
(***************************************************************************)
MayCommit(g) == accepting[g]

SpawnWithCommit(g, t) ==
    /\ tracked' = IF MayCommit(g) THEN [tracked EXCEPT ![g] = @ \cup {t}] ELSE tracked
    /\ UNCHANGED <<accepting, aborted, phase>>

(***************************************************************************)
(* The future of a task returned or was dropped.                           *)
(***************************************************************************)
TaskEnds(g, t) ==
    /\ t \in tracked[g]
    /\ tracked' = [tracked EXCEPT ![g] = @ \ {t}]
    /\ aborted' = aborted \ {t}
    /\ UNCHANGED <<accepting, phase>>

(***************************************************************************)
(* close, called when the transport reports the end of the connection.  It *)
(* also sets the cancellation token, which is set iff the gate is closed.  *)
(***************************************************************************)
Close(g) ==
    /\ accepting[g]
    /\ accepting' = [accepting EXCEPT ![g] = FALSE]
    /\ phase' = [phase EXCEPT ![g] = "closing"]
    /\ UNCHANGED <<tracked, aborted>>

(***************************************************************************)
(* shutdown: wait for the tasks, at most for the grace period; then abort  *)
(* what is left and wait again, at most for the join grace period.         *)
(***************************************************************************)
Joined(g) ==
    /\ phase[g] \in {"draining", "aborting"}
    /\ tracked[g] = {}
    /\ phase' = [phase EXCEPT ![g] = "closed"]
    /\ UNCHANGED <<accepting, tracked, aborted>>

GraceExpires(g) ==
    /\ phase[g] = "draining"
    /\ tracked[g] # {}
    /\ aborted' = aborted \cup tracked[g]
    /\ phase' = [phase EXCEPT ![g] = "aborting"]
    /\ UNCHANGED <<accepting, tracked>>

JoinGraceExpires(g) ==
    /\ phase[g] = "aborting"
    /\ tracked[g] # {}
    /\ phase' = [phase EXCEPT ![g] = "closed"]
    /\ UNCHANGED <<accepting, tracked, aborted>>

ShutdownStep(g) == Joined(g) \/ GraceExpires(g) \/ JoinGraceExpires(g)

(***************************************************************************)
(* When shutdown has returned, the cleanup of the connection meets no task *)
(* that was not at least told to stop, and never will: no admission races  *)
(* the snapshot of the abort handles (close, spawn_with_commit).           *)
(***************************************************************************)
NoTaskOutlivesShutdown ==
    \A g \in Gates : phase[g] = "closed" => tracked[g] \subseteq aborted

=============================================================================

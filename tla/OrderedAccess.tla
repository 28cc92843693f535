--------------------------- MODULE OrderedAccess ---------------------------
(***************************************************************************)
(* What the request queues promise for every key: jobs are admitted in     *)
(* their order of arrival, a job that is not a shared read has its key for *)
(* itself, and shared reads may overlap.  A waiting job may be withdrawn.  *)
(***************************************************************************)
EXTENDS Naturals, Sequences, SequencesExt

CONSTANTS
    Lanes,   \* independent orders
    Jobs

VARIABLES
    waiting,   \* lane -> the jobs that arrived, in order
    active,    \* lane -> the jobs that were admitted
    reads      \* the waiting and active jobs that are shared reads

accessVars == <<waiting, active, reads>>

AccessInit ==
    /\ waiting = [l \in Lanes |-> <<>>]
    /\ active = [l \in Lanes |-> {}]
    /\ reads = {}

Arrive(l, j) ==
    /\ waiting' = [waiting EXCEPT ![l] = Append(@, j)]
    /\ reads' \in {reads, reads \cup {j}}
    /\ UNCHANGED active

\* The first n waiting jobs are admitted at once.
Admit(l, n) ==
    LET together == active[l] \cup ToSet(SubSeq(waiting[l], 1, n))
    IN  /\ together \subseteq reads \/ (active[l] = {} /\ n = 1)
        /\ waiting' = [waiting EXCEPT ![l] = SubSeq(@, n + 1, Len(@))]
        /\ active' = [active EXCEPT ![l] = together]
        /\ UNCHANGED reads

End(l, j) ==
    /\ j \in active[l]
    /\ active' = [active EXCEPT ![l] = @ \ {j}]
    /\ reads' = reads \ {j}
    /\ UNCHANGED waiting

\* Waiting jobs of any lanes are withdrawn; the others keep their order.
Withdraw(S) ==
    /\ \A j \in S : \E l \in Lanes : Contains(waiting[l], j)
    /\ waiting' = [l \in Lanes |-> SelectSeq(waiting[l], LAMBDA j : j \notin S)]
    /\ reads' = reads \ S
    /\ UNCHANGED active

AccessNext ==
    \/ \E l \in Lanes, j \in Jobs : Arrive(l, j) \/ End(l, j)
    \/ \E l \in Lanes : \E n \in 1..Len(waiting[l]) : Admit(l, n)
    \/ \E S \in SUBSET Jobs : Withdraw(S)

OrderedAccessSpec == AccessInit /\ [][AccessNext]_accessVars

=============================================================================

----------------------------- MODULE MCFsWatch -----------------------------
(* Small instances of FsWatch. *)
EXTENDS FsWatch

CONSTANTS c1, i1, i2

Call(i, op) == [key |-> <<c1, i>>, op |-> op]

\* Any three calls for one watch id, which is reused; two watches at a time.
MCScripts ==
    [1..3 -> {Call(i1, "watch"), Call(i1, "unwatch")}]
        \cup {<<Call(i1, "watch"), Call(i2, "watch")>>}

=============================================================================

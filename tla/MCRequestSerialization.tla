----------------------- MODULE MCRequestSerialization -----------------------
(***************************************************************************)
(* Small instances of RequestSerialization for TLC.                        *)
(***************************************************************************)
EXTENDS RequestSerialization

CONSTANTS g1, g2

Kind(g, key, access, bytes, ordered) ==
    [gate |-> g, key |-> key, access |-> access, bytes |-> bytes, ordered |-> ordered]

\* Requests of one key: reads, writes, and the two sorts of control.
Read(g) == Kind(g, "config", "shared", 1, FALSE)
Write(g) == Kind(g, "config", "exclusive", 1, FALSE)
OrderedStop(g) == Kind(g, "config", "ordered_control", 1, FALSE)
Stop(g) == Kind(g, "config", "control", 1, FALSE)

\* An ordinary request to a thread, and a request with no scope.
Thread(g) == Kind(g, "thread", "exclusive", 1, TRUE)
Plain(g) == Kind(g, Unscoped, "exclusive", 1, FALSE)

MCKinds == {Read(g1), Read(g2), Write(g1), OrderedStop(g1), Thread(g1), Thread(g2), Plain(g1)}

\* Safety: any two requests, any three of one lane, and some of one thread.
MCTraffic ==
    [1..2 -> MCKinds] \cup [1..3 -> {Read(g1), Read(g2), Write(g1), OrderedStop(g1)}]
        \cup {<<Thread(g1), Thread(g2), Thread(g1)>>, <<Thread(g2), Thread(g1), Thread(g2)>>}

\* Liveness: a read joins a read when the write between them is cancelled; an
\* interrupt comes to a busy key; requests of a closing connection are prepared.
LiveKinds == {Read(g2), Write(g1), Stop(g2), Thread(g1), Thread(g2), OrderedStop(g1)}
LiveTraffic ==
    {<<Read(g2), Write(g1), Read(g2)>>, <<Write(g1), Read(g2), Read(g2)>>,
     <<Write(g1), Stop(g2), OrderedStop(g1)>>, <<Thread(g1), Thread(g2)>>,
     <<Thread(g2), Thread(g1)>>}

\* turn/interrupt: it comes to a thread with an ordinary request.
Interrupt(g) == Kind(g, "thread", "control", 1, FALSE)
ControlKinds == {Thread(g1), Interrupt(g1)}
ControlTraffic == {<<Thread(g1), Interrupt(g1)>>}

=============================================================================

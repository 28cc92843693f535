--------------------------- MODULE MCThreadQueue ---------------------------
(***************************************************************************)
(* Small instances of ThreadQueue.  Every workload is a variation of one   *)
(* entry of one connection that is added and run, without faults.          *)
(***************************************************************************)
EXTENDS ThreadQueue, TLC

CONSTANTS i1, i2, i3, c1, c2, m1, text, image

Symmetry == Permutations(Conns)

Plain ==
    [ids |-> {i1}, conns |-> {c1}, clients |-> {}, inputs |-> {text}, entries |-> 2, payload |-> 2,
     turns |-> 1, direct |-> 0, requests |-> {"add"}, faults |-> {}]

\* Two entries, one with a client id, claimed, recorded, aborted and crashed.
Custody ==
    [Plain EXCEPT !.ids = {i1, i2}, !.clients = {m1}, !.turns = 2,
                  !.requests = {"add", "start"}, !.faults = {"ack", "abort", "crash"}]

\* Entries that are edited between texts and images, deleted and reordered while they start.
Editing ==
    [Plain EXCEPT !.ids = {i1, i2}, !.inputs = {text, image},
                  !.requests = {"add", "update", "delete", "reorder", "start"}, !.faults = {"abort"}]

\* Every read, save, flush and lock may fail, and a pause or a crash may come at any time.
Failing ==
    [Plain EXCEPT !.ids = {i1, i2}, !.clients = {m1},
                  !.requests = {"list", "add", "start", "interrupt"},
                  !.faults = {"io", "reject", "abort", "crash"}]

\* A row that holds one submission or receipt: adds evict receipts, one client id comes back.
Evicting ==
    [Plain EXCEPT !.ids = {i1, i2, i3}, !.clients = {m1}, !.payload = 1, !.turns = 3,
                  !.requests = {"add", "start"}, !.faults = {"ack"}]

\* One submission, queued, started again after failures, and also sent directly.
Twice ==
    [Plain EXCEPT !.clients = {m1}, !.entries = 1, !.payload = 1, !.turns = 3, !.direct = 1,
                  !.requests = {"add", "start"},
                  !.faults = {"reject", "abort", "crash", "unload"}]

\* Adds of one client id that seal images side by side, against text adds and edits;
\* their connection may close.
Sealing ==
    [Plain EXCEPT !.ids = {i1, i2}, !.clients = {m1}, !.inputs = {text, image},
                  !.requests = {"add", "update", "close"}]

\* Connections that close and unsubscribe, and a thread that is unloaded, under a start.
Leaving ==
    [Plain EXCEPT !.conns = {c1, c2}, !.faults = {"io", "unload"},
                  !.requests = {"add", "start", "close", "unsubscribe", "interrupt"}]

\* Two entries and a direct turn, no fault.
Lively == [Plain EXCEPT !.ids = {i1, i2}, !.turns = 3, !.direct = 1]

\* One entry that is listed while it starts.
Listing == [Plain EXCEPT !.entries = 1, !.payload = 1, !.requests = {"list", "add"}]

CustodyLoads == {Custody, Editing, Failing, Evicting}
IdentityLoads == {Twice, Sealing, Evicting}
ConnectionLoads == {Leaving}
LivelyLoads == {Lively}
InstallLoads == {Listing}
=============================================================================

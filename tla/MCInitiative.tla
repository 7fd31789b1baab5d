---------------------------- MODULE MCInitiative ----------------------------
(* A conflict, a commitment and a position; or the worker's backoff alone. *)
EXTENDS Initiative

CONSTANTS worker, once, conflict, promise, held

MCSources == {conflict, promise, held}
MCSourceKind == [s \in MCSources |-> CASE s = conflict -> "conflict"
                                       [] s = promise -> "commitment"
                                       [] OTHER -> "position"]
MCParty == [s \in {conflict} |-> held]
MCRank == [s \in MCSources |-> CASE s = conflict -> 1 [] s = promise -> 2 [] OTHER -> 3]

Setting(open, batches, twice, dismissals, errors, initial, maximum) ==
    [open |-> open, clock |-> batches, once |-> twice, dismissals |-> dismissals,
     faults |-> errors, initial |-> initial, maximum |-> maximum]

(* One process and much that changes; two processes and a user; faults beside a
   foreground call; the worker's backoff. *)
MCSettings ==
    {Setting({promise, held}, 4, FALSE, 0, 0, 1, 1),
     Setting({promise, held}, 2, TRUE, 0, 0, 1, 1),
     Setting({promise}, 2, TRUE, 1, 1, 1, 1)}
    \cup {Setting({}, 0, FALSE, 0, 5, initial, maximum) :
            initial \in {1, 3}, maximum \in {5, 7}}
=============================================================================

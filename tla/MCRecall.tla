------------------------------ MODULE MCRecall ------------------------------
(* The stores of MCMemory, and stores whose memories are indexed. *)
EXTENDS Recall, MCMemory

CONSTANTS t1, t2

MCTasks == {t1, t2}

(* One command at a time; two index tasks, or one beside a foreground call. *)
Indexed(ids, tasks, calls) ==
    [StoreOf(ids, ids, {}, {}, {}, Proposals("nothing", "nothing"), 0)
        EXCEPT !.parallel = 1, !.tasks = tasks, !.calls = calls]

MCRecallSettings ==
    MCSettings \cup {Indexed({explicit1}, 2, FALSE),
                   Indexed({explicit1, inferred1}, 1, TRUE)}

MCRecallSymmetry == MCSymmetry \cup Permutations(MCTasks)
=============================================================================

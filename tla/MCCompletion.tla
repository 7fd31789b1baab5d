---------------------------- MODULE MCCompletion ----------------------------
(* One task with a criterion and two commands of the gate beside one operation under
   approval.  Claimed are the event s1 and the artifact s2, read early or late, under
   their own hashes or others. *)
EXTENDS Completion, TLC

CONSTANTS p1, c1, c2, o1, t1, k1, s1, s2

MCProcs == {p1}
MCClerks == {c1, c2}
MCOps == {o1}
MCTasks == {t1}
MCCriteria == {k1}
MCTaskOf == [k \in MCCriteria |-> t1]
MCReference(source, own, read) == [source |-> source, genuine |-> own, asof |-> read]
MCSources == {s1, s2}
MCArtifacts == {s2}
MCOffers ==
    {{MCReference(s1, TRUE, 1)}, {MCReference(s1, TRUE, 2)},
     {MCReference(s1, TRUE, 2), MCReference(s2, TRUE, 1)},
     {MCReference(s1, FALSE, 2)}, {MCReference(s2, FALSE, 2)}}
MCCompletionSymmetry == Permutations(MCClerks)
=============================================================================

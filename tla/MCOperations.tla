---------------------------- MODULE MCOperations ----------------------------
(* One or two processes on one guarded and one unguarded operation. *)
EXTENDS Operations

CONSTANTS p1, p2, write, read

OneProc == {p1}
TwoProcs == {p1, p2}
BothOps == {write, read}
GuardedOps == {write}
=============================================================================

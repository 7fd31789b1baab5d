------------------------------ MODULE MCSleep -------------------------------
(* The sleep worker and one command, two observations, a window of two. *)
EXTENDS Sleep

CONSTANTS worker, command, r1, r2, r3

MCCommands == {command}
MCRuns == {r1, r2, r3}
=============================================================================

------------------------------ MODULE MCLedger ------------------------------
(* Two writers, three events; one event is refused once another is applied. *)
EXTENDS Ledger

CONSTANTS w1, w2, e1, e2, e3

MCWriters == {w1, w2}
MCEvents == {e1, e2, e3}
MCBatches == {<<>>, <<e1>>, <<e2, e3>>, <<e3, e3>>}
MCRefused == [e \in MCEvents |-> IF e = e2 THEN {e1} ELSE {}]
=============================================================================

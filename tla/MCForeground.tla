---------------------------- MODULE MCForeground ----------------------------
(* A message delivered twice, and beside it another message. *)
EXTENDS Foreground, TLC

CONSTANTS hello1, hello2, other

MCTwice == {hello1, hello2}
MCAll == {hello1, hello2, other}
MCTwiceMessage == [d \in MCTwice |-> "hello"]
MCAllMessage == [d \in MCAll |-> IF d = other THEN "other" ELSE "hello"]

(* A store that handled a message before, and one whose first call died between
   the principals and the identity. *)
MCSettled == Founding
MCHalf == {"hekate", "user"}

(* The two deliveries of one message are interchangeable. *)
MCSymmetry == Permutations(MCTwice)
=============================================================================

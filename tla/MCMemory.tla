------------------------------ MODULE MCMemory ------------------------------
(* Two commands at a time on small stores. *)
EXTENDS Memory, TLC

CONSTANTS p1, p2, inferred1, explicit1, lesson1, lesson2, lesson3, q1, q2, q3, c1, c2

MCProcs == {p1, p2}
MCMemories == {inferred1, explicit1, lesson1, lesson2, lesson3}
MCKind == [m \in MCMemories |-> CASE m = inferred1 -> "inferred"
                                  [] m = explicit1 -> "explicit"
                                  [] OTHER -> "lesson"]
MCPositions == {q1, q2, q3}
MCCands == {c1, c2}
MCContent == [c \in MCCands |-> "same"]

Proposals(a, b) == [c \in MCCands |-> IF c = c1 THEN a ELSE b]
StoreOf(ids, authored, known, qids, held, proposals, foreground) ==
    [memories |-> ids, authored |-> authored, known |-> known,
     positions |-> qids, held |-> held, proposals |-> proposals, foreground |-> foreground,
     parallel |-> 2, tasks |-> 0, calls |-> FALSE]

(* A user's preferences, promoted and given up beside revisions of them. *)
Preferences ==
    StoreOf({inferred1, explicit1}, {inferred1, explicit1}, {}, {}, {},
          Proposals("expire", "expire"), 0)
(* One lesson proposed twice. *)
Lessons == StoreOf({lesson2, lesson3}, {}, {}, {}, {}, Proposals("lesson", "lesson"), 0)
(* One memory revised twice. *)
Revisions(does) ==
    StoreOf({lesson2, lesson3}, {}, {lesson1}, {}, {}, Proposals("replace", does), 0)
(* Positions that Sleep and the foreground engine change. *)
PositionStore(held, a, b) ==
    StoreOf({}, {}, {}, {q1, q2, q3}, held, Proposals(a, b), 2)

MCSettings ==
    {Preferences, Lessons, Revisions("replace"), Revisions("expire"),
     PositionStore({}, "establish", "establish"),
     PositionStore({q1}, "revise", "withdraw")}

MCRaceSettings == {Preferences}

MCSymmetry ==
    Permutations(MCProcs) \cup Permutations({lesson2, lesson3}) \cup Permutations({q2, q3})
=============================================================================

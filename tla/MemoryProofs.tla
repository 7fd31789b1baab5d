----------------------------- MODULE MemoryProofs -----------------------------
(***************************************************************************)
(* Proofs about memories and positions, for any number of commands and any *)
(* store.  Every command but reject_memory commits on the revision it      *)
(* loaded; so what it checked still holds when it commits, and that is     *)
(* what keeps memories moving forward, replaced once and learnt once.      *)
(***************************************************************************)
EXTENDS Memory, FiniteSetTheorems, TLAPS

USE NoneAssumption

Held ==
    [status: {"absent", "active", "superseded", "retracted"},
     version: Nat,
     supersedes: Positions \cup {None}]

(* What a command has in hand, by the command. *)
Works ==
    {Idle}
    \cup [op: {"promote"}, on: Memories, with: Memories \cup {None}]
    \cup [op: {"reject", "superseded", "expired"}, on: Memories, with: {None}]
    \cup [op: {"verified", "rejected"}, on: Cands, with: {None}]
    \cup [op: {"lesson"}, on: Cands, with: Memories]
    \cup [op: MemoryRevisions, on: Cands, with: Memories \cup {None}]
    \cup [op: PositionChanges, on: Cands, with: Positions]

(* A part of TypeOK that bounds nothing. *)
Types ==
    /\ candidate \in [Memories -> {"absent", "candidate", "promoted", "rejected",
                                   "superseded", "expired"}]
    /\ memory \in [Memories -> {"absent", "active", "superseded", "expired"}]
    /\ supersedes \in [Memories -> Memories \cup {None}]
    /\ position \in [Positions -> Held]
    /\ disposition \in [Cands -> {"absent", "needs_validation", "verified", "rejected"}]
    /\ target \in [Cands -> Memories \cup Positions \cup {None}]
    /\ made \in [Cands -> Memories \cup Positions \cup {None}]
    /\ work \in [Procs -> Works]
    /\ stale \in [Procs -> BOOLEAN]

(* What a proposed candidate is about; a command that materializes one carries out what
   it proposes. *)
TargetInv ==
    /\ \A c \in Cands :
          disposition[c] # "absent" =>
              /\ Does(c) \in MemoryRevisions => target[c] \in Memories
              /\ Does(c) \in {"revise", "withdraw"} => target[c] \in Positions
              /\ Does(c) = "establish" => target[c] = None
    /\ \A p \in Procs :
          work[p].op \in {"lesson"} \cup MemoryRevisions \cup PositionChanges =>
              /\ Does(work[p].on) = work[p].op
              /\ disposition[work[p].on] # "absent"

(* What p found when it loaded holds still. *)
Current(p) ==
    LET op == work[p].op
        on == work[p].on
        with == work[p].with
    IN  /\ op = "promote" =>
              candidate[on] = "candidate" /\ (with # None => memory[with] = "active")
        /\ op \in {"superseded", "expired"} => memory[on] = "active"
        /\ op = "lesson" => candidate[with] = "absent" /\ ~KnownLesson(on)
        /\ op \in MemoryRevisions =>
              /\ memory[target[on]] = "active"
              /\ with # None => candidate[with] = "absent"
        /\ op \in {"establish", "revise"} => position[with] = NoPosition

CurrentInv == \A p \in Procs : ~stale[p] => Current(p)

(* A candidate nobody promoted has no memory yet. *)
UnpromotedInv ==
    \A m \in Memories : candidate[m] \in {"absent", "candidate"} => memory[m] = "absent"

(* What was replaced is gone, and was replaced by one memory. *)
ReplacedInv ==
    \A m \in Memories :
        supersedes[m] # None =>
            /\ memory[supersedes[m]] \in {"superseded", "expired"}
            /\ \A n \in Memories : supersedes[n] = supersedes[m] => n = m

(* A position somebody holds or held counts the revisions that led to it, each of them a
   position of its own. *)
Taken == {q \in Positions : position[q] # NoPosition}

VersionInv ==
    \A q \in Taken : /\ position[q].status # "absent"
                     /\ position[q].version \in 1..Cardinality(Taken)

(* The rest of TypeOK; a withdrawal is of the position its candidate names. *)
RestInv ==
    /\ conflict \in BOOLEAN
    /\ left \in Nat
    /\ asof \in [Cands -> [target: PositionRecords, blocked: BOOLEAN]]
    /\ \A c \in Cands : made[c] # None => disposition[c] = "verified"
    /\ \A p \in Procs : work[p].op = "withdraw" => work[p].with = target[work[p].on]

(* A lesson that was learnt has a memory. *)
LessonInv ==
    /\ \A c \in Cands :
          Does(c) = "lesson" /\ made[c] # None =>
              made[c] \in Memories /\ memory[made[c]] # "absent"
    /\ LessonsDistinct

-----------------------------------------------------------------------------
(* A memory of which nothing was known becomes active when its candidate is promoted; an
   active one is superseded or expires. *)
Moves(m) ==
    \/ memory'[m] = memory[m]
    \/ /\ memory[m] = "absent" /\ memory'[m] = "active"
       /\ candidate'[m] = "promoted"
    \/ memory[m] = "active" /\ memory'[m] \in {"superseded", "expired"}

(* Loads change nothing of the projection, and commits make every other load old: a
   command whose load is current meets the projection it loaded. *)
LEMMA CommitsAge ==
    ASSUME Types, [Next]_vars, NEW p \in Procs, work'[p] # Idle, ~stale'[p]
    PROVE  /\ UNCHANGED <<setting, projection>>
           /\ work[p] # Idle => work'[p] = work[p] /\ ~stale[p]
<1> USE DEF Types
<1>1. ASSUME NEW q \in Procs, NEW op, NEW on, NEW with, Decides(q, op, on, with)
      PROVE  /\ UNCHANGED <<setting, projection>>
             /\ work[p] # Idle => work'[p] = work[p] /\ ~stale[p]
  BY <1>1 DEF Decides
<1>2. ASSUME NEW q \in Procs, GiveUp(q)
      PROVE  /\ UNCHANGED <<setting, projection>>
             /\ work[p] # Idle => work'[p] = work[p] /\ ~stale[p]
  BY <1>2 DEF GiveUp, Ends
<1>3. ASSUME NEW q \in Procs, Disturbs(q), Ends(q) PROVE FALSE
  <2>1. p # q
    BY <1>3 DEF Ends
  <2> QED
    BY <1>3, <2>1 DEF Disturbs, Ends
<1>4. ASSUME stale' = [q \in Procs |-> work[q] # Idle], UNCHANGED work PROVE FALSE
  BY <1>4
<1>5. ASSUME NEW q \in Procs, NEW m \in Memories, Create(q, m) PROVE FALSE
  BY <1>5 DEF Create, Disturbs
<1>6. CASE UNCHANGED vars
  BY <1>6 DEF vars
<1> HIDE DEF Types
<1> QED
  BY <1>1, <1>2, <1>3, <1>4, <1>5, <1>6
     DEF Next, Command, Integrate, IndexedCommit, Environment, OtherCommit, PromoteLoad,
         PromoteCommit, RejectLoad, RejectCommit, StatusLoad, StatusCommit, Propose,
         TransitionLoad, TransitionCommit, MaterializeMemoryLoad, MaterializeMemoryCommit,
         ReviseLoad, ReviseCommit, MaterializePositionLoad, MaterializePositionCommit,
         ForegroundEstablishes, ForegroundRevises, ForegroundMaintains, ForegroundConflict,
         ForegroundChanges, CommitsOn, CommitsBlindly

(* A command that decides has in hand what it was asked for, and one that materializes a
   candidate what the candidate proposes. *)
LEMMA DecidesTypes ==
    ASSUME Types, TargetInv, NEW p \in Procs, NEW op, NEW on, NEW with,
           Decides(p, op, on, with), [op |-> op, on |-> on, with |-> with] \in Works,
           op \in {"lesson"} \cup MemoryRevisions \cup PositionChanges =>
              Does(on) = op /\ disposition[on] # "absent"
    PROVE  Types' /\ TargetInv'
<1>1. Types'
  BY DEF Types, Decides, projection, memories, positions, integration
<1>2. TargetInv'
  BY DEF Types, TargetInv, Decides, Does, projection, integration
<1> QED
  BY <1>1, <1>2

(* What becomes of a store, and of the commands at work, has the types of the model, and
   proposals keep the targets they were made for. *)
LEMMA TypesStep == Types /\ TargetInv /\ [Next]_vars => Types' /\ TargetInv'
<1> SUFFICES ASSUME Types, TargetInv, [Next]_vars PROVE Types' /\ TargetInv'
  OBVIOUS
<1> USE DEF memories, positions, integration, projection
(* Loads. *)
<1>1. ASSUME NEW p \in Procs, NEW m \in Memories, NEW previous \in Memories \cup {None},
             PromoteLoad(p, m, previous)
      PROVE  Types' /\ TargetInv'
  BY <1>1, DecidesTypes DEF PromoteLoad, Works, MemoryRevisions, PositionChanges
<1>2. ASSUME NEW p \in Procs, NEW m \in Memories, RejectLoad(p, m) PROVE Types' /\ TargetInv'
  BY <1>2, DecidesTypes DEF RejectLoad, Works, MemoryRevisions, PositionChanges
<1>3. ASSUME NEW p \in Procs, NEW m \in Memories, NEW s \in {"superseded", "expired"},
             StatusLoad(p, m, s)
      PROVE  Types' /\ TargetInv'
  BY <1>3, DecidesTypes DEF StatusLoad, Works, MemoryRevisions, PositionChanges
<1>4. ASSUME NEW p \in Procs, NEW c \in Cands, NEW verdict \in {"verified", "rejected"},
             NEW refs, TransitionLoad(p, c, verdict, refs)
      PROVE  Types' /\ TargetInv'
  BY <1>4, DecidesTypes DEF TransitionLoad, Works, MemoryRevisions, PositionChanges
<1>5. ASSUME NEW p \in Procs, NEW c \in Cands, NEW m \in Memories,
             MaterializeMemoryLoad(p, c, m)
      PROVE  Types' /\ TargetInv'
  BY <1>5, DecidesTypes DEF MaterializeMemoryLoad, Materializable, Works
<1>6. ASSUME NEW p \in Procs, NEW c \in Cands, NEW m \in Memories \cup {None},
             ReviseLoad(p, c, m)
      PROVE  Types' /\ TargetInv'
  BY <1>6, DecidesTypes DEF ReviseLoad, Materializable, Works
<1>7. ASSUME NEW p \in Procs, NEW c \in Cands, NEW q \in Positions,
             MaterializePositionLoad(p, c, q)
      PROVE  Types' /\ TargetInv'
  BY <1>7, DecidesTypes DEF MaterializePositionLoad, Materializable, Works
(* Commits of commands. *)
<1>8. ASSUME NEW p \in Procs, Disturbs(p), Ends(p), UNCHANGED <<setting, target>>,
             \A c \in Cands : disposition[c] # "absent" => disposition'[c] # "absent",
             \A c \in Cands : disposition[c] = "absent" => disposition'[c] = "absent"
      PROVE  TargetInv' /\ work' \in [Procs -> Works] /\ stale' \in [Procs -> BOOLEAN]
  <2>1. work' \in [Procs -> Works]
    BY <1>8 DEF Ends, Types, Works
  <2>2. stale' \in [Procs -> BOOLEAN]
    BY <1>8 DEF Disturbs
  <2>3. TargetInv'
    <3>1. \A q \in Procs :
            work[q].op \in {"lesson"} \cup MemoryRevisions \cup PositionChanges
               => work[q].on \in Cands
      BY DEF Types, Works, Idle, MemoryRevisions, PositionChanges
    <3>2. \A q \in Procs : work'[q] = work[q] \/ work'[q] = Idle
      BY <1>8 DEF Ends, Types
    <3> QED
      BY <1>8, <3>1, <3>2 DEF TargetInv, Does, Idle, MemoryRevisions, PositionChanges
  <2> QED
    BY <2>1, <2>2, <2>3
<1>9. ASSUME NEW p \in Procs, PromoteCommit(p) PROVE Types' /\ TargetInv'
  <2>1. work[p].on \in Memories /\ work[p].with \in Memories \cup {None}
    BY <1>9 DEF PromoteCommit, CommitsOn, Types, Works, Idle, MemoryRevisions, PositionChanges
  <2> QED
    BY <1>8, <1>9, <2>1 DEF PromoteCommit, CommitsOn, Become, Types
<1>10. ASSUME NEW p \in Procs, RejectCommit(p) PROVE Types' /\ TargetInv'
  BY <1>8, <1>10 DEF RejectCommit, CommitsBlindly, Types
<1>11. ASSUME NEW p \in Procs, StatusCommit(p) PROVE Types' /\ TargetInv'
  BY <1>8, <1>11 DEF StatusCommit, CommitsOn, Types
<1>12. ASSUME NEW p \in Procs, TransitionCommit(p) PROVE Types' /\ TargetInv'
  BY <1>8, <1>12 DEF TransitionCommit, CommitsOn, Types
<1>13. ASSUME NEW p \in Procs, MaterializeMemoryCommit(p) PROVE Types' /\ TargetInv'
  <2>1. work[p].with \in Memories
    BY <1>13 DEF MaterializeMemoryCommit, CommitsOn, Types, Works, Idle, MemoryRevisions,
                 PositionChanges
  <2> QED
    BY <1>8, <1>13, <2>1 DEF MaterializeMemoryCommit, CommitsOn, Learn, Types
<1>14. ASSUME NEW p \in Procs, ReviseCommit(p) PROVE Types' /\ TargetInv'
  <2> DEFINE c == work[p].on
             m == work[p].with
             t == target[c]
  <2>1. /\ c \in Cands
        /\ m \in Memories \cup {None}
        /\ t \in Memories
    <3>1. c \in Cands /\ m \in Memories \cup {None}
      BY <1>14 DEF ReviseCommit, CommitsOn, Types, Works, Idle, MemoryRevisions,
                   PositionChanges
    <3>2. Does(c) \in MemoryRevisions /\ disposition[c] # "absent"
      BY <1>14 DEF ReviseCommit, CommitsOn, TargetInv
    <3> QED
      BY <3>1, <3>2 DEF TargetInv
  <2>2. memory' \in [Memories -> {"absent", "active", "superseded", "expired"}]
    BY <1>14 DEF ReviseCommit, Revise, Types
  <2>3. candidate' \in [Memories -> {"absent", "candidate", "promoted", "rejected",
                                     "superseded", "expired"}]
    BY <1>14 DEF ReviseCommit, Revise, Types
  <2>4. supersedes' \in [Memories -> Memories \cup {None}]
    BY <1>14, <2>1 DEF ReviseCommit, Revise, Types
  <2>5. made' \in [Cands -> Memories \cup Positions \cup {None}]
    BY <1>14, <2>1 DEF ReviseCommit, Types
  <2>6. /\ Disturbs(p) /\ Ends(p)
        /\ UNCHANGED <<setting, positions, disposition, target>>
    BY <1>14 DEF ReviseCommit, CommitsOn
  <2> QED
    BY <1>8, <2>2, <2>3, <2>4, <2>5, <2>6 DEF Types
<1>15. ASSUME NEW p \in Procs, MaterializePositionCommit(p) PROVE Types' /\ TargetInv'
  <2> DEFINE c == work[p].on
             q == work[p].with
             t == target[c]
  <2>1. c \in Cands /\ q \in Positions
    BY <1>15 DEF MaterializePositionCommit, CommitsOn, Types, Works, Idle, MemoryRevisions,
                 PositionChanges
  <2>2. Does(c) = "revise" => t \in Positions
    <3>1. Does(c) \in PositionChanges /\ disposition[c] # "absent"
      BY <1>15 DEF MaterializePositionCommit, CommitsOn, TargetInv
    <3> QED
      BY <2>1, <3>1 DEF TargetInv
  <2>3. position' \in [Positions -> Held]
    <3>1. position \in [Positions -> Held]
      BY DEF Types
    <3>2. CASE Does(c) = "establish"
      BY <1>15, <2>1, <3>1, <3>2 DEF MaterializePositionCommit, IntegratedPosition, Held
    <3>3. CASE Does(c) = "revise"
      BY <1>15, <2>1, <2>2, <3>1, <3>3
         DEF MaterializePositionCommit, IntegratedPosition, Revised, Held
    <3>4. CASE Does(c) \notin {"establish", "revise"}
      BY <1>15, <2>1, <3>1, <3>4 DEF MaterializePositionCommit, IntegratedPosition, Held
    <3> QED BY <3>2, <3>3, <3>4
  <2>4. made' \in [Cands -> Memories \cup Positions \cup {None}]
    BY <1>15, <2>1 DEF MaterializePositionCommit, Types
  <2>5. /\ Disturbs(p) /\ Ends(p)
        /\ UNCHANGED <<setting, memories, disposition, target>>
    BY <1>15 DEF MaterializePositionCommit, CommitsOn
  <2> QED
    BY <1>8, <2>3, <2>4, <2>5 DEF Types
(* The rest. *)
<1>16. ASSUME NEW p \in Procs, GiveUp(p) PROVE Types' /\ TargetInv'
  <2>1. Types'
    BY <1>16 DEF GiveUp, Ends, Types, Works
  <2>2. TargetInv'
    BY <1>16 DEF GiveUp, Ends, Types, TargetInv, Does, Idle, MemoryRevisions, PositionChanges
  <2> QED BY <2>1, <2>2
<1>17. ASSUME NEW p \in Procs, NEW m \in Memories, Create(p, m) PROVE Types' /\ TargetInv'
  <2>1. Types'
    BY <1>17 DEF Create, Disturbs, Types
  <2>2. TargetInv'
    BY <1>17 DEF Create, TargetInv, Does
  <2> QED BY <2>1, <2>2
<1>18. ASSUME NEW c \in Cands, NEW t \in Memories \cup Positions \cup {None}, Propose(c, t)
       PROVE  Types' /\ TargetInv'
  <2>1. Types'
    BY <1>18 DEF Propose, Types
  <2>2. /\ Does(c) \in MemoryRevisions => t \in Memories
        /\ Does(c) \in {"revise", "withdraw"} => t \in Positions
        /\ Does(c) = "establish" => t = None
    BY <1>18 DEF Propose, Proposable, Active, MemoryRevisions
  <2>3. \A d \in Cands : d # c => disposition'[d] = disposition[d] /\ target'[d] = target[d]
    BY <1>18 DEF Propose, Types
  <2>4. disposition'[c] # "absent" /\ target'[c] = t
    BY <1>18 DEF Propose, Types
  <2>5. \A p \in Procs :
          work[p].op \in {"lesson"} \cup MemoryRevisions \cup PositionChanges
             => work[p].on \in Cands
    BY DEF Types, Works, Idle, MemoryRevisions, PositionChanges
  <2>6. UNCHANGED <<setting, work>>
    BY <1>18 DEF Propose
  <2>7. TargetInv'
    BY <2>2, <2>3, <2>4, <2>5, <2>6 DEF TargetInv, Does
  <2> QED BY <2>1, <2>7
<1>19. ASSUME position' \in [Positions -> Held], ForegroundChanges PROVE Types' /\ TargetInv'
  <2>1. Types'
    BY <1>19 DEF ForegroundChanges, Types
  <2>2. TargetInv'
    BY <1>19 DEF ForegroundChanges, TargetInv, Does
  <2> QED BY <2>1, <2>2
<1>20. ASSUME NEW q \in Positions, ForegroundEstablishes(q) PROVE Types' /\ TargetInv'
  BY <1>19, <1>20 DEF ForegroundEstablishes, Types, Held
<1>21. ASSUME NEW q \in Positions, NEW prior \in Positions, ForegroundRevises(q, prior)
       PROVE  Types' /\ TargetInv'
  BY <1>19, <1>21 DEF ForegroundRevises, Revised, Types, Held
<1>22. ASSUME NEW q \in Positions, NEW s \in {"active", "retracted"}, ForegroundMaintains(q, s)
       PROVE  Types' /\ TargetInv'
  <2>1. position \in [Positions -> Held]
    BY DEF Types
  <2>2. \A r \in Positions : position'[r] \in Held
    <3> SUFFICES ASSUME NEW r \in Positions PROVE position'[r] \in Held
      OBVIOUS
    <3>1. CASE r = q
      <4>1. position'[q] = [position[q] EXCEPT !.status = s, !.supersedes = None]
        BY <1>22, <2>1 DEF ForegroundMaintains
      <4> QED BY <2>1, <3>1, <4>1 DEF Held
    <3>2. CASE r # q
      BY <1>22, <2>1, <3>2 DEF ForegroundMaintains
    <3> QED BY <3>1, <3>2
  <2>3. position' \in [Positions -> Held]
    BY <1>22, <2>1, <2>2 DEF ForegroundMaintains
  <2> QED
    BY <1>19, <1>22, <2>3 DEF ForegroundMaintains
<1>23. CASE ForegroundConflict
  BY <1>19, <1>23 DEF ForegroundConflict, Types
<1>24. CASE OtherCommit
  <2>1. Types'
    BY <1>24 DEF OtherCommit, Types
  <2>2. TargetInv'
    BY <1>24 DEF OtherCommit, TargetInv, Does
  <2> QED BY <2>1, <2>2
<1>25. CASE UNCHANGED vars
  BY <1>25 DEF vars, Types, TargetInv, Does
<1> HIDE DEF memories, positions, integration, projection
<1>26. ASSUME NEW p \in Procs, Command(p) \/ GiveUp(p) PROVE Types' /\ TargetInv'
  BY <1>1, <1>2, <1>3, <1>10, <1>16, <1>17, <1>26 DEF Command
<1>27. ASSUME NEW p \in Procs, Integrate(p) PROVE Types' /\ TargetInv'
  BY <1>4, <1>5, <1>6, <1>7, <1>12, <1>27 DEF Integrate
<1>28. ASSUME NEW p \in Procs, IndexedCommit(p) PROVE Types' /\ TargetInv'
  BY <1>9, <1>11, <1>13, <1>14, <1>15, <1>28 DEF IndexedCommit
<1>29. CASE Environment
  BY <1>18, <1>20, <1>21, <1>22, <1>23, <1>29 DEF Environment
<1> QED
  BY <1>24, <1>25, <1>26, <1>27, <1>28, <1>29 DEF Next

-----------------------------------------------------------------------------
(* What a command found when it loaded holds until somebody commits: the expected base
   revision at work. *)
LEMMA CurrentStep == Types /\ TargetInv /\ CurrentInv /\ [Next]_vars => CurrentInv'
<1> SUFFICES ASSUME Types, TargetInv, CurrentInv, [Next]_vars,
                    NEW p \in Procs, ~stale'[p], work'[p] # Idle
             PROVE  Current(p)'
  BY DEF CurrentInv, Current, Idle, MemoryRevisions, PositionChanges
<1> USE DEF memories, positions, integration, projection
<1>1. /\ UNCHANGED <<setting, projection>>
      /\ work[p] # Idle => work'[p] = work[p] /\ ~stale[p]
  BY CommitsAge
<1>2. CASE work[p] # Idle
  BY <1>1, <1>2 DEF CurrentInv, Current, KnownLesson, Active, Does
<1> SUFFICES ASSUME work[p] = Idle PROVE Current(p)'
  BY <1>2
<1>3. ASSUME NEW q \in Procs, NEW op, NEW on, NEW with, Decides(q, op, on, with)
      PROVE  q = p /\ work'[p] = [op |-> op, on |-> on, with |-> with]
  BY <1>3 DEF Decides, Types
<1>4. ASSUME NEW q \in Procs, Ends(q) PROVE FALSE
  BY <1>4 DEF Ends, Types
<1>5. work' # work
  OBVIOUS
<1>6. ASSUME NEW q \in Procs, NEW m \in Memories, NEW previous \in Memories \cup {None},
             PromoteLoad(q, m, previous)
      PROVE  Current(p)'
  <2>1. work'[p] = [op |-> "promote", on |-> m, with |-> previous]
    BY <1>3, <1>6 DEF PromoteLoad
  <2>2. candidate[m] = "candidate" /\ (previous # None => memory[previous] = "active")
    BY <1>6 DEF PromoteLoad, PreviousInferred, Active
  <2> QED
    BY <1>1, <2>1, <2>2 DEF Current, MemoryRevisions, PositionChanges
<1>7. ASSUME NEW q \in Procs, NEW m \in Memories, RejectLoad(q, m) PROVE Current(p)'
  <2>1. work'[p] = [op |-> "reject", on |-> m, with |-> None]
    BY <1>3, <1>7 DEF RejectLoad
  <2> QED
    BY <2>1 DEF Current, MemoryRevisions, PositionChanges
<1>8. ASSUME NEW q \in Procs, NEW m \in Memories, NEW s \in {"superseded", "expired"},
             StatusLoad(q, m, s)
      PROVE  Current(p)'
  <2>1. work'[p] = [op |-> s, on |-> m, with |-> None]
    BY <1>3, <1>8 DEF StatusLoad
  <2> QED
    BY <1>1, <1>8, <2>1 DEF StatusLoad, Current, MemoryRevisions, PositionChanges
<1>9. ASSUME NEW q \in Procs, NEW c \in Cands, NEW verdict \in {"verified", "rejected"},
             NEW refs, TransitionLoad(q, c, verdict, refs)
      PROVE  Current(p)'
  <2>1. work'[p] = [op |-> verdict, on |-> c, with |-> None]
    BY <1>3, <1>9 DEF TransitionLoad
  <2> QED
    BY <2>1 DEF Current, MemoryRevisions, PositionChanges
<1>10. ASSUME NEW q \in Procs, NEW c \in Cands, NEW m \in Memories,
              MaterializeMemoryLoad(q, c, m)
       PROVE  Current(p)'
  <2>1. work'[p] = [op |-> "lesson", on |-> c, with |-> m]
    BY <1>3, <1>10 DEF MaterializeMemoryLoad
  <2>2. candidate[m] = "absent" /\ ~KnownLesson(c)
    BY <1>10 DEF MaterializeMemoryLoad, Fresh
  <2>3. ~KnownLesson(c)'
    BY <1>1, <2>2 DEF KnownLesson, Active, Does
  <2> QED
    BY <1>1, <2>1, <2>2, <2>3 DEF Current, KnownLesson, Active, Does, MemoryRevisions, PositionChanges
<1>11. ASSUME NEW q \in Procs, NEW c \in Cands, NEW m \in Memories \cup {None},
              ReviseLoad(q, c, m)
       PROVE  Current(p)'
  <2>1. work'[p] = [op |-> Does(c), on |-> c, with |-> m]
    BY <1>3, <1>11 DEF ReviseLoad
  <2>2. /\ Does(c) \in MemoryRevisions
        /\ memory[target[c]] = "active"
        /\ m # None => candidate[m] = "absent"
    BY <1>11 DEF ReviseLoad, MemoryRevisionPlan, Fresh
  <2> QED
    BY <1>1, <2>1, <2>2 DEF Current, MemoryRevisions
<1>12. ASSUME NEW q \in Procs, NEW c \in Cands, NEW r \in Positions,
              MaterializePositionLoad(q, c, r)
       PROVE  Current(p)'
  <2>1. work'[p] = [op |-> Does(c), on |-> c, with |-> r]
    BY <1>3, <1>12 DEF MaterializePositionLoad
  <2>2. /\ Does(c) \in PositionChanges
        /\ Does(c) # "withdraw" => position[r] = NoPosition
    BY <1>12 DEF MaterializePositionLoad, FreshPositions
  <2> QED
    BY <1>1, <2>1, <2>2 DEF Current, PositionChanges, MemoryRevisions
<1>13. ASSUME NEW q \in Procs, Command(q) \/ GiveUp(q) PROVE Current(p)'
  BY <1>4, <1>5, <1>6, <1>7, <1>8, <1>13
     DEF Command, Create, RejectCommit, CommitsBlindly, GiveUp
<1>14. ASSUME NEW q \in Procs, Integrate(q) PROVE Current(p)'
  BY <1>4, <1>9, <1>10, <1>11, <1>12, <1>14 DEF Integrate, TransitionCommit, CommitsOn
<1>15. ASSUME NEW q \in Procs, IndexedCommit(q) PROVE FALSE
  BY <1>4, <1>15
     DEF IndexedCommit, PromoteCommit, StatusCommit, MaterializeMemoryCommit, ReviseCommit,
         MaterializePositionCommit, CommitsOn
<1>16. Environment \/ OtherCommit => UNCHANGED work
  BY DEF Environment, Propose, ForegroundEstablishes, ForegroundRevises, ForegroundMaintains,
         ForegroundConflict, ForegroundChanges, OtherCommit
<1> QED
  BY <1>5, <1>13, <1>14, <1>15, <1>16 DEF Next, vars

(* The memories a command moves when its load is current. *)
LEMMA MovesStep ==
    ASSUME Types, TargetInv, CurrentInv, UnpromotedInv, [Next]_vars
    PROVE  (\A m \in Memories : Moves(m)) /\ UnpromotedInv'
<1> DEFINE Goal == (\A m \in Memories : Moves(m)) /\ UnpromotedInv'
<1> USE DEF Types, UnpromotedInv, Moves, positions, integration
<1>1. ASSUME NEW p \in Procs, PromoteCommit(p) PROVE Goal
  <2> DEFINE m == work[p].on
             previous == work[p].with
  <2>1. m \in Memories /\ previous \in Memories \cup {None}
    BY <1>1 DEF PromoteCommit, CommitsOn, Works, Idle, MemoryRevisions, PositionChanges
  <2>2. candidate[m] = "candidate" /\ (previous # None => memory[previous] = "active")
    BY <1>1 DEF PromoteCommit, CommitsOn, CurrentInv, Current
  <2>3. memory[m] = "absent"
    BY <2>1, <2>2
  <2> QED
    BY <1>1, <2>1, <2>2, <2>3 DEF PromoteCommit, Become
<1>2. ASSUME NEW p \in Procs, StatusCommit(p) PROVE Goal
  <2>1. work[p].on \in Memories /\ work[p].op \in {"superseded", "expired"}
    BY <1>2 DEF StatusCommit, CommitsOn, Works, Idle, MemoryRevisions, PositionChanges
  <2>2. memory[work[p].on] = "active"
    BY <1>2 DEF StatusCommit, CommitsOn, CurrentInv, Current
  <2> QED
    BY <1>2, <2>1, <2>2 DEF StatusCommit
<1>3. ASSUME NEW p \in Procs, MaterializeMemoryCommit(p) PROVE Goal
  <2>1. work[p].with \in Memories
    BY <1>3 DEF MaterializeMemoryCommit, CommitsOn, Works, Idle, MemoryRevisions, PositionChanges
  <2>2. candidate[work[p].with] = "absent"
    BY <1>3 DEF MaterializeMemoryCommit, CommitsOn, CurrentInv, Current
  <2> QED
    BY <1>3, <2>1, <2>2 DEF MaterializeMemoryCommit, Learn
<1>4. ASSUME NEW p \in Procs, ReviseCommit(p) PROVE Goal
  <2> DEFINE c == work[p].on
             m == work[p].with
             t == target[c]
  <2>1. m \in Memories \cup {None}
    BY <1>4 DEF ReviseCommit, CommitsOn, Works, Idle, MemoryRevisions, PositionChanges
  <2>2. memory[t] = "active" /\ (m # None => candidate[m] = "absent")
    BY <1>4 DEF ReviseCommit, CommitsOn, CurrentInv, Current
  <2>3. m # None => memory[m] = "absent"
    BY <2>1, <2>2
  <2> QED
    BY <1>4, <2>1, <2>2, <2>3 DEF ReviseCommit, Revise
<1>5. ASSUME NEW p \in Procs, RejectCommit(p) PROVE Goal
  BY <1>5 DEF RejectCommit
<1>6. ASSUME NEW p \in Procs, NEW m \in Memories, Create(p, m) PROVE Goal
  BY <1>6 DEF Create, Fresh
<1>7. CASE UNCHANGED memories
  BY <1>7 DEF memories
<1> HIDE DEF Types, UnpromotedInv, Moves, Goal
<1>8. ASSUME NEW p \in Procs, Command(p) \/ GiveUp(p) PROVE Goal
  BY <1>5, <1>6, <1>7, <1>8
     DEF Command, PromoteLoad, RejectLoad, StatusLoad, GiveUp, Decides, projection, Goal
<1>9. ASSUME NEW p \in Procs, Integrate(p) PROVE Goal
  BY <1>7, <1>9
     DEF Integrate, TransitionLoad, MaterializeMemoryLoad, ReviseLoad,
         MaterializePositionLoad, TransitionCommit, Decides, projection, Goal
<1>10. ASSUME NEW p \in Procs, IndexedCommit(p) PROVE Goal
  BY <1>1, <1>2, <1>3, <1>4, <1>7, <1>10
     DEF IndexedCommit, MaterializePositionCommit, Goal
<1>11. Environment \/ OtherCommit \/ UNCHANGED vars => UNCHANGED memories
  BY DEF Environment, Propose, ForegroundEstablishes, ForegroundRevises, ForegroundMaintains,
         ForegroundConflict, ForegroundChanges, OtherCommit, vars, projection
<1> QED
  BY <1>7, <1>8, <1>9, <1>10, <1>11 DEF Next, Goal

(* Only an active memory is replaced, and it steps down when it is: promote_memory and
   materialize_memory_revision on a current load. *)
LEMMA ReplacedStep ==
    ASSUME Types, TargetInv, CurrentInv, UnpromotedInv, ReplacedInv, [Next]_vars
    PROVE  ReplacedInv'
<1>1. \A m \in Memories : Moves(m)
  BY MovesStep
<1>2. ASSUME NEW m \in Memories, NEW t \in Memories \cup {None},
             supersedes' = [supersedes EXCEPT ![m] = t],
             t # None => memory[t] = "active" /\ memory'[t] = "superseded"
      PROVE  ReplacedInv'
  BY <1>1, <1>2 DEF ReplacedInv, Types, Moves
<1>3. CASE UNCHANGED supersedes
  BY <1>1, <1>3 DEF ReplacedInv, Types, Moves
<1>4. ASSUME NEW p \in Procs, PromoteCommit(p) PROVE ReplacedInv'
  <2> DEFINE m == work[p].on
             previous == work[p].with
  <2>1. m \in Memories /\ previous \in Memories \cup {None}
    BY <1>4 DEF PromoteCommit, CommitsOn, Types, Works, Idle, MemoryRevisions, PositionChanges
  <2>2. candidate[m] = "candidate" /\ (previous # None => memory[previous] = "active")
    BY <1>4 DEF PromoteCommit, CommitsOn, CurrentInv, Current
  <2>3. memory[m] = "absent"
    BY <2>1, <2>2 DEF UnpromotedInv
  <2>4. previous # None => memory'[previous] = "superseded"
    BY <1>4, <2>1, <2>2, <2>3 DEF PromoteCommit, Become
  <2> QED
    BY <1>2, <1>4, <2>1, <2>2, <2>4 DEF PromoteCommit
<1>5. ASSUME NEW p \in Procs, ReviseCommit(p) PROVE ReplacedInv'
  <2> DEFINE c == work[p].on
             m == work[p].with
             t == target[c]
  <2>1. /\ c \in Cands /\ m \in Memories \cup {None}
        /\ Does(c) \in MemoryRevisions /\ disposition[c] # "absent"
    BY <1>5 DEF ReviseCommit, CommitsOn, Types, Works, Idle, TargetInv, MemoryRevisions,
                PositionChanges
  <2>2. t \in Memories /\ memory[t] = "active" /\ (m # None => candidate[m] = "absent")
    BY <1>5, <2>1 DEF ReviseCommit, CommitsOn, CurrentInv, Current, TargetInv
  <2>3. CASE m = None
    BY <1>3, <1>5, <2>1, <2>3 DEF ReviseCommit, Revise, Types
  <2>4. CASE m # None
    <3>1. memory[m] = "absent"
      BY <2>1, <2>2, <2>4 DEF UnpromotedInv
    <3>2. supersedes' = [supersedes EXCEPT ![m] = t]
      BY <1>5, <2>1, <2>4 DEF ReviseCommit, Revise, Types
    <3>3. memory'[t] \in {"superseded", "expired"}
      BY <1>5, <2>2, <3>1 DEF ReviseCommit, Revise
    <3> QED
      BY <1>1, <2>1, <2>2, <2>4, <3>1, <3>2, <3>3 DEF ReplacedInv, Types, Moves
  <2> QED BY <2>3, <2>4
<1>6. ASSUME NEW p \in Procs, Command(p) \/ GiveUp(p) PROVE ReplacedInv'
  BY <1>3, <1>6
     DEF Command, Create, PromoteLoad, RejectLoad, StatusLoad, RejectCommit, GiveUp, Decides,
         projection, memories
<1>7. ASSUME NEW p \in Procs, Integrate(p) PROVE ReplacedInv'
  BY <1>3, <1>7
     DEF Integrate, TransitionLoad, MaterializeMemoryLoad, ReviseLoad,
         MaterializePositionLoad, TransitionCommit, Decides, projection, memories
<1>8. ASSUME NEW p \in Procs, IndexedCommit(p) PROVE ReplacedInv'
  BY <1>3, <1>4, <1>5, <1>8
     DEF IndexedCommit, StatusCommit, MaterializeMemoryCommit, MaterializePositionCommit,
         memories
<1>9. Environment \/ OtherCommit \/ UNCHANGED vars => UNCHANGED supersedes
  BY DEF Environment, Propose, ForegroundEstablishes, ForegroundRevises, ForegroundMaintains,
         ForegroundConflict, ForegroundChanges, OtherCommit, vars, projection, memories
<1> QED
  BY <1>3, <1>6, <1>7, <1>8, <1>9 DEF Next

(* What a step makes of the candidates: one at most is materialized, and a lesson only
   while no active memory holds the same lesson. *)
LEMMA LessonStep ==
    ASSUME Types, TargetInv, CurrentInv, UnpromotedInv, LessonInv, [Next]_vars
    PROVE  LessonInv'
<1>1. (\A m \in Memories : Moves(m)) /\ UNCHANGED setting
  <2>1. ASSUME NEW p \in Procs, Command(p) \/ GiveUp(p) PROVE UNCHANGED setting
    BY <2>1
       DEF Command, Create, PromoteLoad, RejectLoad, StatusLoad, RejectCommit, GiveUp, Decides,
           CommitsBlindly
  <2>2. ASSUME NEW p \in Procs, Integrate(p) PROVE UNCHANGED setting
    BY <2>2
       DEF Integrate, TransitionLoad, MaterializeMemoryLoad, ReviseLoad,
           MaterializePositionLoad, TransitionCommit, Decides, CommitsOn
  <2>3. ASSUME NEW p \in Procs, IndexedCommit(p) PROVE UNCHANGED setting
    BY <2>3
       DEF IndexedCommit, PromoteCommit, StatusCommit, MaterializeMemoryCommit, ReviseCommit,
           MaterializePositionCommit, CommitsOn
  <2>4. Environment \/ OtherCommit \/ UNCHANGED vars => UNCHANGED setting
    BY DEF Environment, Propose, ForegroundEstablishes, ForegroundRevises,
           ForegroundMaintains, ForegroundConflict, ForegroundChanges, OtherCommit, vars
  <2> QED
    BY <2>1, <2>2, <2>3, <2>4, MovesStep DEF Next
<1>2. CASE \A c \in Cands : Does(c) = "lesson" => made'[c] = made[c]
  <2>1. ASSUME NEW c \in Cands, Does(c) = "lesson", made[c] \in Memories,
               memory[made[c]] # "absent"
        PROVE  memory'[made[c]] # "absent" /\ (memory'[made[c]] = "active" => memory[made[c]] = "active")
    BY <1>1, <2>1 DEF Moves, Types
  <2> QED
    BY <1>1, <1>2, <2>1 DEF LessonInv, LessonsDistinct, Active, Does
<1>3. ASSUME NEW p \in Procs, MaterializeMemoryCommit(p) PROVE LessonInv'
  <2> DEFINE c == work[p].on
             m == work[p].with
  <2>1. c \in Cands /\ m \in Memories
    BY <1>3 DEF MaterializeMemoryCommit, CommitsOn, Types, Works, Idle, MemoryRevisions,
                PositionChanges
  <2>2. candidate[m] = "absent" /\ ~KnownLesson(c)
    BY <1>3 DEF MaterializeMemoryCommit, CommitsOn, CurrentInv, Current
  <2>3. memory[m] = "absent"
    BY <2>1, <2>2 DEF UnpromotedInv
  <2>4. /\ made'[c] = m /\ memory'[m] = "active"
        /\ \A d \in Cands \ {c} : made'[d] = made[d]
        /\ \A n \in Memories \ {m} : memory'[n] = memory[n]
    BY <1>3, <2>1 DEF MaterializeMemoryCommit, Learn, Types
  <2>5. ASSUME NEW d \in Cands \ {c}, Does(d) = "lesson", made[d] # None
        PROVE  made[d] \in Memories \ {m} /\ memory[made[d]] # "absent"
    BY <2>3, <2>5 DEF LessonInv
  <2>6. \A d \in Cands \ {c} :
           Does(d) = "lesson" => (made'[d] \in Active' <=> made[d] \in Active)
    BY <2>4, <2>5 DEF Active
  <2>7. \A d \in Cands \ {c} :
           Does(d) = "lesson" /\ Content[d] = Content[c] => made[d] \notin Active
    BY <2>2 DEF KnownLesson
  <2>8. LessonsDistinct'
    BY <1>1, <2>6, <2>7 DEF LessonInv, LessonsDistinct, Does
  <2> QED
    BY <1>1, <2>1, <2>4, <2>5, <2>8 DEF LessonInv, Does
<1>4. ASSUME NEW p \in Procs, ReviseCommit(p) \/ MaterializePositionCommit(p) PROVE LessonInv'
  <2>1. Does(work[p].on) # "lesson"
    BY <1>4 DEF ReviseCommit, MaterializePositionCommit, CommitsOn, TargetInv, MemoryRevisions,
                PositionChanges
  <2>2. \A d \in Cands : d # work[p].on => made'[d] = made[d]
    BY <1>4 DEF ReviseCommit, MaterializePositionCommit, Types
  <2> QED BY <1>2, <2>1, <2>2
<1>5. CASE UNCHANGED made
  BY <1>2, <1>5
<1>6. ASSUME NEW p \in Procs, Command(p) \/ GiveUp(p) PROVE LessonInv'
  BY <1>5, <1>6
     DEF Command, Create, PromoteLoad, RejectLoad, StatusLoad, RejectCommit, GiveUp, Decides,
         projection, integration
<1>7. ASSUME NEW p \in Procs, Integrate(p) PROVE LessonInv'
  BY <1>5, <1>7
     DEF Integrate, TransitionLoad, MaterializeMemoryLoad, ReviseLoad,
         MaterializePositionLoad, TransitionCommit, Decides, projection, integration
<1>8. ASSUME NEW p \in Procs, IndexedCommit(p) PROVE LessonInv'
  BY <1>3, <1>4, <1>5, <1>8 DEF IndexedCommit, PromoteCommit, StatusCommit, integration
<1>9. Environment \/ OtherCommit \/ UNCHANGED vars => UNCHANGED made
  BY DEF Environment, Propose, ForegroundEstablishes, ForegroundRevises, ForegroundMaintains,
         ForegroundConflict, ForegroundChanges, OtherCommit, vars, projection, integration
<1> QED
  BY <1>5, <1>6, <1>7, <1>8, <1>9 DEF Next

-----------------------------------------------------------------------------
(* How many positions there are bounds how many of them are taken, and a fresh one
   makes one more. *)
LEMMA Taking ==
    ASSUME NEW S \in SUBSET Positions
    PROVE  /\ Cardinality(S) \in Nat
           /\ Cardinality(S) <= Cardinality(Positions)
           /\ \A q \in Positions \ S : Cardinality(S \cup {q}) = Cardinality(S) + 1
<1>1. IsFiniteSet(S) /\ Cardinality(S) <= Cardinality(Positions)
  BY PositionsAssumption, FS_Subset
<1> QED
  BY <1>1, FS_CardinalityType, FS_AddElement

(* A step that stores the position q, new or known, and keeps the versions of all others. *)
LEMMA Versions ==
    ASSUME Types, VersionInv, NEW q \in Positions,
           \A r \in Positions \ {q} :
              \/ position'[r] = position[r]
              \/ /\ r \in Taken
                 /\ position'[r].version = position[r].version
                 /\ position'[r].status # "absent",
           position'[q].status # "absent",
           position'[q].version \in 1..Cardinality(Taken \cup {q})
    PROVE  VersionInv'
<1>1. Taken' = Taken \cup {q}
  <2>1. q \in Taken'
    BY DEF Taken, NoPosition
  <2>2. ASSUME NEW r \in Positions \ {q} PROVE r \in Taken' <=> r \in Taken
    BY <2>2 DEF Taken, NoPosition
  <2> QED
    BY <2>1, <2>2 DEF Taken
<1>2. /\ Cardinality(Taken) \in Nat /\ Cardinality(Taken') \in Nat
      /\ Cardinality(Taken) <= Cardinality(Taken')
  <2>1. Taken \in SUBSET Positions
    BY DEF Taken
  <2>2. CASE q \in Taken
    <3>1. Taken' = Taken
      BY <1>1, <2>2
    <3> QED
      BY <2>1, <3>1, Taking
  <2>3. CASE q \notin Taken
    BY <1>1, <2>1, <2>3, Taking
  <2> QED
    BY <2>2, <2>3
<1>3. ASSUME NEW r \in Taken'
      PROVE  /\ position'[r].status # "absent"
             /\ position'[r].version \in 1..Cardinality(Taken')
  <2>1. CASE r = q
    BY <1>1, <2>1
  <2>2. CASE r # q
    <3>1. r \in Taken /\ r \in Positions \ {q}
      BY <1>1, <2>2 DEF Taken
    <3>2. /\ position[r].status # "absent"
          /\ position[r].version \in 1..Cardinality(Taken)
      BY <3>1 DEF VersionInv
    <3>3. /\ position'[r].status # "absent"
          /\ position'[r].version = position[r].version
      BY <3>1, <3>2
    <3> QED
      BY <1>2, <3>2, <3>3
  <2> QED
    BY <2>1, <2>2
<1> QED
  BY <1>3 DEF VersionInv

(* A position that was never stored, with a version that is its first or one more than
   that of the one it takes the place of. *)
LEMMA NewPosition ==
    ASSUME Types, VersionInv, NEW q \in Positions, position[q] = NoPosition,
           \/ position' = [position EXCEPT ![q] = [status |-> "active", version |-> 1,
                                                  supersedes |-> None]]
           \/ \E prior \in ActivePositions : position' = Revised(q, prior)
    PROVE  VersionInv'
<1>1. Cardinality(Taken) \in Nat /\ Cardinality(Taken \cup {q}) = Cardinality(Taken) + 1
  BY Taking DEF Taken
<1>2. CASE position' = [position EXCEPT ![q] = [status |-> "active", version |-> 1,
                                                supersedes |-> None]]
  BY <1>1, <1>2, Versions DEF Types
<1>3. ASSUME NEW prior \in ActivePositions, position' = Revised(q, prior)
      PROVE  VersionInv'
  <2>1. prior \in Positions /\ prior \in Taken /\ prior # q
    BY DEF ActivePositions, Taken, NoPosition
  <2>2. position[prior].version \in 1..Cardinality(Taken)
    BY <2>1 DEF VersionInv
  <2>3. position'[q] = [status |-> "active", version |-> position[prior].version + 1,
                        supersedes |-> prior]
    BY <1>3, <2>1 DEF Revised, Types
  <2>4. position'[q].version \in 1..Cardinality(Taken \cup {q})
    BY <1>1, <2>2, <2>3
  <2>5. ASSUME NEW r \in Positions \ {q}
        PROVE  \/ position'[r] = position[r]
               \/ /\ r \in Taken
                  /\ position'[r].version = position[r].version
                  /\ position'[r].status # "absent"
    <3>1. CASE r = prior
      <4>1. position'[r] = [position[r] EXCEPT !.status = "superseded"]
        BY <1>3, <2>1, <2>5, <3>1 DEF Revised, Types
      <4>2. position[r] \in Held
        BY <2>5 DEF Types
      <4> QED
        BY <2>1, <3>1, <4>1, <4>2 DEF Held
    <3>2. CASE r # prior
      BY <1>3, <2>1, <2>5, <3>2 DEF Revised, Types
    <3> QED
      BY <3>1, <3>2
  <2> QED
    BY <2>3, <2>4, <2>5, Versions
<1> QED
  BY <1>2, <1>3

(* A position that was stored before, with another status. *)
LEMMA KnownPosition ==
    ASSUME Types, VersionInv, NEW q \in Taken,
           position'[q].status # "absent",
           position'[q].version = position[q].version,
           \A r \in Positions \ {q} : position'[r] = position[r]
    PROVE  VersionInv'
<1>1. q \in Positions /\ Taken \cup {q} = Taken
  BY DEF Taken
<1>2. position[q].version \in 1..Cardinality(Taken)
  BY DEF VersionInv
<1> QED
  BY <1>1, <1>2, Versions DEF Types

(* Positions are stored by the foreground engine and by materialize_position. *)
LEMMA VersionStep ==
    ASSUME Types, TargetInv, CurrentInv, VersionInv, RestInv, [Next]_vars
    PROVE  VersionInv'
<1>1. CASE UNCHANGED position
  BY <1>1 DEF VersionInv, Taken
<1>2. ASSUME NEW q \in Positions, ForegroundEstablishes(q) PROVE VersionInv'
  BY <1>2, NewPosition DEF ForegroundEstablishes, FreshPositions
<1>3. ASSUME NEW q \in Positions, NEW prior \in Positions, ForegroundRevises(q, prior)
      PROVE  VersionInv'
  BY <1>3, NewPosition DEF ForegroundRevises, FreshPositions
<1>4. ASSUME NEW q \in Positions, NEW s \in {"active", "retracted"}, ForegroundMaintains(q, s)
      PROVE  VersionInv'
  <2>1. q \in Taken /\ position[q] \in Held /\ position \in [Positions -> Held]
    BY <1>4 DEF ForegroundMaintains, Taken, Types
  <2>2. position'[q] = [position[q] EXCEPT !.status = s, !.supersedes = None]
    BY <1>4, <2>1 DEF ForegroundMaintains
  <2>3. position'[q].status = s /\ position'[q].version = position[q].version
    BY <2>1, <2>2 DEF Held
  <2>4. \A r \in Positions \ {q} : position'[r] = position[r]
    BY <1>4, <2>1 DEF ForegroundMaintains
  <2> QED
    BY <2>1, <2>3, <2>4, KnownPosition
<1>5. ASSUME NEW p \in Procs, MaterializePositionCommit(p) PROVE VersionInv'
  <2> DEFINE c == work[p].on
             q == work[p].with
  <2>1. c \in Cands /\ q \in Positions /\ Does(c) \in PositionChanges /\ Does(c) = work[p].op
    BY <1>5 DEF MaterializePositionCommit, CommitsOn, Types, Works, Idle, MemoryRevisions,
                PositionChanges, TargetInv
  <2>2. disposition[c] # "absent"
    BY <1>5 DEF MaterializePositionCommit, CommitsOn, TargetInv
  <2>3. position' = IntegratedPosition(c, q)
    BY <1>5 DEF MaterializePositionCommit
  <2>4. Does(c) # "establish" => target[c] \in ActivePositions
    BY <1>5, <2>1, <2>2
       DEF MaterializePositionCommit, AdmitsPosition, ActivePositions, TargetInv, PositionChanges
  <2>5. Does(c) # "withdraw" => position[q] = NoPosition
    BY <1>5, <2>1 DEF MaterializePositionCommit, CommitsOn, CurrentInv, Current, PositionChanges
  <2>6. CASE Does(c) = "establish"
    BY <2>1, <2>3, <2>5, <2>6, NewPosition DEF IntegratedPosition
  <2>7. CASE Does(c) = "revise"
    BY <2>1, <2>3, <2>4, <2>5, <2>7, NewPosition DEF IntegratedPosition
  <2>8. CASE Does(c) = "withdraw"
    <3>1. q = target[c] /\ q \in Taken
      <4>1. q = target[c]
        BY <2>1, <2>8 DEF RestInv
      <4>2. target[c] \in Taken
        BY <2>4, <2>8 DEF ActivePositions, Taken, NoPosition
      <4> QED BY <4>1, <4>2
    <3>2. position \in [Positions -> Held] /\ position[q] \in Held
      BY <2>1 DEF Types
    <3>3. position' = [position EXCEPT ![q].status = "retracted"]
      BY <2>3, <2>8 DEF IntegratedPosition
    <3>4. position'[q] = [position[q] EXCEPT !.status = "retracted"]
      BY <2>1, <3>2, <3>3
    <3>5. position'[q].status = "retracted" /\ position'[q].version = position[q].version
      BY <3>2, <3>4 DEF Held
    <3>6. \A r \in Positions \ {q} : position'[r] = position[r]
      BY <2>1, <3>2, <3>3
    <3> QED
      BY <3>1, <3>5, <3>6, KnownPosition
  <2> QED
    BY <2>1, <2>6, <2>7, <2>8 DEF PositionChanges
<1>6. ASSUME NEW p \in Procs, Command(p) \/ GiveUp(p) PROVE UNCHANGED position
  BY <1>6
     DEF Command, Create, PromoteLoad, RejectLoad, StatusLoad, RejectCommit, GiveUp, Decides,
         projection, positions
<1>7. ASSUME NEW p \in Procs, Integrate(p) PROVE UNCHANGED position
  BY <1>7
     DEF Integrate, TransitionLoad, MaterializeMemoryLoad, ReviseLoad,
         MaterializePositionLoad, TransitionCommit, Decides, projection, positions
<1>8. ASSUME NEW p \in Procs, IndexedCommit(p) PROVE VersionInv'
  BY <1>1, <1>5, <1>8
     DEF IndexedCommit, PromoteCommit, StatusCommit, MaterializeMemoryCommit, ReviseCommit,
         positions
<1>9. CASE Environment
  BY <1>1, <1>2, <1>3, <1>4, <1>9 DEF Environment, Propose, ForegroundConflict, positions
<1>10. CASE OtherCommit \/ UNCHANGED vars
  BY <1>1, <1>10 DEF OtherCommit, vars, projection, positions
<1> QED
  BY <1>1, <1>6, <1>7, <1>8, <1>9, <1>10 DEF Next

(* A position is one of the records TypeOK speaks of. *)
LEMMA VersionsBounded ==
    ASSUME Types, VersionInv
    PROVE  /\ \A q \in Positions :
                 /\ position[q] \in PositionRecords
                 /\ position[q].status = "absent" <=> position[q].version = 0
           /\ NoPosition \in PositionRecords
<1>1. Cardinality(Positions) \in Nat
  BY PositionsAssumption, FS_CardinalityType
<1>2. Cardinality(Taken) \in Nat /\ Cardinality(Taken) <= Cardinality(Positions)
  BY Taking DEF Taken
<1>3. ASSUME NEW q \in Positions, position[q] = NoPosition
      PROVE  /\ position[q] \in PositionRecords
             /\ position[q].status = "absent" <=> position[q].version = 0
  BY <1>1, <1>3 DEF NoPosition, PositionRecords
<1>4. ASSUME NEW q \in Taken
      PROVE  /\ position[q] \in PositionRecords
             /\ position[q].status = "absent" <=> position[q].version = 0
  <2>1. position[q] \in Held
    BY DEF Types, Taken
  <2>2. position[q].status # "absent" /\ position[q].version \in 1..Cardinality(Taken)
    BY DEF VersionInv
  <2>3. position[q].version \in 0..Cardinality(Positions) /\ position[q].version # 0
    BY <1>1, <1>2, <2>2
  <2> QED
    BY <2>1, <2>2, <2>3 DEF Held, PositionRecords
<1> QED
  BY <1>1, <1>3, <1>4 DEF Taken, NoPosition, PositionRecords

(* A command that materializes a withdrawal has in hand the position its candidate names,
   and a candidate is materialized only after it was verified. *)
LEMMA RestStep ==
    ASSUME Types, TargetInv, VersionInv, RestInv, [Next]_vars
    PROVE  RestInv'
<1> DEFINE WithdrawInv == \A p \in Procs : work[p].op = "withdraw" => work[p].with = target[work[p].on]
           MadeInv == \A c \in Cands : made[c] # None => disposition[c] = "verified"
           AsofInv == asof \in [Cands -> [target: PositionRecords, blocked: BOOLEAN]]
           Same == UNCHANGED <<conflict, left, asof, made, disposition, target>>
<1>1. ASSUME Same, WithdrawInv' PROVE RestInv'
  BY <1>1 DEF RestInv
<1>2. ASSUME UNCHANGED target, NEW p \in Procs, Ends(p) \/ UNCHANGED work PROVE WithdrawInv'
  BY <1>2 DEF RestInv, Ends, Types, Idle
<1>3. ASSUME NEW p \in Procs, NEW op, NEW on, NEW with, Decides(p, op, on, with),
             op = "withdraw" => with = target[on]
      PROVE  RestInv'
  <2>1. Same
    BY <1>3 DEF Decides, projection, positions, integration
  <2>2. WithdrawInv'
    BY <1>3, <2>1 DEF Decides, Types, RestInv
  <2> QED BY <1>1, <2>1, <2>2
<1>4. ASSUME NEW p \in Procs, Command(p) \/ GiveUp(p) PROVE RestInv'
  <2>1. ASSUME NEW m \in Memories, Create(p, m) PROVE RestInv'
    BY <1>1, <1>2, <2>1 DEF Create, positions, integration
  <2>2. CASE RejectCommit(p)
    BY <1>1, <1>2, <2>2 DEF RejectCommit, CommitsBlindly, positions, integration
  <2>3. CASE GiveUp(p)
    BY <1>1, <1>2, <2>3 DEF GiveUp, projection, positions, integration
  <2> QED
    BY <1>3, <1>4, <2>1, <2>2, <2>3 DEF Command, PromoteLoad, RejectLoad, StatusLoad
<1>5. ASSUME NEW p \in Procs, Integrate(p) PROVE RestInv'
  <2>1. CASE TransitionCommit(p)
    <3>1. /\ UNCHANGED <<conflict, left, asof, made, target>>
          /\ Ends(p)
          /\ disposition[work[p].on] = "needs_validation"
          /\ disposition' = [disposition EXCEPT ![work[p].on] = work[p].op]
      BY <2>1 DEF TransitionCommit, CommitsOn, positions
    <3>2. WithdrawInv'
      BY <1>2, <3>1
    <3>3. MadeInv'
      BY <3>1 DEF RestInv, Types
    <3> QED
      BY <3>1, <3>2, <3>3 DEF RestInv
  <2>2. ASSUME NEW c \in Cands, NEW q \in Positions, MaterializePositionLoad(p, c, q)
        PROVE  RestInv'
    BY <1>3, <2>2 DEF MaterializePositionLoad
  <2> QED
    BY <1>3, <1>5, <2>1, <2>2
       DEF Integrate, TransitionLoad, MaterializeMemoryLoad, ReviseLoad, MemoryRevisions
<1>6. ASSUME NEW p \in Procs, IndexedCommit(p) PROVE RestInv'
  <2>1. CASE PromoteCommit(p) \/ StatusCommit(p)
    BY <1>1, <1>2, <2>1 DEF PromoteCommit, StatusCommit, CommitsOn, positions, integration
  <2>2. CASE MaterializeMemoryCommit(p) \/ ReviseCommit(p) \/ MaterializePositionCommit(p)
    <3>1. /\ UNCHANGED <<conflict, left, asof, disposition, target>>
          /\ Ends(p)
          /\ disposition[work[p].on] = "verified"
          /\ \A d \in Cands : d # work[p].on => made'[d] = made[d]
      BY <2>2 DEF MaterializeMemoryCommit, ReviseCommit, MaterializePositionCommit, CommitsOn,
                  AdmitsPosition, Materializable, positions, Types
    <3>2. WithdrawInv'
      BY <1>2, <3>1
    <3>3. MadeInv'
      BY <3>1 DEF RestInv
    <3> QED
      BY <3>1, <3>2, <3>3 DEF RestInv
  <2> QED
    BY <1>6, <2>1, <2>2 DEF IndexedCommit
<1>7. ASSUME NEW c \in Cands, NEW t \in Memories \cup Positions \cup {None}, Propose(c, t)
      PROVE  RestInv'
  <2>1. /\ UNCHANGED <<conflict, left, made, work>>
        /\ disposition[c] = "absent"
        /\ disposition' = [disposition EXCEPT ![c] = "needs_validation"]
        /\ target' = [target EXCEPT ![c] = t]
    BY <1>7 DEF Propose, positions
  <2>2. MadeInv'
    BY <2>1 DEF RestInv, Types
  <2>3. WithdrawInv'
    <3>1. ASSUME NEW p \in Procs, work[p].op = "withdraw"
          PROVE  work[p].on \in Cands /\ disposition[work[p].on] # "absent"
      BY <3>1 DEF TargetInv, PositionChanges, Types, Works, Idle, MemoryRevisions
    <3>2. WithdrawInv
      BY DEF RestInv
    <3> QED
      BY <2>1, <3>1, <3>2 DEF Types
  <2>4. AsofInv'
    <3>1. Does(c) \in PositionChanges /\ t # None => t \in Positions
      BY <1>7 DEF Propose, Proposable, MemoryRevisions, PositionChanges
    <3>2. \A q \in Positions : position[q] \in PositionRecords
      BY VersionsBounded
    <3>3. NoPosition \in PositionRecords
      BY VersionsBounded
    <3>4. AsofInv
      BY DEF RestInv
    <3>5. Blocked(position, conflict, t) \in BOOLEAN
      BY DEF Blocked
    <3> HIDE DEF AsofInv
    <3>6. CASE Does(c) \in PositionChanges
      <4>1. asof' = [asof EXCEPT ![c] = [target |-> IF t = None THEN NoPosition ELSE position[t],
                                         blocked |-> Blocked(position, conflict, t)]]
        BY <1>7, <3>6 DEF Propose
      <4>2. (IF t = None THEN NoPosition ELSE position[t]) \in PositionRecords
        BY <3>1, <3>2, <3>3, <3>6
      <4> QED
        BY <3>4, <3>5, <4>1, <4>2 DEF AsofInv
    <3>7. CASE Does(c) \notin PositionChanges
      BY <1>7, <3>4, <3>7 DEF Propose, AsofInv
    <3> QED BY <3>6, <3>7
  <2> QED
    BY <2>1, <2>2, <2>3, <2>4 DEF RestInv
<1>8. CASE Environment
  <2>1. ASSUME ForegroundChanges, conflict' \in BOOLEAN PROVE RestInv'
    <3>1. left' \in Nat /\ UNCHANGED <<asof, made, disposition, target, work>>
      BY <2>1 DEF ForegroundChanges, RestInv, integration
    <3> QED
      BY <2>1, <3>1 DEF RestInv
  <2>2. conflict \in BOOLEAN
    BY DEF RestInv
  <2> QED
    BY <1>7, <1>8, <2>1, <2>2
       DEF Environment, ForegroundEstablishes, ForegroundRevises, ForegroundMaintains,
           ForegroundConflict
<1>9. CASE OtherCommit \/ UNCHANGED vars
  BY <1>9 DEF OtherCommit, vars, projection, positions, integration, RestInv
<1> QED
  BY <1>4, <1>5, <1>6, <1>8, <1>9 DEF Next

IInv ==
    /\ Types /\ TargetInv /\ CurrentInv /\ UnpromotedInv /\ ReplacedInv /\ LessonInv
    /\ VersionInv /\ RestInv

(* The inductive invariant holds in every reachable state. *)
THEOREM Invariance == Spec => []IInv
<1>1. Init => IInv
  <2> SUFFICES ASSUME Init PROVE IInv
    OBVIOUS
  <2>1. Types
    BY DEF Init, Types, Works, Held, NoPosition
  <2>2. TargetInv /\ CurrentInv /\ UnpromotedInv
    BY DEF Init, TargetInv, CurrentInv, Current, UnpromotedInv, Idle, MemoryRevisions,
           PositionChanges
  <2>3. ReplacedInv /\ LessonInv
    BY DEF Init, ReplacedInv, LessonInv, LessonsDistinct, Active
  <2>4. VersionInv
    <3>1. ASSUME NEW q \in Taken
          PROVE  position[q].status # "absent" /\ position[q].version = 1
      BY <3>1 DEF Init, Taken
    <3>2. ASSUME NEW q \in Taken PROVE 1 <= Cardinality(Taken)
      <4>1. Taken \in SUBSET Positions /\ Taken \ {q} \in SUBSET Positions
        BY DEF Taken
      <4>2. (Taken \ {q}) \cup {q} = Taken /\ q \in Positions \ (Taken \ {q})
        BY DEF Taken
      <4>3. Cardinality(Taken) = Cardinality(Taken \ {q}) + 1
        BY <4>1, <4>2, Taking
      <4> QED
        BY <4>1, <4>3, Taking
    <3>3. Cardinality(Taken) \in Nat
      BY Taking DEF Taken
    <3> QED
      BY <3>1, <3>2, <3>3 DEF VersionInv
  <2>5. RestInv
    <3>1. NoPosition \in PositionRecords
      BY PositionsAssumption, FS_CardinalityType DEF NoPosition, PositionRecords
    <3> QED
      BY <3>1, SettingsAssumption DEF Init, RestInv, Idle
  <2> QED BY <2>1, <2>2, <2>3, <2>4, <2>5 DEF IInv
<1>2. IInv /\ [Next]_vars => IInv'
  BY TypesStep, CurrentStep, MovesStep, ReplacedStep, LessonStep, VersionStep, RestStep DEF IInv
<1> QED
  BY <1>1, <1>2, PTL DEF Spec

(* The type invariant; that a version never exceeds the number of positions rests on every
   revision being stored under an identity of its own. *)
THEOREM TypeCorrect == Spec => []TypeOK
<1>1. IInv => TypeOK
  <2> SUFFICES ASSUME IInv PROVE TypeOK
    OBVIOUS
  <2> USE DEF IInv
  <2>1. position \in [Positions -> PositionRecords]
    BY VersionsBounded DEF Types
  <2>2. \A q \in Positions : position[q].status = "absent" <=> position[q].version = 0
    BY VersionsBounded
  <2>3. \A p \in Procs : work[p].op # "none" => work[p].on \in Memories \cup Cands
    BY DEF Types, Works, Idle
  <2> QED
    BY <2>1, <2>2, <2>3 DEF TypeOK, Types, RestInv
<1> QED
  BY <1>1, Invariance, PTL

(* A memory that was superseded or expired stays so, for any number of commands about
   it (set_memory_status, promote_memory, materialize_memory_revision). *)
THEOREM MoveForwardTheorem == Spec => MemoriesMoveForward
<1> DEFINE Stays == \A m \in Memories :
                       memory[m] \in {"superseded", "expired"} => memory'[m] = memory[m]
<1>1. IInv /\ [Next]_vars => [Stays]_memory
  BY MovesStep DEF IInv, Moves
<1> QED
  BY <1>1, Invariance, PTL DEF Spec, MemoriesMoveForward

(* A memory is replaced once, for any number of revisions and promotions about it
   (materialize_memory_revision, promote_memory). *)
THEOREM ReplacedOnceTheorem == Spec => []ReplacedOnce
<1>1. IInv => ReplacedOnce
  BY DEF IInv, ReplacedInv, ReplacedOnce
<1> QED
  BY <1>1, Invariance, PTL

(* Two candidates never leave two active lessons with one content and the same sources
   (materialize_memory). *)
THEOREM LessonsDistinctTheorem == Spec => []LessonsDistinct
<1>1. IInv => LessonsDistinct
  BY DEF IInv, LessonInv
<1> QED
  BY <1>1, Invariance, PTL

(* A position that is integrated is the only active one, and no conflict is open
   (materialize_position and apply_position_integration). *)
THEOREM IntegratedAloneTheorem == Spec => IntegratedAlone
<1> DEFINE Alone == \A c \in Cands :
                       (made'[c] # made[c] /\ Does(c) \in {"establish", "revise"})
                           => ActivePositions' = {made'[c]} /\ ~conflict'
<1>1. ASSUME IInv, NEW p \in Procs, MaterializePositionCommit(p) PROVE Alone
  <2> DEFINE c == work[p].on
             q == work[p].with
  <2>1. /\ c \in Cands /\ q \in Positions
        /\ Does(c) = work[p].op /\ disposition[c] # "absent"
    BY <1>1 DEF IInv, MaterializePositionCommit, CommitsOn, Types, Works, Idle, TargetInv,
                MemoryRevisions, PositionChanges
  <2>2. /\ made' = [made EXCEPT ![c] = q] /\ made \in [Cands -> Memories \cup Positions \cup {None}]
        /\ position' = IntegratedPosition(c, q) /\ position \in [Positions -> Held]
        /\ UNCHANGED conflict
        /\ ~Blocked(position, conflict, target[c])
    BY <1>1 DEF IInv, MaterializePositionCommit, AdmitsPosition, Types
  <2>3. CASE Does(c) = "establish"
    <3>1. target[c] = None
      BY <1>1, <2>1, <2>3 DEF IInv, TargetInv
    <3>2. ActivePositions = {} /\ ~conflict
      BY <2>2, <3>1 DEF Blocked, ActivePositions
    <3>3. position' = [position EXCEPT ![q] = [status |-> "active", version |-> 1,
                                               supersedes |-> None]]
      BY <2>2, <2>3 DEF IntegratedPosition
    <3>4. ActivePositions' = {q}
      BY <2>1, <2>2, <3>2, <3>3 DEF ActivePositions
    <3> QED BY <2>1, <2>2, <3>2, <3>4
  <2>4. CASE Does(c) = "revise"
    <3>1. target[c] \in Positions /\ position[q] = NoPosition
      BY <1>1, <2>1, <2>4 DEF IInv, TargetInv, CurrentInv, Current, MaterializePositionCommit,
                              CommitsOn
    <3>2. /\ position[target[c]].status = "active" /\ ~conflict
          /\ \A r \in Positions : position[r].status = "active" => r = target[c]
      BY <1>1, <2>2, <2>4 DEF MaterializePositionCommit, AdmitsPosition, Blocked
    <3>3. q # target[c]
      BY <3>1, <3>2 DEF NoPosition
    <3>4. position' = Revised(q, target[c])
      BY <2>2, <2>4 DEF IntegratedPosition
    <3>5. \A r \in Positions : position'[r].status = "active" <=> r = q
      BY <2>1, <2>2, <3>1, <3>2, <3>3, <3>4 DEF Revised, Held
    <3> QED BY <2>1, <2>2, <3>2, <3>5 DEF ActivePositions
  <2>5. CASE Does(c) \notin {"establish", "revise"}
    BY <2>1, <2>2, <2>5
  <2> QED BY <2>3, <2>4, <2>5
<1>2. ASSUME IInv, NEW p \in Procs, MaterializeMemoryCommit(p) \/ ReviseCommit(p) PROVE Alone
  <2>1. Does(work[p].on) \notin {"establish", "revise"}
    BY <1>2 DEF IInv, MaterializeMemoryCommit, ReviseCommit, CommitsOn, TargetInv,
                MemoryRevisions, PositionChanges
  <2>2. \A d \in Cands : d # work[p].on => made'[d] = made[d]
    BY <1>2 DEF IInv, MaterializeMemoryCommit, ReviseCommit, Types
  <2> QED BY <2>1, <2>2
<1>3. ASSUME IInv, [Next]_vars PROVE [Alone]_made
  <2>1. ASSUME NEW p \in Procs, Command(p) \/ GiveUp(p) PROVE UNCHANGED made
    BY <2>1
       DEF Command, Create, PromoteLoad, RejectLoad, StatusLoad, RejectCommit, GiveUp, Decides,
           projection, integration
  <2>2. ASSUME NEW p \in Procs, Integrate(p) PROVE UNCHANGED made
    BY <2>2
       DEF Integrate, TransitionLoad, MaterializeMemoryLoad, ReviseLoad,
           MaterializePositionLoad, TransitionCommit, Decides, projection, integration
  <2>3. ASSUME NEW p \in Procs, IndexedCommit(p) PROVE [Alone]_made
    BY <1>1, <1>2, <1>3, <2>3 DEF IndexedCommit, PromoteCommit, StatusCommit, integration
  <2>4. Environment \/ OtherCommit \/ UNCHANGED vars => UNCHANGED made
    BY DEF Environment, Propose, ForegroundEstablishes, ForegroundRevises, ForegroundMaintains,
           ForegroundConflict, ForegroundChanges, OtherCommit, vars, projection, integration
  <2> QED
    BY <1>3, <2>1, <2>2, <2>3, <2>4 DEF Next
<1>4. IInv /\ [Next]_vars => [Alone]_made
  BY <1>3
<1> QED
  BY <1>4, Invariance, PTL DEF Spec, IntegratedAlone
=============================================================================

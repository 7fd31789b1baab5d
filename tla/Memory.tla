------------------------------- MODULE Memory -------------------------------
(***************************************************************************)
(* Memories and HEKATE's positions, and how they change: by commands of    *)
(* the user (RuntimeEngine::create_memory_candidate, promote_memory,       *)
(* reject_memory, set_memory_status), by the foreground engine, and by the *)
(* integration of candidates that Sleep proposed (MemoryIntegration:       *)
(* transition, materialize_memory, materialize_memory_revision,            *)
(* materialize_position).                                                  *)
(*                                                                         *)
(* Every command is a process that loads the projection, decides, and      *)
(* commits a batch.  All but reject_memory name the loaded revision as     *)
(* their base, so by Ledger.tla they commit if and only if nobody else     *)
(* committed in between: stale[p] says that somebody did.  What the        *)
(* projector checks when it applies a batch is part of the commit.         *)
(*                                                                         *)
(* The preferences are those of one user and the positions HEKATE's on one *)
(* subject: others do not meet in any check.  A memory goes by the name of *)
(* the memory candidate it was promoted from.                              *)
(***************************************************************************)
EXTENDS Naturals, FiniteSets

CONSTANTS
    Procs,      \* command invocations running against one database
    Memories,   \* memory (candidate) identities
    Kind,       \* Kind[m]: the kind of the memory that takes the identity m
    Positions,  \* position identities
    Cands,      \* integration candidate identities
    Content,    \* Content[c]: content and sources of the lesson c proposes
    Settings,   \* what the store holds and Sleep will propose, see Init
    None

ASSUME KindAssumption == Kind \in [Memories -> {"explicit", "inferred", "lesson"}]
ASSUME NoneAssumption == None \notin Memories \cup Positions \cup Cands
ASSUME PositionsAssumption == IsFiniteSet(Positions)
ASSUME SettingsAssumption == \A s \in Settings : s.foreground \in Nat

VARIABLES
    setting,     \* the member of Settings the behaviour started from
    \* the projection
    candidate,   \* candidate[m]: status of the memory candidate
    memory,      \* memory[m]: status of the memory promoted from it
    supersedes,  \* supersedes[m]: the memory m took the place of
    position,    \* position[q]: a position of HEKATE
    conflict,    \* whether a conflict about the subject is open
    disposition, \* disposition[c]: of an integration candidate
    target,      \* target[c]: the memory or position c proposes to change
    asof,        \* asof[c]: the target position and the obstacles c was proposed on
    made,        \* made[c]: what was materialized from c
    \* the processes
    work,        \* work[p]: what p is about to commit
    stale,       \* stale[p]: somebody committed since p's load
    left         \* foreground changes the bound still allows

memories == <<candidate, memory, supersedes>>
positions == <<position, conflict>>
integration == <<disposition, target, asof, made>>
projection == <<memories, positions, integration>>
vars == <<setting, projection, work, stale, left>>

Idle == [op |-> "none", on |-> None, with |-> None]

NoPosition == [status |-> "absent", version |-> 0, supersedes |-> None]

Existing == {m \in Memories : memory[m] # "absent"}
Active == {m \in Memories : memory[m] = "active"}
ActivePositions == {q \in Positions : position[q].status = "active"}

(* Identities no event has used yet. *)
Fresh == {m \in setting.memories : candidate[m] = "absent"}
FreshPositions == {q \in setting.positions : position[q] = NoPosition}

(* What the candidate c proposes: the kind and operation of its content. *)
Does(c) == setting.proposals[c]

MemoryRevisions == {"replace", "expire"}
PositionChanges == {"establish", "revise", "withdraw"}

PositionRecords ==
    [status: {"absent", "active", "superseded", "retracted"},
     version: 0..Cardinality(Positions),
     supersedes: Positions \cup {None}]

TypeOK ==
    /\ candidate \in [Memories -> {"absent", "candidate", "promoted", "rejected",
                                   "superseded", "expired"}]
    /\ memory \in [Memories -> {"absent", "active", "superseded", "expired"}]
    /\ supersedes \in [Memories -> Memories \cup {None}]
    /\ position \in [Positions -> PositionRecords]
    /\ \A q \in Positions : position[q].status = "absent" <=> position[q].version = 0
    /\ conflict \in BOOLEAN
    /\ disposition \in [Cands -> {"absent", "needs_validation", "verified", "rejected"}]
    /\ target \in [Cands -> Memories \cup Positions \cup {None}]
    /\ asof \in [Cands -> [target: PositionRecords, blocked: BOOLEAN]]
    /\ made \in [Cands -> Memories \cup Positions \cup {None}]
    /\ \A c \in Cands : made[c] # None => disposition[c] = "verified"
    /\ \A p \in Procs : work[p].op # "none" => work[p].on \in Memories \cup Cands
    /\ stale \in [Procs -> BOOLEAN]
    /\ left \in Nat

(* A store in which the known memories were promoted and the held positions
   established before. *)
Init ==
    /\ setting \in Settings
    /\ candidate = [m \in Memories |->
                       IF m \in setting.known THEN "promoted" ELSE "absent"]
    /\ memory = [m \in Memories |-> IF m \in setting.known THEN "active" ELSE "absent"]
    /\ supersedes = [m \in Memories |-> None]
    /\ position = [q \in Positions |->
                      IF q \in setting.held
                        THEN [status |-> "active", version |-> 1, supersedes |-> None]
                        ELSE NoPosition]
    /\ conflict = FALSE
    /\ disposition = [c \in Cands |-> "absent"]
    /\ target = [c \in Cands |-> None]
    /\ asof = [c \in Cands |-> [target |-> NoPosition, blocked |-> FALSE]]
    /\ made = [c \in Cands |-> None]
    /\ work = [p \in Procs |-> Idle]
    /\ stale = [p \in Procs |-> FALSE]
    /\ left = setting.foreground

-----------------------------------------------------------------------------
(* Everybody at work but p has an old load now. *)
Disturbs(p) == stale' = [q \in Procs |-> q # p /\ work[q] # Idle]

Ends(p) == work' = [work EXCEPT ![p] = Idle]

(* load_state, and a batch decided on from what it returned.  The setting bounds
   how many commands are at work at a time. *)
Decides(p, op, on, with) ==
    /\ work[p] = Idle
    /\ Cardinality({q \in Procs : work[q] # Idle}) < setting.parallel
    /\ work' = [work EXCEPT ![p] = [op |-> op, on |-> on, with |-> with]]
    /\ stale' = [stale EXCEPT ![p] = FALSE]
    /\ UNCHANGED <<setting, projection, left>>

(* A batch with an expected base revision is committed on an unmoved head. *)
CommitsOn(p, ops) ==
    /\ work[p].op \in ops
    /\ ~stale[p]
    /\ Disturbs(p)
    /\ Ends(p)
    /\ UNCHANGED <<setting, left>>

(* The same batch without an expected base revision. *)
CommitsBlindly(p, ops) ==
    /\ work[p].op \in ops
    /\ Disturbs(p)
    /\ Ends(p)
    /\ UNCHANGED <<setting, left>>

(* StaleRevision, a conflict inside record_batch, or the death of the process:
   the command ends without a trace and nothing retries. *)
GiveUp(p) ==
    /\ work[p] # Idle
    /\ Ends(p)
    /\ stale' = [stale EXCEPT ![p] = FALSE]
    /\ UNCHANGED <<setting, projection, left>>

-----------------------------------------------------------------------------
(* create_memory_candidate: an append without a base revision.  With `promote'
   promote_memory follows at once, with a load of its own. *)
Create(p, m) ==
    /\ work[p] = Idle
    /\ m \in Fresh \cap setting.authored
    /\ candidate' = [candidate EXCEPT ![m] = "candidate"]
    /\ Disturbs(p)
    /\ UNCHANGED <<setting, memory, supersedes, positions, integration, work, left>>

(* The inferred preference an explicit one takes the place of: one that is
   active, if there is any. *)
PreviousInferred(m) ==
    LET inferred == {n \in Active : Kind[n] = "inferred"}
    IN IF Kind[m] = "explicit" /\ inferred # {} THEN inferred ELSE {None}

PromoteLoad(p, m, previous) ==
    /\ candidate[m] = "candidate"
    /\ previous \in PreviousInferred(m)
    /\ Decides(p, "promote", m, previous)

(* The lifecycle events of a memory set the status of its candidate as well. *)
Become(m, s, c, old) == [n \in Memories |-> IF n = m THEN s ELSE
                                            IF n = c THEN "superseded" ELSE old[n]]

(* MemorySuperseded for the previous memory, if any, and MemoryPromoted. *)
PromoteCommit(p) ==
    LET m == work[p].on
        previous == work[p].with
    IN  /\ CommitsOn(p, {"promote"})
        /\ memory' = Become(m, "active", previous, memory)
        /\ candidate' = Become(m, "promoted", previous, candidate)
        /\ supersedes' = [supersedes EXCEPT ![m] = previous]
        /\ UNCHANGED <<positions, integration>>

RejectLoad(p, m) ==
    /\ candidate[m] = "candidate"
    /\ Decides(p, "reject", m, None)

(* MemoryRejected goes through append, which names no base revision, and the
   projector stores the candidate it carries without looking at the one there. *)
RejectCommit(p) ==
    /\ CommitsBlindly(p, {"reject"})
    /\ candidate' = [candidate EXCEPT ![work[p].on] = "rejected"]
    /\ UNCHANGED <<memory, supersedes, positions, integration>>

StatusLoad(p, m, s) ==
    /\ memory[m] = "active"
    /\ Decides(p, s, m, None)

(* Mutant of StatusCommit: set_memory_status without its base revision. *)
StatusCommitBlind(p) ==
    /\ CommitsBlindly(p, {"superseded", "expired"})
    /\ memory' = [memory EXCEPT ![work[p].on] = work[p].op]
    /\ candidate' = [candidate EXCEPT ![work[p].on] = work[p].op]
    /\ UNCHANGED <<supersedes, positions, integration>>

(* supersede_memory and expire_memory. *)
StatusCommit(p) ==
    /\ CommitsOn(p, {"superseded", "expired"})
    /\ memory' = [memory EXCEPT ![work[p].on] = work[p].op]
    /\ candidate' = [candidate EXCEPT ![work[p].on] = work[p].op]
    /\ UNCHANGED <<supersedes, positions, integration>>

-----------------------------------------------------------------------------
(* A final batch of the foreground engine changes HEKATE's position on the
   subject or a conflict about it.  Its own load cannot be old (Foreground). *)
ForegroundChanges ==
    /\ left > 0
    /\ left' = left - 1
    /\ stale' = [q \in Procs |-> work[q] # Idle]
    /\ UNCHANGED <<setting, memories, integration, work>>

(* validate_position_revision: a new position starts at version 1 and is active,
   whatever else is held on the subject ... *)
ForegroundEstablishes(q) ==
    /\ ForegroundChanges
    /\ q \in FreshPositions
    /\ position' = [position EXCEPT ![q] =
                       [status |-> "active", version |-> 1, supersedes |-> None]]
    /\ UNCHANGED conflict

(* ... a revision takes the place of an active one ... *)
Revised(q, prior) ==
    [position EXCEPT ![prior].status = "superseded",
                     ![q] = [status |-> "active", version |-> position[prior].version + 1,
                             supersedes |-> prior]]

ForegroundRevises(q, prior) ==
    /\ ForegroundChanges
    /\ q \in FreshPositions
    /\ prior \in ActivePositions
    /\ position' = Revised(q, prior)
    /\ UNCHANGED conflict

(* ... and a known one is stored again as active or retracted, whatever its
   status was. *)
ForegroundMaintains(q, s) ==
    /\ ForegroundChanges
    /\ position[q] # NoPosition
    /\ position' = [position EXCEPT ![q].status = s, ![q].supersedes = None]
    /\ UNCHANGED conflict

(* A conflict is opened, negotiated about, resolved or accepted. *)
ForegroundConflict ==
    /\ ForegroundChanges
    /\ conflict' = ~conflict
    /\ UNCHANGED position

-----------------------------------------------------------------------------
(* Mutant of Blocked: conflicts do not count. *)
BlockedByPositions(positionsNow, conflictNow, except) ==
    \E q \in Positions : positionsNow[q].status = "active" /\ q # except

(* position_integration_blocked: another active position on the subject, or an
   open conflict about it. *)
Blocked(positionsNow, conflictNow, except) ==
    \/ conflictNow
    \/ \E q \in Positions : positionsNow[q].status = "active" /\ q # except

(* validate_deliberation keeps a memory revision only if its target is active and
   no explicit preference; the target of a position change is whatever position the
   model names. *)
Proposable(c, t) ==
    CASE Does(c) \in MemoryRevisions -> t \in Active /\ Kind[t] # "explicit"
      [] Does(c) \in {"revise", "withdraw"} -> t \in Positions /\ position[t] # NoPosition
      [] OTHER -> t = None

(* Sleep completes with a candidate, made from the projection at its high-water
   revision. *)
Propose(c, t) ==
    /\ disposition[c] = "absent"
    /\ Does(c) # "nothing"
    /\ Proposable(c, t)
    /\ disposition' = [disposition EXCEPT ![c] = "needs_validation"]
    /\ target' = [target EXCEPT ![c] = t]
    /\ asof' = [asof EXCEPT ![c] =
                   IF Does(c) \in PositionChanges
                     THEN [target |-> IF t = None THEN NoPosition ELSE position[t],
                           blocked |-> Blocked(position, conflict, t)]
                     ELSE @]
    /\ stale' = [q \in Procs |-> work[q] # Idle]
    /\ UNCHANGED <<setting, memories, positions, made, work, left>>

(* Evidence a verifier names: an event, and the revision it is to be read at. *)
Evidence == [event: {"source", "counterevidence", "elsewhere"}, asof: {"seen", "later"}]

(* validate_integration_evidence: each is an event of the candidate's own
   provenance, no newer than the candidate. *)
WithinProvenance(e) == e.event # "elsewhere" /\ e.asof = "seen"

(* validate_candidate: at least one piece of evidence, and the same of each. *)
ValidEvidence(refs) == refs # {} /\ \A e \in refs : WithinProvenance(e)

(* default_evidence: every source and counterevidence at the candidate's revision. *)
DefaultEvidence == {[event |-> e, asof |-> "seen"] : e \in {"source", "counterevidence"}}

(* memory_revision_plan: the target is active, not an explicit preference, and
   no event has touched it since the candidate's revision.  A memory leaves
   "active" for good, so being active says that nothing happened to it. *)
MemoryRevisionPlan(c) ==
    /\ memory[target[c]] = "active"
    /\ Kind[target[c]] # "explicit"

(* prior_position and validate_position_base: the position is as it was at the
   candidate's revision. *)
Unchanged(c) == position[target[c]] = asof[c].target

(* position_plan: nothing blocked the change when it was proposed or does now,
   and the prior position is active and the very one the proposal was made on. *)
PositionPlan(c) ==
    /\ ~asof[c].blocked
    /\ ~Blocked(position, conflict, target[c])
    /\ Does(c) # "establish" =>
           /\ Unchanged(c)
           /\ position[target[c]].status = "active"

(* transition: a candidate that needs validation, evidence, and for a verdict of
   "verified" a plan that could be carried out now. *)
TransitionLoad(p, c, verdict, refs) ==
    /\ disposition[c] = "needs_validation"
    /\ ValidEvidence(refs)
    /\ verdict = "verified" =>
           /\ Does(c) \in MemoryRevisions => MemoryRevisionPlan(c)
           /\ Does(c) \in PositionChanges => PositionPlan(c)
    /\ Decides(p, verdict, c, None)

(* IntegrationCandidateVerified or Rejected, as apply_integration_transition
   admits it. *)
TransitionCommit(p) ==
    /\ CommitsOn(p, {"verified", "rejected"})
    /\ disposition[work[p].on] = "needs_validation"
    /\ disposition' = [disposition EXCEPT ![work[p].on] = work[p].op]
    /\ UNCHANGED <<memories, positions, target, asof, made>>

-----------------------------------------------------------------------------
(* Candidates that may be materialized: verified, and not materialized yet. *)
Materializable(c) == disposition[c] = "verified" /\ made[c] = None

(* An active lesson with the content and the sources of c. *)
KnownLesson(c) ==
    \E d \in Cands : /\ Does(d) = "lesson"
                     /\ Content[d] = Content[c]
                     /\ made[d] \in Active

(* materialize_memory for a candidate of kind Memory. *)
MaterializeMemoryLoad(p, c, m) ==
    /\ Does(c) = "lesson"
    /\ Materializable(c)
    /\ ~KnownLesson(c)
    /\ m \in Fresh /\ Kind[m] = "lesson"
    /\ Decides(p, "lesson", c, m)

(* The lifecycle events of a lesson: its candidate and the memory promoted from it. *)
Learn(m) ==
    /\ memory' = [memory EXCEPT ![m] = "active"]
    /\ candidate' = [candidate EXCEPT ![m] = "promoted"]

(* Mutant of MaterializeMemoryCommit: the batch names no base revision. *)
MaterializeMemoryCommitBlind(p) ==
    LET c == work[p].on
        m == work[p].with
    IN  /\ CommitsBlindly(p, {"lesson"})
        /\ Materializable(c)
        /\ Learn(m)
        /\ made' = [made EXCEPT ![c] = m]
        /\ UNCHANGED <<supersedes, positions, disposition, target, asof>>

(* MemoryCandidateCreated, MemoryPromoted and IntegrationCandidateMaterialized,
   as apply_integration_materialization admits them. *)
MaterializeMemoryCommit(p) ==
    LET c == work[p].on
        m == work[p].with
    IN  /\ CommitsOn(p, {"lesson"})
        /\ Materializable(c)
        /\ Learn(m)
        /\ made' = [made EXCEPT ![c] = m]
        /\ UNCHANGED <<supersedes, positions, disposition, target, asof>>

(* materialize_memory_revision: the plan is made again on the loaded state. *)
ReviseLoad(p, c, m) ==
    /\ Does(c) \in MemoryRevisions
    /\ Materializable(c)
    /\ MemoryRevisionPlan(c)
    /\ IF Does(c) = "replace"
         THEN m \in Fresh /\ Kind[m] = Kind[target[c]]
         ELSE m = None
    /\ Decides(p, Does(c), c, m)

(* The lifecycle events of a revision: the target steps down, a replacement
   takes its place. *)
Revise(c, m) ==
    LET t == target[c]
        s == IF Does(c) = "replace" THEN "superseded" ELSE "expired"
        Stored(old, new) == [n \in Memories |-> CASE n = t -> s
                                                  [] n = m -> new
                                                  [] OTHER -> old[n]]
    IN  /\ memory' = Stored(memory, "active")
        /\ candidate' = Stored(candidate, "promoted")
        /\ supersedes' = [n \in Memories |-> IF n = m THEN t ELSE supersedes[n]]

(* Mutant of ReviseCommit: the batch names no base revision. *)
ReviseCommitBlind(p) ==
    LET c == work[p].on
        m == work[p].with
    IN  /\ CommitsBlindly(p, MemoryRevisions)
        /\ Materializable(c)
        /\ Revise(c, m)
        /\ made' = [made EXCEPT ![c] = IF m = None THEN target[c] ELSE m]
        /\ UNCHANGED <<positions, disposition, target, asof>>

(* [MemoryCandidateCreated,] MemorySuperseded or MemoryExpired, [MemoryPromoted,]
   MemoryRevisionMaterialized, as apply_memory_revision_materialization admits
   them: it sees the target after the batch has changed it. *)
ReviseCommit(p) ==
    LET c == work[p].on
        m == work[p].with
    IN  /\ CommitsOn(p, MemoryRevisions)
        /\ Materializable(c)
        /\ Revise(c, m)
        /\ made' = [made EXCEPT ![c] = IF m = None THEN target[c] ELSE m]
        /\ UNCHANGED <<positions, disposition, target, asof>>

(* materialize_position: the plan is made again on the loaded state. *)
MaterializePositionLoad(p, c, q) ==
    /\ Does(c) \in PositionChanges
    /\ Materializable(c)
    /\ PositionPlan(c)
    /\ IF Does(c) = "withdraw" THEN q = target[c] ELSE q \in FreshPositions
    /\ Decides(p, Does(c), c, q)

(* apply_position_integration looks at the projection it applies the event to. *)
AdmitsPosition(c) ==
    /\ Materializable(c)
    /\ ~Blocked(position, conflict, target[c])
    /\ Does(c) # "establish" =>
           /\ Unchanged(c)
           /\ position[target[c]].status = "active"

(* Mutant of IntegratedPosition: an established position starts at version 0. *)
IntegratedPositionUnversioned(c, q) ==
    CASE Does(c) = "establish" ->
            [position EXCEPT ![q] = [status |-> "active", version |-> 0, supersedes |-> None]]
      [] Does(c) = "revise" -> Revised(q, target[c])
      [] OTHER -> [position EXCEPT ![q].status = "retracted"]

(* The position a proposal leads to. *)
IntegratedPosition(c, q) ==
    CASE Does(c) = "establish" ->
            [position EXCEPT ![q] = [status |-> "active", version |-> 1, supersedes |-> None]]
      [] Does(c) = "revise" -> Revised(q, target[c])
      [] OTHER -> [position EXCEPT ![q].status = "retracted"]

(* One PositionEstablished, PositionRevised or PositionRetracted event that
   carries its materialization. *)
MaterializePositionCommit(p) ==
    LET c == work[p].on
        q == work[p].with
    IN  /\ CommitsOn(p, PositionChanges)
        /\ AdmitsPosition(c)
        /\ position' = IntegratedPosition(c, q)
        /\ made' = [made EXCEPT ![c] = q]
        /\ UNCHANGED <<conflict, memories, disposition, target, asof>>

-----------------------------------------------------------------------------
(* The commits that are followed by index_best_effort. *)
IndexedCommit(p) ==
    \/ PromoteCommit(p)
    \/ StatusCommit(p)
    \/ MaterializeMemoryCommit(p)
    \/ ReviseCommit(p)
    \/ MaterializePositionCommit(p)

Command(p) ==
    \/ \E m \in Memories :
        \/ Create(p, m)
        \/ \E previous \in Memories \cup {None} : PromoteLoad(p, m, previous)
        \/ RejectLoad(p, m)
        \/ \E s \in {"superseded", "expired"} : StatusLoad(p, m, s)
    \/ RejectCommit(p)

Integrate(p) ==
    \/ \E c \in Cands :
        \/ \E verdict \in {"verified", "rejected"},
              refs \in {DefaultEvidence} \cup {{e} : e \in Evidence} :
              TransitionLoad(p, c, verdict, refs)
        \/ \E m \in Memories : MaterializeMemoryLoad(p, c, m)
        \/ \E m \in Memories \cup {None} : ReviseLoad(p, c, m)
        \/ \E q \in Positions : MaterializePositionLoad(p, c, q)
    \/ TransitionCommit(p)

(* Any other commit of the system: a message, a Sleep run, an initiative. *)
OtherCommit ==
    /\ stale' = [q \in Procs |-> work[q] # Idle]
    /\ UNCHANGED <<setting, projection, work, left>>

Environment ==
    \/ \E c \in Cands, t \in Memories \cup Positions \cup {None} : Propose(c, t)
    \/ \E q \in Positions : ForegroundEstablishes(q)
    \/ \E q, prior \in Positions : ForegroundRevises(q, prior)
    \/ \E q \in Positions, s \in {"active", "retracted"} : ForegroundMaintains(q, s)
    \/ ForegroundConflict

Next ==
    \/ \E p \in Procs : Command(p) \/ Integrate(p) \/ IndexedCommit(p) \/ GiveUp(p)
    \/ Environment
    \/ OtherCommit

Spec == Init /\ [][Next]_vars

-----------------------------------------------------------------------------
(* A memory is replaced once: of two revisions of one memory, or a revision and
   a promotion that supersedes it, a single one takes its place, and what was
   replaced is not active any more (materialize_memory_revision, promote_memory). *)
ReplacedOnce ==
    \A m, n \in Memories :
        /\ supersedes[m] = n => memory[n] # "active"
        /\ supersedes[m] # None /\ supersedes[m] = supersedes[n] => m = n

(* Two candidates that propose the same lesson from the same sources never leave
   two active lessons (materialize_memory). *)
LessonsDistinct ==
    \A c, d \in Cands :
        (/\ c # d
         /\ Does(c) = "lesson" /\ Does(d) = "lesson"
         /\ Content[c] = Content[d]) => ~(made[c] \in Active /\ made[d] \in Active)

(* A memory that was superseded or expired stays so, with the status it got,
   whatever commands about it are under way (set_memory_status, promote_memory,
   materialize_memory_revision). *)
MemoriesMoveForward ==
    [][\A m \in Memories :
           memory[m] \in {"superseded", "expired"} => memory'[m] = memory[m]]_memory

(* A position that is integrated is the only active one on its subject, and no
   conflict about it is open, although the foreground engine changes both at
   any time after the verification (materialize_position). *)
IntegratedAlone ==
    [][\A c \in Cands :
           (made'[c] # made[c] /\ Does(c) \in {"establish", "revise"})
               => ActivePositions' = {made'[c]} /\ ~conflict']_made

-----------------------------------------------------------------------------
(* docs/invariants.md: promotion is explicit; rejection does not activate recall.
   A memory whose candidate stands rejected is not active. *)
RejectedStaysInactive ==
    \A m \in Memories : candidate[m] = "rejected" => memory[m] # "active"
=============================================================================

----------------------------- MODULE Completion -----------------------------
(***************************************************************************)
(* The completion gate of tasks (runtime/completion.rs): criteria, claims  *)
(* with evidence for them, verdicts on the claims, and the completion of a *)
(* task once the gate is open.  The gate also looks at the operations and  *)
(* approvals of Operations.tla, which change beside it: their processes    *)
(* and the commands of the gate run against one ledger.                    *)
(*                                                                         *)
(* All commands here name the revision they loaded as their base; by       *)
(* Ledger.tla they commit if and only if nobody committed since, and       *)
(* old[c] says that somebody did.                                          *)
(*                                                                         *)
(* Evidence names sources: events of whatever kind, or artifacts with the  *)
(* event that created them.  Any commit may record one.  Sequence numbers  *)
(* count the sources: a comparison of the code has the outcome it has here.*)
(***************************************************************************)
EXTENDS Operations

CONSTANTS
    Clerks,    \* commands of the completion gate running against the database
    Tasks,
    Criteria,
    TaskOf,    \* TaskOf[k]: the task of the criterion k
    Sources,   \* events and artifacts that evidence may name
    Artifacts, \* the artifacts among them
    Offers,    \* the (normalized) lists of references claims are made with
    None

(* EvidenceRef: what it names, whether source_hash (and for an artifact the event)
   is that of the source, and the sequence it was read at. *)
References == [source: Sources, genuine: BOOLEAN, asof: Nat]

ASSUME CriteriaAssumption == TaskOf \in [Criteria -> Tasks]
ASSUME OffersAssumption == \A e \in Offers : e \subseteq References

VARIABLES
    \* the ledger
    head,      \* number of sources recorded
    seq,       \* seq[s]: sequence of the source s, or 0
    \* the projection
    task,      \* task[t]: status of the task
    criterion, \* criterion[k]: whether k is defined, and as what
    claim,     \* claim[k][e]: disposition of the claim with the evidence e for k
    asof,      \* asof[k][e]: the revision it was made on
    blocker,   \* the claims that name a blocker
    latest,    \* latest[k]: evidence of the last claim created for k, or None
    \* the commands
    work,      \* work[c]: what c is about to do
    old        \* old[c]: somebody committed since c's load

sources == <<head, seq>>
gate == <<task, criterion, claim, asof, blocker, latest>>
completionVars == <<vars, sources, gate, work, old>>

Claims == Criteria \X Offers
Idle == [does |-> "none"]

CompletionTypeOK ==
    /\ TypeOK
    /\ head \in Nat
    /\ seq \in [Sources -> 0..head]
    /\ task \in [Tasks -> {"in_progress", "completed"}]
    /\ criterion \in [Criteria -> {"absent", "required", "optional"}]
    /\ claim \in [Criteria -> [Offers ->
                     {"absent", "needs_validation", "verified", "rejected"}]]
    /\ asof \in [Criteria -> [Offers -> Nat]]
    /\ blocker \subseteq Claims
    /\ latest \in [Criteria -> Offers \cup {None}]
    /\ old \in [Clerks -> BOOLEAN]

CompletionInit ==
    /\ Init
    /\ head = 0
    /\ seq = [s \in Sources |-> 0]
    /\ task = [t \in Tasks |-> "in_progress"]
    /\ criterion = [k \in Criteria |-> "absent"]
    /\ claim = [k \in Criteria |-> [e \in Offers |-> "absent"]]
    /\ asof = [k \in Criteria |-> [e \in Offers |-> 0]]
    /\ blocker = {}
    /\ latest = [k \in Criteria |-> None]
    /\ work = [c \in Clerks |-> Idle]
    /\ old = [c \in Clerks |-> FALSE]

-----------------------------------------------------------------------------
Ages == old' = [c \in Clerks |-> work[c] # Idle]

(* What a commit may do to the sources: an event it records may be one. *)
Grows ==
    \/ UNCHANGED sources
    \/ \E s \in Sources :
          /\ seq[s] = 0
          /\ head' = head + 1
          /\ seq' = [seq EXCEPT ![s] = head + 1]

(* An operation or an approval changes, or a command about one takes a step that
   is no commit. *)
OperationsStep ==
    /\ Next
    /\ IF projection' # projection \/ stale' = [p \in Procs |-> TRUE]
         THEN Ages /\ Grows
         ELSE UNCHANGED <<old, sources>>
    /\ UNCHANGED <<gate, work>>

(* load_state, and a record decided on from what it returned. *)
Decides(c, record) ==
    /\ work[c] = Idle
    /\ work' = [work EXCEPT ![c] = record]
    /\ old' = [old EXCEPT ![c] = FALSE]
    /\ UNCHANGED <<vars, sources, gate>>

(* The batch is committed on an unmoved head. *)
Enters(c) ==
    /\ work' = [work EXCEPT ![c] = Idle]
    /\ old' = [d \in Clerks |-> d # c /\ work[d] # Idle]
    /\ OtherCommit
    /\ Grows

CommitsOn(c, kind) ==
    /\ work[c].does = kind
    /\ ~old[c]
    /\ Enters(c)

(* An error on the way, StaleRevision, or the death of the process. *)
GivesUp(c) ==
    /\ work[c] # Idle
    /\ work' = [work EXCEPT ![c] = Idle]
    /\ old' = [old EXCEPT ![c] = FALSE]
    /\ UNCHANGED <<vars, sources, gate>>

-----------------------------------------------------------------------------
(* ensure_criterion: the criterion is one of the task's. *)
Known(k) == criterion[k] # "absent"

(* define_criterion, also for a task that is completed. *)
DefineLoad(c, k, as) ==
    /\ criterion[k] = "absent"
    /\ Decides(c, [does |-> "define", k |-> k, as |-> as])

DefineCommit(c) ==
    /\ CommitsOn(c, "define")
    /\ criterion' = [criterion EXCEPT ![work[c].k] = work[c].as]
    /\ UNCHANGED <<task, claim, asof, blocker, latest>>

(* Mutant of ValidEvidence: the hash of an event is not compared. *)
ValidEvidenceUnhashed(e, base) ==
    \A r \in e :
        /\ r.source \in Artifacts => r.genuine
        /\ seq[r.source] \in 1..r.asof
        /\ r.asof <= base

(* validate_evidence_refs, of a claim made on the revision base: the source was in
   the ledger when it was read and that before the claim, and the hash is its own. *)
ValidEvidence(e, base) ==
    \A r \in e :
        /\ r.genuine
        /\ seq[r.source] \in 1..r.asof
        /\ r.asof <= base

(* validate_evidence_ref, the projector's: it compares the hash of artifacts only, and
   a source with the claim but not with the sequence it was read at. *)
AppliedEvidence(e, base) ==
    \A r \in e :
        /\ r.source \in Artifacts => r.genuine
        /\ seq[r.source] \in 1..base
        /\ r.asof <= base

(* completion_fingerprint leaves out when the sources were read. *)
Fingerprint(e) == {<<r.source, r.genuine>> : r \in e}

(* A claim with the fingerprint of e exists for k. *)
Claimed(k, e) ==
    \E f \in Offers : claim[k][f] # "absent" /\ Fingerprint(f) = Fingerprint(e)

(* create_claim: load_state ... *)
ClaimLoad(c, k) ==
    /\ Known(k)
    /\ Decides(c, [does |-> "cite", k |-> k, asof |-> head])

(* ... and load_events, which may return events the loaded state does not know.  (The
   fingerprints are those of the loaded state: others are met with a moved head.) *)
ClaimCheck(c, e, blocked) ==
    /\ work[c].does = "cite"
    /\ ValidEvidence(e, work[c].asof)
    /\ ~Claimed(work[c].k, e)
    /\ work' = [work EXCEPT ![c] = [does |-> "claim", k |-> work[c].k, e |-> e,
                                    asof |-> work[c].asof, blocked |-> blocked]]
    /\ UNCHANGED <<vars, sources, gate, old>>

(* apply_claim_created, which checks the claim again. *)
ClaimCommit(c) ==
    LET k == work[c].k
        e == work[c].e
    IN  /\ CommitsOn(c, "claim")
        /\ Known(k)
        /\ work[c].asof <= head
        /\ AppliedEvidence(e, work[c].asof)
        /\ ~Claimed(k, e)
        /\ claim' = [claim EXCEPT ![k][e] = "needs_validation"]
        /\ asof' = [asof EXCEPT ![k][e] = work[c].asof]
        /\ blocker' = IF work[c].blocked THEN blocker \cup {<<k, e>>} ELSE blocker
        /\ latest' = [latest EXCEPT ![k] = e]
        /\ UNCHANGED <<task, criterion>>

(* A claim that may be verified rests on evidence and names no blocker. *)
Verifiable(k, e) == e # {} /\ <<k, e>> \notin blocker

(* verify_claim and reject_claim: transition_claim.  Its two reads are one here: what
   was valid evidence of a claim stays so. *)
VerdictLoad(c, k, e, verdict) ==
    /\ claim[k][e] = "needs_validation"
    /\ verdict = "verified" => Verifiable(k, e)
    /\ ValidEvidence(e, asof[k][e])
    /\ Decides(c, [does |-> "verdict", k |-> k, e |-> e, verdict |-> verdict])

(* Mutant of VerdictCommit: the event's verdict is taken on any head, whatever the
   claim has become. *)
VerdictCommitBlind(c) ==
    /\ work[c].does = "verdict"
    /\ Enters(c)
    /\ claim' = [claim EXCEPT ![work[c].k][work[c].e] = work[c].verdict]
    /\ UNCHANGED <<task, criterion, asof, blocker, latest>>

(* apply_claim_transition. *)
VerdictCommit(c) ==
    /\ CommitsOn(c, "verdict")
    /\ claim[work[c].k][work[c].e] = "needs_validation"
    /\ work[c].verdict = "verified" => Verifiable(work[c].k, work[c].e)
    /\ claim' = [claim EXCEPT ![work[c].k][work[c].e] = work[c].verdict]
    /\ UNCHANGED <<task, criterion, asof, blocker, latest>>

-----------------------------------------------------------------------------
(* evaluate_task_completion_in, for one required criterion ... *)
Met(k) ==
    /\ latest[k] # None
    /\ claim[k][latest[k]] = "verified"
    /\ <<k, latest[k]>> \notin blocker
    /\ latest[k] # {}
    /\ ValidEvidence(latest[k], asof[k][latest[k]])

(* ... and for the task: no approval is pending and no effect unknown, of whatever
   task. *)
Ready(t) ==
    /\ \A k \in Criteria : TaskOf[k] = t /\ criterion[k] = "required" => Met(k)
    /\ \A o \in Ops : approval[o] # "pending" /\ status[o] \notin {"started", "unknown"}

(* The caller's look at the head: --complete-task takes the revision it completes
   the task on from engine.state(). *)
CompleteLook(c, t) == Decides(c, [does |-> "look", t |-> t])

(* complete_task: load_events and replay; a completed task is left alone, another
   revision is refused, and so is a gate that is not Ready. *)
CompleteLoad(c) ==
    /\ work[c].does = "look"
    /\ ~old[c]
    /\ task[work[c].t] = "in_progress"
    /\ Ready(work[c].t)
    /\ work' = [work EXCEPT ![c].does = "complete"]
    /\ UNCHANGED <<vars, sources, gate, old>>

(* Mutant of CompleteCommit: the batch names no base revision. *)
CompleteCommitBlind(c) ==
    /\ work[c].does = "complete"
    /\ Enters(c)
    /\ task[work[c].t] = "in_progress"
    /\ task' = [task EXCEPT ![work[c].t] = "completed"]
    /\ UNCHANGED <<criterion, claim, asof, blocker, latest>>

(* TaskCompleted; apply_task_completion looks at the task and not at the gate. *)
CompleteCommit(c) ==
    /\ CommitsOn(c, "complete")
    /\ task[work[c].t] = "in_progress"
    /\ task' = [task EXCEPT ![work[c].t] = "completed"]
    /\ UNCHANGED <<criterion, claim, asof, blocker, latest>>

Clerk(c) ==
    \/ \E k \in Criteria, as \in {"required", "optional"} : DefineLoad(c, k, as)
    \/ DefineCommit(c)
    \/ \E k \in Criteria : ClaimLoad(c, k)
    \/ \E e \in Offers, blocked \in BOOLEAN : ClaimCheck(c, e, blocked)
    \/ ClaimCommit(c)
    \/ \E k \in Criteria, e \in Offers, verdict \in {"verified", "rejected"} :
          VerdictLoad(c, k, e, verdict)
    \/ VerdictCommit(c)
    \/ \E t \in Tasks : CompleteLook(c, t)
    \/ CompleteLoad(c)
    \/ CompleteCommit(c)
    \/ GivesUp(c)

CompletionNext == OperationsStep \/ \E c \in Clerks : Clerk(c)

CompletionSpec == CompletionInit /\ [][CompletionNext]_completionVars

-----------------------------------------------------------------------------
(* docs/state-machines.md: the gate requires every required criterion's latest
   claim to be verified with valid evidence and blocks pending approvals or unknown
   operations.  All of it still holds in the state the completion is committed to,
   although claims, verdicts, approvals and operations come between the evaluation
   and the commit (complete_task; apply_task_completion does not look again). *)
CompletedOnAnOpenGate ==
    [][\A t \in Tasks : task'[t] # task[t] =>
          /\ \A k \in Criteria :
                TaskOf[k] = t /\ criterion[k] = "required"
                    => latest[k] # None /\ claim[k][latest[k]] = "verified"
          /\ \A o \in Ops : approval[o] # "pending" /\ status[o] \notin {"started", "unknown"}]_task

(* docs/state-machines.md: terminal dispositions cannot be reopened.  Of two verdicts
   given on one claim at the same time the second is refused, and so is a second claim
   by the same evidence, read at whatever sequence, that another command creates
   meanwhile (transition_claim and apply_claim_transition; DuplicateFingerprint in
   create_claim and apply_claim_created). *)
JudgedOnce ==
    [][\A k \in Criteria, e, f \in Offers :
          /\ claim[k][e] \in {"verified", "rejected"}
          /\ Fingerprint(f) = Fingerprint(e)
          => claim'[k][f] = claim[k][f]]_claim

(* docs/invariants.md: verified claims have ledger provenance, a valid as-of sequence
   and no blocker.  Whatever is recorded between the two reads of create_claim, the
   commit and the verdict, each of its sources was in the ledger when it was read and
   that before the claim, under its own hash, which the projector does not compare
   (validate_evidence_refs, validate_evidence_ref, transition_claim). *)
VerifiedWithProvenance ==
    \A k \in Criteria, e \in Offers :
        claim[k][e] = "verified" =>
            /\ e # {} /\ <<k, e>> \notin blocker
            /\ asof[k][e] <= head
            /\ \A r \in e : r.genuine /\ seq[r.source] \in 1..r.asof /\ r.asof <= asof[k][e]
=============================================================================

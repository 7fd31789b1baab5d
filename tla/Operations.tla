----------------------------- MODULE Operations -----------------------------
(***************************************************************************)
(* Action intents after they have been decided on: an operation is planned,*)
(* possibly put up for approval, resolved by the user and executed through *)
(* a capability (RuntimeEngine::resolve_approval and execute_operation).   *)
(* Each of these is a command of its own process; nothing but the ledger   *)
(* coordinates them, and execute_operation holds no lease.                 *)
(*                                                                         *)
(* Every record goes through Projector::record_batch.  Ledger.tla proves   *)
(* that it takes effect if and only if nobody committed since the load it  *)
(* relies on, so a process only needs to know whether it is stale: whether *)
(* somebody committed since its load.                                      *)
(***************************************************************************)
EXTENDS Naturals, FiniteSets

CONSTANTS
    Procs,     \* command invocations running against one database
    Ops,       \* operation identities
    Guarded,   \* operations whose intent the policy puts under approval
    MayCrash,  \* whether a process may be killed
    MaxRuns    \* bound on the counted capability runs of one operation

ASSUME ProcsAssumption == IsFiniteSet(Procs)
ASSUME GuardedAssumption == Guarded \subseteq Ops
ASSUME CrashAssumption == MayCrash \in BOOLEAN
ASSUME RunsAssumption == MaxRuns \in Nat \ {0}

VARIABLES
    \* the projection
    status,     \* status[o]: the operation's status
    approval,   \* approval[o]: its approval request
    receipts,   \* receipts[o]: receipts recorded for it
    \* the processes
    pc,         \* pc[p]: what p does next
    op,         \* op[p]: the operation it was called for
    loaded,     \* loaded[p]: p is inside record_batch, past its load_state
    stale,      \* stale[p]: somebody committed since the load p relies on
    result,     \* result[p]: what p has in hand to record
    \* the world and the history the properties talk about
    runs,       \* runs[o]: how often the capability was invoked for o
    overlap     \* operations whose execution two processes entered together

projection == <<status, approval, receipts>>
locals == <<pc, op, loaded, stale, result>>
history == <<runs, overlap>>
vars == <<projection, locals, history>>

Statuses == {"absent", "planned", "authorized", "started", "verified",
             "failed", "unknown"}

(* CapabilityResult.verified, not verified, OutcomeUnknown, any other error. *)
Outcomes == {"verified", "unverified", "outcome_unknown", "error"}

Executing == {"authorize", "start", "invoke", "outcome"}

TypeOK ==
    /\ status \in [Ops -> Statuses]
    /\ approval \in [Ops -> {"none", "pending", "approved", "denied"}]
    /\ receipts \in [Ops -> Nat]
    /\ pc \in [Procs -> {"idle", "resolve"} \cup Executing]
    /\ op \in [Procs -> Ops]
    /\ loaded \in [Procs -> BOOLEAN]
    /\ stale \in [Procs -> BOOLEAN]
    /\ result \in [Procs -> {"approve", "deny"} \cup Outcomes]
    /\ runs \in [Ops -> 0..MaxRuns]
    /\ overlap \subseteq Ops

Init ==
    /\ status = [o \in Ops |-> "absent"]
    /\ approval = [o \in Ops |-> "none"]
    /\ receipts = [o \in Ops |-> 0]
    /\ pc = [p \in Procs |-> "idle"]
    /\ op \in [Procs -> Ops]
    /\ loaded = [p \in Procs |-> FALSE]
    /\ stale = [p \in Procs |-> FALSE]
    /\ result = [p \in Procs |-> "error"]
    /\ runs = [o \in Ops |-> 0]
    /\ overlap = {}

-----------------------------------------------------------------------------
(* A commit makes every other process's load old. *)
Commits(p) == stale' = [q \in Procs |-> IF q = p THEN FALSE ELSE TRUE]

Leaves(p) ==
    /\ pc' = [pc EXCEPT ![p] = "idle"]
    /\ loaded' = [loaded EXCEPT ![p] = FALSE]

(* The foreground engine commits a decision that plans o. *)
Plan(o) ==
    /\ status[o] = "absent"
    /\ status' = [status EXCEPT ![o] = "planned"]
    /\ approval' = [approval EXCEPT ![o] = IF o \in Guarded THEN "pending" ELSE "none"]
    /\ stale' = [p \in Procs |-> TRUE]
    /\ UNCHANGED <<receipts, pc, op, loaded, result, history>>

(* Any other commit of the system: a message, a Sleep run, an initiative. *)
OtherCommit ==
    /\ stale' = [p \in Procs |-> TRUE]
    /\ UNCHANGED <<projection, pc, op, loaded, result, history>>

-----------------------------------------------------------------------------
(* resolve_approval: load, require a pending approval and a legal transition. *)
ResolveLoad(p, o, verdict) ==
    /\ pc[p] = "idle"
    /\ approval[o] = "pending"
    /\ status[o] \in IF verdict = "approve"
                       THEN {"planned"}
                       ELSE {"planned", "authorized", "started", "unknown"}
    /\ pc' = [pc EXCEPT ![p] = "resolve"]
    /\ op' = [op EXCEPT ![p] = o]
    /\ result' = [result EXCEPT ![p] = verdict]
    /\ stale' = [stale EXCEPT ![p] = FALSE]
    /\ UNCHANGED <<projection, loaded, history>>

(* Mutant of ResolveCommit: record_batch without the expected base revision. *)
ResolveCommitBlind(p) ==
    /\ pc[p] = "resolve"
    /\ approval' = [approval EXCEPT ![op[p]] =
                        IF result[p] = "approve" THEN "approved" ELSE "denied"]
    /\ status' = [status EXCEPT ![op[p]] =
                      IF result[p] = "approve" THEN "authorized" ELSE "failed"]
    /\ Commits(p)
    /\ Leaves(p)
    /\ UNCHANGED <<receipts, op, result, history>>

(* resolve_approval: ApprovalResolved and the operation's new status in one batch
   with the loaded revision as expected base. *)
ResolveCommit(p) ==
    /\ pc[p] = "resolve"
    /\ IF stale[p]
         THEN UNCHANGED <<approval, status, stale>>
         ELSE /\ approval' = [approval EXCEPT ![op[p]] =
                                IF result[p] = "approve" THEN "approved" ELSE "denied"]
              /\ status' = [status EXCEPT ![op[p]] =
                                IF result[p] = "approve" THEN "authorized" ELSE "failed"]
              /\ Commits(p)
    /\ Leaves(p)
    /\ UNCHANGED <<receipts, op, result, history>>

-----------------------------------------------------------------------------
(* Mutant of MayExecute: Started and Unknown operations are taken up again. *)
MayExecuteAgain(o) ==
    /\ status[o] \in {"planned", "authorized", "started", "unknown"}
    /\ o \in Guarded => approval[o] = "approved"

(* Mutant of MayExecute: the approval is not looked at. *)
MayExecuteUnapproved(o) == status[o] \in {"planned", "authorized"}

(* execute_operation's checks: finished operations answer with their receipt,
   Started and Unknown ones with an error; a guarded one needs its approval. *)
MayExecute(o) ==
    /\ status[o] \in {"planned", "authorized"}
    /\ o \in Guarded => approval[o] = "approved"

(* execute_operation: load_state and the checks. *)
ExecuteLoad(p, o) ==
    /\ pc[p] = "idle"
    /\ MayExecute(o)
    /\ pc' = [pc EXCEPT ![p] = IF status[o] = "planned" THEN "authorize" ELSE "start"]
    /\ op' = [op EXCEPT ![p] = o]
    /\ overlap' = IF \E q \in Procs : pc[q] \in Executing /\ op[q] = o
                    THEN overlap \cup {o}
                    ELSE overlap
    /\ UNCHANGED <<projection, loaded, stale, result, runs>>

(* record_batch without an expected revision: its own load_state. *)
RecordLoad(p) ==
    /\ pc[p] \in {"authorize", "start", "outcome"}
    /\ ~loaded[p]
    /\ loaded' = [loaded EXCEPT ![p] = TRUE]
    /\ stale' = [stale EXCEPT ![p] = FALSE]
    /\ UNCHANGED <<projection, pc, op, result, history>>

(* A record that finds the head moved since its load fails, and the command
   with it: nothing retries. *)
RecordConflict(p) ==
    /\ loaded[p]
    /\ stale[p]
    /\ Leaves(p)
    /\ UNCHANGED <<projection, op, stale, result, history>>

(* OperationAuthorized for a planned operation that needs no approval. *)
AuthorizeCommit(p) ==
    /\ pc[p] = "authorize"
    /\ loaded[p]
    /\ ~stale[p]
    /\ status' = [status EXCEPT ![op[p]] = "authorized"]
    /\ pc' = [pc EXCEPT ![p] = "start"]
    /\ loaded' = [loaded EXCEPT ![p] = FALSE]
    /\ Commits(p)
    /\ UNCHANGED <<approval, receipts, op, result, history>>

(* OperationStarted: the event carries the copy of the operation loaded at the
   beginning, and the projection takes it as it is. *)
StartCommit(p) ==
    /\ pc[p] = "start"
    /\ loaded[p]
    /\ ~stale[p]
    /\ status' = [status EXCEPT ![op[p]] = "started"]
    /\ pc' = [pc EXCEPT ![p] = "invoke"]
    /\ loaded' = [loaded EXCEPT ![p] = FALSE]
    /\ Commits(p)
    /\ UNCHANGED <<approval, receipts, op, result, history>>

(* capabilities.execute: the effect in the world, and its outcome. *)
Invoke(p, outcome) ==
    /\ pc[p] = "invoke"
    /\ runs[op[p]] < MaxRuns
    /\ runs' = [runs EXCEPT ![op[p]] = @ + 1]
    /\ result' = [result EXCEPT ![p] = outcome]
    /\ pc' = [pc EXCEPT ![p] = "outcome"]
    /\ UNCHANGED <<projection, op, loaded, stale, overlap>>

(* Mutant of FinalStatus: the VerificationRecorded event is left out. *)
FinalStatusUnverified(outcome) ==
    CASE outcome = "verified" -> "succeeded"
      [] outcome = "error"    -> "failed"
      [] OTHER                -> "unknown"

(* The status the outcome batch leaves: OperationSucceeded is followed by a
   Verified verification in the same batch, OperationFailed by a Failed one. *)
FinalStatus(outcome) ==
    CASE outcome = "verified" -> "verified"
      [] outcome = "error"    -> "failed"
      [] OTHER                -> "unknown"

(* Mutant of OutcomeCommit: the receipt is not part of the batch. *)
OutcomeCommitNoReceipt(p) ==
    /\ pc[p] = "outcome"
    /\ loaded[p]
    /\ ~stale[p]
    /\ status' = [status EXCEPT ![op[p]] = FinalStatus(result[p])]
    /\ Commits(p)
    /\ Leaves(p)
    /\ UNCHANGED <<approval, receipts, op, result, history>>

(* The outcome, its receipt and its verification in one batch. *)
OutcomeCommit(p) ==
    /\ pc[p] = "outcome"
    /\ loaded[p]
    /\ ~stale[p]
    /\ status' = [status EXCEPT ![op[p]] = FinalStatus(result[p])]
    /\ receipts' = [receipts EXCEPT ![op[p]] = @ + 1]
    /\ Commits(p)
    /\ Leaves(p)
    /\ UNCHANGED <<approval, op, result, history>>

(* The process is killed between two of its steps. *)
Crash(p) ==
    /\ MayCrash
    /\ pc[p] # "idle"
    /\ Leaves(p)
    /\ UNCHANGED <<projection, op, stale, result, history>>

Execute(p) ==
    \/ \E o \in Ops : ExecuteLoad(p, o)
    \/ RecordLoad(p)
    \/ RecordConflict(p)
    \/ AuthorizeCommit(p)
    \/ StartCommit(p)
    \/ \E outcome \in Outcomes : Invoke(p, outcome)
    \/ OutcomeCommit(p)

Next ==
    \/ \E o \in Ops : Plan(o)
    \/ OtherCommit
    \/ \E p \in Procs :
        \/ \E o \in Ops, verdict \in {"approve", "deny"} : ResolveLoad(p, o, verdict)
        \/ ResolveCommit(p)
        \/ Execute(p)
        \/ Crash(p)

Spec == Init /\ [][Next]_vars

-----------------------------------------------------------------------------
(* A capability under approval is invoked only once its approval was given, and
   a denial keeps it from ever being invoked, whatever processes approve, deny
   and execute at the same time (resolve_approval, execute_operation). *)
ApprovalBeforeEffect ==
    \A o \in Guarded :
        \/ approval[o] = "approved"
        \/ /\ runs[o] = 0
           /\ approval[o] = "denied" => status[o] = "failed"

(* An approval is resolved once: of two answers given at the same time the
   second is refused, so an approved operation is never denied afterwards. *)
ResolvedOnce ==
    [][\A o \in Ops : approval[o] \in {"approved", "denied"}
                        => approval'[o] = approval[o]]_approval

(* A finished operation has a receipt unless its approval was denied, and no
   receipt is recorded without a capability run of its own. *)
ReceiptsAreEarned ==
    \A o \in Ops :
        /\ receipts[o] <= runs[o]
        /\ status[o] \in {"verified", "unknown", "failed"} =>
               receipts[o] > 0 \/ approval[o] = "denied"

(* Commands given one after the other never invoke a capability twice for one
   operation: not after a crash at any point, not after a lost commit, not
   after an unknown outcome.  Twice takes two executions entered together. *)
NoRetryInSequence ==
    \A o \in Ops : runs[o] > 1 => o \in overlap

-----------------------------------------------------------------------------
(* docs/state-machines.md: a started operation is never silently retried.  Its
   capability is not invoked again once it was invoked, whatever commands execute the
   operation (execute_operation, which records OperationStarted on any head). *)
NeverRetried == \A o \in Ops : runs[o] <= 1

(* docs/invariants.md: writes have receipts and verification records.  When no
   command for o is under way, a capability that was run for it has a receipt. *)
WritesHaveReceipts ==
    \A o \in Ops :
        (runs[o] > 0 /\ ~\E p \in Procs : pc[p] \in Executing /\ op[p] = o)
            => receipts[o] > 0
=============================================================================

-------------------------- MODULE OperationsProofs --------------------------
(***************************************************************************)
(* Proofs about approvals and execution, for any number of processes and   *)
(* operations, with and without crashes.                                   *)
(***************************************************************************)
EXTENDS Operations, FiniteSetTheorems, TLAPS

USE GuardedAssumption, RunsAssumption

(* An operation that is not planned yet has no approval and was never run. *)
AbsentInv ==
    \A o \in Ops : status[o] = "absent" => approval[o] = "none" /\ runs[o] = 0

(* A process that resolves an approval on a current load resolves one that is
   still pending: the expected revision of resolve_approval. *)
ResolvingInv ==
    \A p \in Procs :
        pc[p] = "resolve" =>
            /\ result[p] \in {"approve", "deny"}
            /\ ~stale[p] => approval[op[p]] = "pending"

(* A process inside execute_operation found its operation planned and passed the
   approval check, and approvals are not taken back. *)
ExecutingInv ==
    \A p \in Procs :
        pc[p] \in Executing =>
            /\ status[op[p]] # "absent"
            /\ op[p] \in Guarded => approval[op[p]] = "approved"

IInv == TypeOK /\ AbsentInv /\ ResolvingInv /\ ExecutingInv /\ ApprovalBeforeEffect

-----------------------------------------------------------------------------
(* The outcome batch leaves one of the statuses of OperationStatus. *)
LEMMA FinalStatusType == \A x \in Outcomes : FinalStatus(x) \in Statuses \ {"absent"}
BY DEF Outcomes, FinalStatus, Statuses

(* Every reachable state satisfies the type invariant: the statuses, approvals and
   receipts resolve_approval and execute_operation record are those the model
   names, and a process only has in hand what it was given. *)
THEOREM TypeCorrect == Spec => []TypeOK
<1> DEFINE ResultInv == \A p \in Procs : pc[p] = "outcome" => result[p] \in Outcomes
<1>1. Init => TypeOK /\ ResultInv
  BY DEF Init, TypeOK, Statuses, Outcomes, Executing
<1>2. TypeOK /\ ResultInv /\ [Next]_vars => TypeOK' /\ ResultInv'
  <2> SUFFICES ASSUME TypeOK, ResultInv, [Next]_vars PROVE TypeOK' /\ ResultInv'
    OBVIOUS
  <2> USE DEF TypeOK, Executing, projection, locals, history
  <2>1. ASSUME NEW o \in Ops, Plan(o) PROVE TypeOK' /\ ResultInv'
    BY <2>1 DEF Plan, Statuses
  <2>2. CASE OtherCommit
    BY <2>2 DEF OtherCommit
  <2>3. ASSUME NEW p \in Procs, NEW o \in Ops, NEW v \in {"approve", "deny"},
               ResolveLoad(p, o, v)
        PROVE  TypeOK' /\ ResultInv'
    BY <2>3 DEF ResolveLoad
  <2>4. ASSUME NEW p \in Procs, ResolveCommit(p) PROVE TypeOK' /\ ResultInv'
    BY <2>4 DEF ResolveCommit, Commits, Leaves, Statuses
  <2>5. ASSUME NEW p \in Procs, NEW o \in Ops, ExecuteLoad(p, o)
        PROVE  TypeOK' /\ ResultInv'
    BY <2>5 DEF ExecuteLoad
  <2>6. ASSUME NEW p \in Procs, RecordLoad(p) PROVE TypeOK' /\ ResultInv'
    BY <2>6 DEF RecordLoad
  <2>7. ASSUME NEW p \in Procs, RecordConflict(p) \/ Crash(p) PROVE TypeOK' /\ ResultInv'
    BY <2>7 DEF RecordConflict, Crash, Leaves
  <2>8. ASSUME NEW p \in Procs, AuthorizeCommit(p) PROVE TypeOK' /\ ResultInv'
    BY <2>8 DEF AuthorizeCommit, Commits, Statuses
  <2>12. ASSUME NEW p \in Procs, StartCommit(p) PROVE TypeOK' /\ ResultInv'
    BY <2>12 DEF StartCommit, Commits, Statuses
  <2>9. ASSUME NEW p \in Procs, NEW x \in Outcomes, Invoke(p, x)
        PROVE  TypeOK' /\ ResultInv'
    BY <2>9 DEF Invoke
  <2>10. ASSUME NEW p \in Procs, OutcomeCommit(p) PROVE TypeOK' /\ ResultInv'
    <3>1. FinalStatus(result[p]) \in Statuses
      BY <2>10, FinalStatusType DEF OutcomeCommit
    <3> QED BY <2>10, <3>1 DEF OutcomeCommit, Commits, Leaves
  <2>11. CASE UNCHANGED vars
    BY <2>11 DEF vars
  <2> HIDE DEF TypeOK, ResultInv, Executing, projection, locals, history
  <2> QED
    BY <2>1, <2>2, <2>3, <2>4, <2>5, <2>6, <2>7, <2>8, <2>9, <2>10, <2>11, <2>12
       DEF Next, Execute
<1> QED
  BY <1>1, <1>2, PTL DEF Spec

-----------------------------------------------------------------------------
(* A step that leaves the projection and the runs alone keeps the invariant if it
   keeps what is known of each process. *)
LEMMA LocalStep ==
    ASSUME IInv, TypeOK', UNCHANGED <<status, approval, runs>>,
           ResolvingInv', ExecutingInv'
    PROVE  IInv'
BY DEF IInv, AbsentInv, ApprovalBeforeEffect

(* The inductive invariant survives every step of every process. *)
LEMMA IInvStep == IInv /\ TypeOK' /\ [Next]_vars => IInv'
<1> SUFFICES ASSUME IInv, TypeOK', [Next]_vars PROVE IInv'
  OBVIOUS
<1> USE DEF projection, history
<1>1. ASSUME NEW o \in Ops, Plan(o) PROVE IInv'
  <2> USE <1>1 DEF IInv, TypeOK, Plan
  <2>1. AbsentInv'
    BY DEF AbsentInv
  <2>2. ResolvingInv'
    BY DEF ResolvingInv
  <2>3. ExecutingInv'
    BY DEF ExecutingInv, AbsentInv
  <2>4. ApprovalBeforeEffect'
    BY DEF ApprovalBeforeEffect, AbsentInv
  <2> QED BY <2>1, <2>2, <2>3, <2>4
<1>2. CASE OtherCommit
  <2>1. ResolvingInv' /\ ExecutingInv'
    BY <1>2 DEF IInv, OtherCommit, ResolvingInv, ExecutingInv
  <2> QED BY <1>2, <2>1, LocalStep DEF OtherCommit
<1>3. ASSUME NEW p \in Procs, NEW o \in Ops, NEW v \in {"approve", "deny"},
             ResolveLoad(p, o, v)
      PROVE  IInv'
  <2>1. ResolvingInv' /\ ExecutingInv'
    BY <1>3 DEF IInv, TypeOK, ResolveLoad, ResolvingInv, ExecutingInv, Executing
  <2> QED BY <1>3, <2>1, LocalStep DEF ResolveLoad
<1>4. ASSUME NEW p \in Procs, ResolveCommit(p) PROVE IInv'
  <2>1. CASE stale[p]
    <3>1. ResolvingInv' /\ ExecutingInv'
      BY <1>4, <2>1
         DEF IInv, TypeOK, ResolveCommit, Leaves, ResolvingInv, ExecutingInv, Executing
    <3> QED BY <1>4, <2>1, <3>1, LocalStep DEF ResolveCommit
  <2>2. CASE ~stale[p]
    <3>1. /\ approval[op[p]] = "pending"
          /\ op[p] \in Ops
      BY <1>4, <2>2 DEF IInv, TypeOK, ResolvingInv, ResolveCommit
    <3> USE <1>4, <2>2, <3>1 DEF IInv, TypeOK, ResolveCommit, Commits, Leaves
    <3>2. AbsentInv'
      BY DEF AbsentInv
    <3>3. ResolvingInv'
      BY DEF ResolvingInv
    <3>4. ExecutingInv'
      BY DEF ExecutingInv, Executing
    <3>5. ApprovalBeforeEffect'
      BY DEF ApprovalBeforeEffect, ResolvingInv
    <3> QED BY <3>2, <3>3, <3>4, <3>5
  <2> QED BY <2>1, <2>2
<1>5. ASSUME NEW p \in Procs, NEW o \in Ops, ExecuteLoad(p, o) PROVE IInv'
  <2>1. ResolvingInv' /\ ExecutingInv'
    BY <1>5
       DEF IInv, TypeOK, ExecuteLoad, MayExecute, ResolvingInv, ExecutingInv, Executing
  <2> QED BY <1>5, <2>1, LocalStep DEF ExecuteLoad
<1>6. ASSUME NEW p \in Procs, RecordLoad(p) PROVE IInv'
  <2>1. ResolvingInv' /\ ExecutingInv'
    BY <1>6 DEF IInv, TypeOK, RecordLoad, ResolvingInv, ExecutingInv
  <2> QED BY <1>6, <2>1, LocalStep DEF RecordLoad
<1>7. ASSUME NEW p \in Procs, RecordConflict(p) \/ Crash(p) PROVE IInv'
  <2>1. ResolvingInv' /\ ExecutingInv'
    BY <1>7
       DEF IInv, TypeOK, RecordConflict, Crash, Leaves, ResolvingInv, ExecutingInv,
           Executing
  <2> QED BY <1>7, <2>1, LocalStep DEF RecordConflict, Crash
(* The three commits of execute_operation set the status of an operation whose
   execution was admitted, and it is neither absent nor denied afterwards. *)
<1>8. ASSUME NEW p \in Procs, NEW s \in Statuses \ {"absent"}, pc[p] \in Executing,
             status' = [status EXCEPT ![op[p]] = s],
             pc'[p] \in Executing \cup {"idle"},
             \A q \in Procs : q # p => pc'[q] = pc[q],
             Commits(p), UNCHANGED <<approval, op, result, runs>>
      PROVE  IInv'
  <2> USE <1>8 DEF IInv, TypeOK, Commits
  <2>1. AbsentInv'
    BY DEF AbsentInv
  <2>2. ResolvingInv'
    BY DEF ResolvingInv, Executing
  <2>3. ExecutingInv'
    BY DEF ExecutingInv
  <2>4. ApprovalBeforeEffect'
    BY DEF ApprovalBeforeEffect, ExecutingInv
  <2> QED BY <2>1, <2>2, <2>3, <2>4
<1>9. ASSUME NEW p \in Procs, AuthorizeCommit(p) PROVE IInv'
  BY <1>8, <1>9 DEF AuthorizeCommit, Executing, Statuses, IInv, TypeOK
<1>10. ASSUME NEW p \in Procs, StartCommit(p) PROVE IInv'
  BY <1>8, <1>10 DEF StartCommit, Executing, Statuses, IInv, TypeOK
<1>11. ASSUME NEW p \in Procs, NEW x \in Outcomes, Invoke(p, x) PROVE IInv'
  <2> USE <1>11 DEF IInv, TypeOK, Invoke, Executing
  <2>1. AbsentInv'
    BY DEF AbsentInv, ExecutingInv
  <2>2. ResolvingInv'
    BY DEF ResolvingInv
  <2>3. ExecutingInv'
    BY DEF ExecutingInv
  <2>4. ApprovalBeforeEffect'
    BY DEF ApprovalBeforeEffect, ExecutingInv
  <2> QED BY <2>1, <2>2, <2>3, <2>4
<1>12. ASSUME NEW p \in Procs, OutcomeCommit(p) PROVE IInv'
  <2>1. FinalStatus(result[p]) \in Statuses \ {"absent"}
    BY FinalStatusType DEF FinalStatus, Statuses
  <2> QED
    BY <1>8, <1>12, <2>1 DEF OutcomeCommit, Leaves, Executing, IInv, TypeOK
<1>13. CASE UNCHANGED vars
  BY <1>13 DEF vars, locals, IInv, AbsentInv, ResolvingInv, ExecutingInv,
               ApprovalBeforeEffect
<1> QED
  BY <1>1, <1>2, <1>3, <1>4, <1>5, <1>6, <1>7, <1>9, <1>10, <1>11, <1>12, <1>13
     DEF Next, Execute

(* Every reachable state satisfies the inductive invariant. *)
THEOREM Invariance == Spec => []IInv
<1>1. Init => IInv
  BY DEF Init, IInv, TypeOK, Statuses, Outcomes, Executing, AbsentInv, ResolvingInv,
         ExecutingInv, ApprovalBeforeEffect
<1> QED
  BY <1>1, TypeCorrect, IInvStep, PTL DEF Spec

(* A capability under approval never runs before the approval, nor after a denial,
   for any number of commands that approve, deny and execute at once. *)
THEOREM ApprovalTheorem == Spec => []ApprovalBeforeEffect
<1>1. IInv => ApprovalBeforeEffect
  BY DEF IInv
<1> QED
  BY <1>1, Invariance, PTL

(* An approval that was given or denied stays so: of concurrent answers to one
   request, resolve_approval records a single one. *)
THEOREM ResolvedOnceTheorem == Spec => ResolvedOnce
<1> DEFINE Keeps == \A o \in Ops : approval[o] \in {"approved", "denied"}
                                     => approval'[o] = approval[o]
<1>1. IInv /\ [Next]_vars => [Keeps]_approval
  <2> SUFFICES ASSUME IInv, [Next]_vars, approval' # approval,
                      NEW o \in Ops, approval[o] \in {"approved", "denied"}
               PROVE  approval'[o] = approval[o]
    OBVIOUS
  <2> USE DEF IInv, TypeOK
  <2>1. ASSUME NEW x \in Ops, Plan(x) PROVE approval'[o] = approval[o]
    BY <2>1 DEF Plan, AbsentInv
  <2>2. ASSUME NEW p \in Procs, ResolveCommit(p) PROVE approval'[o] = approval[o]
    BY <2>2 DEF ResolveCommit, ResolvingInv
  <2> HIDE DEF IInv, TypeOK
  <2>3. ASSUME NEW p \in Procs, Execute(p) PROVE FALSE
    BY <2>3 DEF Execute, ExecuteLoad, RecordLoad, RecordConflict, AuthorizeCommit,
                StartCommit, Invoke, OutcomeCommit, projection
  <2>4. ASSUME NEW p \in Procs, NEW x \in Ops, NEW v \in {"approve", "deny"},
               ResolveLoad(p, x, v)
        PROVE  FALSE
    BY <2>4 DEF ResolveLoad, projection
  <2>5. ASSUME NEW p \in Procs, Crash(p) PROVE FALSE
    BY <2>5 DEF Crash, projection
  <2>6. ~OtherCommit /\ ~UNCHANGED vars
    BY DEF OtherCommit, vars, projection
  <2> QED
    BY <2>1, <2>2, <2>3, <2>4, <2>5, <2>6 DEF Next
<1> QED
  BY <1>1, Invariance, PTL DEF Spec, ResolvedOnce

-----------------------------------------------------------------------------
(* Only the policy's verdict puts an operation up for approval. *)
PendingInv == \A o \in Ops : approval[o] = "pending" => o \in Guarded

(* An operation whose executions never overlapped: a single process executes it, and
   whoever may still invoke its capability is the first. *)
SoleInv ==
    \A o \in Ops \ overlap :
        /\ \A p, q \in Procs :
              /\ pc[p] \in Executing /\ op[p] = o
              /\ pc[q] \in Executing /\ op[q] = o
              => p = q
        /\ \A p \in Procs :
              pc[p] \in {"authorize", "start", "invoke"} /\ op[p] = o => runs[o] = 0
        /\ \A p \in Procs : pc[p] = "invoke" /\ op[p] = o => status[o] = "started"
        /\ status[o] \in {"absent", "planned", "authorized"} => runs[o] = 0
        /\ runs[o] <= 1

(* Processes that ran the capability of o and have not recorded its outcome. *)
Unrecorded(o) == {p \in Procs : pc[p] = "outcome" /\ op[p] = o}

(* Every receipt and every outcome in hand has a run of its own. *)
EarnedInv == \A o \in Ops : receipts[o] + Cardinality(Unrecorded(o)) <= runs[o]

(* A finished operation has a receipt or was denied. *)
FinishedInv ==
    \A o \in Ops : status[o] \in {"verified", "unknown", "failed"}
                       => receipts[o] > 0 \/ approval[o] = "denied"

(* Only a plan puts an operation up for approval, and a process that resolves on a
   current load takes it off. *)
LEMMA PendingStep == IInv /\ PendingInv /\ [Next]_vars => PendingInv'
<1> SUFFICES ASSUME IInv, PendingInv, [Next]_vars PROVE PendingInv'
  OBVIOUS
<1> USE DEF IInv, TypeOK, PendingInv, projection
<1>1. ASSUME NEW o \in Ops, Plan(o) PROVE PendingInv'
  BY <1>1 DEF Plan
<1>2. ASSUME NEW p \in Procs, ResolveCommit(p) PROVE PendingInv'
  BY <1>2 DEF ResolveCommit
<1>3. CASE UNCHANGED approval
  BY <1>3
<1> HIDE DEF IInv, TypeOK, PendingInv
<1>4. ASSUME NEW p \in Procs, Execute(p) \/ Crash(p) PROVE UNCHANGED approval
  BY <1>4 DEF Execute, ExecuteLoad, RecordLoad, RecordConflict, AuthorizeCommit,
              StartCommit, Invoke, OutcomeCommit, Crash
<1> QED
  BY <1>1, <1>2, <1>3, <1>4 DEF Next, OtherCommit, ResolveLoad, vars

(* What is known of operations whose executions never overlapped survives every step:
   the process that executes one is alone in changing its status. *)
LEMMA SoleStep == IInv /\ PendingInv /\ SoleInv /\ [Next]_vars => SoleInv'
<1> SUFFICES ASSUME IInv, PendingInv, SoleInv, [Next]_vars PROVE SoleInv'
  OBVIOUS
<1> USE DEF IInv, TypeOK, SoleInv, projection, history
<1>1. ASSUME NEW o \in Ops, Plan(o) PROVE SoleInv'
  BY <1>1 DEF Plan
<1>2. CASE OtherCommit
  BY <1>2 DEF OtherCommit
<1>3. ASSUME NEW p \in Procs, NEW o \in Ops, NEW v \in {"approve", "deny"},
             ResolveLoad(p, o, v)
      PROVE  SoleInv'
  BY <1>3 DEF ResolveLoad, Executing
<1>4. ASSUME NEW p \in Procs, ResolveCommit(p) PROVE SoleInv'
  <2>1. CASE stale[p]
    BY <1>4, <2>1 DEF ResolveCommit, Leaves, Executing
  <2>2. CASE ~stale[p]
    <3>1. /\ op[p] \in Guarded
          /\ approval[op[p]] = "pending"
          /\ runs[op[p]] = 0
      BY <1>4, <2>2 DEF ResolveCommit, ResolvingInv, PendingInv, ApprovalBeforeEffect
    <3>2. \A q \in Procs : pc[q] \in Executing => op[q] # op[p]
      BY <3>1 DEF ExecutingInv
    <3> QED
      BY <1>4, <2>2, <3>1, <3>2 DEF ResolveCommit, Leaves, Executing
  <2> QED BY <2>1, <2>2
<1>5. ASSUME NEW p \in Procs, NEW o \in Ops, ExecuteLoad(p, o) PROVE SoleInv'
  BY <1>5 DEF ExecuteLoad, MayExecute, Executing
<1>6. ASSUME NEW p \in Procs, RecordLoad(p) PROVE SoleInv'
  BY <1>6 DEF RecordLoad
<1>7. ASSUME NEW p \in Procs, RecordConflict(p) \/ Crash(p) PROVE SoleInv'
  BY <1>7 DEF RecordConflict, Crash, Leaves, Executing
<1>8. ASSUME NEW p \in Procs, AuthorizeCommit(p) PROVE SoleInv'
  BY <1>8 DEF AuthorizeCommit, Executing
<1>9. ASSUME NEW p \in Procs, StartCommit(p) PROVE SoleInv'
  BY <1>9 DEF StartCommit, Executing
<1>10. ASSUME NEW p \in Procs, NEW x \in Outcomes, Invoke(p, x) PROVE SoleInv'
  BY <1>10 DEF Invoke, Executing
<1>11. ASSUME NEW p \in Procs, OutcomeCommit(p) PROVE SoleInv'
  <2>1. FinalStatus(result[p]) \notin {"absent", "planned", "authorized"}
    BY DEF FinalStatus
  <2> QED
    BY <1>11, <2>1 DEF OutcomeCommit, Leaves, Executing
<1>12. CASE UNCHANGED vars
  BY <1>12 DEF vars, locals
<1> QED
  BY <1>1, <1>2, <1>3, <1>4, <1>5, <1>6, <1>7, <1>8, <1>9, <1>10, <1>11, <1>12
     DEF Next, Execute

(* Commands given one after the other never run a capability twice: an operation that
   ran twice was executed by two processes at once. *)
THEOREM NoRetryTheorem == Spec => []NoRetryInSequence
<1>1. Init => PendingInv /\ SoleInv
  BY DEF Init, PendingInv, SoleInv, Executing
<1>2. IInv /\ SoleInv => NoRetryInSequence
  BY DEF IInv, TypeOK, SoleInv, NoRetryInSequence
<1> QED
  BY <1>1, <1>2, PendingStep, SoleStep, Invariance, PTL DEF Spec

-----------------------------------------------------------------------------
(* The processes with an outcome in hand can be counted. *)
LEMMA UnrecordedCount ==
    ASSUME NEW o
    PROVE  /\ IsFiniteSet(Unrecorded(o)) /\ IsFiniteSet(Unrecorded(o)')
           /\ Cardinality(Unrecorded(o)) \in Nat /\ Cardinality(Unrecorded(o)') \in Nat
           /\ Unrecorded(o)' \subseteq Unrecorded(o)
                 => Cardinality(Unrecorded(o)') <= Cardinality(Unrecorded(o))
<1>1. Unrecorded(o) \subseteq Procs /\ Unrecorded(o)' \subseteq Procs
  BY DEF Unrecorded
<1>2. IsFiniteSet(Unrecorded(o)) /\ IsFiniteSet(Unrecorded(o)')
  BY <1>1, FS_Subset, ProcsAssumption
<1> QED
  BY <1>2, FS_Subset, FS_CardinalityType

(* A step that runs no capability, and lets nobody take an outcome in hand, keeps
   receipts and outcomes earned. *)
LEMMA EarnedIfFewer ==
    ASSUME TypeOK, EarnedInv, UNCHANGED <<receipts, runs>>,
           \A o \in Ops : Unrecorded(o)' \subseteq Unrecorded(o)
    PROVE  EarnedInv'
<1> SUFFICES ASSUME NEW o \in Ops
             PROVE  receipts'[o] + Cardinality(Unrecorded(o)') <= runs'[o]
  BY DEF EarnedInv
<1>1. /\ Cardinality(Unrecorded(o)) \in Nat /\ Cardinality(Unrecorded(o)') \in Nat
      /\ Cardinality(Unrecorded(o)') <= Cardinality(Unrecorded(o))
  BY UnrecordedCount
<1>2. receipts[o] \in Nat /\ runs[o] \in Nat /\ receipts' = receipts /\ runs' = runs
  BY DEF TypeOK
<1>3. receipts[o] + Cardinality(Unrecorded(o)) <= runs[o]
  BY DEF EarnedInv
<1> QED
  BY <1>1, <1>2, <1>3

(* Every receipt and every outcome in hand keeps a run of its own: a run puts one
   outcome in hand, and the outcome batch turns it into one receipt. *)
LEMMA EarnedStep == TypeOK /\ TypeOK' /\ EarnedInv /\ [Next]_vars => EarnedInv'
<1> SUFFICES ASSUME TypeOK, TypeOK', EarnedInv, [Next]_vars PROVE EarnedInv'
  OBVIOUS
<1> USE DEF projection, history
<1>1. ASSUME NEW p \in Procs, NEW x \in Outcomes, Invoke(p, x) PROVE EarnedInv'
  <2> SUFFICES ASSUME NEW o \in Ops
               PROVE  receipts'[o] + Cardinality(Unrecorded(o)') <= runs'[o]
    BY DEF EarnedInv
  <2>1. receipts[o] + Cardinality(Unrecorded(o)) <= runs[o]
    BY DEF EarnedInv
  <2>2. CASE op[p] = o
    <3>1. Unrecorded(o)' = Unrecorded(o) \cup {p} /\ p \notin Unrecorded(o)
      BY <1>1, <2>2 DEF Invoke, TypeOK, Unrecorded
    <3>2. /\ Cardinality(Unrecorded(o)') = Cardinality(Unrecorded(o)) + 1
          /\ Cardinality(Unrecorded(o)) \in Nat
      BY <3>1, FS_AddElement, UnrecordedCount
    <3>3. receipts'[o] = receipts[o] /\ runs'[o] = runs[o] + 1
      BY <1>1, <2>2 DEF Invoke, TypeOK
    <3> QED
      BY <2>1, <3>2, <3>3 DEF TypeOK
  <2>3. CASE op[p] # o
    <3>1. Unrecorded(o)' = Unrecorded(o)
      BY <1>1, <2>3 DEF Invoke, TypeOK, Unrecorded
    <3>2. receipts'[o] = receipts[o] /\ runs'[o] = runs[o]
      BY <1>1, <2>3 DEF Invoke, TypeOK
    <3> QED
      BY <2>1, <3>1, <3>2
  <2> QED BY <2>2, <2>3
<1>2. ASSUME NEW p \in Procs, OutcomeCommit(p) PROVE EarnedInv'
  <2> SUFFICES ASSUME NEW o \in Ops
               PROVE  receipts'[o] + Cardinality(Unrecorded(o)') <= runs'[o]
    BY DEF EarnedInv
  <2>1. receipts[o] + Cardinality(Unrecorded(o)) <= runs[o]
    BY DEF EarnedInv
  <2>2. CASE op[p] = o
    <3>1. Unrecorded(o)' = Unrecorded(o) \ {p} /\ p \in Unrecorded(o)
      BY <1>2, <2>2 DEF OutcomeCommit, Leaves, TypeOK, Unrecorded
    <3>2. /\ Cardinality(Unrecorded(o)') = Cardinality(Unrecorded(o)) - 1
          /\ Cardinality(Unrecorded(o)) \in Nat
      BY <3>1, FS_RemoveElement, UnrecordedCount
    <3>3. receipts'[o] = receipts[o] + 1 /\ runs'[o] = runs[o]
      BY <1>2, <2>2 DEF OutcomeCommit, TypeOK
    <3> QED
      BY <2>1, <3>2, <3>3 DEF TypeOK
  <2>3. CASE op[p] # o
    <3>1. Unrecorded(o)' = Unrecorded(o)
      BY <1>2, <2>3 DEF OutcomeCommit, Leaves, TypeOK, Unrecorded
    <3>2. receipts'[o] = receipts[o] /\ runs'[o] = runs[o]
      BY <1>2, <2>3 DEF OutcomeCommit, TypeOK
    <3> QED
      BY <2>1, <3>1, <3>2
  <2> QED BY <2>2, <2>3
<1> DEFINE Fewer == /\ UNCHANGED <<receipts, runs>>
                    /\ \A o \in Ops : Unrecorded(o)' \subseteq Unrecorded(o)
<1> USE DEF TypeOK, Unrecorded
<1>3. ASSUME NEW o \in Ops, Plan(o) PROVE Fewer
  BY <1>3 DEF Plan
<1>4. ASSUME OtherCommit PROVE Fewer
  BY <1>4 DEF OtherCommit
<1>5. ASSUME NEW p \in Procs, NEW o \in Ops, NEW v \in {"approve", "deny"},
             ResolveLoad(p, o, v)
      PROVE  Fewer
  BY <1>5 DEF ResolveLoad
<1>6. ASSUME NEW p \in Procs, ResolveCommit(p) \/ RecordConflict(p) \/ Crash(p)
      PROVE  Fewer
  BY <1>6 DEF ResolveCommit, RecordConflict, Crash, Leaves
<1>7. ASSUME NEW p \in Procs, NEW o \in Ops, ExecuteLoad(p, o) PROVE Fewer
  BY <1>7 DEF ExecuteLoad
<1>8. ASSUME NEW p \in Procs, RecordLoad(p) PROVE Fewer
  BY <1>8 DEF RecordLoad
<1>9. ASSUME NEW p \in Procs, AuthorizeCommit(p) \/ StartCommit(p) PROVE Fewer
  BY <1>9 DEF AuthorizeCommit, StartCommit
<1>10. ASSUME UNCHANGED vars PROVE Fewer
  BY <1>10 DEF vars, locals
<1> HIDE DEF TypeOK, Unrecorded
<1>11. CASE Fewer
  BY <1>11, EarnedIfFewer
<1> HIDE DEF Fewer
<1> QED
  BY <1>1, <1>2, <1>3, <1>4, <1>5, <1>6, <1>7, <1>8, <1>9, <1>10, <1>11 DEF Next, Execute

(* A finished operation keeps its receipt or its denial: whatever finishes one records
   a receipt or denies it in the same batch. *)
LEMMA FinishedStep == IInv /\ FinishedInv /\ [Next]_vars => FinishedInv'
<1> SUFFICES ASSUME IInv, FinishedInv, [Next]_vars PROVE FinishedInv'
  OBVIOUS
<1> USE DEF IInv, TypeOK, FinishedInv, projection
<1>1. ASSUME NEW o \in Ops, Plan(o) PROVE FinishedInv'
  BY <1>1 DEF Plan
<1>2. ASSUME NEW p \in Procs, ResolveCommit(p) PROVE FinishedInv'
  BY <1>2 DEF ResolveCommit, ResolvingInv
<1>3. ASSUME NEW p \in Procs, AuthorizeCommit(p) \/ StartCommit(p) PROVE FinishedInv'
  BY <1>3 DEF AuthorizeCommit, StartCommit
<1>4. ASSUME NEW p \in Procs, OutcomeCommit(p) PROVE FinishedInv'
  BY <1>4 DEF OutcomeCommit
<1>5. CASE UNCHANGED projection
  BY <1>5
<1> HIDE DEF IInv, TypeOK, FinishedInv, projection
<1> QED
  BY <1>1, <1>2, <1>3, <1>4, <1>5
     DEF Next, OtherCommit, ResolveLoad, Execute, ExecuteLoad, RecordLoad, RecordConflict,
         Invoke, Crash, vars

(* Receipts are earned and finished operations have one, for any number of commands
   that execute one operation at once. *)
THEOREM ReceiptsTheorem == Spec => []ReceiptsAreEarned
<1>1. Init => EarnedInv /\ FinishedInv
  <2> SUFFICES ASSUME Init PROVE EarnedInv /\ FinishedInv
    OBVIOUS
  <2>1. \A o \in Ops : Unrecorded(o) = {}
    BY DEF Init, Unrecorded
  <2> QED
    BY <2>1, FS_EmptySet DEF Init, EarnedInv, FinishedInv
<1>2. TypeOK /\ EarnedInv /\ FinishedInv => ReceiptsAreEarned
  <2> SUFFICES ASSUME TypeOK, EarnedInv, NEW o \in Ops PROVE receipts[o] <= runs[o]
    BY DEF FinishedInv, ReceiptsAreEarned
  <2>1. Cardinality(Unrecorded(o)) \in Nat
    BY UnrecordedCount
  <2>2. receipts[o] + Cardinality(Unrecorded(o)) <= runs[o]
    BY DEF EarnedInv
  <2> QED
    BY <2>1, <2>2 DEF TypeOK
<1>3. IInv => TypeOK
  BY DEF IInv
<1> QED
  BY <1>1, <1>2, <1>3, EarnedStep, FinishedStep, Invariance, PTL DEF Spec
=============================================================================

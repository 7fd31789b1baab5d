---------------------------- MODULE LedgerProofs ----------------------------
(***************************************************************************)
(* Proofs about the event store, for any set of writers, any batches and   *)
(* any validation relation.                                                *)
(***************************************************************************)
EXTENDS Ledger, TLAPS, SequenceTheorems

USE BatchesAssumption, RefusedAssumption

(***************************************************************************)
(* What record_batch knows of its own copy of the projection.  While the   *)
(* head is where the copy was taken, the copy is the head's projection with*)
(* the batch applied; once another writer has committed, the copy's        *)
(* revision lags behind and nothing more is known, or needed.              *)
(***************************************************************************)
CopyInv(w) ==
    /\ projected[w].revision <= Len(events) + Len(batch[w])
    /\ projected[w].revision = Len(events) + Len(batch[w]) =>
          /\ projected[w].applied = events \o batch[w]
          /\ Consistent(events \o batch[w])

WritingInv(w) ==
    /\ batch[w] # <<>>
    /\ projected[w].revision = head[w] + Len(batch[w])
    /\ cas[w] => base[w] = head[w]

WriterInv ==
    \A w \in Writers :
        /\ base[w] <= Len(events)
        /\ pc[w] \in {"projected", "writing"} => CopyInv(w)
        /\ pc[w] = "writing" => WritingInv(w)

IInv == TypeOK /\ SnapshotMatchesLedger /\ LedgerValid /\ WriterInv

-----------------------------------------------------------------------------
(* Applying a batch to a consistent projection leaves it consistent. *)
LEMMA AppliesConsistent ==
    ASSUME NEW s \in Seq(Events), NEW b \in Seq(Events),
           Consistent(s), Applies(s, b)
    PROVE  Consistent(s \o b)
<1> DEFINE t == s \o b
<1>1. /\ t \in Seq(Events)
      /\ Len(t) = Len(s) + Len(b)
      /\ \A i \in 1..Len(t) : t[i] = IF i <= Len(s) THEN s[i] ELSE b[i - Len(s)]
  OBVIOUS
<1> SUFFICES ASSUME NEW i \in DOMAIN t, NEW j \in DOMAIN t, j < i
             PROVE  t[j] # t[i] /\ t[j] \notin Refused[t[i]]
  BY <1>1 DEF Consistent
<1>3. CASE i <= Len(s)
  BY <1>1, <1>3 DEF Consistent
<1>4. CASE i > Len(s)
  <2>1. /\ i - Len(s) \in DOMAIN b
        /\ j \in 1..(Len(s) + (i - Len(s)) - 1)
        /\ t[i] = b[i - Len(s)]
    BY <1>1, <1>4
  <2> QED
    BY <2>1 DEF Applies
<1> QED
  BY <1>1, <1>3, <1>4

(* A copy taken at or before an old head lags behind a head that has grown. *)
LEMMA Lags ==
    ASSUME NEW r \in Nat, NEW old \in Nat, NEW n \in Nat, NEW grown \in Nat, NEW new,
           new = old + grown, grown > 0, r <= old + n
    PROVE  r < new + n
OBVIOUS

(* Every reachable state satisfies the type invariant: the store's rows and
   each call's locals stay what record_batch and commit_batch make them. *)
THEOREM TypeCorrect == Spec => []TypeOK
<1>1. Init => TypeOK
  BY DEF Init, TypeOK, States, Empty, Running
<1>2. TypeOK /\ [Next]_vars => TypeOK'
  <2> SUFFICES ASSUME TypeOK, [Next]_vars PROVE TypeOK'
    OBVIOUS
  <2> USE DEF TypeOK, States, Running
  <2>1. ASSUME NEW w \in Writers, LoadState(w) PROVE TypeOK'
    BY <2>1 DEF LoadState
  <2>2. ASSUME NEW w \in Writers, NEW b \in Batches, NEW g \in BOOLEAN,
               Submit(w, b, g)
        PROVE  TypeOK'
    BY <2>2 DEF Submit
  <2>3. ASSUME NEW w \in Writers, RecordBatch(w) PROVE TypeOK'
    <3>1. Project(current, batch[w]) \in States
      BY DEF Project
    <3> QED BY <2>3, <3>1 DEF RecordBatch
  <2>4. ASSUME NEW w \in Writers, CommitBegin(w) PROVE TypeOK'
    <3>1. Len(events) \in Nat
      OBVIOUS
    <3> QED BY <2>4, <3>1 DEF CommitBegin
  <2>5. ASSUME NEW w \in Writers, CommitBatch(w) PROVE TypeOK'
    <3>1. /\ events \o batch[w] \in Seq(Events)
          /\ projected[w] \in States
      OBVIOUS
    <3> QED BY <2>5, <3>1 DEF CommitBatch
  <2>6. ASSUME NEW w \in Writers, Return(w) PROVE TypeOK'
    BY <2>6 DEF Return
  <2>7. ASSUME NEW w \in Writers, Crash(w) PROVE TypeOK'
    BY <2>7 DEF Crash
  <2>8. CASE UNCHANGED vars
    BY <2>8 DEF vars
  <2> HIDE DEF TypeOK, States, Running
  <2> QED
    BY <2>1, <2>2, <2>3, <2>4, <2>5, <2>6, <2>7, <2>8 DEF Next
<1> QED
  BY <1>1, <1>2, PTL DEF Spec

(* The inductive invariant survives every step of every writer. *)
LEMMA IInvStep == IInv /\ TypeOK' /\ [Next]_vars => IInv'
<1> SUFFICES ASSUME IInv, TypeOK', [Next]_vars PROVE IInv'
  OBVIOUS
<1> USE DEF IInv
<1>1. ASSUME UNCHANGED <<events, current>>,
             \A v \in Writers :
                 /\ base'[v] <= Len(events)
                 /\ pc'[v] \in {"projected", "writing"} => CopyInv(v)'
                 /\ pc'[v] = "writing" => WritingInv(v)'
      PROVE  IInv'
  <2>1. SnapshotMatchesLedger'
    BY <1>1 DEF SnapshotMatchesLedger
  <2>2. LedgerValid'
    BY <1>1 DEF LedgerValid, Consistent
  <2>3. WriterInv'
    BY <1>1 DEF WriterInv
  <2> QED
    BY <2>1, <2>2, <2>3
<1>a. ASSUME NEW v \in Writers,
             UNCHANGED <<events, batch[v], projected[v]>>, CopyInv(v)
      PROVE  CopyInv(v)'
  BY <1>a DEF CopyInv, Consistent
<1>b. ASSUME NEW v \in Writers,
             UNCHANGED <<base[v], batch[v], cas[v], projected[v], head[v]>>,
             WritingInv(v)
      PROVE  WritingInv(v)'
  BY <1>b DEF WritingInv
<1>2. ASSUME NEW w \in Writers, LoadState(w) PROVE IInv'
  <2>1. /\ UNCHANGED <<events, current, pc, batch, cas, projected, head>>
        /\ pc[w] = "idle"
        /\ base' = [base EXCEPT ![w] = Len(events)]
    BY <1>2 DEF LoadState, SnapshotMatchesLedger
  <2> QED
    BY <1>1, <1>a, <1>b, <2>1 DEF WriterInv, TypeOK
<1>3. ASSUME NEW w \in Writers, NEW b \in Batches, NEW g \in BOOLEAN,
             Submit(w, b, g)
      PROVE  IInv'
  <2>1. /\ UNCHANGED <<events, current, base, projected, head>>
        /\ pc' = [pc EXCEPT ![w] = "loading"]
        /\ \A v \in Writers : v # w => UNCHANGED <<batch[v], cas[v]>>
    BY <1>3 DEF Submit, TypeOK
  <2> QED
    BY <1>1, <1>a, <1>b, <2>1 DEF WriterInv, TypeOK
<1>4. ASSUME NEW w \in Writers, RecordBatch(w) PROVE IInv'
  <2>1. UNCHANGED <<events, current, base, batch, cas, head>>
    BY <1>4 DEF RecordBatch
  <2>2. \A v \in Writers : v # w => UNCHANGED <<pc[v], projected[v]>>
    BY <1>4 DEF RecordBatch, TypeOK
  <2>3. pc'[w] # "writing"
    BY <1>4 DEF RecordBatch, TypeOK
  <2>4. ASSUME pc'[w] = "projected" PROVE CopyInv(w)'
    <3>1. /\ Applies(events, batch[w])
          /\ projected'[w] = [revision |-> Len(events) + Len(batch[w]),
                              applied |-> events \o batch[w]]
      BY <1>4, <2>4 DEF RecordBatch, Project, SnapshotMatchesLedger, TypeOK
    <3>2. Consistent(events \o batch[w])
      BY <3>1, AppliesConsistent DEF LedgerValid, TypeOK
    <3>3. Consistent(events' \o batch'[w])
      BY <2>1, <3>2
    <3> QED
      BY <2>1, <3>1, <3>3 DEF CopyInv, TypeOK
  <2> QED
    BY <1>1, <1>a, <1>b, <2>1, <2>2, <2>3, <2>4 DEF WriterInv, TypeOK
<1>5. ASSUME NEW w \in Writers, CommitBegin(w) PROVE IInv'
  <2>1. UNCHANGED <<events, current, base, batch, cas, projected>>
    BY <1>5 DEF CommitBegin
  <2>2. \A v \in Writers : v # w => UNCHANGED <<pc[v], head[v]>>
    BY <1>5 DEF CommitBegin, TypeOK
  <2>3. pc[w] = "projected" /\ pc'[w] \in {"writing", "error"}
    BY <1>5 DEF CommitBegin, TypeOK
  <2>4. ASSUME pc'[w] = "writing" PROVE WritingInv(w)'
    BY <1>5, <2>4 DEF CommitBegin, WritingInv, StaleContext, RevisionConflict, TypeOK
  <2> QED
    BY <1>1, <1>a, <1>b, <2>1, <2>2, <2>3, <2>4 DEF WriterInv, TypeOK
<1>6. ASSUME NEW w \in Writers, CommitBatch(w) PROVE IInv'
  <2>1. CASE BusySnapshot(w)
    <3>1. /\ UNCHANGED <<events, current, base, batch, cas, projected, head>>
          /\ pc' = [pc EXCEPT ![w] = "error"]
      BY <1>6, <2>1 DEF CommitBatch
    <3> QED
      BY <1>1, <1>a, <1>b, <3>1 DEF WriterInv, TypeOK
  <2>2. CASE ~BusySnapshot(w)
    <3>1. /\ events' = events \o batch[w]
          /\ current' = projected[w]
          /\ pc' = [pc EXCEPT ![w] = "ok"]
          /\ UNCHANGED <<base, batch, cas, projected, head>>
      BY <1>6, <2>2 DEF CommitBatch
    <3>2. /\ pc[w] = "writing"
          /\ head[w] = Len(events)
          /\ CopyInv(w)
          /\ WritingInv(w)
      BY <1>6, <2>2 DEF CommitBatch, BusySnapshot, WriterInv
    <3>3. /\ projected[w].applied = events \o batch[w]
          /\ projected[w].revision = Len(events) + Len(batch[w])
          /\ Consistent(events \o batch[w])
      BY <3>2 DEF CopyInv, WritingInv, TypeOK
    <3>4. Len(events') = Len(events) + Len(batch[w]) /\ Len(batch[w]) > 0
      BY <3>1, <3>2 DEF WritingInv, TypeOK
    <3>5. SnapshotMatchesLedger'
      BY <3>1, <3>3, <3>4 DEF SnapshotMatchesLedger
    <3>6. LedgerValid'
      BY <3>1, <3>3 DEF LedgerValid, Consistent
    <3>7. ASSUME NEW v \in Writers
          PROVE  /\ base'[v] <= Len(events')
                 /\ pc'[v] \in {"projected", "writing"} => CopyInv(v)'
                 /\ pc'[v] = "writing" => WritingInv(v)'
      <4>1. base'[v] <= Len(events')
        BY <3>1, <3>4 DEF WriterInv, TypeOK
      <4>2. ASSUME pc'[v] \in {"projected", "writing"} PROVE CopyInv(v)'
        <5>1. v # w /\ pc[v] \in {"projected", "writing"}
          BY <3>1, <4>2 DEF TypeOK
        <5>2. /\ projected[v].revision \in Nat
              /\ projected[v].revision <= Len(events) + Len(batch[v])
          BY <5>1 DEF WriterInv, CopyInv, TypeOK, States
        <5>4. Len(events) \in Nat /\ Len(batch[v]) \in Nat /\ Len(batch[w]) \in Nat
          BY DEF TypeOK
        <5>3. projected[v].revision < Len(events') + Len(batch[v])
          BY <5>2, <5>4, <3>4, Lags
        <5>5. /\ projected'[v] = projected[v]
              /\ batch'[v] = batch[v]
              /\ Len(events') \in Nat
          BY <3>1, <3>4, <5>4
        <5> QED
          BY <5>2, <5>3, <5>4, <5>5 DEF CopyInv
      <4>3. ASSUME pc'[v] = "writing" PROVE WritingInv(v)'
        BY <3>1, <4>3, <1>b DEF WriterInv, TypeOK
      <4> QED
        BY <4>1, <4>2, <4>3
    <3> QED
      BY <3>5, <3>6, <3>7 DEF WriterInv
  <2> QED
    BY <2>1, <2>2
<1>7. ASSUME NEW w \in Writers, Return(w) \/ Crash(w) PROVE IInv'
  <2>1. /\ UNCHANGED <<events, current, base, batch, cas, projected, head>>
        /\ pc' = [pc EXCEPT ![w] = "idle"]
    BY <1>7 DEF Return, Crash
  <2> QED
    BY <1>1, <1>a, <1>b, <2>1 DEF WriterInv, TypeOK
<1>8. CASE UNCHANGED vars
  BY <1>1, <1>a, <1>b, <1>8 DEF vars, WriterInv
<1> QED
  BY <1>2, <1>3, <1>4, <1>5, <1>6, <1>7, <1>8 DEF Next

(* The inductive invariant holds of the empty database. *)
LEMMA IInvInit == Init => IInv
BY DEF Init, IInv, TypeOK, States, Empty, Running, SnapshotMatchesLedger,
       LedgerValid, Consistent, WriterInv

(* Every reachable state satisfies the inductive invariant: what each call of
   record_batch holds in memory is either current or visibly behind the head. *)
THEOREM Invariance == Spec => []IInv
BY TypeCorrect, IInvInit, IInvStep, PTL DEF Spec

(* The snapshot is the projection of the ledger in every reachable state: what
   recovery.rs compares by replaying, for any number of concurrent writers. *)
THEOREM SnapshotTheorem == Spec => []SnapshotMatchesLedger
<1>1. IInv => SnapshotMatchesLedger
  BY DEF IInv
<1> QED
  BY <1>1, Invariance, PTL

(* The ledger never holds an event its projector would refuse. *)
THEOREM LedgerValidTheorem == Spec => []LedgerValid
<1>1. IInv => LedgerValid
  BY DEF IInv
<1> QED
  BY <1>1, Invariance, PTL

-----------------------------------------------------------------------------
(* Placed(w, k): w's batch stands in the ledger right after the first k events. *)
Placed(w, k) ==
    /\ k + Len(batch[w]) <= Len(events)
    /\ \A i \in DOMAIN batch[w] : events[k + i] = batch[w][i]
    /\ cas[w] => k = base[w]

(* No step takes away what an Ok answer promised: commit_batch puts the batch at
   the head it read, and the ledger only grows afterwards. *)
LEMMA AcknowledgedStep ==
    IInv /\ AcknowledgedIsDurable /\ [Next]_vars => AcknowledgedIsDurable'
<1> SUFFICES ASSUME IInv, AcknowledgedIsDurable, [Next]_vars,
                    NEW v \in Writers, pc'[v] = "ok"
             PROVE  \E k \in 0..Len(events') : Placed(v, k)'
  BY DEF AcknowledgedIsDurable, Placed
<1> USE DEF IInv, TypeOK
<1>1. ASSUME pc[v] = "ok", UNCHANGED <<base[v], batch[v], cas[v]>>,
             \/ events' = events
             \/ \E b \in Seq(Events) : events' = events \o b
      PROVE  \E k \in 0..Len(events') : Placed(v, k)'
  <2>1. PICK k \in 0..Len(events) : Placed(v, k)
    BY <1>1 DEF AcknowledgedIsDurable, Placed
  <2>2. /\ Len(events') >= Len(events)
        /\ Len(events') \in Nat
        /\ \A i \in 1..Len(events) : events'[i] = events[i]
    BY <1>1
  <2>3. Placed(v, k)'
    <3>1. ASSUME NEW i \in DOMAIN batch[v] PROVE events'[k + i] = batch[v][i]
      <4>1. k + i \in 1..Len(events) /\ events[k + i] = batch[v][i]
        BY <2>1 DEF Placed
      <4> QED BY <2>2, <4>1
    <3>2. k + Len(batch[v]) <= Len(events')
      BY <2>1, <2>2 DEF Placed
    <3>3. cas'[v] => k = base'[v]
      BY <1>1, <2>1 DEF Placed
    <3> QED BY <1>1, <3>1, <3>2, <3>3 DEF Placed
  <2>4. k \in 0..Len(events')
    BY <2>2
  <2> QED BY <2>3, <2>4
<1>2. ASSUME NEW w \in Writers, CommitBatch(w)
      PROVE  \E k \in 0..Len(events') : Placed(v, k)'
  <2>1. CASE v # w
    <3>1. /\ pc[v] = "ok"
          /\ UNCHANGED <<base[v], batch[v], cas[v]>>
          /\ events' = events \/ events' = events \o batch[w]
      BY <1>2, <2>1 DEF CommitBatch
    <3> QED BY <1>1, <3>1
  <2>2. CASE v = w
    <3>1. /\ events' = events \o batch[v]
          /\ pc[v] = "writing"
          /\ head[v] = Len(events)
          /\ UNCHANGED <<base, batch, cas>>
      BY <1>2, <2>2 DEF CommitBatch, BusySnapshot
    <3>2. cas[v] => Len(events) = base[v]
      BY <3>1 DEF WriterInv, WritingInv
    <3>3. PICK k \in Nat : k = Len(events)
      OBVIOUS
    <3>4. /\ Len(events') = k + Len(batch[v])
          /\ k \in 0..Len(events')
          /\ \A i \in DOMAIN batch[v] : events'[k + i] = batch[v][i]
      BY <3>1, <3>3
    <3>5. k + Len(batch'[v]) <= Len(events')
      BY <3>1, <3>4
    <3>6. Placed(v, k)'
      BY <3>1, <3>2, <3>3, <3>4, <3>5 DEF Placed
    <3> QED BY <3>4, <3>6
  <2> QED BY <2>1, <2>2
<1>3. ASSUME NEW w \in Writers,
             \/ LoadState(w)
             \/ \E b \in Batches, g \in BOOLEAN : Submit(w, b, g)
             \/ RecordBatch(w) \/ CommitBegin(w) \/ Return(w) \/ Crash(w)
      PROVE  \E k \in 0..Len(events') : Placed(v, k)'
  <2>1. /\ pc[v] = "ok"
        /\ UNCHANGED <<base[v], batch[v], cas[v], events>>
    BY <1>3 DEF LoadState, Submit, RecordBatch, CommitBegin, Return, Crash
  <2> QED BY <1>1, <2>1
<1>4. CASE UNCHANGED vars
  BY <1>1, <1>4 DEF vars
<1> QED
  BY <1>2, <1>3, <1>4 DEF Next

(* An Ok answer means the whole batch is in the ledger, contiguous, and at the
   very revision the caller named if it named one. *)
THEOREM AcknowledgedTheorem == Spec => []AcknowledgedIsDurable
<1>1. Init => AcknowledgedIsDurable
  BY DEF Init, AcknowledgedIsDurable
<1> QED
  BY <1>1, Invariance, AcknowledgedStep, PTL DEF Spec

-----------------------------------------------------------------------------
(* Each step of a writer is a step of the atomic ledger, or none. *)
LEMMA RefinementStep == IInv /\ TypeOK' /\ [Next]_vars => [Atomic!Next]_(Atomic!vars)
<1> SUFFICES ASSUME IInv, TypeOK', [Next]_vars
             PROVE  Atomic!Next \/ UNCHANGED Atomic!vars
  OBVIOUS
<1> USE DEF IInv
<1>1. ASSUME NEW w \in Writers, LoadState(w) PROVE Atomic!Look(w)
  <2>1. Request[w] = "none" /\ Request' = Request
    BY <1>1 DEF LoadState, Request, Running
  <2> QED
    BY <1>1, <2>1 DEF LoadState, Atomic!Look, SnapshotMatchesLedger
<1>2. ASSUME NEW w \in Writers, NEW b \in Batches, NEW g \in BOOLEAN,
             Submit(w, b, g)
      PROVE  Atomic!Ask(w, b, g)
  <2>1. Request[w] = "none" /\ Request' = [Request EXCEPT ![w] = "pending"]
    BY <1>2 DEF Submit, Request, Running, TypeOK
  <2> QED
    BY <1>2, <2>1 DEF Submit, Atomic!Ask
<1>3. ASSUME NEW w \in Writers, pc[w] \in Running, pc' = [pc EXCEPT ![w] = "error"],
             UNCHANGED <<events, base, batch, cas>>
      PROVE  Atomic!Refuse(w)
  <2>1. Request[w] = "pending" /\ Request' = [Request EXCEPT ![w] = "refused"]
    BY <1>3 DEF Request, Running, TypeOK
  <2> QED
    BY <1>3, <2>1 DEF Atomic!Refuse
<1>4. ASSUME NEW w \in Writers, NEW q \in Running, pc[w] \in Running,
             pc' = [pc EXCEPT ![w] = q], UNCHANGED <<events, base, batch, cas>>
      PROVE  UNCHANGED Atomic!vars
  <2>1. Request' = Request
    BY <1>4 DEF Request, Running, TypeOK
  <2> QED
    BY <1>4, <2>1 DEF Atomic!vars
<1>5. ASSUME NEW w \in Writers, RecordBatch(w)
      PROVE  Atomic!Refuse(w) \/ UNCHANGED Atomic!vars
  BY <1>3, <1>4, <1>5 DEF RecordBatch, Running
<1>6. ASSUME NEW w \in Writers, CommitBegin(w)
      PROVE  Atomic!Refuse(w) \/ UNCHANGED Atomic!vars
  BY <1>3, <1>4, <1>6 DEF CommitBegin, Running
<1>7. ASSUME NEW w \in Writers, CommitBatch(w)
      PROVE  Atomic!Refuse(w) \/ Atomic!Grant(w)
  <2>1. CASE BusySnapshot(w)
    BY <1>3, <1>7, <2>1 DEF CommitBatch, Running
  <2>2. CASE ~BusySnapshot(w)
    <3>1. /\ pc[w] = "writing"
          /\ pc' = [pc EXCEPT ![w] = "ok"]
          /\ events' = events \o batch[w]
          /\ head[w] = Len(events)
          /\ UNCHANGED <<base, batch, cas>>
      BY <1>7, <2>2 DEF CommitBatch, BusySnapshot
    <3>2. Request[w] = "pending" /\ Request' = [Request EXCEPT ![w] = "granted"]
      BY <3>1 DEF Request, Running, TypeOK
    <3>3. CopyInv(w) /\ WritingInv(w)
      BY <3>1 DEF WriterInv
    <3>4. /\ batch[w] # <<>>
          /\ cas[w] => base[w] = Len(events)
          /\ Consistent(events \o batch[w])
      BY <3>1, <3>3 DEF CopyInv, WritingInv
    <3>5. Atomic!Admissible(events \o batch[w])
      BY <3>4 DEF Atomic!Admissible, Consistent
    <3> QED
      BY <3>1, <3>2, <3>4, <3>5 DEF Atomic!Grant
  <2> QED BY <2>1, <2>2
<1>8. ASSUME NEW w \in Writers, Return(w) \/ Crash(w) PROVE Atomic!Forget(w)
  <2>1. Request[w] # "none" /\ Request' = [Request EXCEPT ![w] = "none"]
    BY <1>8 DEF Return, Crash, Request, Running, TypeOK
  <2> QED
    BY <1>8, <2>1 DEF Return, Crash, Atomic!Forget
<1>9. CASE UNCHANGED vars
  BY <1>9 DEF vars, Atomic!vars, Request
<1> QED
  BY <1>1, <1>2, <1>5, <1>6, <1>7, <1>8, <1>9 DEF Next, Atomic!Next

(* The event store implements the atomic ledger, for every set of writers. *)
THEOREM LedgerImplementsAtomicLedger == Spec => ImplementsAtomicLedger
<1>1. Init => Atomic!Init
  BY DEF Init, Atomic!Init, Request, Running
<1> QED
  BY <1>1, Invariance, TypeCorrect, RefinementStep, PTL
     DEF Spec, ImplementsAtomicLedger, Atomic!Spec
=============================================================================

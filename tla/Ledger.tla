------------------------------- MODULE Ledger -------------------------------
(***************************************************************************)
(* The event store: Projector::record_batch over SqliteStore, as several   *)
(* tasks and processes run it against one database file.  The projector    *)
(* loads the projection, applies the batch to its copy, and hands both to  *)
(* commit_batch, which reads the head inside a (deferred) transaction and  *)
(* then writes events and projection together.  Other writers may run      *)
(* between any two of these steps, and a writer may die at any of them.    *)
(*                                                                         *)
(* An event is its identity.  The per-kind validation of Projector::apply  *)
(* is the relation Refused: e is refused while one of Refused[e] has been  *)
(* applied (a spent fingerprint, a run already closed, ...).               *)
(***************************************************************************)
EXTENDS Naturals, Sequences

CONSTANTS
    Writers,   \* the tasks and processes that append
    Events,    \* event identities
    Batches,   \* the batches a caller may submit
    Refused    \* Refused[e]: events whose presence makes apply refuse e

ASSUME BatchesAssumption == Batches \subseteq Seq(Events)
ASSUME RefusedAssumption == Refused \in [Events -> SUBSET Events]

VARIABLES
    events,     \* the events table, in sequence order
    current,    \* the current_state row: its revision and applied_events
    base,       \* base[w]: the revision w's caller read before deciding
    pc,         \* pc[w]: where w is in record_batch
    batch,      \* batch[w]: the batch w passes to record_batch
    cas,        \* cas[w]: w passes Some(base[w]) as expected_base_revision
    projected,  \* projected[w]: w's copy of the projection, batch applied
    head        \* head[w]: MAX(sequence) as w's transaction read it

vars == <<events, current, base, pc, batch, cas, projected, head>>

States == [revision : Nat, applied : Seq(Events)]

Running == {"loading", "projected", "writing"}

TypeOK ==
    /\ events \in Seq(Events)
    /\ current \in States
    /\ base \in [Writers -> Nat]
    /\ pc \in [Writers -> {"idle", "ok", "error"} \cup Running]
    /\ batch \in [Writers -> Seq(Events)]
    /\ cas \in [Writers -> BOOLEAN]
    /\ projected \in [Writers -> States]
    /\ head \in [Writers -> Nat]

Empty == [revision |-> 0, applied |-> <<>>]

Init ==
    /\ events = <<>>
    /\ current = Empty
    /\ base = [w \in Writers |-> 0]
    /\ pc = [w \in Writers |-> "idle"]
    /\ batch = [w \in Writers |-> <<>>]
    /\ cas = [w \in Writers |-> FALSE]
    /\ projected = [w \in Writers |-> Empty]
    /\ head = [w \in Writers |-> 0]

-----------------------------------------------------------------------------
(* Mutant of Applies: the validations of apply are lost, the duplicate check kept. *)
AppliesWithoutValidation(applied, b) ==
    \A i \in DOMAIN b, j \in DOMAIN applied : applied[j] # b[i]

(* Projector::apply accepts each event of b in turn, given those before it. *)
Applies(applied, b) ==
    LET s == applied \o b IN
    \A i \in DOMAIN b : \A j \in 1..(Len(applied) + i - 1) :
        /\ s[j] # b[i]
        /\ s[j] \notin Refused[b[i]]

(* Mutant of Project: the revision runs the wrong way. *)
ProjectBackwards(state, b) ==
    [revision |-> state.revision - Len(b), applied |-> state.applied \o b]

(* Projector::apply over the batch: the revision counts the events applied. *)
Project(state, b) ==
    [revision |-> state.revision + Len(b), applied |-> state.applied \o b]

(* Mutant of StaleContext: expected_base_revision is not compared. *)
NeverStale(w, actual) == FALSE

(* The base revision the caller decided on is no longer the head. *)
StaleContext(w, actual) == cas[w] /\ base[w] # actual

(* Mutant of RevisionConflict: commit_batch trusts the projection it is given. *)
NeverConflict(w, actual) == FALSE

(* The projection was not computed from the head the transaction sees. *)
RevisionConflict(w, actual) == projected[w].revision # actual + Len(batch[w])

(* The projection ends with the batch about to be inserted. *)
EndsWithBatch(w) ==
    LET applied == projected[w].applied
        start == Len(applied) - Len(batch[w])
    IN  \A i \in DOMAIN batch[w] : applied[start + i] = batch[w][i]

(* SQLite refuses to upgrade a read snapshot that is no longer the newest. *)
BusySnapshot(w) == Len(events) # head[w]

-----------------------------------------------------------------------------
(* A caller reads the state it is going to decide on. *)
LoadState(w) ==
    /\ pc[w] = "idle"
    /\ base' = [base EXCEPT ![w] = current.revision]
    /\ UNCHANGED <<events, current, pc, batch, cas, projected, head>>

(* A caller enters record (g is FALSE) or record_batch with Some(base) or None.
   Nothing keeps it from submitting again what an earlier call already wrote. *)
Submit(w, b, g) ==
    /\ pc[w] = "idle"
    /\ batch' = [batch EXCEPT ![w] = b]
    /\ cas' = [cas EXCEPT ![w] = g]
    /\ pc' = [pc EXCEPT ![w] = "loading"]
    /\ UNCHANGED <<events, current, base, projected, head>>

(* record_batch loads the projection, compares revisions and applies. *)
RecordBatch(w) ==
    /\ pc[w] = "loading"
    /\ IF StaleContext(w, current.revision) \/ ~Applies(current.applied, batch[w])
         THEN /\ pc' = [pc EXCEPT ![w] = "error"]
              /\ UNCHANGED projected
         ELSE /\ pc' = [pc EXCEPT ![w] = "projected"]
              /\ projected' = [projected EXCEPT ![w] = Project(current, batch[w])]
    /\ UNCHANGED <<events, current, base, batch, cas, head>>

(* commit_batch up to the first INSERT: open the transaction, read the head. *)
CommitBegin(w) ==
    /\ pc[w] = "projected"
    /\ head' = [head EXCEPT ![w] = Len(events)]
    /\ IF \/ batch[w] = <<>>
          \/ StaleContext(w, Len(events))
          \/ RevisionConflict(w, Len(events))
          \/ ~EndsWithBatch(w)
         THEN pc' = [pc EXCEPT ![w] = "error"]
         ELSE pc' = [pc EXCEPT ![w] = "writing"]
    /\ UNCHANGED <<events, current, base, batch, cas, projected>>

(* Mutant of CommitBatch: the answer is sent before COMMIT, which may still fail. *)
CommitBatchAnswersEarly(w) ==
    /\ pc[w] = "writing"
    /\ pc' = [pc EXCEPT ![w] = "ok"]
    /\ IF BusySnapshot(w)
         THEN UNCHANGED <<events, current>>
         ELSE /\ events' = events \o batch[w]
              /\ current' = projected[w]
    /\ UNCHANGED <<base, batch, cas, projected, head>>

(* The INSERTs, the snapshot UPDATE and COMMIT; the transaction writes all of
   it or, when the upgrade is refused, nothing. *)
CommitBatch(w) ==
    /\ pc[w] = "writing"
    /\ IF BusySnapshot(w)
         THEN /\ pc' = [pc EXCEPT ![w] = "error"]
              /\ UNCHANGED <<events, current>>
         ELSE /\ pc' = [pc EXCEPT ![w] = "ok"]
              /\ events' = events \o batch[w]
              /\ current' = projected[w]
    /\ UNCHANGED <<base, batch, cas, projected, head>>

(* record_batch answers its caller. *)
Return(w) ==
    /\ pc[w] \in {"ok", "error"}
    /\ pc' = [pc EXCEPT ![w] = "idle"]
    /\ UNCHANGED <<events, current, base, batch, cas, projected, head>>

(* The task is dropped or the process dies; an open transaction is rolled back
   and an answer on its way is lost. *)
Crash(w) ==
    /\ pc[w] # "idle"
    /\ pc' = [pc EXCEPT ![w] = "idle"]
    /\ UNCHANGED <<events, current, base, batch, cas, projected, head>>

Next ==
    \E w \in Writers :
        \/ LoadState(w)
        \/ \E b \in Batches, g \in BOOLEAN : Submit(w, b, g)
        \/ RecordBatch(w)
        \/ CommitBegin(w)
        \/ CommitBatch(w)
        \/ Return(w)
        \/ Crash(w)

Spec == Init /\ [][Next]_vars

-----------------------------------------------------------------------------
(* No event of s repeats or is refused by an event before it. *)
Consistent(s) ==
    \A i, j \in DOMAIN s :
        j < i => /\ s[j] # s[i]
                 /\ s[j] \notin Refused[s[i]]

(* The snapshot row is exactly the projection of the ledger, so discarding it
   and replaying (Projector::replay, the check recovery.rs makes at start-up)
   gives it back, whatever the writers do and wherever they die. *)
SnapshotMatchesLedger ==
    /\ current.revision = Len(events)
    /\ current.applied = events

(* No event is in the ledger twice, and none was accepted although an event
   before it refuses it: each validation of Projector::apply still holds at the
   moment of the commit, though it was evaluated on a copy loaded earlier. *)
LedgerValid == Consistent(events)

(* A caller that was answered Ok finds its whole batch in the ledger, in order
   and without foreign events inside it. *)
AcknowledgedIsDurable ==
    \A w \in Writers :
        pc[w] = "ok" =>
            \E k \in 0..Len(events) :
                /\ k + Len(batch[w]) <= Len(events)
                /\ \A i \in DOMAIN batch[w] : events[k + i] = batch[w][i]
                /\ cas[w] => k = base[w]

(* How a call stands, seen from outside. *)
Request ==
    [w \in Writers |-> IF pc[w] \in Running THEN "pending"
                       ELSE IF pc[w] = "ok" THEN "granted"
                       ELSE IF pc[w] = "error" THEN "refused"
                       ELSE "none"]

Atomic ==
    INSTANCE AtomicLedger WITH
        log <- events, view <- base, want <- batch, guarded <- cas, req <- Request

(* record_batch over commit_batch implements the atomic ledger: with all its
   loads and checks spread over time, a call takes effect at one instant, whole,
   validated against the head of that instant and, when it names a base
   revision, only if nobody committed since its caller looked. *)
ImplementsAtomicLedger == Atomic!Spec
=============================================================================

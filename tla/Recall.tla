------------------------------- MODULE Recall -------------------------------
(***************************************************************************)
(* Memory.tla together with the embedding index and the recall that reads  *)
(* it.  A command that changed what is active spawns a task that brings    *)
(* the index up to date (RuntimeEngine::index_best_effort, up to three     *)
(* passes of EmbeddingIndexer::index_once); a user may start one pass by   *)
(* hand.  The tasks share the embedding_records table with each other and  *)
(* with nobody's ledger transaction.  A foreground call searches the index *)
(* (SemanticRecall::recall_with_budget), thinks, and commits its answer on *)
(* the revision it loaded.                                                 *)
(*                                                                         *)
(* Entries of memories are modelled.  Observations are never withdrawn     *)
(* from the index, and positions take the path of memories.                *)
(***************************************************************************)
EXTENDS Memory

CONSTANT Tasks  \* index passes that can be under way at a time

VARIABLES
    row,      \* row[m]: the embedding record of m
    pass,     \* pass[t]: what the task t does next
    attempt,  \* attempt[t]: which of its passes; 0 for a pass started by hand
    snapshot, \* snapshot[t]: the memories active in the state t loaded
    todo,     \* todo[t]: memories to embed, or the rows t read
    old,      \* old[t]: somebody committed since t loaded the state
    alone,    \* alone[t]: history; no other task wrote since t loaded the state
    call,     \* what the foreground call does next
    known,    \* the memories active in the state the call loaded
    bundle,   \* the memories recalled for it
    behind    \* somebody committed since the call loaded its state

index == <<row, pass, attempt, snapshot, todo, old, alone>>
recall == <<call, known, bundle, behind>>
recallVars == <<vars, index, recall>>

MaxAttempts == 3

Rows == {m \in Memories : row[m] = "active"}

RecallTypeOK ==
    /\ TypeOK
    /\ row \in [Memories -> {"none", "active", "inactive"}]
    /\ pass \in [Tasks -> {"idle", "load", "events", "discover", "embed", "rows",
                           "deactivate", "check"}]
    /\ attempt \in [Tasks -> 0..MaxAttempts]
    /\ snapshot \in [Tasks -> SUBSET Memories]
    /\ todo \in [Tasks -> SUBSET Memories]
    /\ \A t \in Tasks : pass[t] = "embed" => todo[t] # {} /\ todo[t] \subseteq snapshot[t]
    /\ old \in [Tasks -> BOOLEAN]
    /\ alone \in [Tasks -> BOOLEAN]
    /\ call \in {"idle", "search", "answer"}
    /\ known \subseteq Memories
    /\ bundle \subseteq Memories
    /\ behind \in BOOLEAN

RecallInit ==
    /\ Init
    /\ row = [m \in Memories |->
                 IF setting.tasks > 0 /\ m \in setting.known THEN "active" ELSE "none"]
    /\ pass = [t \in Tasks |-> "idle"]
    /\ attempt = [t \in Tasks |-> 0]
    /\ snapshot = [t \in Tasks |-> {}]
    /\ todo = [t \in Tasks |-> {}]
    /\ old = [t \in Tasks |-> FALSE]
    /\ alone = [t \in Tasks |-> FALSE]
    /\ call = "idle"
    /\ known = {}
    /\ bundle = {}
    /\ behind = FALSE

-----------------------------------------------------------------------------
Ages == old' = [t \in Tasks |-> old[t] \/ pass[t] \notin {"idle", "load"}]

(* The head moves on under the tasks and the call. *)
HeadMoves ==
    /\ Ages
    /\ behind' = (behind \/ call # "idle")

(* The setting bounds how many tasks there are at a time; without embeddings
   there are none. *)
MoreTasks == Cardinality({t \in Tasks : pass[t] # "idle"}) < setting.tasks

(* index_best_effort: a task of its own.  One more than there may be is one whose
   three passes fail at once. *)
Spawns ==
    \/ /\ ~MoreTasks
       /\ UNCHANGED <<pass, attempt>>
    \/ /\ MoreTasks
       /\ \E t \in Tasks : /\ pass[t] = "idle"
                           /\ pass' = [pass EXCEPT ![t] = "load"]
                           /\ attempt' = [attempt EXCEPT ![t] = 1]

(* A command of Memory.tla commits and spawns. *)
MemoryCommit(p) ==
    /\ IndexedCommit(p)
    /\ HeadMoves
    /\ Spawns
    /\ UNCHANGED <<row, snapshot, todo, alone, call, known, bundle>>

(* Any other step of Memory.tla: a load moves no head, nor does a command that ends
   without a trace; a commit does, also one that stores what was there. *)
MemoryStep ==
    /\ \/ \E p \in Procs :
            /\ Command(p) \/ Integrate(p)
            /\ IF work[p] = Idle /\ work'[p] # Idle
                 THEN UNCHANGED <<old, behind>>
                 ELSE HeadMoves
       \/ \E p \in Procs : GiveUp(p) /\ UNCHANGED <<old, behind>>
       \/ Environment /\ HeadMoves
    /\ UNCHANGED <<row, pass, attempt, snapshot, todo, alone, call, known, bundle>>

ForeignCommit ==
    /\ OtherCommit
    /\ HeadMoves
    /\ UNCHANGED <<row, pass, attempt, snapshot, todo, alone, call, known, bundle>>

-----------------------------------------------------------------------------
Goes(t, next) == pass' = [pass EXCEPT ![t] = next]

(* Nobody else's pass is alone any more once t has written. *)
Writes(t) == alone' = [u \in Tasks |-> alone[u] /\ u = t]

(* What t knew is of no use to anybody. *)
Forgets(t) ==
    /\ snapshot' = [snapshot EXCEPT ![t] = {}]
    /\ todo' = [todo EXCEPT ![t] = {}]
    /\ old' = [old EXCEPT ![t] = FALSE]
    /\ alone' = [alone EXCEPT ![t] = FALSE]

Stops(t) ==
    /\ Goes(t, "idle")
    /\ attempt' = [attempt EXCEPT ![t] = 0]
    /\ Forgets(t)

(* A pass is over, and another one follows unless it was the last. *)
PassEnds(t) ==
    IF attempt[t] \in {0, MaxAttempts}
      THEN Stops(t)
      ELSE /\ Goes(t, "load")
           /\ attempt' = [attempt EXCEPT ![t] = @ + 1]
           /\ Forgets(t)

(* --embedding-index-once. *)
IndexOnce(t) ==
    /\ MoreTasks
    /\ pass[t] = "idle"
    /\ Goes(t, "load")
    /\ UNCHANGED <<vars, row, attempt, snapshot, todo, old, alone, recall>>

(* embedding_documents: one for each memory that is active in the state. *)
Documents == Active

(* index_once: load_state, and the documents of it. *)
LoadSnapshot(t) ==
    /\ pass[t] = "load"
    /\ snapshot' = [snapshot EXCEPT ![t] = Documents]
    /\ old' = [old EXCEPT ![t] = FALSE]
    /\ alone' = [alone EXCEPT ![t] = TRUE]
    /\ Goes(t, "events")
    /\ UNCHANGED <<vars, row, attempt, todo, recall>>

(* load_events; a background task compares their number with the revision. *)
LoadEvents(t) ==
    /\ pass[t] = "events"
    /\ IF old[t] /\ attempt[t] # 0
         THEN PassEnds(t)
         ELSE Goes(t, "discover") /\ UNCHANGED <<attempt, snapshot, todo, old, alone>>
    /\ UNCHANGED <<vars, row, recall>>

(* Mutant of MissingDocuments: rows count although they are not active. *)
MissingDocumentsAnyRow(t) == {m \in snapshot[t] : row[m] = "none"}

(* discover_missing_documents: those without an active row. *)
MissingDocuments(t) == snapshot[t] \ Rows

Discover(t) ==
    /\ pass[t] = "discover"
    /\ todo' = [todo EXCEPT ![t] = MissingDocuments(t)]
    /\ Goes(t, IF MissingDocuments(t) = {} THEN "rows" ELSE "embed")
    /\ UNCHANGED <<vars, row, attempt, snapshot, old, alone, recall>>

(* embed_documents and store_embeddings for a batch. *)
Store(t, m) ==
    /\ pass[t] = "embed"
    /\ m \in todo[t]
    /\ row' = [row EXCEPT ![m] = "active"]
    /\ todo' = [todo EXCEPT ![t] = @ \ {m}]
    /\ Goes(t, IF todo[t] = {m} THEN "rows" ELSE "embed")
    /\ Writes(t)
    /\ UNCHANGED <<vars, attempt, snapshot, old, recall>>

(* deactivate_missing_documents reads the active rows outside its transaction ... *)
ReadRows(t) ==
    /\ pass[t] = "rows"
    /\ todo' = [todo EXCEPT ![t] = Rows]
    /\ Goes(t, "deactivate")
    /\ UNCHANGED <<vars, row, attempt, snapshot, old, alone, recall>>

(* ... and takes out those of them that are no document of its snapshot. *)
Deactivate(t) ==
    /\ pass[t] = "deactivate"
    /\ row' = [m \in Memories |-> IF m \in todo[t] \ snapshot[t] THEN "inactive" ELSE row[m]]
    /\ Goes(t, "check")
    /\ Writes(t)
    /\ UNCHANGED <<vars, attempt, snapshot, todo, old, recall>>

(* A background task is content if the head has not moved since its load. *)
CheckHead(t) ==
    /\ pass[t] = "check"
    /\ IF old[t] THEN PassEnds(t) ELSE Stops(t)
    /\ UNCHANGED <<vars, row, recall>>

(* The provider or the store fails, or the five seconds are over. *)
IndexFails(t) ==
    /\ pass[t] \in {"discover", "embed", "rows", "deactivate"}
    /\ PassEnds(t)
    /\ UNCHANGED <<vars, row, recall>>

(* The process the task runs in ends. *)
TaskDies(t) ==
    /\ pass[t] # "idle"
    /\ Stops(t)
    /\ UNCHANGED <<vars, row, recall>>

-----------------------------------------------------------------------------
(* A foreground call loads the state it will answer on. *)
CallLoad ==
    /\ setting.calls
    /\ call = "idle"
    /\ call' = "search"
    /\ known' = Active
    /\ behind' = FALSE
    /\ UNCHANGED <<vars, index, bundle>>

(* Mutant of Restores: a match is taken for what it says. *)
RestoresAnything(m) == TRUE

(* restore_item: the memory has to be active in the loaded state, and the match
   to name its promotion, an event of the ledger no newer than that state. *)
Restores(m) == m \in known

(* recall_local: active memories of the loaded state. *)
LocalRecall == known

(* recall_with_budget: what the index answers in time, restored, filled up from
   local recall; local recall alone if the search fails or is too slow. *)
Search(inTime) ==
    /\ call = "search"
    /\ bundle' = LocalRecall \cup IF inTime THEN {m \in Rows : Restores(m)} ELSE {}
    /\ call' = "answer"
    /\ UNCHANGED <<vars, index, known, behind>>

CallEnds ==
    /\ call' = "idle"
    /\ known' = {}
    /\ bundle' = {}
    /\ behind' = FALSE

(* The final batch, on the loaded revision, and index_best_effort. *)
Answer ==
    /\ call = "answer"
    /\ ~behind
    /\ CallEnds
    /\ Ages
    /\ Spawns
    /\ OtherCommit
    /\ UNCHANGED <<row, snapshot, todo, alone>>

(* Stale context, a model that fails, or the death of the call. *)
CallFails ==
    /\ call # "idle"
    /\ CallEnds
    /\ UNCHANGED <<vars, index>>

IndexStep(t) ==
    \/ IndexOnce(t)
    \/ LoadSnapshot(t)
    \/ LoadEvents(t)
    \/ Discover(t)
    \/ \E m \in Memories : Store(t, m)
    \/ ReadRows(t)
    \/ Deactivate(t)
    \/ CheckHead(t)
    \/ IndexFails(t)
    \/ TaskDies(t)

RecallNext ==
    \/ \E p \in Procs : MemoryCommit(p)
    \/ MemoryStep
    \/ ForeignCommit
    \/ \E t \in Tasks : IndexStep(t)
    \/ CallLoad
    \/ \E inTime \in BOOLEAN : Search(inTime)
    \/ Answer
    \/ CallFails

RecallSpec == RecallInit /\ [][RecallNext]_recallVars

-----------------------------------------------------------------------------
(* docs/invariants.md: expired and superseded memories do not enter active
   recall.  The memories an answer rests on that can still be committed are all
   active, although the index may hold rows of others: late, failed and
   overtaken index tasks leave such rows behind (restore_item). *)
AnswersRestOnActive ==
    (call = "answer" /\ ~behind) => bundle \subseteq Active

(* docs/invariants.md: --embedding-index-once reconstructs missed documents.  A
   pass, by hand or not, that nobody's commit and no other task's write
   overtook leaves exactly the active memories in the index, whatever earlier
   tasks left there (index_once, deactivate_missing_documents). *)
PassReconstructs ==
    \A t \in Tasks : (pass[t] = "check" /\ ~old[t] /\ alone[t]) => Rows = Active
=============================================================================

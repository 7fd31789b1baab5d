----------------------------- MODULE RecallProofs -----------------------------
(***************************************************************************)
(* Proofs about recall and the embedding index, for any number of index    *)
(* tasks, commands and memories.  Two revisions carry the argument: the    *)
(* one a call loaded, on which its final batch has to be committed, and    *)
(* the one an index task loaded.  While nobody commits, what either of     *)
(* them knows is what is active.                                           *)
(***************************************************************************)
EXTENDS Recall, MemoryProofs

IndexTypes ==
    /\ row \in [Memories -> {"none", "active", "inactive"}]
    /\ pass \in [Tasks -> {"idle", "load", "events", "discover", "embed", "rows",
                           "deactivate", "check"}]
    /\ attempt \in [Tasks -> 0..MaxAttempts]
    /\ snapshot \in [Tasks -> SUBSET Memories]
    /\ todo \in [Tasks -> SUBSET Memories]
    /\ old \in [Tasks -> BOOLEAN]
    /\ alone \in [Tasks -> BOOLEAN]

(* A call on the revision it loaded knows what is active, and what it recalled is a part
   of that, whatever the index held. *)
CallInv ==
    /\ call \in {"idle", "search", "answer"}
    /\ known \subseteq Memories /\ bundle \subseteq Memories
    /\ behind \in BOOLEAN
    /\ call # "idle" /\ ~behind => known = Active
    /\ call = "answer" => bundle \subseteq known

(* How far a pass nobody else wrote into has come. *)
Reached(t) ==
    /\ pass[t] = "embed" => snapshot[t] \ todo[t] \subseteq Rows
    /\ pass[t] = "rows" => snapshot[t] \subseteq Rows
    /\ pass[t] = "deactivate" => snapshot[t] \subseteq Rows /\ todo[t] = Rows
    /\ pass[t] = "check" => snapshot[t] = Rows

PassInv(t) ==
    /\ pass[t] = "embed" => todo[t] # {} /\ todo[t] \subseteq snapshot[t]
    /\ pass[t] \notin {"idle", "load"} /\ ~old[t] => snapshot[t] = Active
    /\ alone[t] => Reached(t)

RecallInv == IndexTypes /\ CallInv /\ \A t \in Tasks : PassInv(t)

-----------------------------------------------------------------------------
(* Index tasks and calls change nothing of what Memory.tla is about, and a final batch is
   one of its other commits. *)
LEMMA MemorySteps == [RecallNext]_recallVars => [Next]_vars
<1>1. ASSUME NEW p \in Procs, MemoryCommit(p) PROVE Next
  BY <1>1 DEF MemoryCommit, Next
<1>2. MemoryStep => Next
  BY DEF MemoryStep, Next
<1>3. ForeignCommit \/ Answer => Next
  BY DEF ForeignCommit, Answer, Next
<1>4. ASSUME NEW t \in Tasks, IndexStep(t) PROVE UNCHANGED vars
  BY <1>4
     DEF IndexStep, IndexOnce, LoadSnapshot, LoadEvents, Discover, Store, ReadRows, Deactivate,
         CheckHead, IndexFails, TaskDies
<1>5. ASSUME CallLoad \/ (\E inTime \in BOOLEAN : Search(inTime)) \/ CallFails
      PROVE  UNCHANGED vars
  BY <1>5 DEF CallLoad, Search, CallFails
<1>6. UNCHANGED recallVars => UNCHANGED vars
  BY DEF recallVars
<1> QED
  BY <1>1, <1>2, <1>3, <1>4, <1>5, <1>6 DEF RecallNext

(* The memories and positions beside an index and calls behave as they do alone: all that
   is proved of Memory.tla holds of the two together. *)
THEOREM ImplementsMemory == RecallSpec => Spec
<1>1. RecallInit => Init
  BY DEF RecallInit
<1>2. [RecallNext]_recallVars => [Next]_vars
  BY MemorySteps
<1> QED
  BY <1>1, <1>2, PTL DEF RecallSpec, Spec

-----------------------------------------------------------------------------
(* What a step of Memory.tla leaves to the index and the call: it changes what is active
   only if it moves the head under both. *)
LEMMA UnderTheIndex ==
    ASSUME \/ \E p \in Procs : MemoryCommit(p)
           \/ MemoryStep
           \/ ForeignCommit
    PROVE  /\ UNCHANGED <<row, snapshot, todo, alone, call, known, bundle>>
           /\ HeadMoves \/ UNCHANGED <<memory, old, behind>>
           /\ Spawns \/ UNCHANGED <<pass, attempt>>
<1>1. ASSUME NEW p \in Procs, MemoryCommit(p)
      PROVE  /\ UNCHANGED <<row, snapshot, todo, alone, call, known, bundle>>
             /\ HeadMoves /\ Spawns
  BY <1>1 DEF MemoryCommit
<1>2. ASSUME MemoryStep
      PROVE  /\ UNCHANGED <<row, pass, attempt, snapshot, todo, alone, call, known, bundle>>
             /\ HeadMoves \/ UNCHANGED <<memory, old, behind>>
  <2>1. UNCHANGED <<row, pass, attempt, snapshot, todo, alone, call, known, bundle>>
    BY <1>2 DEF MemoryStep
  <2>2. ASSUME NEW p \in Procs, Command(p), work[p] = Idle, work'[p] # Idle
        PROVE  UNCHANGED memory
    BY <2>2
       DEF Command, Create, PromoteLoad, RejectLoad, StatusLoad, RejectCommit, Decides,
           projection, memories
  <2>3. ASSUME NEW p \in Procs, Integrate(p) PROVE UNCHANGED memory
    BY <2>3
       DEF Integrate, TransitionLoad, MaterializeMemoryLoad, ReviseLoad,
           MaterializePositionLoad, TransitionCommit, Decides, projection, memories
  <2>4. ASSUME NEW p \in Procs, GiveUp(p) PROVE UNCHANGED memory
    BY <2>4 DEF GiveUp, projection, memories
  <2> QED
    BY <1>2, <2>1, <2>2, <2>3, <2>4 DEF MemoryStep
<1>3. ASSUME ForeignCommit
      PROVE  /\ UNCHANGED <<row, pass, attempt, snapshot, todo, alone, call, known, bundle>>
             /\ HeadMoves
  BY <1>3 DEF ForeignCommit
<1> QED
  BY <1>1, <1>2, <1>3

(* A new task has loaded nothing yet. *)
LEMMA SpawnsTypes ==
    ASSUME IndexTypes, Spawns \/ UNCHANGED <<pass, attempt>>
    PROVE  /\ pass' \in [Tasks -> {"idle", "load", "events", "discover", "embed", "rows",
                                   "deactivate", "check"}]
           /\ attempt' \in [Tasks -> 0..MaxAttempts]
           /\ \A t \in Tasks : pass'[t] = pass[t] \/ pass'[t] = "load"
  BY DEF Spawns, IndexTypes, MaxAttempts

(* A commit makes old what every task under way has loaded. *)
LEMMA AgedPasses ==
    ASSUME IndexTypes, NEW t \in Tasks, PassInv(t),
           UNCHANGED <<row, snapshot, todo, alone>>,
           Ages \/ UNCHANGED <<memory, old>>,
           pass'[t] = pass[t] \/ pass'[t] = "load"
    PROVE  PassInv(t)' /\ old' \in [Tasks -> BOOLEAN]
<1>1. old' \in [Tasks -> BOOLEAN]
  BY DEF Ages, IndexTypes
<1>2. CASE pass'[t] = "load"
  BY <1>1, <1>2 DEF PassInv, Reached
<1>3. CASE pass'[t] = pass[t]
  <2>1. Rows' = Rows
    BY DEF Rows
  <2>2. pass[t] \notin {"idle", "load"} /\ ~old'[t] => ~old[t] /\ UNCHANGED memory
    BY DEF Ages
  <2>3. UNCHANGED memory => Active' = Active
    BY DEF Active
  <2>4. pass'[t] \notin {"idle", "load"} /\ ~old'[t] => snapshot'[t] = Active'
    BY <1>3, <2>2, <2>3 DEF PassInv
  <2>5. alone'[t] => Reached(t)'
    BY <1>3, <2>1 DEF PassInv, Reached
  <2> QED
    BY <1>1, <1>3, <2>4, <2>5 DEF PassInv
<1> QED
  BY <1>1, <1>2, <1>3

-----------------------------------------------------------------------------
(* What a step of the task t leaves to the others: a write of t, and nothing else, ends
   the time they were alone. *)
Beside(t) ==
    \A u \in Tasks \ {t} :
        /\ pass'[u] = pass[u] /\ todo'[u] = todo[u] /\ snapshot'[u] = snapshot[u]
        /\ old'[u] = old[u]
        /\ alone'[u] => alone[u] /\ UNCHANGED row

(* The last thing a pass does is to forget what it knew. *)
LEMMA PassEndsForgets ==
    ASSUME IndexTypes, NEW t \in Tasks, PassEnds(t) \/ Stops(t), UNCHANGED <<row, memory>>
    PROVE  IndexTypes' /\ PassInv(t)' /\ Beside(t)
<1>1. pass' = [pass EXCEPT ![t] = "idle"] \/ pass' = [pass EXCEPT ![t] = "load"]
  BY DEF PassEnds, Stops, Goes
<1>2. Forgets(t)
  BY DEF PassEnds, Stops
<1>3. attempt' \in [Tasks -> 0..MaxAttempts]
  <2> DEFINE Attempts == 0..MaxAttempts
  <2>1. attempt \in [Tasks -> Attempts] /\ attempt[t] \in Attempts
    BY DEF IndexTypes
  <2>2. attempt[t] \notin {0, MaxAttempts} => attempt[t] + 1 \in Attempts
    BY <2>1 DEF MaxAttempts
  <2>3. 0 \in Attempts
    BY DEF MaxAttempts
  <2>4. \/ attempt' = [attempt EXCEPT ![t] = 0]
        \/ attempt[t] \notin {0, MaxAttempts} /\ attempt' = [attempt EXCEPT ![t] = attempt[t] + 1]
    BY DEF PassEnds, Stops
  <2> HIDE DEF Attempts
  <2>5. attempt' \in [Tasks -> Attempts]
    BY <2>1, <2>2, <2>3, <2>4
  <2> QED
    BY <2>5 DEF Attempts
<1>4. IndexTypes'
  <2>1. pass' \in [Tasks -> {"idle", "load", "events", "discover", "embed", "rows",
                             "deactivate", "check"}]
    BY <1>1 DEF IndexTypes
  <2>2. snapshot' \in [Tasks -> SUBSET Memories] /\ todo' \in [Tasks -> SUBSET Memories]
    BY <1>2 DEF Forgets, IndexTypes
  <2>3. old' \in [Tasks -> BOOLEAN]
    BY <1>2 DEF Forgets, IndexTypes
  <2>4. alone' \in [Tasks -> BOOLEAN]
    BY <1>2 DEF Forgets, IndexTypes
  <2> QED
    BY <1>3, <2>1, <2>2, <2>3, <2>4 DEF IndexTypes
<1>5. PassInv(t)'
  <2>1. pass'[t] \in {"idle", "load"}
    BY <1>1 DEF IndexTypes
  <2> QED
    BY <2>1 DEF PassInv, Reached
<1>6. Beside(t)
  BY <1>1, <1>2 DEF Beside, Forgets, IndexTypes
<1> QED
  BY <1>4, <1>5, <1>6

(* A pass loads what is active, embeds what has no row, and takes out the rows that are no
   document of its snapshot: alone, it leaves the rows of its snapshot. *)
LEMMA IndexSteps ==
    ASSUME IndexTypes, NEW t \in Tasks, PassInv(t), IndexStep(t), UNCHANGED memory
    PROVE  IndexTypes' /\ PassInv(t)' /\ Beside(t)
<1> DEFINE Goal == IndexTypes' /\ PassInv(t)' /\ Beside(t)
<1>1. Active' = Active /\ Active \subseteq Memories
  BY DEF Active
<1>2. UNCHANGED row => Rows' = Rows
  BY DEF Rows
<1>3. CASE IndexOnce(t)
  <2>1. pass' = [pass EXCEPT ![t] = "load"] /\ UNCHANGED <<row, attempt, snapshot, todo, old, alone>>
    BY <1>3 DEF IndexOnce, Goes
  <2>2. IndexTypes'
    BY <2>1 DEF IndexTypes
  <2>3. PassInv(t)'
    BY <2>1 DEF PassInv, Reached, IndexTypes
  <2> QED
    BY <2>1, <2>2, <2>3 DEF Beside, IndexTypes
<1>4. CASE LoadSnapshot(t)
  <2>1. /\ snapshot' = [snapshot EXCEPT ![t] = Active]
        /\ old' = [old EXCEPT ![t] = FALSE]
        /\ alone' = [alone EXCEPT ![t] = TRUE]
        /\ pass' = [pass EXCEPT ![t] = "events"]
        /\ UNCHANGED <<row, attempt, todo>>
    BY <1>4 DEF LoadSnapshot, Goes, Documents
  <2>2. old' \in [Tasks -> BOOLEAN] /\ alone' \in [Tasks -> BOOLEAN]
    BY <2>1 DEF IndexTypes
  <2>3. IndexTypes'
    BY <1>1, <2>1, <2>2 DEF IndexTypes
  <2>4. PassInv(t)'
    BY <1>1, <2>1 DEF PassInv, Reached, IndexTypes
  <2> QED
    BY <2>1, <2>3, <2>4 DEF Beside, IndexTypes
<1>5. CASE LoadEvents(t)
  <2>1. CASE PassEnds(t)
    BY <1>5, <2>1, PassEndsForgets DEF LoadEvents
  <2>2. CASE Goes(t, "discover") /\ UNCHANGED <<attempt, snapshot, todo, old, alone>>
    <3>1. pass[t] = "events" /\ pass' = [pass EXCEPT ![t] = "discover"] /\ UNCHANGED row
      BY <1>5, <2>2 DEF LoadEvents, Goes
    <3>2. IndexTypes'
      BY <2>2, <3>1 DEF IndexTypes
    <3>3. PassInv(t)'
      BY <1>1, <2>2, <3>1 DEF PassInv, Reached, IndexTypes
    <3> QED
      BY <2>2, <3>1, <3>2, <3>3 DEF Beside, IndexTypes
  <2> QED
    BY <1>5, <2>1, <2>2 DEF LoadEvents
<1>6. CASE Discover(t)
  <2> DEFINE missing == snapshot[t] \ Rows
             next == IF missing = {} THEN "rows" ELSE "embed"
  <2>1. /\ pass[t] = "discover"
        /\ todo' = [todo EXCEPT ![t] = missing]
        /\ pass' = [pass EXCEPT ![t] = next]
        /\ UNCHANGED <<row, attempt, snapshot, old, alone>>
    BY <1>6 DEF Discover, Goes, MissingDocuments
  <2>2. IndexTypes'
    BY <2>1 DEF IndexTypes
  <2>3. pass'[t] = next /\ todo'[t] = missing
    BY <2>1 DEF IndexTypes
  <2>4. PassInv(t)'
    BY <1>1, <1>2, <2>1, <2>3 DEF PassInv, Reached
  <2> QED
    BY <2>1, <2>2, <2>4 DEF Beside, IndexTypes
<1>7. ASSUME NEW m \in Memories, Store(t, m) PROVE Goal
  <2>1. /\ pass[t] = "embed" /\ m \in todo[t]
        /\ row' = [row EXCEPT ![m] = "active"]
        /\ todo' = [todo EXCEPT ![t] = todo[t] \ {m}]
        /\ pass' = [pass EXCEPT ![t] = IF todo[t] = {m} THEN "rows" ELSE "embed"]
        /\ alone' = [u \in Tasks |-> alone[u] /\ u = t]
        /\ UNCHANGED <<attempt, snapshot, old>>
    BY <1>7 DEF Store, Goes, Writes, IndexTypes
  <2>2. Rows' = Rows \cup {m}
    BY <2>1 DEF Rows, IndexTypes
  <2>3. /\ pass'[t] = IF todo[t] = {m} THEN "rows" ELSE "embed"
        /\ todo'[t] = todo[t] \ {m}
        /\ todo[t] # {} /\ todo[t] \subseteq snapshot[t]
    BY <2>1 DEF PassInv, IndexTypes
  <2>4. alone' \in [Tasks -> BOOLEAN] /\ (alone'[t] => alone[t])
    BY <2>1
  <2>5. alone'[t] => snapshot[t] \ todo[t] \subseteq Rows
    BY <2>1, <2>4 DEF PassInv, Reached
  <2>6. alone'[t] => Reached(t)'
    BY <2>1, <2>2, <2>3, <2>5 DEF Reached
  <2>7. PassInv(t)'
    BY <1>1, <2>1, <2>3, <2>6 DEF PassInv
  <2>8. IndexTypes'
    BY <2>1, <2>4 DEF IndexTypes
  <2>9. Beside(t)
    <3>1. \A u \in Tasks \ {t} : ~alone'[u]
      BY <2>1
    <3> QED
      BY <2>1, <3>1 DEF Beside, IndexTypes
  <2> QED BY <2>7, <2>8, <2>9
<1>8. CASE ReadRows(t)
  <2>1. /\ pass[t] = "rows"
        /\ todo' = [todo EXCEPT ![t] = Rows]
        /\ pass' = [pass EXCEPT ![t] = "deactivate"]
        /\ UNCHANGED <<row, attempt, snapshot, old, alone>>
    BY <1>8 DEF ReadRows, Goes
  <2>2. IndexTypes'
    BY <2>1 DEF IndexTypes, Rows
  <2>3. pass'[t] = "deactivate" /\ todo'[t] = Rows
    BY <2>1 DEF IndexTypes
  <2>4. PassInv(t)'
    BY <1>1, <1>2, <2>1, <2>3 DEF PassInv, Reached
  <2> QED
    BY <2>1, <2>2, <2>4 DEF Beside, IndexTypes
<1>9. CASE Deactivate(t)
  <2>1. /\ pass[t] = "deactivate"
        /\ row' = [m \in Memories |-> IF m \in todo[t] \ snapshot[t] THEN "inactive" ELSE row[m]]
        /\ pass' = [pass EXCEPT ![t] = "check"]
        /\ alone' = [u \in Tasks |-> alone[u] /\ u = t]
        /\ UNCHANGED <<attempt, snapshot, todo, old>>
    BY <1>9 DEF Deactivate, Goes, Writes
  <2>2. Rows' = Rows \ (todo[t] \ snapshot[t])
    BY <2>1 DEF Rows, IndexTypes
  <2>3. alone' \in [Tasks -> BOOLEAN] /\ (alone'[t] => alone[t]) /\ pass'[t] = "check"
    BY <2>1 DEF IndexTypes
  <2>4. alone'[t] => snapshot[t] \subseteq Rows /\ todo[t] = Rows
    BY <2>1, <2>3 DEF PassInv, Reached
  <2>5. alone'[t] => Reached(t)'
    BY <2>1, <2>2, <2>3, <2>4 DEF Reached
  <2>6. PassInv(t)'
    BY <1>1, <2>1, <2>3, <2>5 DEF PassInv
  <2>7. IndexTypes'
    BY <2>1, <2>3 DEF IndexTypes
  <2>8. Beside(t)
    <3>1. \A u \in Tasks \ {t} : ~alone'[u]
      BY <2>1
    <3> QED
      BY <2>1, <3>1 DEF Beside, IndexTypes
  <2> QED BY <2>6, <2>7, <2>8
<1>10. CASE CheckHead(t) \/ IndexFails(t) \/ TaskDies(t)
  BY <1>10, PassEndsForgets DEF CheckHead, IndexFails, TaskDies
<1> QED
  BY <1>3, <1>4, <1>5, <1>6, <1>7, <1>8, <1>9, <1>10 DEF IndexStep

(* ... and so do the passes of the others. *)
LEMMA OtherPasses ==
    ASSUME IndexTypes, NEW t \in Tasks, Beside(t), UNCHANGED memory,
           NEW u \in Tasks \ {t}, PassInv(u)
    PROVE  PassInv(u)'
<1>1. Active' = Active
  BY DEF Active
<1>2. alone'[u] => Reached(u)'
  <2>1. UNCHANGED row => Rows' = Rows
    BY DEF Rows
  <2> QED
    BY <2>1 DEF Beside, PassInv, Reached
<1> QED
  BY <1>1, <1>2 DEF Beside, PassInv

-----------------------------------------------------------------------------
(* Every step keeps the invariant. *)
LEMMA RecallStep == RecallInv /\ [RecallNext]_recallVars => RecallInv'
<1> SUFFICES ASSUME RecallInv, [RecallNext]_recallVars PROVE RecallInv'
  OBVIOUS
<1>0. IndexTypes /\ CallInv /\ \A t \in Tasks : PassInv(t)
  BY DEF RecallInv
<1>1. ASSUME NEW t \in Tasks, IndexStep(t) PROVE RecallInv'
  <2>1. UNCHANGED <<vars, recall>>
    BY <1>1
       DEF IndexStep, IndexOnce, LoadSnapshot, LoadEvents, Discover, Store, ReadRows,
           Deactivate, CheckHead, IndexFails, TaskDies
  <2>2. UNCHANGED <<memory, call, known, bundle, behind>>
    BY <2>1 DEF vars, projection, memories, recall
  <2>3. CallInv'
    BY <1>0, <2>2 DEF CallInv, Active
  <2>4. IndexTypes' /\ PassInv(t)' /\ Beside(t)
    BY <1>0, <1>1, <2>2, IndexSteps
  <2>5. ASSUME NEW u \in Tasks PROVE PassInv(u)'
    BY <1>0, <2>2, <2>4, OtherPasses
  <2> QED
    BY <2>3, <2>4, <2>5 DEF RecallInv
<1>2. ASSUME (\E p \in Procs : MemoryCommit(p)) \/ MemoryStep \/ ForeignCommit
      PROVE  RecallInv'
  <2>1. /\ UNCHANGED <<row, snapshot, todo, alone, call, known, bundle>>
        /\ HeadMoves \/ UNCHANGED <<memory, old, behind>>
        /\ Spawns \/ UNCHANGED <<pass, attempt>>
    BY <1>2, UnderTheIndex
  <2>2. CallInv'
    <3>1. HeadMoves => behind' = (behind \/ call # "idle")
      BY DEF HeadMoves
    <3>2. behind' \in BOOLEAN
      BY <1>0, <2>1, <3>1 DEF CallInv
    <3>3. call # "idle" /\ ~behind' => ~behind /\ UNCHANGED memory
      BY <2>1, <3>1
    <3>4. call # "idle" /\ ~behind' => known' = Active'
      BY <1>0, <2>1, <3>3 DEF CallInv, Active
    <3> QED
      BY <1>0, <2>1, <3>2, <3>4 DEF CallInv
  <2>3. /\ pass' \in [Tasks -> {"idle", "load", "events", "discover", "embed", "rows",
                                "deactivate", "check"}]
        /\ attempt' \in [Tasks -> 0..MaxAttempts]
        /\ \A t \in Tasks : pass'[t] = pass[t] \/ pass'[t] = "load"
    BY <1>0, <2>1, SpawnsTypes
  <2>4. Ages \/ UNCHANGED <<memory, old>>
    BY <2>1 DEF HeadMoves
  <2>5. ASSUME NEW t \in Tasks PROVE PassInv(t)' /\ old' \in [Tasks -> BOOLEAN]
    BY <1>0, <2>1, <2>3, <2>4, AgedPasses
  <2>6. old' \in [Tasks -> BOOLEAN]
    BY <1>0, <2>4 DEF Ages, IndexTypes
  <2>7. IndexTypes'
    BY <1>0, <2>1, <2>3, <2>6 DEF IndexTypes
  <2> QED
    BY <2>2, <2>5, <2>7 DEF RecallInv
<1>3. CASE Answer
  <2>1. /\ UNCHANGED <<row, snapshot, todo, alone>>
        /\ CallEnds /\ Ages /\ Spawns
    BY <1>3 DEF Answer
  <2>2. CallInv'
    BY <2>1 DEF CallEnds, CallInv
  <2>3. /\ pass' \in [Tasks -> {"idle", "load", "events", "discover", "embed", "rows",
                                "deactivate", "check"}]
        /\ attempt' \in [Tasks -> 0..MaxAttempts]
        /\ \A t \in Tasks : pass'[t] = pass[t] \/ pass'[t] = "load"
    BY <1>0, <2>1, SpawnsTypes
  <2>4. ASSUME NEW t \in Tasks PROVE PassInv(t)'
    BY <1>0, <2>1, <2>3, AgedPasses
  <2>5. old' \in [Tasks -> BOOLEAN]
    BY <2>1 DEF Ages
  <2>6. IndexTypes'
    BY <1>0, <2>1, <2>3, <2>5 DEF IndexTypes
  <2> QED
    BY <2>2, <2>4, <2>6 DEF RecallInv
<1>4. CASE UNCHANGED <<memory, index>> /\ CallInv'
  <2>1. UNCHANGED <<row, pass, attempt, snapshot, todo, old, alone, memory>>
    BY <1>4 DEF index
  <2>2. IndexTypes'
    BY <1>0, <2>1 DEF IndexTypes
  <2>3. ASSUME NEW t \in Tasks PROVE PassInv(t)'
    BY <1>0, <2>1 DEF PassInv, Reached, Active, Rows
  <2> QED
    BY <1>4, <2>2, <2>3 DEF RecallInv
<1>5. CASE CallLoad
  <2>1. UNCHANGED memory
    BY <1>5 DEF CallLoad, vars, projection, memories
  <2>2. CallInv'
    BY <1>0, <1>5, <2>1 DEF CallLoad, CallInv, Active
  <2> QED
    BY <1>4, <1>5, <2>1, <2>2 DEF CallLoad
<1>6. ASSUME NEW inTime \in BOOLEAN, Search(inTime) PROVE RecallInv'
  <2>1. UNCHANGED memory
    BY <1>6 DEF Search, vars, projection, memories
  <2>2. bundle' \subseteq known
    BY <1>6 DEF Search, LocalRecall, Restores
  <2>3. CallInv'
    BY <1>0, <1>6, <2>1, <2>2 DEF Search, CallInv, Active
  <2> QED
    BY <1>4, <1>6, <2>1, <2>3 DEF Search
<1>7. CASE CallFails
  <2>1. UNCHANGED memory
    BY <1>7 DEF CallFails, vars, projection, memories
  <2>2. CallInv'
    BY <1>7 DEF CallFails, CallEnds, CallInv
  <2> QED
    BY <1>4, <1>7, <2>1, <2>2 DEF CallFails
<1>8. CASE UNCHANGED recallVars
  <2>1. UNCHANGED <<memory, index, call, known, bundle, behind>>
    BY <1>8 DEF recallVars, vars, projection, memories, recall
  <2>2. CallInv'
    BY <1>0, <2>1 DEF CallInv, Active
  <2> QED
    BY <1>4, <2>1, <2>2
<1> QED
  BY <1>1, <1>2, <1>3, <1>5, <1>6, <1>7, <1>8 DEF RecallNext

(* What calls and index tasks know holds in every reachable state. *)
THEOREM RecallInvariance == RecallSpec => []RecallInv
<1>1. RecallInit => RecallInv
  <2> SUFFICES ASSUME RecallInit PROVE RecallInv
    OBVIOUS
  <2>1. IndexTypes
    BY DEF RecallInit, IndexTypes, MaxAttempts
  <2>2. CallInv
    BY DEF RecallInit, CallInv
  <2>3. ASSUME NEW t \in Tasks PROVE PassInv(t)
    BY DEF RecallInit, PassInv, Reached
  <2> QED
    BY <2>1, <2>2, <2>3 DEF RecallInv
<1>2. RecallInv /\ [RecallNext]_recallVars => RecallInv'
  BY RecallStep
<1> QED
  BY <1>1, <1>2, PTL DEF RecallSpec

(* The type invariant of memories, index and calls together. *)
THEOREM RecallTypeCorrect == RecallSpec => []RecallTypeOK
<1>1. TypeOK /\ RecallInv => RecallTypeOK
  BY DEF RecallInv, IndexTypes, CallInv, PassInv, RecallTypeOK
<1> QED
  BY <1>1, ImplementsMemory, TypeCorrect, RecallInvariance, PTL

(* What is proved of memories and positions holds beside an index and calls: a memory is
   replaced once and moves forward, a lesson is learnt once, and a position is integrated
   alone. *)
THEOREM TogetherTheorem ==
    RecallSpec => /\ []ReplacedOnce /\ []LessonsDistinct
                  /\ MemoriesMoveForward /\ IntegratedAlone
BY ImplementsMemory, ReplacedOnceTheorem, LessonsDistinctTheorem, MoveForwardTheorem,
   IntegratedAloneTheorem, PTL

(* Whatever rows late, failed and overtaken index tasks left, the memories an answer rests
   on that can still be committed are all active (restore_item). *)
THEOREM AnswersTheorem == RecallSpec => []AnswersRestOnActive
<1>1. RecallInv => AnswersRestOnActive
  BY DEF RecallInv, CallInv, AnswersRestOnActive
<1> QED
  BY <1>1, RecallInvariance, PTL

(* A pass that nobody's commit and no other task's write overtook leaves exactly the active
   memories in the index, for any number of memories and tasks (index_once,
   deactivate_missing_documents). *)
THEOREM ReconstructsTheorem == RecallSpec => []PassReconstructs
<1>1. RecallInv => PassReconstructs
  BY DEF RecallInv, PassInv, Reached, PassReconstructs
<1> QED
  BY <1>1, RecallInvariance, PTL
=============================================================================

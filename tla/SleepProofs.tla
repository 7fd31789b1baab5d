---------------------------- MODULE SleepProofs -----------------------------
(***************************************************************************)
(* Proofs about the sleep runs, for any number of commands beside the      *)
(* worker, any window and any number of observations and disturbances.     *)
(* Nothing but the expected revision of a commit keeps two runs apart and  *)
(* the cursor in front of what was not taken up.                           *)
(***************************************************************************)
EXTENDS Sleep, FiniteSetTheorems, TLAPS

(* A window of observations that a run may take up. *)
Window(before, last) ==
    /\ before <= last /\ last <= Len(obs)
    /\ \A j \in (before + 1)..last : obs[j] # "large"

(* One run at most is under way, and it starts at the cursor. *)
RunsInv ==
    /\ \A r, s \in Running : r = s
    /\ \A r \in Running : run[r].before = cursor /\ Window(cursor, run[r].last)

(* w is on its way to a run of its own. *)
Starts(w) ==
    \/ pc[w] \in {"plan", "start", "starting"}
    \/ pc[w] = "lease" /\ mine[w] = None

(* w works on a run. *)
WorksOn(w) ==
    \/ pc[w] \in {"resume", "check", "think", "complete", "fail"}
    \/ pc[w] = "lease" /\ mine[w] # None

(* What w loaded: as long as nobody else commits, it is how things are. *)
LoadInv(w) ==
    /\ pc[w] = "idle" => mine[w] = None
    /\ Starts(w) =>
          /\ mine[w] = None
          /\ draft[w].before <= draft[w].last /\ draft[w].last <= Len(obs)
          /\ ~stale[w] => Running = {} /\ draft[w].before = cursor
    /\ pc[w] \in {"start", "starting"} => Window(draft[w].before, draft[w].last)
    /\ WorksOn(w) => mine[w] \in Runs /\ (~stale[w] => mine[w] \in Running)
    /\ pc[w] = "interrupt" => mine[w] \in Runs

LoadsInv == \A w \in Procs : LoadInv(w)

IInv == TypeOK /\ RunsInv /\ LoadsInv /\ cursor <= Len(obs) /\ TakenUpOnce

-----------------------------------------------------------------------------
(* A fresh run identity exists whenever a run is started: a process refers to one run
   at most, and there are more identities than processes. *)
LEMMA FreshRunExists ==
    ASSUME Running = {}, mine \in [Procs -> Runs \cup {None}]
    PROVE  FreshRun \in Runs /\ \A w \in Procs : mine[w] # FreshRun
<1> DEFINE used == {mine[w] : w \in Procs}
<1>1. IsFiniteSet(Procs)
  BY ProcsAssumption, FS_Singleton, FS_Union DEF Procs
<1>2. IsFiniteSet(used) /\ Cardinality(used) <= Cardinality(Procs)
  <2>1. mine \in Surjection(Procs, used)
    BY DEF Surjection
  <2> QED BY <1>1, <2>1, FS_Surjection
<1>3. Cardinality(used) \in Nat /\ Cardinality(Procs) \in Nat
  BY <1>1, <1>2, FS_CardinalityType
<1>4. \E r \in Runs : r \notin used
  <2>1. SUFFICES ASSUME Runs \subseteq used PROVE FALSE
    OBVIOUS
  <2>2. IsFiniteSet(Runs) /\ Cardinality(Runs) <= Cardinality(used)
    BY <1>2, <2>1, FS_Subset
  <2>3. Cardinality(Runs) \in Nat /\ Cardinality(Runs) > Cardinality(Procs)
    BY <2>2, FS_CardinalityType, EnoughRuns
  <2> QED
    BY <1>2, <1>3, <2>2, <2>3
<1>5. \E r \in Runs : r \notin Running /\ \A w \in Procs : mine[w] # r
  BY <1>4
<1> QED
  BY <1>5 DEF FreshRun

(* A step of w that leaves the observations, the cursor and the runs alone disturbs
   nobody: it is enough to know where w is afterwards. *)
LEMMA Locally ==
    ASSUME IInv, NEW w \in Procs, UNCHANGED <<obs, cursor, run, processed>>,
           \A v \in Procs \ {w} : /\ pc'[v] = pc[v] /\ mine'[v] = mine[v]
                                  /\ draft'[v] = draft[v] /\ stale'[v] = stale[v],
           TypeOK', LoadInv(w)'
    PROVE  IInv'
<1>1. RunsInv' /\ (cursor <= Len(obs))' /\ TakenUpOnce'
  BY DEF IInv, RunsInv, Running, Window, TakenUpOnce
<1>2. ASSUME NEW v \in Procs \ {w} PROVE LoadInv(v)'
  BY <1>2 DEF IInv, LoadsInv, LoadInv, Starts, WorksOn, Running, Window
<1> QED
  BY <1>1, <1>2 DEF IInv, LoadsInv

(* The flags of old loads are flags. *)
LEMMA OutdatesType == ASSUME NEW w, Outdates(w) PROVE stale' \in [Procs -> BOOLEAN]
  BY DEF Outdates

(* A commit of anybody but the processes moves the head and nothing else of Sleep. *)
LEMMA WorldStep ==
    ASSUME IInv, ForegroundBegins \/ ForegroundEnds \/ OtherCommit
    PROVE  IInv'
<1>1. TypeOK'
  <2>1. stale' \in [Procs -> BOOLEAN]
    BY OutdatesType DEF IInv, TypeOK, ForegroundBegins, ForegroundEnds, OtherCommit
  <2>2. left' = left \/ (left > 0 /\ left' = left - 1)
    BY DEF ForegroundBegins, ForegroundEnds, OtherCommit, Disturbs
  <2>3. left' \in 0..MaxDisturbances
    BY <2>2, BoundsAssumption DEF IInv, TypeOK
  <2>4. lease' \in BOOLEAN
    BY DEF IInv, TypeOK, ForegroundBegins, ForegroundEnds, OtherCommit
  <2> QED
    BY <2>1, <2>3, <2>4
    DEF IInv, TypeOK, ForegroundBegins, ForegroundEnds, OtherCommit, sleeping
<1>2. /\ UNCHANGED <<obs, cursor, run, processed, pc, mine, draft>>
      /\ \A w \in Procs : stale[w] /\ pc[w] # "idle" => stale'[w]
  BY NoneAssumption
  DEF IInv, TypeOK, ForegroundBegins, ForegroundEnds, OtherCommit, Outdates, sleeping
<1>3. RunsInv' /\ (cursor <= Len(obs))' /\ TakenUpOnce'
  BY <1>2 DEF IInv, RunsInv, Running, Window, TakenUpOnce
<1>4. LoadsInv'
  BY <1>2 DEF IInv, LoadsInv, LoadInv, Starts, WorksOn, Running, Window
<1> QED
  BY <1>1, <1>3, <1>4 DEF IInv

(* A foreground call records its observation: what was recorded before stays as it was. *)
LEMMA ObservationStep ==
    ASSUME IInv, NEW kind \in Kinds, ObservationRecorded(kind)
    PROVE  IInv'
<1>1. /\ obs' = Append(obs, kind) /\ Len(obs) < MaxObservations /\ obs \in Seq(Kinds)
      /\ UNCHANGED <<cursor, run, processed, pc, mine, draft, left, lease>>
      /\ \A w \in Procs : stale[w] /\ pc[w] # "idle" => stale'[w]
      /\ \A w \in Procs : pc[w] # "idle" => stale'[w]
  BY NoneAssumption DEF IInv, TypeOK, ObservationRecorded, Outdates, sleeping
<1>2. /\ obs' \in Seq(Kinds) /\ Len(obs') = Len(obs) + 1 /\ Len(obs) \in Nat
      /\ \A i \in 1..Len(obs) : obs'[i] = obs[i]
  BY <1>1
<1>3. TypeOK'
  <2>1. stale' \in [Procs -> BOOLEAN]
    BY OutdatesType DEF ObservationRecorded
  <2> QED
    BY <1>1, <1>2, <2>1, BoundsAssumption DEF IInv, TypeOK
<1>4. \A b, l \in Nat : Window(b, l) => Window(b, l)'
  BY <1>2 DEF Window
<1>5. RunsInv'
  BY <1>1, <1>4, BoundsAssumption DEF IInv, TypeOK, RunsInv, Running, SleepRuns
<1>6. (cursor <= Len(obs))' /\ TakenUpOnce'
  BY <1>1, <1>2, BoundsAssumption DEF IInv, TypeOK, TakenUpOnce, Indices
<1>7. LoadsInv'
  BY <1>1, <1>2, <1>4, BoundsAssumption
  DEF IInv, TypeOK, SleepRuns, LoadsInv, LoadInv, Starts, WorksOn, Running
<1> QED
  BY <1>3, <1>5, <1>6, <1>7 DEF IInv

-----------------------------------------------------------------------------
(* A call that returns, or a process that dies, relies on nothing any more. *)
LEMMA GivesUpStep ==
    ASSUME IInv, NEW w \in Procs, GivesUp(w), UNCHANGED <<obs, lease, sleeping>>,
           left' \in 0..MaxDisturbances
    PROVE  IInv'
<1>1. TypeOK'
  BY BoundsAssumption
  DEF IInv, TypeOK, GivesUp, Returns, Goto, sleeping, NoRun, SleepRuns, Steps
<1>2. LoadInv(w)'
  BY DEF IInv, TypeOK, GivesUp, Returns, Goto, LoadInv, Starts, WorksOn
<1> QED
  BY <1>1, <1>2, Locally DEF IInv, TypeOK, GivesUp, Returns, Goto, sleeping

(* A call that found a moved head goes on to interrupt the run it worked on. *)
LEMMA YieldsStep ==
    ASSUME IInv, NEW w \in Procs, WorksOn(w), Yields(w), UNCHANGED <<world, sleeping, mine, draft>>
    PROVE  IInv'
<1>1. TypeOK'
  BY DEF IInv, TypeOK, Yields, Goto, sleeping, world, Steps
<1>2. LoadInv(w)'
  BY DEF IInv, TypeOK, LoadsInv, Yields, Goto, LoadInv, Starts, WorksOn
<1> QED
  BY <1>1, <1>2, Locally DEF IInv, TypeOK, Yields, Goto, sleeping, world

(* A call that goes on with the load it has. *)
LEMMA GoesOnStep ==
    ASSUME IInv, NEW w \in Procs, NEW there \in Steps, Goto(w, there),
           UNCHANGED <<world, sleeping, mine, draft, stale>>,
           \/ WorksOn(w) /\ there \in {"resume", "check", "think", "complete", "fail"}
           \/ pc[w] = "lease" /\ mine[w] = None /\ there = "plan"
           \/ pc[w] = "start" /\ there = "starting"
    PROVE  IInv'
<1>1. TypeOK'
  BY DEF IInv, TypeOK, Goto, sleeping, world
<1>2. /\ pc'[w] = there /\ UNCHANGED <<mine, draft, stale, obs, cursor, run>>
      /\ LoadInv(w)
  BY DEF IInv, TypeOK, LoadsInv, Goto, sleeping, world
<1>3. LoadInv(w)'
  BY <1>2 DEF LoadInv, Starts, WorksOn, Running, Window
<1> QED
  BY <1>1, <1>3, Locally DEF IInv, TypeOK, Goto, sleeping, world

(* load_state: the load is how things are. *)
LEMMA LoadStateStep == ASSUME IInv, NEW w \in Procs, LoadState(w) PROVE IInv'
<1>1. /\ obs \in Seq(Kinds) /\ Len(obs) \in Nat /\ Len(obs) <= MaxObservations
      /\ cursor \in 0..MaxObservations /\ cursor <= Len(obs)
  BY DEF IInv, TypeOK
<1>2. UNCHANGED <<obs, lease, cursor, run, processed>> /\ pc'[w] = "lease" /\ stale'[w] = FALSE
  BY DEF IInv, TypeOK, LoadState, Goto, sleeping
<1>3. left' \in 0..MaxDisturbances
  <2>1. left' = left \/ (left > 0 /\ left' = left - 1)
    BY DEF LoadState, Disturbs
  <2> QED BY <2>1, BoundsAssumption DEF IInv, TypeOK
<1>4. pc' \in [Procs -> Steps] /\ stale' \in [Procs -> BOOLEAN]
  BY DEF IInv, TypeOK, LoadState, Goto, Steps
<1>5. pc[w] = "idle" /\ mine[w] = None
  BY DEF IInv, LoadsInv, LoadInv, LoadState
<1>6. CASE Running = {}
  <2>1. /\ UNCHANGED mine
        /\ draft' = [draft EXCEPT ![w] =
                       [status |-> "running", before |-> cursor, last |-> Len(obs)]]
    BY <1>6 DEF LoadState
  <2>2. TypeOK'
    BY <1>1, <1>2, <1>3, <1>4, <2>1 DEF IInv, TypeOK, SleepRuns
  <2>3. LoadInv(w)'
    BY <1>1, <1>2, <1>5, <1>6, <2>1 DEF IInv, TypeOK, LoadInv, Starts, WorksOn, Running
  <2> QED
    BY <1>2, <2>1, <2>2, <2>3, Locally DEF IInv, TypeOK, LoadState, Goto
<1>7. CASE Running # {}
  <2>1. PICK r \in Running : mine' = [mine EXCEPT ![w] = r] /\ UNCHANGED draft
    BY <1>7 DEF LoadState
  <2>2. TypeOK'
    BY <1>2, <1>3, <1>4, <2>1 DEF IInv, TypeOK, Running
  <2>3. LoadInv(w)'
    BY <1>2, <2>1, NoneAssumption DEF IInv, TypeOK, LoadInv, Starts, WorksOn, Running
  <2> QED
    BY <1>2, <2>1, <2>2, <2>3, Locally DEF IInv, TypeOK, LoadState, Goto
<1> QED BY <1>6, <1>7

(* plan_new: whatever prefix of the seeds is planned, no observation in it is too large. *)
LEMMA PlanStep == ASSUME IInv, NEW w \in Procs, PlanRun(w) \/ PlanFails(w) PROVE IInv'
<1> DEFINE before == draft[w].before
           high == draft[w].last
<1>1. /\ before \in 0..MaxObservations /\ high \in 0..MaxObservations
      /\ before <= high /\ high <= Len(obs) /\ Len(obs) \in Nat /\ obs \in Seq(Kinds)
      /\ mine[w] = None /\ pc[w] = "plan"
      /\ ~stale[w] => Running = {} /\ before = cursor
  BY DEF IInv, TypeOK, SleepRuns, LoadsInv, LoadInv, Starts, PlanRun, PlanFails
<1>2. PICK i \in Lasts(before, high) \cup {before}, s \in {"running", "failed"} \cup {draft[w].status} :
         draft' = [draft EXCEPT ![w].last = i, ![w].status = s]
  <2>1. CASE PlanFails(w)
    BY <2>1 DEF PlanFails
  <2>2. CASE PlanRun(w)
    <3>1. PICK i \in Lasts(before, high) : draft' = [draft EXCEPT ![w].last = i]
      BY <2>2 DEF PlanRun
    <3>2. draft' = [draft EXCEPT ![w].last = i, ![w].status = draft[w].status]
      BY <3>1 DEF IInv, TypeOK, SleepRuns
    <3> QED BY <3>2
  <2> QED BY <2>1, <2>2
<1>3. i \in before..high /\ Window(before, i)
  BY <1>1 DEF Lasts, Seeds, Window
<1>4. /\ UNCHANGED <<obs, lease, left, cursor, run, processed, mine, stale>>
      /\ pc' = [pc EXCEPT ![w] = "start"]
  BY DEF PlanRun, PlanFails, Goto, world, sleeping
<1>5. draft'[w] = [status |-> s, before |-> before, last |-> i] /\ draft' \in [Procs -> SleepRuns]
  <2>0. draft \in [Procs -> SleepRuns] /\ draft[w] \in SleepRuns
    BY DEF IInv, TypeOK
  <2>1. /\ draft \in [Procs -> SleepRuns] /\ i \in 0..MaxObservations
        /\ s \in {"none", "running", "completed", "interrupted", "failed"}
    <3>1. i \in 0..MaxObservations
      BY <1>1, <1>3, BoundsAssumption
    <3>2. s \in {"none", "running", "completed", "interrupted", "failed"}
      BY <1>2, <2>0 DEF SleepRuns
    <3> QED BY <2>0, <3>1, <3>2
  <2>2. draft'[w] = [status |-> s, before |-> before, last |-> i]
    BY <1>2, <2>1 DEF SleepRuns
  <2>3. \A v \in Procs : draft'[v] \in SleepRuns
    BY <1>1, <1>2, <2>1, <2>2 DEF SleepRuns
  <2> QED
    BY <1>2, <2>1, <2>2, <2>3
<1>6. TypeOK'
  BY <1>4, <1>5 DEF IInv, TypeOK, Steps
<1>7. LoadInv(w)'
  BY <1>1, <1>3, <1>4, <1>5 DEF IInv, TypeOK, LoadInv, Starts, WorksOn, Running, Window
<1> QED
  BY <1>2, <1>4, <1>6, <1>7, Locally DEF IInv, TypeOK

-----------------------------------------------------------------------------
(* After a commit of w everybody else's load is old: of what they know only that is left
   which does not change. *)
LEMMA OthersAge ==
    ASSUME IInv, NEW w \in Procs, Outdates(w), UNCHANGED obs,
           \A v \in Procs \ {w} : /\ pc'[v] = pc[v] /\ mine'[v] = mine[v]
                                  /\ draft'[v] = draft[v]
    PROVE  \A v \in Procs \ {w} : LoadInv(v)'
<1> SUFFICES ASSUME NEW v \in Procs \ {w} PROVE LoadInv(v)'
  OBVIOUS
<1>1. pc[v] # "idle" => stale'[v]
  BY DEF Outdates
<1> QED
  BY <1>1 DEF IInv, LoadsInv, LoadInv, Starts, WorksOn, Window

(* SleepRunStarted at the loaded revision: no run is under way, and none of the
   processes knows the new one. *)
LEMMA StartRunStep == ASSUME IInv, NEW w \in Procs, StartRun(w) PROVE IInv'
<1>1. CASE stale[w]
  BY <1>1, GivesUpStep DEF IInv, TypeOK, StartRun, world, sleeping
<1>2. CASE ~stale[w]
  <2> DEFINE f == FreshRun
  <2>1. /\ run' = [run EXCEPT ![f] = [draft[w] EXCEPT !.status = "running"]]
        /\ mine' = [mine EXCEPT ![w] = f]
        /\ Outdates(w)
        /\ pc' = [pc EXCEPT ![w] = IF draft[w].status = "failed" THEN "fail" ELSE "check"]
        /\ UNCHANGED <<obs, lease, left, cursor, processed, draft>>
    BY <1>2 DEF StartRun, Goto, world
  <2>2. /\ Running = {} /\ draft[w].before = cursor /\ Window(cursor, draft[w].last)
    BY <1>2 DEF IInv, LoadsInv, LoadInv, Starts, StartRun
  <2>3. f \in Runs
    BY <2>2, FreshRunExists DEF IInv, TypeOK
  <2> HIDE DEF f
  <2>4. draft[w] \in SleepRuns /\ run \in [Runs -> SleepRuns]
    BY DEF IInv, TypeOK
  <2>5. /\ run' \in [Runs -> SleepRuns] /\ run'[f].status = "running"
        /\ run'[f].before = cursor /\ run'[f].last = draft[w].last
        /\ \A r \in Runs \ {f} : run'[r] = run[r]
    BY <2>1, <2>2, <2>3, <2>4 DEF SleepRuns
  <2>6. Running' = {f}
    BY <2>2, <2>3, <2>5 DEF Running
  <2>7. TypeOK'
    BY <2>1, <2>3, <2>5, OutdatesType DEF IInv, TypeOK, Steps
  <2>8. RunsInv' /\ (cursor <= Len(obs))' /\ TakenUpOnce'
    BY <2>1, <2>2, <2>5, <2>6 DEF IInv, RunsInv, Window, TakenUpOnce
  <2>9. LoadInv(w)'
    BY <2>1, <2>3, <2>6 DEF IInv, TypeOK, LoadInv, Starts, WorksOn
  <2>10. \A v \in Procs \ {w} : LoadInv(v)'
    BY <2>1, OthersAge DEF IInv, TypeOK
  <2> QED
    BY <2>7, <2>8, <2>9, <2>10 DEF IInv, LoadsInv
<1> QED BY <1>1, <1>2

(* SleepRunCompleted at the compared revision: the run is the one under way, and the
   cursor passes exactly the observations it took up. *)
LEMMA CompleteRunStep ==
    ASSUME IInv, NEW w \in Procs, CompleteRun(w)
    PROVE  /\ IInv'
           /\ cursor' # cursor => /\ cursor' > cursor
                                  /\ \E r \in Runs : /\ run[r].status = "running"
                                                     /\ run'[r].status = "completed"
                                                     /\ run[r].before = cursor
<1> DEFINE r == mine[w]
<1>1. pc[w] = "complete" /\ WorksOn(w) /\ r \in Runs
  BY DEF IInv, LoadsInv, LoadInv, WorksOn, CompleteRun
<1>2. CASE stale[w]
  BY <1>1, <1>2, YieldsStep DEF CompleteRun, world, sleeping
<1>3. CASE ~stale[w]
  <2>1. /\ run' = [run EXCEPT ![r] = Over("completed")]
        /\ cursor' = run[r].last
        /\ processed' = Taken(run[r].before, run[r].last)
        /\ Outdates(w) /\ Returns(w) /\ UNCHANGED <<obs, lease, left>>
    BY <1>3 DEF CompleteRun, world
  <2>2. r \in Running /\ run[r].status = "running"
    BY <1>1, <1>3 DEF IInv, LoadsInv, LoadInv, Running
  <2>3. run[r].before = cursor /\ Window(cursor, run[r].last)
    BY <2>2 DEF IInv, RunsInv
  <2>4. /\ run[r] \in SleepRuns /\ run \in [Runs -> SleepRuns] /\ obs \in Seq(Kinds)
        /\ Len(obs) \in Nat /\ cursor \in 0..MaxObservations
        /\ run[r].last \in 0..MaxObservations
    BY <1>1 DEF IInv, TypeOK, SleepRuns
  <2>5. /\ run' \in [Runs -> SleepRuns] /\ run'[r].status = "completed"
        /\ \A s \in Runs \ {r} : run'[s] = run[s]
    BY <1>1, <2>1, <2>4, BoundsAssumption DEF Over, NoRun, SleepRuns
  <2>6. Running' = {}
    BY <2>2, <2>5 DEF IInv, RunsInv, Running
  <2>7. /\ pc' = [pc EXCEPT ![w] = "idle"] /\ mine' = [mine EXCEPT ![w] = None]
        /\ draft' = [draft EXCEPT ![w] = NoRun]
    BY <2>1 DEF Returns, Goto
  <2>8. TakenUpOnce'
    <3> SUFFICES ASSUME NEW i \in Indices
                 PROVE  processed'[i] = IF i <= cursor' /\ obs[i] = "fit" THEN 1 ELSE 0
      BY <2>1 DEF TakenUpOnce
    <3>1. processed'[i] = processed[i] + IF i \in Seeds(cursor, run[r].last) THEN 1 ELSE 0
      BY <2>1, <2>3 DEF Taken
    <3>2. processed[i] = IF i <= cursor /\ obs[i] = "fit" THEN 1 ELSE 0
      BY DEF IInv, TakenUpOnce
    <3>3. i \in Seeds(cursor, run[r].last) <=>
            i > cursor /\ i <= run[r].last /\ obs[i] # "damaged"
      BY <2>4 DEF Seeds, Indices
    <3>4. i > cursor /\ i <= run[r].last => obs[i] \in {"fit", "damaged"}
      BY <2>3, <2>4 DEF Window, Indices, Kinds
    <3>5. cursor <= run[r].last
      BY <2>3 DEF Window
    <3> QED BY <2>1, <2>4, <3>1, <3>2, <3>3, <3>4, <3>5 DEF Indices
  <2>9. TypeOK'
    <3>1. processed' \in [Indices -> Nat]
      BY <2>1 DEF IInv, TypeOK, Taken
    <3>2. draft' \in [Procs -> SleepRuns]
      BY <2>7, BoundsAssumption DEF IInv, TypeOK, NoRun, SleepRuns
    <3> QED
      BY <2>1, <2>4, <2>5, <2>7, <3>1, <3>2, OutdatesType DEF IInv, TypeOK, Steps
  <2>10. RunsInv' /\ (cursor <= Len(obs))'
    BY <2>1, <2>3, <2>6 DEF RunsInv, Window
  <2>11. LoadInv(w)'
    BY <2>7 DEF IInv, TypeOK, LoadInv, Starts, WorksOn
  <2>12. \A v \in Procs \ {w} : LoadInv(v)'
    BY <2>1, <2>7, OthersAge DEF IInv, TypeOK
  <2>13. cursor' # cursor => cursor' > cursor
    BY <2>1, <2>3, <2>4 DEF Window
  <2> QED
    BY <1>1, <2>2, <2>3, <2>5, <2>8, <2>9, <2>10, <2>11, <2>12, <2>13 DEF IInv, LoadsInv
<1> QED BY <1>2, <1>3 DEF CompleteRun, sleeping

(* A run that failed or was interrupted is over, and the cursor stays. *)
LEMMA TerminateStep ==
    ASSUME IInv, NEW w \in Procs, NEW status \in {"failed", "interrupted"},
           mine[w] \in Runs, Terminate(w, status)
    PROVE  IInv'
<1> DEFINE r == mine[w]
<1>1. CASE stale[w] \/ run[r].status # "running"
  BY <1>1, GivesUpStep DEF IInv, TypeOK, Terminate, world, sleeping
<1>2. CASE ~(stale[w] \/ run[r].status # "running")
  <2>1. /\ run' = [run EXCEPT ![r] = Over(status)]
        /\ Outdates(w) /\ UNCHANGED <<obs, lease, left, cursor, processed>>
        /\ pc' = [pc EXCEPT ![w] = "idle"] /\ mine' = [mine EXCEPT ![w] = None]
        /\ draft' = [draft EXCEPT ![w] = NoRun]
    BY <1>2 DEF Terminate, Returns, Goto, world
  <2>2. r \in Running
    BY <1>2 DEF Running
  <2>3. /\ run' \in [Runs -> SleepRuns] /\ run'[r].status = status
        /\ \A s \in Runs \ {r} : run'[s] = run[s]
    BY <2>1, BoundsAssumption DEF IInv, TypeOK, Over, NoRun, SleepRuns
  <2>4. Running' = {}
    BY <2>2, <2>3 DEF IInv, RunsInv, Running
  <2>5. TypeOK'
    <3>1. draft' \in [Procs -> SleepRuns]
      BY <2>1, BoundsAssumption DEF IInv, TypeOK, NoRun, SleepRuns
    <3> QED
      BY <2>1, <2>3, <3>1, OutdatesType DEF IInv, TypeOK, Steps
  <2>6. RunsInv' /\ (cursor <= Len(obs))' /\ TakenUpOnce'
    BY <2>1, <2>4 DEF IInv, RunsInv, TakenUpOnce
  <2>7. LoadInv(w)'
    BY <2>1 DEF IInv, TypeOK, LoadInv, Starts, WorksOn
  <2>8. \A v \in Procs \ {w} : LoadInv(v)'
    BY <2>1, OthersAge DEF IInv, TypeOK
  <2> QED
    BY <2>5, <2>6, <2>7, <2>8 DEF IInv, LoadsInv
<1> QED BY <1>1, <1>2

-----------------------------------------------------------------------------
(* Every step of a process keeps the invariant, and only CompleteRun moves the cursor. *)
LEMMA ProcessStep ==
    ASSUME IInv, NEW w \in Procs, Step(w) \/ Crash(w)
    PROVE  IInv' /\ (CompleteRun(w) \/ UNCHANGED cursor)
<1>1. CASE LoadState(w)
  BY <1>1, LoadStateStep DEF LoadState, sleeping
<1>2. CASE CheckLease(w)
  <2>1. CASE lease
    BY <1>2, <2>1, GivesUpStep DEF IInv, TypeOK, CheckLease, world, sleeping
  <2>2. CASE ~lease
    BY <1>2, <2>2, GoesOnStep DEF CheckLease, Steps, WorksOn, sleeping
  <2> QED BY <2>1, <2>2
<1>3. CASE PlanRun(w) \/ PlanFails(w)
  BY <1>3, PlanStep DEF PlanRun, PlanFails, sleeping
<1>4. CASE NothingToDo(w)
  BY <1>4, GivesUpStep DEF IInv, TypeOK, NothingToDo, world, sleeping
<1>5. CASE CheckStart(w)
  <2>1. CASE lease \/ stale[w]
    BY <1>5, <2>1, GivesUpStep DEF IInv, TypeOK, CheckStart, world, sleeping
  <2>2. CASE ~(lease \/ stale[w])
    BY <1>5, <2>2, GoesOnStep DEF CheckStart, Steps, sleeping
  <2> QED BY <2>1, <2>2
<1>6. CASE StartRun(w)
  BY <1>6, StartRunStep DEF StartRun
<1>7. CASE Resume(w) \/ CheckHead(w) \/ \E usable \in BOOLEAN : Deliberate(w, usable)
  <2>1. WorksOn(w) /\ UNCHANGED <<world, sleeping, mine, draft>>
    BY <1>7 DEF Resume, CheckHead, Deliberate, WorksOn
  <2>2. CASE stale[w] \/ lease
    BY <1>7, <2>1, <2>2, YieldsStep DEF Resume, CheckHead, Deliberate, sleeping
  <2>3. CASE ~(stale[w] \/ lease)
    <3>1. PICK there \in {"check", "think", "complete", "fail"} :
             Goto(w, there) /\ UNCHANGED stale
      BY <1>7, <2>3 DEF Resume, CheckHead, Deliberate
    <3> QED BY <2>1, <3>1, GoesOnStep DEF Steps, sleeping
  <2> QED BY <2>2, <2>3
<1>8. CASE ResumeFails(w)
  BY <1>8, GoesOnStep DEF ResumeFails, WorksOn, Steps, sleeping
<1>9. CASE CompleteRun(w)
  BY <1>9, CompleteRunStep
<1>10. CASE FailRun(w) \/ InterruptRun(w)
  <2>1. mine[w] \in Runs
    BY <1>10 DEF IInv, LoadsInv, LoadInv, WorksOn, FailRun, InterruptRun
  <2> QED BY <1>10, <2>1, TerminateStep DEF FailRun, InterruptRun, Terminate
<1>11. CASE Crash(w)
  <2>1. left' \in 0..MaxDisturbances
    BY <1>11, BoundsAssumption DEF IInv, TypeOK, Crash, Disturbs
  <2> QED BY <1>11, <2>1, GivesUpStep DEF Crash, sleeping
<1> QED
  BY <1>1, <1>2, <1>3, <1>4, <1>5, <1>6, <1>7, <1>8, <1>9, <1>10, <1>11 DEF Step

(* The inductive invariant holds in every reachable state. *)
THEOREM Invariance == Spec => []IInv
<1>1. Init => IInv
  <2> SUFFICES ASSUME Init PROVE IInv
    OBVIOUS
  <2>1. TypeOK
    <3>1. NoRun \in SleepRuns
      BY BoundsAssumption DEF NoRun, SleepRuns
    <3>2. <<>> \in Seq(Kinds) /\ Len(<<>>) <= MaxObservations
      BY BoundsAssumption
    <3>3. /\ cursor \in 0..MaxObservations /\ left \in 0..MaxDisturbances
          /\ obs \in Seq(Kinds) /\ Len(obs) <= MaxObservations
      BY <3>2, BoundsAssumption DEF Init
    <3>4. /\ run \in [Runs -> SleepRuns] /\ draft \in [Procs -> SleepRuns]
          /\ pc \in [Procs -> Steps] /\ mine \in [Procs -> Runs \cup {None}]
          /\ lease \in BOOLEAN /\ stale \in [Procs -> BOOLEAN]
          /\ processed \in [Indices -> Nat]
      BY <3>1 DEF Init, Steps
    <3> QED
      BY <3>3, <3>4 DEF TypeOK
  <2>2. RunsInv /\ cursor <= Len(obs) /\ TakenUpOnce
    BY DEF Init, RunsInv, Running, NoRun, TakenUpOnce, Indices
  <2>3. LoadsInv
    BY DEF Init, LoadsInv, LoadInv, Starts, WorksOn
  <2> QED BY <2>1, <2>2, <2>3 DEF IInv
<1>2. IInv /\ [Next]_vars => IInv'
  <2>1. ASSUME IInv, UNCHANGED vars PROVE IInv'
    BY <2>1
    DEF IInv, TypeOK, RunsInv, LoadsInv, LoadInv, Starts, WorksOn, Running, Window,
        TakenUpOnce, vars, world, sleeping
  <2> QED BY <2>1, WorldStep, ObservationStep, ProcessStep DEF Next
<1> QED
  BY <1>1, <1>2, PTL DEF Spec

(* Type correctness. *)
THEOREM TypeCorrect == Spec => []TypeOK
<1>1. IInv => TypeOK
  BY DEF IInv
<1> QED
  BY <1>1, Invariance, PTL

(* Never are two runs under way, for any number of commands beside the worker: only the
   expected revision of SleepRunStarted keeps them apart. *)
THEOREM OneRunningTheorem == Spec => []OneRunning
<1>1. IInv => OneRunning
  <2> SUFFICES ASSUME IInv PROVE Cardinality(Running) <= 1
    BY DEF OneRunning
  <2>1. CASE Running = {}
    BY <2>1, FS_EmptySet
  <2>2. CASE Running # {}
    <3>1. PICK r \in Running : Running = {r}
      BY <2>2 DEF IInv, RunsInv
    <3>2. Cardinality(Running) = 1
      BY <3>1, FS_Singleton
    <3> QED BY <3>2
  <2> QED BY <2>1, <2>2
<1> QED
  BY <1>1, Invariance, PTL

(* Every readable observation up to the cursor was taken up by exactly one completed
   run, and none beyond it, across interruptions, failures, crashes and resumed runs. *)
THEOREM TakenUpOnceTheorem == Spec => []TakenUpOnce
<1>1. IInv => TakenUpOnce
  BY DEF IInv
<1> QED
  BY <1>1, Invariance, PTL

(* The cursor moves forward, and only with the completion of the run that starts at it. *)
THEOREM CursorTheorem == Spec => CursorMovesWithCompletion
<1> DEFINE Moves == cursor' # cursor =>
                       /\ cursor' > cursor
                       /\ \E r \in Runs : /\ run[r].status = "running"
                                          /\ run'[r].status = "completed"
                                          /\ run[r].before = cursor
<1>1. IInv /\ [Next]_vars => [Moves]_<<cursor, run>>
  <2> SUFFICES ASSUME IInv, [Next]_vars PROVE Moves
    OBVIOUS
  <2>1. ASSUME NEW w \in Procs, Step(w) \/ Crash(w) PROVE Moves
    BY <2>1, ProcessStep, CompleteRunStep
  <2> QED
    BY <2>1
    DEF Next, ForegroundBegins, ForegroundEnds, ObservationRecorded, OtherCommit, vars, sleeping
<1> QED
  BY <1>1, Invariance, PTL DEF Spec, CursorMovesWithCompletion
=============================================================================

------------------------------- MODULE Sleep --------------------------------
(***************************************************************************)
(* Background integration: SleepCoordinator::sleep_once as the sleep       *)
(* worker repeats it and as one-off commands call it, against foreground   *)
(* activity and every other writer of the ledger.                          *)
(*                                                                         *)
(* Of the ledger only the observations are kept, and the cursor and the    *)
(* high-water mark count observations instead of events.  A commit with an *)
(* expected revision takes effect if and only if nobody committed since    *)
(* the load it names (AtomicLedger.tla), so a process only needs to know   *)
(* whether it is stale.  Run identities are used again once the run is     *)
(* over and no process refers to it, which keeps their number finite.      *)
(***************************************************************************)
EXTENDS Naturals, Sequences, FiniteSets

CONSTANTS
    Worker,           \* the sleep worker, which calls sleep_once again and again
    Commands,         \* one-off calls of sleep_once
    Runs,             \* run identities
    None,             \* no run
    MaxSeeds,         \* MAX_SLEEP_SEEDS
    MaxObservations,  \* bound on the observations recorded
    MaxDisturbances   \* bound on what the world does to the worker

Procs == {Worker} \cup Commands

ASSUME WorkerAssumption == Worker \notin Commands
ASSUME NoneAssumption == None \notin Runs \cup Procs
ASSUME ProcsAssumption == IsFiniteSet(Commands)
ASSUME EnoughRuns == IsFiniteSet(Runs) => Cardinality(Runs) > Cardinality(Procs)
ASSUME BoundsAssumption ==
    /\ MaxSeeds \in Nat \ {0}
    /\ MaxObservations \in Nat
    /\ MaxDisturbances \in Nat

VARIABLES
    \* the projection and the lease
    obs,        \* the observations recorded, in order
    cursor,     \* sleep_cursor
    run,        \* run[r]: the sleep run r
    lease,      \* has_active_foreground_lease
    \* the processes
    pc,         \* pc[w]: what w does next
    mine,       \* mine[w]: the run w works on, or None
    draft,      \* draft[w]: the run w is going to start; until it is planned, its
                \* last is the high-water mark
    stale,      \* stale[w]: somebody committed since the load w relies on
    \* history
    processed,  \* processed[i]: completed runs that took up observation i
    left        \* disturbances that may still come

world == <<obs, lease, left>>
sleeping == <<cursor, run, processed>>
vars == <<world, sleeping, pc, mine, draft, stale>>

(* An observation is fit for a seed, has a damaged payload, or does not fit
   the seed budget even alone. *)
Kinds == {"fit", "damaged", "large"}

Indices == 1..MaxObservations

SleepRuns ==
    [status : {"none", "running", "completed", "interrupted", "failed"},
     before : 0..MaxObservations, last : 0..MaxObservations]

NoRun == [status |-> "none", before |-> 0, last |-> 0]

(* Of a run that is over, its window no longer matters. *)
Over(status) == [NoRun EXCEPT !.status = status]

Steps == {"idle", "lease", "plan", "start", "starting", "resume", "check", "think",
          "complete", "fail", "interrupt"}

TypeOK ==
    /\ obs \in Seq(Kinds) /\ Len(obs) <= MaxObservations
    /\ cursor \in 0..MaxObservations
    /\ run \in [Runs -> SleepRuns]
    /\ lease \in BOOLEAN
    /\ pc \in [Procs -> Steps]
    /\ mine \in [Procs -> Runs \cup {None}]
    /\ draft \in [Procs -> SleepRuns]
    /\ stale \in [Procs -> BOOLEAN]
    /\ processed \in [Indices -> Nat]
    /\ left \in 0..MaxDisturbances

Init ==
    /\ obs = <<>>
    /\ cursor = 0
    /\ run = [r \in Runs |-> NoRun]
    /\ lease = FALSE
    /\ pc = [w \in Procs |-> "idle"]
    /\ mine = [w \in Procs |-> None]
    /\ draft = [w \in Procs |-> NoRun]
    /\ stale = [w \in Procs |-> FALSE]
    /\ processed = [i \in Indices |-> 0]
    /\ left = MaxDisturbances

-----------------------------------------------------------------------------
(* What the rest of the system does. *)

Disturbs ==
    /\ left > 0
    /\ left' = left - 1

(* Whoever is at work and not itself committing has an old load. *)
Outdates(w) == stale' = [v \in Procs |-> v # w /\ pc[v] # "idle"]

(* A foreground call takes the lease, and gives it back or lets it expire. *)
ForegroundBegins ==
    /\ ~lease
    /\ Disturbs
    /\ lease' = TRUE
    /\ UNCHANGED <<obs, sleeping, pc, mine, draft, stale>>

ForegroundEnds ==
    /\ lease
    /\ lease' = FALSE
    /\ UNCHANGED <<obs, left, sleeping, pc, mine, draft, stale>>

(* The foreground call records its observation. *)
ObservationRecorded(kind) ==
    /\ lease
    /\ Len(obs) < MaxObservations
    /\ obs' = Append(obs, kind)
    /\ Outdates(None)
    /\ UNCHANGED <<lease, left, sleeping, pc, mine, draft>>

(* Any other commit, by the foreground or by a writer without the lease. *)
OtherCommit ==
    /\ Disturbs
    /\ Outdates(None)
    /\ UNCHANGED <<obs, lease, sleeping, pc, mine, draft>>

-----------------------------------------------------------------------------
(* sleep_once: what it finds. *)

Goto(w, there) == pc' = [pc EXCEPT ![w] = there]

(* sleep_once returns, or its process is killed. *)
Returns(w) ==
    /\ Goto(w, "idle")
    /\ mine' = [mine EXCEPT ![w] = None]
    /\ draft' = [draft EXCEPT ![w] = NoRun]

(* It returns without having recorded anything. *)
GivesUp(w) ==
    /\ Returns(w)
    /\ stale' = [stale EXCEPT ![w] = FALSE]

Running == {r \in Runs : run[r].status = "running"}

(* A fresh SleepRunId. *)
FreshRun == CHOOSE r \in Runs : r \notin Running /\ \A w \in Procs : mine[w] # r

(* load_state: the running run if there is one, else the cursor and the high-water
   mark; the worker comes back by itself, a command is given from outside. *)
LoadState(w) ==
    /\ pc[w] = "idle"
    /\ IF w = Worker THEN UNCHANGED left ELSE Disturbs
    /\ stale' = [stale EXCEPT ![w] = FALSE]
    /\ IF Running = {}
         THEN /\ draft' = [draft EXCEPT ![w] =
                    [status |-> "running", before |-> cursor, last |-> Len(obs)]]
              /\ UNCHANGED mine
         ELSE /\ \E r \in Running : mine' = [mine EXCEPT ![w] = r]
              /\ UNCHANGED draft
    /\ Goto(w, "lease")
    /\ UNCHANGED <<obs, lease, sleeping>>

(* The first look at the lease: Deferred, or on with the run or a new one. *)
CheckLease(w) ==
    /\ pc[w] = "lease"
    /\ IF lease
         THEN GivesUp(w)
         ELSE /\ Goto(w, IF mine[w] = None THEN "plan" ELSE "resume")
              /\ UNCHANGED <<mine, draft, stale>>
    /\ UNCHANGED <<world, sleeping>>

(* The observations of a run or of a plan: those that can be decoded. *)
Seeds(before, last) == {i \in (before + 1)..last : obs[i] # "damaged"}

(* Mutant of Lasts: a run waits for a full window. *)
LastsFull(before, high) ==
    {i \in Seeds(before, high) :
        /\ \A j \in Seeds(before, i) : obs[j] = "fit"
        /\ Cardinality(Seeds(before, i)) = MaxSeeds}

(* seed_window and plan_new: where a run that begins after the cursor may end.
   Up to the high-water mark the window goes from observation to observation, the damaged left out, until
   one does not fit or there are enough; a prefix of it fits the model's budget. *)
Lasts(before, high) ==
    {i \in Seeds(before, high) :
        /\ \A j \in Seeds(before, i) : obs[j] = "fit"
        /\ Cardinality(Seeds(before, i)) <= MaxSeeds}

(* A prefix of the window is going to be the run. *)
PlanRun(w) ==
    /\ pc[w] = "plan"
    /\ \E i \in Lasts(draft[w].before, draft[w].last) : draft' = [draft EXCEPT ![w].last = i]
    /\ Goto(w, "start")
    /\ UNCHANGED <<world, sleeping, mine, stale>>

(* No model, or plan_new fails: the run is going to be recorded all the same and
   failed at once; it has no seeds when the anchors alone exceed the budget. *)
PlanFails(w) ==
    /\ pc[w] = "plan"
    /\ Lasts(draft[w].before, draft[w].last) # {}
    /\ \E i \in Lasts(draft[w].before, draft[w].last) \cup {draft[w].before} :
          draft' = [draft EXCEPT ![w].last = i, ![w].status = "failed"]
    /\ Goto(w, "start")
    /\ UNCHANGED <<world, sleeping, mine, stale>>

(* There is nothing to take up: Idle, or Deferred in front of a large one. *)
NothingToDo(w) ==
    /\ pc[w] = "plan"
    /\ Lasts(draft[w].before, draft[w].last) = {}
    /\ GivesUp(w)
    /\ UNCHANGED <<world, sleeping>>

(* record_started_run looks at the lease and at the head. *)
CheckStart(w) ==
    /\ pc[w] = "start"
    /\ IF lease \/ stale[w]
         THEN GivesUp(w)
         ELSE Goto(w, "starting") /\ UNCHANGED <<mine, draft, stale>>
    /\ UNCHANGED <<world, sleeping>>

(* Mutant of StartRun: SleepRunStarted without the expected revision. *)
StartRunBlind(w) ==
    /\ pc[w] = "starting"
    /\ run' = [run EXCEPT ![FreshRun] = [draft[w] EXCEPT !.status = "running"]]
    /\ mine' = [mine EXCEPT ![w] = FreshRun]
    /\ Outdates(w)
    /\ Goto(w, IF draft[w].status = "failed" THEN "fail" ELSE "check")
    /\ UNCHANGED <<world, cursor, processed, draft>>

(* SleepRunStarted at the loaded revision. *)
StartRun(w) ==
    /\ pc[w] = "starting"
    /\ IF stale[w]
         THEN GivesUp(w) /\ UNCHANGED run
         ELSE /\ run' = [run EXCEPT ![FreshRun] = [draft[w] EXCEPT !.status = "running"]]
              /\ mine' = [mine EXCEPT ![w] = FreshRun]
              /\ Outdates(w)
              /\ Goto(w, IF draft[w].status = "failed" THEN "fail" ELSE "check")
              /\ UNCHANGED draft
    /\ UNCHANGED <<world, cursor, processed>>

-----------------------------------------------------------------------------
(* sleep_once: what it does with the run. *)

(* The head or the lease says that somebody else is at work: the head is loaded
   again, and the run is going to be interrupted. *)
Yields(w) ==
    /\ stale' = [stale EXCEPT ![w] = FALSE]
    /\ Goto(w, "interrupt")

(* A running run is taken up as it was recorded, unless it has no seeds, its
   context cannot be built or it no longer fits. *)
Resume(w) ==
    /\ pc[w] = "resume"
    /\ run[mine[w]].last > run[mine[w]].before
    /\ IF stale[w] \/ lease
         THEN Yields(w)
         ELSE Goto(w, "check") /\ UNCHANGED stale
    /\ UNCHANGED <<world, sleeping, mine, draft>>

ResumeFails(w) ==
    /\ pc[w] = "resume"
    /\ Goto(w, "fail")
    /\ UNCHANGED <<world, sleeping, mine, draft, stale>>

(* The last comparison before the model is asked. *)
CheckHead(w) ==
    /\ pc[w] = "check"
    /\ IF stale[w] \/ lease
         THEN Yields(w)
         ELSE Goto(w, "think") /\ UNCHANGED stale
    /\ UNCHANGED <<world, sleeping, mine, draft>>

(* deliberate_sleep returns, is compared with the head once more and validated:
   the answer is usable or not. *)
Deliberate(w, usable) ==
    /\ pc[w] = "think"
    /\ IF stale[w] \/ lease
         THEN Yields(w)
         ELSE Goto(w, IF usable THEN "complete" ELSE "fail") /\ UNCHANGED stale
    /\ UNCHANGED <<world, sleeping, mine, draft>>

(* The history after a run over these observations has completed. *)
Taken(before, last) ==
    [i \in Indices |-> processed[i] + IF i \in Seeds(before, last) THEN 1 ELSE 0]

(* Mutant of CompleteRun: the batch is recorded without the expected revision and
   the projector takes terminal events as they come. *)
CompleteRunBlind(w) ==
    /\ pc[w] = "complete"
    /\ LET r == mine[w] IN
         /\ run' = [run EXCEPT ![r] = Over("completed")]
         /\ cursor' = run[r].last
         /\ processed' = Taken(run[r].before, run[r].last)
         /\ Outdates(w)
         /\ Returns(w)
    /\ UNCHANGED world

(* Mutant of CompleteRun: the cursor goes one past the last seed. *)
CompleteRunPast(w) ==
    /\ pc[w] = "complete"
    /\ LET r == mine[w] IN
         IF stale[w]
           THEN Yields(w) /\ UNCHANGED <<sleeping, mine, draft>>
           ELSE /\ run' = [run EXCEPT ![r] = Over("completed")]
                /\ cursor' = run[r].last + 1
                /\ processed' = Taken(run[r].before, run[r].last)
                /\ Outdates(w)
                /\ Returns(w)
    /\ UNCHANGED world

(* Candidates and SleepRunCompleted in one batch at the compared revision; the
   projection moves the cursor to the last seed.  A stale batch is dropped. *)
CompleteRun(w) ==
    /\ pc[w] = "complete"
    /\ LET r == mine[w] IN
         IF stale[w]
           THEN Yields(w) /\ UNCHANGED <<sleeping, mine, draft>>
           ELSE /\ run' = [run EXCEPT ![r] = Over("completed")]
                /\ cursor' = run[r].last
                /\ processed' = Taken(run[r].before, run[r].last)
                /\ Outdates(w)
                /\ Returns(w)
    /\ UNCHANGED world

(* Mutant of Terminate: cursor_after is kept, and applied. *)
TerminateAdvances(w, status) ==
    /\ IF stale[w] \/ run[mine[w]].status # "running"
         THEN GivesUp(w) /\ UNCHANGED <<run, cursor>>
         ELSE /\ run' = [run EXCEPT ![mine[w]] = Over(status)]
              /\ cursor' = run[mine[w]].last
              /\ Outdates(w)
              /\ Returns(w)
    /\ UNCHANGED <<world, processed>>

(* fail_run and interrupt_run: one terminal event at the given revision.  On a
   moved head, or when apply_sleep_run finds the run no longer running, nothing is
   recorded and the call ends with an error. *)
Terminate(w, status) ==
    /\ IF stale[w] \/ run[mine[w]].status # "running"
         THEN GivesUp(w) /\ UNCHANGED run
         ELSE /\ run' = [run EXCEPT ![mine[w]] = Over(status)]
              /\ Outdates(w)
              /\ Returns(w)
    /\ UNCHANGED <<world, cursor, processed>>

FailRun(w) == pc[w] = "fail" /\ Terminate(w, "failed")

InterruptRun(w) == pc[w] = "interrupt" /\ Terminate(w, "interrupted")

(* The process is killed, or a step meets a storage error. *)
Crash(w) ==
    /\ pc[w] # "idle"
    /\ Disturbs
    /\ GivesUp(w)
    /\ UNCHANGED <<obs, lease, sleeping>>

Step(w) ==
    \/ LoadState(w)
    \/ CheckLease(w)
    \/ PlanRun(w)
    \/ PlanFails(w)
    \/ NothingToDo(w)
    \/ CheckStart(w)
    \/ StartRun(w)
    \/ Resume(w)
    \/ ResumeFails(w)
    \/ CheckHead(w)
    \/ \E usable \in BOOLEAN : Deliberate(w, usable)
    \/ CompleteRun(w)
    \/ FailRun(w)
    \/ InterruptRun(w)

Next ==
    \/ ForegroundBegins
    \/ ForegroundEnds
    \/ \E kind \in Kinds : ObservationRecorded(kind)
    \/ OtherCommit
    \/ \E w \in Procs : Step(w) \/ Crash(w)

Spec == Init /\ [][Next]_vars

(* The worker's loop never ends, a foreground call does, and neither planning nor
   the model fails every time; nothing is asked of commands, which come from
   outside. *)
FairSpec ==
    /\ Spec
    /\ \A w \in Procs : WF_vars(pc[w] # "idle" /\ Step(w))
    /\ WF_vars(LoadState(Worker))
    /\ WF_vars(ForegroundEnds)
    /\ SF_vars(PlanRun(Worker))
    /\ SF_vars(Resume(Worker))
    /\ SF_vars(Deliberate(Worker, TRUE))

-----------------------------------------------------------------------------
(* Never are two runs under way, although SleepRunStarted is accepted whatever
   other runs there are: only the expected revision keeps them apart. *)
OneRunning == Cardinality(Running) <= 1

(* Up to the cursor every observation that can be was taken up by exactly one
   run that completed, and beyond it none: nothing is skipped and nothing done
   twice, across interruptions, failures, crashes and resumed runs. *)
TakenUpOnce ==
    \A i \in Indices :
        processed[i] = IF i <= cursor /\ obs[i] = "fit" THEN 1 ELSE 0

(* docs/invariants.md: Sleep advances its cursor only in the same transaction as
   the completion event; failed or interrupted runs leave it unchanged. *)
CursorMovesWithCompletion ==
    [][cursor' # cursor =>
          /\ cursor' > cursor
          /\ \E r \in Runs : /\ run[r].status = "running"
                             /\ run'[r].status = "completed"
                             /\ run[r].before = cursor]_<<cursor, run>>

(* Every readable observation is integrated in the end, unless one before it is
   larger than the seed budget (docs/sleep-model-budget.md keeps the cursor in
   front of that one), however often runs are interrupted or die. *)
EventuallyIntegrated ==
    \A i \in Indices :
        (/\ i <= Len(obs)
         /\ obs[i] = "fit"
         /\ \A j \in 1..i : obs[j] # "large") ~> processed[i] = 1
=============================================================================

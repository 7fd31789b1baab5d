----------------------------- MODULE Foreground -----------------------------
(***************************************************************************)
(* One message from arrival to answer: Engine::handle under the foreground *)
(* lease, handle_leased, persist_focus_plan, process_observation,          *)
(* produce_clarification and complete_attempt.                             *)
(*                                                                         *)
(* A call of handle is one delivery of an external message; a delivery's   *)
(* name is also that of the observation, the run, the task and the attempt *)
(* the call creates.  Several deliveries may carry the same message.       *)
(*                                                                         *)
(* Commits go through record_batch, which takes effect if and only if      *)
(* nobody committed since the load it relies on (AtomicLedger.tla), so a   *)
(* call only needs to know whether it is stale.  A new store holds neither *)
(* principals nor identity nor relationship: the first calls create them.  *)
(***************************************************************************)
EXTENDS Naturals, FiniteSets

CONSTANTS
    Deliveries,   \* the calls of handle
    Message,      \* Message[d]: the channel/message identity d carries
    None,         \* no delivery
    Founded,      \* what of Founding the store holds at the start
    MaxStalls     \* bound on leases that run out under a live holder

ASSUME MessageAssumption == DOMAIN Message = Deliveries
ASSUME NoneAssumption == None \notin Deliveries
ASSUME StallsAssumption == MaxStalls \in Nat

(* What ensure_identity asks for, in its order: two principals, HEKATE's identity
   and their relationship. *)
Founding == {"hekate", "user", "identity", "relationship"}
Place == [hekate |-> 1, user |-> 2, identity |-> 3, relationship |-> 4]

(* What is created in order is there in order. *)
InOrder(parts) ==
    \A r \in parts, q \in Founding : Place[q] < Place[r] => q \in parts

ASSUME FoundedAssumption == Founded \subseteq Founding /\ InOrder(Founded)

VARIABLES
    \* the foreground_lease row
    owner,      \* the call whose lease is stored, or None
    live,       \* expires_at_ms > now
    \* the projection
    founded,    \* the members of Founding that a load of the projection shows
    copies,     \* copies[r]: how many identities and relationships are stored
    observed,   \* observations recorded
    focus,      \* focus[x]: the persisted FocusResolution of observation x
    run,        \* run[x]: status of the run created for observation x
    decisions,  \* decisions[x]: DecisionCreated events correlated to x
    attempt,    \* attempt[d]: status of the attempt call d made
    \* the calls
    pc,         \* pc[d]: what d does next
    missing,    \* missing[d]: what d still has to create of Founding
    target,     \* target[d]: the observation d works on
    plan,       \* plan[d]: the resolution d found stored or is going to persist
    verdict,    \* verdict[d]: the run status d's decision is going to record
    loaded,     \* loaded[d]: d is inside record(None), past its load_state
    stale,      \* stale[d]: somebody committed since the load d relies on
    \* history
    stalls      \* how many leases ran out while their holder was working

lease == <<owner, live, stalls>>
foundation == <<founded, copies>>
projection == <<foundation, observed, focus, run, decisions, attempt>>
locals == <<missing, target, plan, verdict>>
vars == <<lease, projection, pc, locals, loaded, stale>>

Outcomes == {"none", "clarification", "conversation", "work"}

Resolutions ==
    [outcome : Outcomes, task : Deliveries \cup {None}, run : Deliveries \cup {None}]

NoFocus == [outcome |-> "none", task |-> None, run |-> None]
Clarification == [outcome |-> "clarification", task |-> None, run |-> None]
Conversation(x) == [outcome |-> "conversation", task |-> None, run |-> x]
Work(t, r) == [outcome |-> "work", task |-> t, run |-> r]

RunStatuses == {"none", "running", "suspended", "completed"}

Ended == {"answered", "failed", "busy", "dead"}

Working == {"load", "found", "record", "events", "resolve", "persist", "process",
            "check", "think", "correct", "judge", "final", "close"}

(* Where a call relies on the state it loaded or last committed. *)
Relying == {"events", "resolve", "persist", "process", "check", "think", "correct",
            "judge", "final"}

Releasing == {"answer", "abort"}

TypeOK ==
    /\ owner \in Deliveries \cup {None}
    /\ live \in BOOLEAN
    /\ founded \subseteq Founding
    /\ copies \in [{"identity", "relationship"} -> Nat]
    /\ observed \subseteq Deliveries
    /\ focus \in [Deliveries -> Resolutions]
    /\ run \in [Deliveries -> RunStatuses]
    /\ decisions \in [Deliveries -> Nat]
    /\ attempt \in [Deliveries -> {"none", "started", "succeeded", "failed"}]
    /\ pc \in [Deliveries -> {"new"} \cup Working \cup Releasing \cup Ended]
    /\ missing \in [Deliveries -> SUBSET Founding]
    /\ \A d \in Deliveries : pc[d] = "found" => missing[d] # {}
    /\ target \in [Deliveries -> Deliveries]
    /\ plan \in [Deliveries -> Resolutions]
    /\ verdict \in [Deliveries -> RunStatuses]
    /\ loaded \in [Deliveries -> BOOLEAN]
    /\ stale \in [Deliveries -> BOOLEAN]
    /\ stalls \in 0..MaxStalls

Init ==
    /\ owner = None
    /\ live = FALSE
    /\ founded = Founded
    /\ copies = [r \in {"identity", "relationship"} |-> IF r \in Founded THEN 1 ELSE 0]
    /\ observed = {}
    /\ focus = [d \in Deliveries |-> NoFocus]
    /\ run = [d \in Deliveries |-> "none"]
    /\ decisions = [d \in Deliveries |-> 0]
    /\ attempt = [d \in Deliveries |-> "none"]
    /\ pc = [d \in Deliveries |-> "new"]
    /\ missing = [d \in Deliveries |-> {}]
    /\ target = [d \in Deliveries |-> d]
    /\ plan = [d \in Deliveries |-> NoFocus]
    /\ verdict = [d \in Deliveries |-> "none"]
    /\ loaded = [d \in Deliveries |-> FALSE]
    /\ stale = [d \in Deliveries |-> FALSE]
    /\ stalls = 0

Goto(d, there) == pc' = [pc EXCEPT ![d] = there]

(* A load_state of d. *)
Loads(d) == stale' = [stale EXCEPT ![d] = FALSE]

(* A commit of d makes the loads of all other calls old. *)
Commits(d) ==
    stale' = [e \in Deliveries |-> e # d /\ (pc[e] \in Relying \/ loaded[e])]

(* The call is over, and what it kept in memory is gone. *)
Ends(d, how) ==
    /\ Goto(d, how)
    /\ missing' = [missing EXCEPT ![d] = {}]
    /\ plan' = [plan EXCEPT ![d] = NoFocus]
    /\ verdict' = [verdict EXCEPT ![d] = "none"]
    /\ loaded' = [loaded EXCEPT ![d] = FALSE]
    /\ stale' = [stale EXCEPT ![d] = FALSE]

(* An Err from handle_leased: handle closes the attempt if one was started;
   an error while closing it is only logged. *)
Aborts(d) ==
    /\ Goto(d, IF attempt[d] = "started" /\ pc[d] # "close" THEN "close" ELSE "abort")
    /\ stale' = [stale EXCEPT ![d] = FALSE]

-----------------------------------------------------------------------------
(* The lease. *)

(* Mutant of CanAcquire: the upsert without its WHERE clause. *)
CanAcquireAlways == TRUE

(* acquire_foreground_lease: the row is absent or has expired. *)
CanAcquire == owner = None \/ ~live

(* handle: take the lease or answer ForegroundActivityBusy. *)
Acquire(d) ==
    /\ pc[d] = "new"
    /\ IF CanAcquire
         THEN /\ owner' = d
              /\ live' = TRUE
              /\ Goto(d, "load")
         ELSE /\ Goto(d, "busy")
              /\ UNCHANGED <<owner, live>>
    /\ UNCHANGED <<stalls, projection, locals, loaded, stale>>

(* Mutant of RenewalStopped: a finished call does not abort its renewal task. *)
RenewalStoppedWhenDead(d) == pc[d] = "dead"

(* The renewal task ends with the call (Drop) or with its process. *)
RenewalStopped(d) == pc[d] \in Ended

(* The clock passes expires_at_ms.  Under a call at work this takes a stall: a
   suspended machine, a blocked runtime, a renewal that failed and ended. *)
Expire ==
    /\ owner # None
    /\ live
    /\ live' = FALSE
    /\ IF RenewalStopped(owner)
         THEN UNCHANGED stalls
         ELSE /\ stalls < MaxStalls
              /\ stalls' = stalls + 1
    /\ UNCHANGED <<owner, projection, pc, locals, loaded, stale>>

(* The renewal task finds the lease expired or taken, or its UPDATE fails. *)
RenewalFails(d) == owner # d \/ ~live \/ stalls < MaxStalls

(* ForegroundLease::release: DELETE ... WHERE owner_id = d, whose failure is only
   logged; then handle answers. *)
Release(d) ==
    /\ pc[d] \in Releasing
    /\ \/ owner = d /\ owner' = None /\ live' = FALSE
       \/ UNCHANGED <<owner, live>>
    /\ Ends(d, IF pc[d] = "answer" THEN "answered" ELSE "failed")
    /\ UNCHANGED <<stalls, projection, target>>

-----------------------------------------------------------------------------
(* From the message to the observation and its focus. *)

(* Mutant of Known: the source reference of a redelivery is not recognised. *)
KnownNever(d) == {}

(* The recorded observations that carry the message of d. *)
Known(d) == {x \in observed : Message[x] = Message[d]}

(* handle_leased: load_state, the search for an earlier delivery and for the focus
   that was resolved for it. *)
Load(d) ==
    /\ pc[d] = "load"
    /\ Loads(d)
    /\ IF Known(d) = {}
         THEN /\ missing' = [missing EXCEPT ![d] = Founding \ founded]
              /\ Goto(d, IF founded = Founding THEN "record" ELSE "found")
              /\ UNCHANGED <<target, plan>>
         ELSE /\ UNCHANGED missing
              /\ Goto(d, "events")
              /\ \E x \in Known(d) : /\ target' = [target EXCEPT ![d] = x]
                                     /\ plan' = [plan EXCEPT ![d] = focus[x]]
    /\ UNCHANGED <<lease, projection, verdict, loaded>>

(* A record without expected revision: its load_state. *)
RecordLoad(d) ==
    /\ pc[d] \in {"found", "record", "close"}
    /\ ~loaded[d]
    /\ loaded' = [loaded EXCEPT ![d] = TRUE]
    /\ Loads(d)
    /\ UNCHANGED <<lease, projection, pc, locals>>

(* Mutant of RecordConflict: the record is tried again until it succeeds. *)
RecordConflictRetries(d) ==
    /\ loaded[d]
    /\ stale[d]
    /\ loaded' = [loaded EXCEPT ![d] = FALSE]
    /\ UNCHANGED <<lease, projection, pc, locals, stale>>

(* The same record when somebody committed since: RevisionConflict. *)
RecordConflict(d) ==
    /\ loaded[d]
    /\ stale[d]
    /\ loaded' = [loaded EXCEPT ![d] = FALSE]
    /\ Aborts(d)
    /\ UNCHANGED <<lease, projection, locals>>

(* ensure_identity: what is missing is created in order, a record each.  The two
   principals have fixed identities, so that one created again replaces the old one,
   and HEKATE's then names no identity version any more. *)
EnsureIdentity(d) ==
    LET r == CHOOSE x \in missing[d] : \A y \in missing[d] : Place[x] <= Place[y]
    IN  /\ pc[d] = "found"
        /\ loaded[d]
        /\ ~stale[d]
        /\ founded' = {r} \cup IF r = "hekate" THEN founded \ {"identity"} ELSE founded
        /\ copies' = [x \in DOMAIN copies |-> IF x = r THEN copies[x] + 1 ELSE copies[x]]
        /\ missing' = [missing EXCEPT ![d] = {x \in Founding \ founded' : Place[x] > Place[r]}]
        /\ loaded' = [loaded EXCEPT ![d] = FALSE]
        /\ Commits(d)
        /\ Goto(d, IF missing'[d] = {} THEN "record" ELSE "found")
        /\ UNCHANGED <<lease, observed, focus, run, decisions, attempt, target, plan, verdict>>

(* ObservationRecorded. *)
RecordObservation(d) ==
    /\ pc[d] = "record"
    /\ loaded[d]
    /\ ~stale[d]
    /\ observed' = observed \cup {d}
    /\ loaded' = [loaded EXCEPT ![d] = FALSE]
    /\ Commits(d)
    /\ Goto(d, "resolve")
    /\ UNCHANGED <<lease, foundation, focus, run, decisions, attempt, locals>>

(* A redelivery reads the events: a decision is answered again, a persisted
   focus is taken up, and only without either is the focus resolved anew. *)
LookUpDecision(d) ==
    /\ pc[d] = "events"
    /\ Goto(d, IF decisions[target[d]] > 0 THEN "answer"
               ELSE IF plan[d] # NoFocus THEN "process"
               ELSE "resolve")
    /\ UNCHANGED <<lease, projection, locals, loaded, stale>>

(* The runs of task t that are open; a suspended run is not one of them. *)
ActiveRuns(t) ==
    {x \in Deliveries : run[x] = "running" /\ focus[x].task = t /\ focus[x].run = x}

Tasks == {focus[x].task : x \in Deliveries} \ {None}

(* choose_from_pool: one of the active tasks, which keeps its open run or gets one;
   none or more than one that will do is a case for a question. *)
Continuations(x) ==
    UNION {IF ActiveRuns(t) = {} THEN {Work(t, x)}
           ELSE {Work(t, r) : r \in ActiveRuns(t)} : t \in Tasks}

(* What continuity::resolve may answer for observation x: new work and ordinary
   conversation start a run. *)
Plans(x) == {Clarification, Conversation(x), Work(x, x)} \cup Continuations(x)

(* apply_focus_resolution: x has none yet, and a run that was there before is an
   open one of the task. *)
FocusIsValid(x, p) ==
    /\ focus[x] = NoFocus
    /\ p.run \notin {None, x} => p.run \in ActiveRuns(p.task)

Resolve(d) ==
    /\ pc[d] = "resolve"
    /\ \E p \in Plans(target[d]) : plan' = [plan EXCEPT ![d] = p]
    /\ Goto(d, "persist")
    /\ UNCHANGED <<lease, projection, missing, target, verdict, loaded, stale>>

(* Mutant of PersistFocus: record_batch without the expected revision. *)
PersistFocusBlind(d) ==
    /\ pc[d] = "persist"
    /\ LET x == target[d] IN
         IF ~FocusIsValid(x, plan[d])
           THEN Aborts(d) /\ UNCHANGED <<focus, run>>
           ELSE /\ focus' = [focus EXCEPT ![x] = plan[d]]
                /\ run' = IF plan[d].run = x THEN [run EXCEPT ![x] = "running"] ELSE run
                /\ Commits(d)
                /\ Goto(d, "process")
    /\ UNCHANGED <<lease, foundation, observed, decisions, attempt, locals, loaded>>

(* persist_focus_plan: goal, task, run and FocusResolved in one batch, with the
   loaded revision. *)
PersistFocus(d) ==
    /\ pc[d] = "persist"
    /\ LET x == target[d] IN
         IF stale[d] \/ ~FocusIsValid(x, plan[d])
           THEN Aborts(d) /\ UNCHANGED <<focus, run>>
           ELSE /\ focus' = [focus EXCEPT ![x] = plan[d]]
                /\ run' = IF plan[d].run = x THEN [run EXCEPT ![x] = "running"] ELSE run
                /\ Commits(d)
                /\ Goto(d, "process")
    /\ UNCHANGED <<lease, foundation, observed, decisions, attempt, locals, loaded>>

-----------------------------------------------------------------------------
(* From the focus to the decision. *)

(* produce_clarification: the question is the decision, at the loaded revision. *)
Clarify(d) ==
    /\ pc[d] = "process"
    /\ focus[target[d]] = Clarification
    /\ IF stale[d]
         THEN Aborts(d) /\ UNCHANGED <<decisions>>
         ELSE /\ decisions' = [decisions EXCEPT ![target[d]] = @ + 1]
              /\ Commits(d)
              /\ Goto(d, "answer")
    /\ UNCHANGED <<lease, foundation, observed, focus, run, attempt, locals, loaded>>

(* process_observation up to AttemptStarted, at the loaded revision. *)
StartAttempt(d) ==
    /\ pc[d] = "process"
    /\ focus[target[d]].run # None
    /\ IF stale[d]
         THEN Aborts(d) /\ UNCHANGED <<attempt>>
         ELSE /\ attempt' = [attempt EXCEPT ![d] = "started"]
              /\ Commits(d)
              /\ Goto(d, "check")
    /\ UNCHANGED <<lease, foundation, observed, focus, run, decisions, locals, loaded>>

(* The context is built and its revision compared with the head. *)
CheckContext(d) ==
    /\ pc[d] = "check"
    /\ IF stale[d] THEN Aborts(d) ELSE Goto(d, "think") /\ UNCHANGED stale
    /\ UNCHANGED <<lease, projection, locals, loaded>>

(* PrimaryModel::think: an answer that cannot be used is sent back with a correction,
   once; a second one is an error. *)
ModelAnswers(d) ==
    \/ Goto(d, "judge") /\ UNCHANGED stale
    \/ IF pc[d] = "think" THEN Goto(d, "correct") /\ UNCHANGED stale ELSE Aborts(d)

(* tokio::select!: the model answers, or the lease is reported lost. *)
Think(d) ==
    /\ pc[d] \in {"think", "correct"}
    /\ \/ ModelAnswers(d)
       \/ RenewalFails(d) /\ Aborts(d)
    /\ UNCHANGED <<lease, projection, locals, loaded>>

(* transition_run: the moves a decision may make. *)
MayMove(from, to) == <<from, to>> \in {<<"running", "suspended">>,
                                       <<"running", "completed">>,
                                       <<"suspended", "completed">>}

(* The run status the decision records: a conversation completes its run while
   it is running, on other work Suspend and Complete move it, the rest keep it. *)
Verdicts(x) ==
    LET now == run[focus[x].run] IN
    IF focus[x].outcome = "conversation"
      THEN {IF now = "running" THEN "completed" ELSE now}
      ELSE {now} \cup {to \in {"suspended", "completed"} : MayMove(now, to)}

(* After the answer: the head is compared again, the judgment is validated, the
   policy asked and the final batch put together.  A refusal is a Fail. *)
Judge(d) ==
    /\ pc[d] = "judge"
    /\ IF stale[d]
         THEN Aborts(d) /\ UNCHANGED verdict
         ELSE /\ \E v \in Verdicts(target[d]) : verdict' = [verdict EXCEPT ![d] = v]
              /\ Goto(d, "final")
              /\ UNCHANGED stale
    /\ UNCHANGED <<lease, projection, missing, target, plan, loaded>>

(* Mutant of FinalCommit: record_batch without the expected revision. *)
FinalCommitBlind(d) ==
    /\ pc[d] = "final"
    /\ decisions' = [decisions EXCEPT ![target[d]] = @ + 1]
    /\ attempt' = [attempt EXCEPT ![d] = "succeeded"]
    /\ run' = [run EXCEPT ![focus[target[d]].run] = verdict[d]]
    /\ Commits(d)
    /\ Goto(d, "answer")
    /\ UNCHANGED <<lease, foundation, observed, focus, locals, loaded>>

(* Mutant of FinalCommit: a stale batch is dropped, but answered. *)
FinalCommitAnswers(d) ==
    /\ pc[d] = "final"
    /\ IF stale[d]
         THEN Goto(d, "answer") /\ UNCHANGED <<decisions, attempt, run, stale>>
         ELSE /\ decisions' = [decisions EXCEPT ![target[d]] = @ + 1]
              /\ attempt' = [attempt EXCEPT ![d] = "succeeded"]
              /\ run' = [run EXCEPT ![focus[target[d]].run] = verdict[d]]
              /\ Commits(d)
              /\ Goto(d, "answer")
    /\ UNCHANGED <<lease, foundation, observed, focus, locals, loaded>>

(* The decision, the run's new status and AttemptCompleted in one batch at the
   revision the model thought about. *)
FinalCommit(d) ==
    /\ pc[d] = "final"
    /\ IF stale[d]
         THEN Aborts(d) /\ UNCHANGED <<decisions, attempt, run>>
         ELSE /\ decisions' = [decisions EXCEPT ![target[d]] = @ + 1]
              /\ attempt' = [attempt EXCEPT ![d] = "succeeded"]
              /\ run' = [run EXCEPT ![focus[target[d]].run] = verdict[d]]
              /\ Commits(d)
              /\ Goto(d, "answer")
    /\ UNCHANGED <<lease, foundation, observed, focus, locals, loaded>>

(* Mutant of CloseAttempt: the attempt is closed with a status of its own. *)
CloseAttemptUnknown(d) ==
    /\ pc[d] = "close"
    /\ loaded[d]
    /\ ~stale[d]
    /\ attempt' = [attempt EXCEPT ![d] = "unknown"]
    /\ loaded' = [loaded EXCEPT ![d] = FALSE]
    /\ Commits(d)
    /\ Goto(d, "abort")
    /\ UNCHANGED <<lease, foundation, observed, focus, run, decisions, locals>>

(* complete_attempt(Failed): the attempt is still Started, and is closed. *)
CloseAttempt(d) ==
    /\ pc[d] = "close"
    /\ loaded[d]
    /\ ~stale[d]
    /\ attempt' = [attempt EXCEPT ![d] = "failed"]
    /\ loaded' = [loaded EXCEPT ![d] = FALSE]
    /\ Commits(d)
    /\ Goto(d, "abort")
    /\ UNCHANGED <<lease, foundation, observed, focus, run, decisions, locals>>

-----------------------------------------------------------------------------
(* Failures. *)

(* Any other error of a step: the backend, the context builder, the model, an
   invalid trace or judgment, a policy denial, an illegal run transition. *)
Fail(d) ==
    /\ pc[d] \in Working
    /\ loaded' = [loaded EXCEPT ![d] = FALSE]
    /\ Aborts(d)
    /\ UNCHANGED <<lease, projection, locals>>

(* The process dies, or the future of the call is dropped. *)
Crash(d) ==
    /\ pc[d] \in Working \cup Releasing
    /\ Ends(d, "dead")
    /\ UNCHANGED <<lease, projection, target>>

(* A commit by a writer without the lease: an approval, an operation, a memory,
   a Sleep run, an initiative. *)
OtherCommit ==
    /\ stale' = [d \in Deliveries |-> pc[d] \in Relying \/ loaded[d]]
    /\ UNCHANGED <<lease, projection, pc, locals, loaded>>

(* What a call does once it holds the lease. *)
Step(d) ==
    \/ Load(d)
    \/ RecordLoad(d)
    \/ RecordConflict(d)
    \/ EnsureIdentity(d)
    \/ RecordObservation(d)
    \/ LookUpDecision(d)
    \/ Resolve(d)
    \/ PersistFocus(d)
    \/ Clarify(d)
    \/ StartAttempt(d)
    \/ CheckContext(d)
    \/ Think(d)
    \/ Judge(d)
    \/ FinalCommit(d)
    \/ CloseAttempt(d)
    \/ Release(d)

Next ==
    \/ Expire
    \/ OtherCommit
    \/ \E d \in Deliveries :
        \/ Acquire(d)
        \/ Step(d)
        \/ Fail(d)
        \/ Crash(d)

Spec == Init /\ [][Next]_vars

(* The runtime polls a call until it ends, the model client and SQLite answer or
   time out, and the clock goes on. *)
FairSpec ==
    /\ Spec
    /\ \A d \in Deliveries : WF_vars(Step(d))
    /\ WF_vars(Expire)

-----------------------------------------------------------------------------
(* Unless a lease ran out under its holder, no two calls are at work together:
   not after a crash, not after a failed renewal (acquire, renew, release). *)
LeaseIsExclusive ==
    stalls = 0 =>
        \A d, e \in Deliveries :
            pc[d] \in Working /\ pc[e] \in Working => d = e

(* However often a message is delivered and however its calls die, it is one
   observation, and the calls create one identity and one relationship between them,
   unless a lease ran out under its holder (handle_leased, ensure_identity). *)
RecordedOnce ==
    stalls = 0 =>
        /\ \A x, y \in observed : Message[x] = Message[y] => x = y
        /\ \A r \in DOMAIN copies : copies[r] <= 1

(* An observation gets one decision, even from calls that overlap, and one that
   was thought about is the work of exactly one succeeded attempt. *)
DecidedOnce ==
    \A x \in Deliveries :
        /\ decisions[x] <= 1
        /\ Cardinality({d \in Deliveries : target[d] = x /\ attempt[d] = "succeeded"})
             = IF focus[x].run = None THEN 0 ELSE decisions[x]

(* handle answers Ok only with a decision in the ledger, and a call whose attempt
   succeeded is not answered with an error. *)
AnswersAreTrue ==
    \A d \in Deliveries :
        /\ pc[d] \in {"answer", "answered"} => decisions[target[d]] > 0
        /\ pc[d] \in {"abort", "failed"} => attempt[d] # "succeeded"

(* A task never has two open runs, although a message that continues it looks
   for the open run in one transaction and starts one in another. *)
OneOpenRun == \A t \in Tasks : Cardinality(ActiveRuns(t)) <= 1

(* docs/state-machines.md on runs: a run only moves forward, and what a decision
   closed is not opened again by a decision made on an older state. *)
RunsMoveForward ==
    [][\A x \in Deliveries :
          run'[x] # run[x] =>
              \/ run[x] = "none" /\ run'[x] = "running"
              \/ MayMove(run[x], run'[x])]_run

(* Every call that got the lease is answered or dies with its process, whatever
   the other writers commit meanwhile: no step of it retries. *)
CallsEnd == \A d \in Deliveries : pc[d] \in Working ~> pc[d] \in Ended

(* The slot does not stay taken by a call that is over, whether it released the
   lease, failed to, or was killed. *)
LeaseReturns ==
    \A d \in Deliveries :
        (owner = d /\ live /\ pc[d] \in Ended) ~> ~(owner = d /\ live)

-----------------------------------------------------------------------------
(* docs/invariants.md: external messages with the same channel/message identity
   are processed once.  No two decisions answer one message. *)
MessagesProcessedOnce ==
    \A x, y \in Deliveries :
        decisions[x] > 0 /\ decisions[y] > 0 /\ Message[x] = Message[y] => x = y
=============================================================================

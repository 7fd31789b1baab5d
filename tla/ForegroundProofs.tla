-------------------------- MODULE ForegroundProofs --------------------------
(***************************************************************************)
(* Proofs about the foreground calls, for any number of deliveries and of  *)
(* messages, any store founded in order and any number of leases that run  *)
(* out.  Two arguments meet: the lease keeps calls apart unless it runs    *)
(* out, and the expected revision of a commit keeps them from deciding on  *)
(* an old state even then.                                                 *)
(***************************************************************************)
EXTENDS Foreground, FiniteSetTheorems, TLAPS

USE NoneAssumption

(* After the call found the observation it works on or recorded it: Relying. *)
Deciding == Relying \ {"events"}

Thinking == {"check", "think", "correct", "judge", "final"}

(* Unless a lease ran out under its holder, whoever is at work holds it. *)
LeaseInv ==
    stalls = 0 =>
        \A d \in Deliveries : pc[d] \in Working \cup Releasing => owner = d /\ live

(* What d found when it loaded, or left behind when it last committed, holds still. *)
Current(d) ==
    /\ pc[d] \in Deciding => decisions[target[d]] = 0
    /\ pc[d] = "persist" => plan[d] \in Plans(target[d])
    /\ pc[d] = "final" => verdict[d] \in Verdicts(target[d])

CallInv(d) ==
    /\ loaded[d] => pc[d] \in {"found", "record", "close"}
    /\ pc[d] \in {"new", "load", "found", "record"} => d \notin observed /\ target[d] = d
    /\ pc[d] \in Relying => target[d] \in observed
    /\ pc[d] \in Thinking => focus[target[d]].run # None
    /\ pc[d] \in {"answer", "answered"} => decisions[target[d]] > 0
    /\ attempt[d] = "succeeded" => pc[d] \in {"answer", "answered", "dead"}
    /\ ~stale[d] => Current(d)

CallsInv == \A d \in Deliveries : CallInv(d)

(* A task goes by the observation it was created for, and a run by the observation
   that started it; of the runs of a task one is open. *)
FocusInv ==
    /\ \A x \in Deliveries :
          focus[x].task # None => focus[focus[x].task].task = focus[x].task
    /\ \A x \in Deliveries : focus[x] = NoFocus => run[x] = "none"
    /\ \A t \in Deliveries : \A x, y \in ActiveRuns(t) : x = y

(* The succeeded attempts are the decisions that were thought about. *)
Succeeded(x) == {d \in Deliveries : target[d] = x /\ attempt[d] = "succeeded"}

DecisionInv ==
    \A x \in Deliveries :
        /\ decisions[x] \in {0, 1}
        /\ decisions[x] = 1 => x \in observed
        /\ Succeeded(x) # {} <=> focus[x].run # None /\ decisions[x] = 1
        /\ \A d, e \in Succeeded(x) : d = e

(* What a call that is about to record looked for is still not there. *)
RecordInv ==
    stalls = 0 =>
        /\ \A x, y \in observed : Message[x] = Message[y] => x = y
        /\ \A d \in Deliveries : pc[d] \in {"found", "record"} => Known(d) = {}
        /\ InOrder(founded)
        /\ \A r \in {"identity", "relationship"} : copies[r] = IF r \in founded THEN 1 ELSE 0
        /\ \A d \in Deliveries : pc[d] = "found" => missing[d] = Founding \ founded

IInv == TypeOK /\ LeaseInv /\ CallsInv /\ FocusInv /\ DecisionInv /\ RecordInv

-----------------------------------------------------------------------------
(* What continuity::resolve answers is a resolution. *)
LEMMA PlansType ==
    ASSUME focus \in [Deliveries -> Resolutions], NEW x \in Deliveries
    PROVE  Plans(x) \subseteq Resolutions
<1>1. Tasks \subseteq Deliveries
  BY DEF Tasks, Resolutions
<1>2. \A t \in Deliveries : ActiveRuns(t) \subseteq Deliveries
  BY DEF ActiveRuns
<1>3. \A t \in Deliveries, r \in Deliveries : Work(t, r) \in Resolutions
  BY DEF Work, Resolutions, Outcomes
<1>4. Continuations(x) \subseteq Resolutions
  BY <1>1, <1>2, <1>3 DEF Continuations
<1>5. {Clarification, Conversation(x)} \subseteq Resolutions
  BY DEF Clarification, Conversation, Resolutions, Outcomes
<1> QED
  BY <1>3, <1>4, <1>5 DEF Plans

(* The moves a decision may make on a run. *)
LEMMA VerdictsType ==
    ASSUME NEW x \in Deliveries, NEW v \in Verdicts(x), run \in [Deliveries -> RunStatuses],
           focus[x].run \in Deliveries
    PROVE  /\ v \in RunStatuses
           /\ v = run[focus[x].run] \/ MayMove(run[focus[x].run], v)
<1> DEFINE now == run[focus[x].run]
<1>1. now \in RunStatuses
  OBVIOUS
<1>2. CASE focus[x].outcome = "conversation"
  BY <1>1, <1>2 DEF Verdicts, MayMove, RunStatuses
<1>3. CASE focus[x].outcome # "conversation"
  BY <1>1, <1>3 DEF Verdicts, RunStatuses
<1> QED BY <1>2, <1>3

(* A call that stays at work, or is over, leaves the lease to whom it belongs. *)
LEMMA LeaseKept ==
    ASSUME IInv, NEW d \in Deliveries, UNCHANGED lease,
           \A e \in Deliveries \ {d} : pc'[e] = pc[e],
           pc'[d] \in Working \cup Releasing => pc[d] \in Working \cup Releasing
    PROVE  LeaseInv'
  BY DEF IInv, LeaseInv, lease

(* What e knows stays true while neither the ledger nor e moves. *)
LEMMA CallKept ==
    ASSUME IInv, NEW e \in Deliveries, UNCHANGED projection,
           /\ pc'[e] = pc[e] /\ target'[e] = target[e] /\ plan'[e] = plan[e]
           /\ verdict'[e] = verdict[e] /\ loaded'[e] = loaded[e],
           stale[e] => stale'[e]
    PROVE  CallInv(e)'
<1> USE DEF projection, foundation
<1>1. \A x \in Deliveries : Plans(x)' = Plans(x) /\ Verdicts(x)' = Verdicts(x)
  BY DEF Plans, Continuations, Tasks, ActiveRuns, Verdicts
<1>2. CallInv(e) /\ target[e] \in Deliveries
  BY DEF IInv, CallsInv, TypeOK
<1>3. (~stale[e] => Current(e))'
  BY <1>1, <1>2 DEF CallInv, Current
<1> QED
  BY <1>2, <1>3 DEF CallInv

(* A step of d that leaves the ledger alone disturbs nobody: it is enough to know where
   d is afterwards. *)
LEMMA Locally ==
    ASSUME IInv, NEW d \in Deliveries, UNCHANGED projection, stalls' = 0 => stalls = 0,
           \A e \in Deliveries \ {d} :
               /\ pc'[e] = pc[e] /\ missing'[e] = missing[e] /\ target'[e] = target[e]
               /\ plan'[e] = plan[e] /\ verdict'[e] = verdict[e]
               /\ loaded'[e] = loaded[e] /\ stale'[e] = stale[e],
           TypeOK', LeaseInv', CallInv(d)',
           target'[d] = target[d] \/ attempt[d] # "succeeded",
           pc'[d] \in {"found", "record"} => pc[d] \in {"found", "record"} \/ Known(d) = {},
           pc'[d] = "found" =>
               \/ missing'[d] = Founding \ founded
               \/ pc[d] = "found" /\ missing'[d] = missing[d]
    PROVE  IInv'
<1> USE DEF projection, foundation
<1>1. CallsInv'
  BY CallKept DEF CallsInv
<1>2. FocusInv'
  BY DEF IInv, FocusInv, ActiveRuns
<1>3. DecisionInv'
  <2>1. \A x \in Deliveries : Succeeded(x)' = Succeeded(x)
    BY DEF Succeeded
  <2> QED BY <2>1 DEF IInv, DecisionInv
<1>4. RecordInv'
  BY DEF IInv, RecordInv, Known, InOrder
<1> QED
  BY <1>1, <1>2, <1>3, <1>4 DEF IInv

(* An error closes the attempt if there is one, or ends the call. *)
LEMMA AbortsStep ==
    ASSUME IInv, NEW d \in Deliveries, pc[d] \in Working, Aborts(d),
           UNCHANGED <<lease, projection, locals>>,
           \/ loaded' = [loaded EXCEPT ![d] = FALSE]
           \/ UNCHANGED loaded /\ ~loaded[d]
    PROVE  IInv'
<1>1. /\ pc' \in [Deliveries -> {"new"} \cup Working \cup Releasing \cup Ended]
      /\ pc'[d] \in {"close", "abort"} /\ \A e \in Deliveries \ {d} : pc'[e] = pc[e]
  BY DEF IInv, TypeOK, Aborts, Goto, Working, Releasing
<1>2. loaded' \in [Deliveries -> BOOLEAN] /\ stale' \in [Deliveries -> BOOLEAN]
  BY DEF IInv, TypeOK, Aborts
<1>3. TypeOK'
  BY <1>1, <1>2 DEF IInv, TypeOK, lease, projection, foundation, locals
<1>4. ~loaded'[d] /\ attempt'[d] # "succeeded"
  <2>1. attempt[d] # "succeeded"
    BY DEF IInv, CallsInv, CallInv, Working
  <2> QED BY <2>1 DEF IInv, TypeOK, projection
<1>5. CallInv(d)'
  BY <1>1, <1>4 DEF CallInv, Current, Relying, Deciding, Thinking
<1>6. LeaseInv'
  BY <1>1, LeaseKept
<1> QED
  BY <1>1, <1>3, <1>5, <1>6, Locally DEF IInv, TypeOK, Aborts, locals, lease

(* The flags of old loads are flags. *)
LEMMA CommitsType == ASSUME NEW d, Commits(d) PROVE stale' \in [Deliveries -> BOOLEAN]
  BY DEF Commits

(* After a commit of d nobody else relies on anything any more: it is enough that what
   was recorded, resolved and decided stays so. *)
LEMMA OthersAge ==
    ASSUME IInv, NEW d \in Deliveries, Commits(d),
           \A e \in Deliveries \ {d} :
               /\ pc'[e] = pc[e] /\ target'[e] = target[e] /\ attempt'[e] = attempt[e]
               /\ loaded'[e] = loaded[e],
           observed \subseteq observed', observed' \subseteq observed \cup {d},
           \A x \in Deliveries : /\ decisions[x] > 0 => decisions'[x] > 0
                                 /\ focus[x].run # None => focus'[x].run # None
    PROVE  \A e \in Deliveries \ {d} : CallInv(e)'
<1> SUFFICES ASSUME NEW e \in Deliveries \ {d} PROVE CallInv(e)'
  OBVIOUS
<1>1. CallInv(e) /\ target[e] \in Deliveries
  BY DEF IInv, CallsInv, TypeOK
<1>2. pc[e] \in Relying => stale'[e]
  BY DEF Commits
<1>3. (~stale[e] => Current(e))'
  BY <1>2 DEF Current, Deciding, Relying
<1> QED
  BY <1>1, <1>3 DEF CallInv, Relying, Thinking

-----------------------------------------------------------------------------
(* The lease goes to a call that found it free or expired. *)
LEMMA AcquireStep == ASSUME IInv, NEW d \in Deliveries, Acquire(d) PROVE IInv'
<1>1. /\ pc[d] = "new" /\ pc'[d] \in {"load", "busy"}
      /\ \A e \in Deliveries \ {d} : pc'[e] = pc[e]
      /\ UNCHANGED <<stalls, projection, locals, loaded, stale>>
  BY DEF IInv, TypeOK, Acquire, Goto
<1>2. TypeOK'
  BY DEF IInv, TypeOK, Acquire, Goto, Working, Ended, projection, foundation, locals
<1>3. LeaseInv'
  <2>1. CASE CanAcquire
    <3>1. owner' = d /\ live'
      BY <2>1 DEF Acquire
    <3>2. stalls = 0 => \A e \in Deliveries : pc[e] \notin Working \cup Releasing
      BY <2>1 DEF IInv, LeaseInv, CanAcquire
    <3> QED BY <1>1, <3>1, <3>2 DEF LeaseInv
  <2>2. CASE ~CanAcquire
    <3>1. UNCHANGED lease /\ pc'[d] = "busy"
      BY <2>2 DEF IInv, TypeOK, Acquire, Goto, lease
    <3> QED BY <1>1, <3>1, LeaseKept DEF Working, Releasing
  <2> QED BY <2>1, <2>2
<1>4. CallInv(d)'
  <2>1. CallInv(d)
    BY DEF IInv, CallsInv
  <2> QED
    BY <1>1, <2>1
    DEF CallInv, Current, Deciding, Relying, Thinking, projection, locals
<1> QED
  BY <1>1, <1>2, <1>3, <1>4, Locally DEF locals

(* The lease runs out: under a call at work that is a stall. *)
LEMMA ExpireStep == ASSUME IInv, Expire PROVE IInv'
<1>1. owner \in Deliveries
  BY DEF IInv, TypeOK, Expire
<1>2. stalls' \in 0..MaxStalls /\ (stalls' = 0 => stalls = 0 /\ RenewalStopped(owner))
  BY StallsAssumption DEF IInv, TypeOK, Expire
<1>3. TypeOK'
  BY <1>2 DEF IInv, TypeOK, Expire, projection, foundation, locals
<1>4. LeaseInv'
  BY <1>2 DEF IInv, LeaseInv, Expire, RenewalStopped, Working, Releasing, Ended
<1>5. CallInv(owner)'
  BY <1>1, CallKept DEF Expire, locals
<1> QED
  BY <1>1, <1>2, <1>3, <1>4, <1>5, Locally DEF Expire, locals

(* Whoever commits without the lease makes the loads old, and no more. *)
LEMMA OtherCommitStep == ASSUME IInv, OtherCommit PROVE IInv'
<1> USE DEF projection, foundation, locals, lease
<1>1. stale' \in [Deliveries -> BOOLEAN]
  BY DEF OtherCommit
<1>2. TypeOK'
  BY <1>1 DEF IInv, TypeOK, OtherCommit
<1>3. CallsInv'
  <2>1. ASSUME NEW e \in Deliveries PROVE CallInv(e)'
    <3>1. CallInv(e)
      BY DEF IInv, CallsInv
    <3>2. pc[e] \in Relying => stale'[e]
      BY DEF OtherCommit
    <3>3. (~stale[e] => Current(e))'
      BY <3>2 DEF OtherCommit, Current, Deciding, Relying
    <3> QED BY <3>1, <3>3 DEF OtherCommit, CallInv
  <2> QED BY <2>1 DEF CallsInv
<1>4. FocusInv' /\ LeaseInv' /\ RecordInv'
  BY DEF IInv, OtherCommit, FocusInv, ActiveRuns, LeaseInv, RecordInv, Known, InOrder
<1>5. DecisionInv'
  <2>1. \A x \in Deliveries : Succeeded(x)' = Succeeded(x)
    BY DEF OtherCommit, Succeeded
  <2> QED BY <2>1 DEF IInv, OtherCommit, DecisionInv
<1> QED
  BY <1>2, <1>3, <1>4, <1>5 DEF IInv

(* A call that is over knows nothing any more. *)
LEMMA EndsStep ==
    ASSUME IInv, NEW d \in Deliveries, NEW how \in {"answered", "failed", "dead"},
           Ends(d, how), UNCHANGED <<stalls, projection, target>>, LeaseInv',
           owner' \in Deliveries \cup {None}, live' \in BOOLEAN,
           how # "dead" => pc[d] \in Releasing /\ (how = "answered" <=> pc[d] = "answer")
    PROVE  IInv'
<1>1. /\ pc' \in [Deliveries -> {"new"} \cup Working \cup Releasing \cup Ended]
      /\ pc'[d] = how /\ \A e \in Deliveries \ {d} : pc'[e] = pc[e]
  BY DEF IInv, TypeOK, Ends, Goto, Ended
<1>2. loaded' \in [Deliveries -> BOOLEAN] /\ stale' \in [Deliveries -> BOOLEAN] /\ ~loaded'[d]
  BY DEF IInv, TypeOK, Ends
<1>3. TypeOK'
  <2>1. plan' \in [Deliveries -> Resolutions]
    BY DEF IInv, TypeOK, Ends, NoFocus, Resolutions, Outcomes
  <2>2. missing' \in [Deliveries -> SUBSET Founding] /\ verdict' \in [Deliveries -> RunStatuses]
    BY DEF IInv, TypeOK, Ends, RunStatuses
  <2>3. \A e \in Deliveries : pc'[e] = "found" => missing'[e] # {}
    BY <1>1 DEF IInv, TypeOK, Ends
  <2> QED
    BY <1>1, <1>2, <2>1, <2>2, <2>3 DEF IInv, TypeOK, projection, foundation
<1>4. CallInv(d)'
  <2>1. CallInv(d)
    BY DEF IInv, CallsInv
  <2> QED
    BY <1>1, <1>2, <2>1
    DEF CallInv, Current, Deciding, Relying, Thinking, Releasing, projection
<1> QED
  BY <1>1, <1>3, <1>4, Locally DEF IInv, TypeOK, Ends

(* handle releases the lease, or fails to, and answers. *)
LEMMA ReleaseStep == ASSUME IInv, NEW d \in Deliveries, Release(d) PROVE IInv'
<1> DEFINE how == IF pc[d] = "answer" THEN "answered" ELSE "failed"
<1>1. /\ \A e \in Deliveries \ {d} : pc'[e] = pc[e]
      /\ pc'[d] = how /\ pc[d] \in Releasing /\ UNCHANGED stalls
  BY DEF IInv, TypeOK, Release, Ends, Goto
<1>2. LeaseInv'
  <2>1. CASE UNCHANGED <<owner, live>>
    BY <1>1, <2>1, LeaseKept DEF lease, Working, Releasing
  <2>2. CASE owner = d
    BY <1>1, <2>2 DEF IInv, LeaseInv, Working, Releasing
  <2> QED BY <2>1, <2>2 DEF Release
<1>3. owner' \in Deliveries \cup {None} /\ live' \in BOOLEAN
  BY DEF IInv, TypeOK, Release
<1> QED
  BY <1>1, <1>2, <1>3, EndsStep DEF Release

(* A process that dies leaves its lease behind. *)
LEMMA CrashStep == ASSUME IInv, NEW d \in Deliveries, Crash(d) PROVE IInv'
<1>1. \A e \in Deliveries \ {d} : pc'[e] = pc[e]
  BY DEF IInv, TypeOK, Crash, Ends, Goto
<1>2. pc'[d] = "dead"
  BY DEF IInv, TypeOK, Crash, Ends, Goto
<1>3. LeaseInv'
  BY <1>1, <1>2, LeaseKept DEF Crash, Working, Releasing
<1> QED
  BY <1>3, EndsStep DEF IInv, TypeOK, Crash, lease

-----------------------------------------------------------------------------
(* Any error. *)
LEMMA FailStep == ASSUME IInv, NEW d \in Deliveries, Fail(d) PROVE IInv'
  BY AbortsStep DEF Fail

(* A record that is refused. *)
LEMMA RecordConflictStep ==
    ASSUME IInv, NEW d \in Deliveries, RecordConflict(d) PROVE IInv'
<1>1. pc[d] \in Working
  BY DEF IInv, CallsInv, CallInv, RecordConflict, Working
<1> QED
  BY <1>1, AbortsStep DEF RecordConflict

(* A call that does not hold a record's load and goes on from there. *)
LEMMA NotLoaded ==
    ASSUME IInv, NEW d \in Deliveries, pc[d] \notin {"found", "record", "close"}
    PROVE  ~loaded[d]
  BY DEF IInv, CallsInv, CallInv

(* The load with which a call begins, and what it looks for in it. *)
LEMMA LoadStep == ASSUME IInv, NEW d \in Deliveries, Load(d) PROVE IInv'
<1>1. /\ pc[d] = "load" /\ UNCHANGED <<lease, projection, verdict, loaded>>
      /\ stale' \in [Deliveries -> BOOLEAN]
      /\ \A e \in Deliveries \ {d} : stale'[e] = stale[e]
  BY DEF IInv, TypeOK, Load, Loads
<1>2. CallInv(d) /\ ~loaded[d]
  BY <1>1, NotLoaded DEF IInv, CallsInv
<1>3. CASE Known(d) = {}
  <2>1. /\ missing' = [missing EXCEPT ![d] = Founding \ founded]
        /\ Goto(d, IF founded = Founding THEN "record" ELSE "found")
        /\ UNCHANGED <<target, plan>>
    BY <1>3 DEF Load
  <2>2. TypeOK'
    BY <1>1, <2>1 DEF IInv, TypeOK, Goto, Working, projection, foundation, lease
  <2>3. CallInv(d)'
    BY <1>1, <1>2, <2>1
    DEF IInv, TypeOK, Goto, CallInv, Current, Deciding, Relying, Thinking, projection
  <2>4. LeaseInv'
    BY <1>1, <2>1, LeaseKept DEF IInv, TypeOK, Goto, Working
  <2> QED
    BY <1>1, <1>3, <2>1, <2>2, <2>3, <2>4, Locally DEF IInv, TypeOK, Goto, lease
<1>4. CASE Known(d) # {}
  <2>1. PICK x \in Known(d) : /\ target' = [target EXCEPT ![d] = x]
                              /\ plan' = [plan EXCEPT ![d] = focus[x]]
    BY <1>4 DEF Load
  <2>2. UNCHANGED missing /\ Goto(d, "events") /\ x \in observed /\ x \in Deliveries
    BY <1>4, <2>1 DEF IInv, TypeOK, Load, Known
  <2>3. TypeOK'
    BY <1>1, <2>1, <2>2 DEF IInv, TypeOK, Goto, Working, projection, foundation, lease
  <2>4. CallInv(d)'
    BY <1>1, <1>2, <2>1, <2>2
    DEF IInv, TypeOK, Goto, CallInv, Current, Deciding, Relying, Thinking, projection
  <2>5. LeaseInv'
    BY <1>1, <2>2, LeaseKept DEF IInv, TypeOK, Goto, Working
  <2>6. attempt[d] # "succeeded"
    BY <1>1, <1>2 DEF CallInv
  <2> QED
    BY <1>1, <2>1, <2>2, <2>3, <2>4, <2>5, <2>6, Locally DEF IInv, TypeOK, Goto, lease
<1> QED BY <1>3, <1>4

(* The load_state of a record. *)
LEMMA RecordLoadStep == ASSUME IInv, NEW d \in Deliveries, RecordLoad(d) PROVE IInv'
<1>1. /\ loaded' \in [Deliveries -> BOOLEAN] /\ stale' \in [Deliveries -> BOOLEAN]
      /\ \A e \in Deliveries \ {d} : stale'[e] = stale[e] /\ loaded'[e] = loaded[e]
      /\ UNCHANGED <<lease, projection, pc, locals>>
  BY DEF IInv, TypeOK, RecordLoad, Loads
<1>2. TypeOK' /\ LeaseInv'
  BY <1>1, LeaseKept DEF IInv, TypeOK, projection, foundation, locals, lease
<1>3. CallInv(d)'
  <2>1. CallInv(d) /\ pc[d] \in {"found", "record", "close"}
    BY DEF IInv, CallsInv, RecordLoad
  <2> QED
    BY <1>1, <2>1 DEF CallInv, Current, Deciding, Relying, Thinking, projection, locals
<1> QED
  BY <1>1, <1>2, <1>3, Locally DEF locals, lease

(* From one place to the next, with what d knows there. *)
LEMMA GoesOn ==
    ASSUME IInv, NEW d \in Deliveries, NEW there \in (Working \cup Releasing) \ {"found", "record"},
           Goto(d, there), pc[d] \in Working, UNCHANGED <<lease, projection, missing, target>>,
           UNCHANGED <<loaded, stale>>, plan' \in [Deliveries -> Resolutions],
           verdict' \in [Deliveries -> RunStatuses],
           \A e \in Deliveries \ {d} : plan'[e] = plan[e] /\ verdict'[e] = verdict[e],
           CallInv(d)'
    PROVE  IInv'
<1>1. /\ pc' \in [Deliveries -> {"new"} \cup Working \cup Releasing \cup Ended]
      /\ pc'[d] = there /\ \A e \in Deliveries \ {d} : pc'[e] = pc[e]
  BY DEF IInv, TypeOK, Goto
<1>2. TypeOK'
  BY <1>1 DEF IInv, TypeOK, projection, foundation, lease
<1>3. LeaseInv'
  BY <1>1, LeaseKept
<1> QED
  BY <1>1, <1>2, <1>3, Locally DEF lease

(* The events of a redelivery. *)
LEMMA LookUpDecisionStep ==
    ASSUME IInv, NEW d \in Deliveries, LookUpDecision(d) PROVE IInv'
<1> DEFINE there == IF decisions[target[d]] > 0 THEN "answer"
                    ELSE IF plan[d] # NoFocus THEN "process" ELSE "resolve"
<1>1. /\ pc[d] = "events" /\ Goto(d, there) /\ pc'[d] = there
      /\ UNCHANGED <<lease, projection, locals, loaded, stale>>
  BY DEF IInv, TypeOK, LookUpDecision, Goto
<1>2. CallInv(d)'
  <2>1. CallInv(d) /\ decisions[target[d]] \in {0, 1}
    BY DEF IInv, CallsInv, TypeOK, DecisionInv
  <2> QED
    BY <1>1, <2>1 DEF CallInv, Current, Deciding, Relying, Thinking, projection, locals
<1> QED
  BY <1>1, <1>2, GoesOn DEF IInv, TypeOK, locals, Working, Releasing

(* continuity::resolve. *)
LEMMA ResolveStep == ASSUME IInv, NEW d \in Deliveries, Resolve(d) PROVE IInv'
<1>1. PICK p \in Plans(target[d]) : plan' = [plan EXCEPT ![d] = p]
  BY DEF Resolve
<1>2. target[d] \in Deliveries /\ p \in Resolutions
  BY PlansType DEF IInv, TypeOK
<1>3. /\ pc[d] = "resolve" /\ pc'[d] = "persist" /\ plan'[d] = p
      /\ UNCHANGED <<lease, projection, missing, target, verdict, loaded, stale>>
  BY <1>1 DEF IInv, TypeOK, Resolve, Goto
<1>4. CallInv(d)'
  <2>1. Plans(target[d])' = Plans(target[d])
    BY <1>3 DEF Plans, Continuations, Tasks, ActiveRuns, projection
  <2>2. CallInv(d)
    BY DEF IInv, CallsInv
  <2>3. (~stale[d] => Current(d))'
    BY <1>1, <1>3, <2>1, <2>2 DEF CallInv, Current, Deciding, Relying, projection
  <2> QED
    BY <1>3, <2>2, <2>3 DEF CallInv, Relying, Thinking, projection
<1> QED
  BY <1>1, <1>2, <1>3, <1>4, GoesOn DEF Resolve, IInv, TypeOK, Working

(* The context's revision is compared with the head. *)
LEMMA CheckContextStep ==
    ASSUME IInv, NEW d \in Deliveries, CheckContext(d) PROVE IInv'
<1>1. pc[d] = "check" /\ ~loaded[d] /\ CallInv(d)
  BY NotLoaded DEF IInv, CallsInv, CheckContext
<1>2. CASE stale[d]
  BY <1>1, <1>2, AbortsStep DEF CheckContext, Working
<1>3. CASE ~stale[d]
  <2>1. pc'[d] = "think" /\ Goto(d, "think") /\ UNCHANGED <<lease, projection, locals, loaded, stale>>
    BY <1>3 DEF IInv, TypeOK, CheckContext, Goto
  <2>2. CallInv(d)'
    BY <1>1, <2>1 DEF CallInv, Current, Deciding, Relying, Thinking, projection, locals
  <2> QED
    BY <1>1, <2>1, <2>2, GoesOn DEF IInv, TypeOK, locals, Working
<1> QED BY <1>2, <1>3

(* The model answers, or the lease is lost. *)
LEMMA ThinkStep == ASSUME IInv, NEW d \in Deliveries, Think(d) PROVE IInv'
<1>1. /\ pc[d] \in {"think", "correct"} /\ ~loaded[d] /\ CallInv(d)
      /\ UNCHANGED <<lease, projection, locals, loaded>>
  BY NotLoaded DEF IInv, CallsInv, Think
<1>2. CASE Aborts(d)
  BY <1>1, <1>2, AbortsStep DEF Working
<1>3. ASSUME NEW there \in {"judge", "correct"}, Goto(d, there), UNCHANGED stale PROVE IInv'
  <2>1. pc'[d] = there
    BY <1>3 DEF IInv, TypeOK, Goto
  <2>2. CallInv(d)'
    BY <1>1, <1>3, <2>1 DEF CallInv, Current, Deciding, Relying, Thinking, projection, locals
  <2> QED
    BY <1>1, <1>3, <2>2, GoesOn DEF IInv, TypeOK, locals, Working
<1> QED BY <1>2, <1>3 DEF Think, ModelAnswers

(* The head is compared again, and the status of the run chosen. *)
LEMMA JudgeStep == ASSUME IInv, NEW d \in Deliveries, Judge(d) PROVE IInv'
<1>1. /\ pc[d] = "judge" /\ ~loaded[d] /\ CallInv(d) /\ target[d] \in Deliveries
      /\ UNCHANGED <<lease, projection, missing, target, plan, loaded>>
  BY NotLoaded DEF IInv, CallsInv, TypeOK, Judge
<1>2. CASE stale[d]
  BY <1>1, <1>2, AbortsStep DEF Judge, Working, locals
<1>3. CASE ~stale[d]
  <2>1. PICK v \in Verdicts(target[d]) : verdict' = [verdict EXCEPT ![d] = v]
    BY <1>3 DEF Judge
  <2>2. v \in RunStatuses
    <3>1. focus[target[d]].run \in Deliveries
      BY <1>1 DEF IInv, TypeOK, CallInv, Thinking, Resolutions
    <3> QED BY <1>1, <2>1, <3>1, VerdictsType DEF IInv, TypeOK
  <2>3. Goto(d, "final") /\ UNCHANGED stale /\ pc'[d] = "final" /\ verdict'[d] = v
    BY <1>3, <2>1 DEF IInv, TypeOK, Judge, Goto
  <2>4. CallInv(d)'
    <3>1. Verdicts(target[d])' = Verdicts(target[d])
      BY <1>1 DEF Verdicts, projection
    <3>2. (~stale[d] => Current(d))'
      BY <1>1, <1>3, <2>1, <2>3, <3>1 DEF CallInv, Current, Deciding, Relying, projection
    <3> QED
      BY <1>1, <2>3, <3>2 DEF CallInv, Relying, Thinking, projection
  <2> QED
    BY <1>1, <2>1, <2>2, <2>3, <2>4, GoesOn DEF IInv, TypeOK, Working
<1> QED BY <1>2, <1>3

-----------------------------------------------------------------------------
(* What was looked for before recording stays looked for. *)
LEMMA RecordKept ==
    ASSUME IInv, NEW d \in Deliveries, UNCHANGED <<stalls, foundation, observed, missing>>,
           pc'[d] \notin {"found", "record"}, \A e \in Deliveries \ {d} : pc'[e] = pc[e]
    PROVE  RecordInv'
  BY DEF IInv, RecordInv, foundation, Known, InOrder

(* The minimum that ensure_identity picks exists. *)
LEMMA FirstMissing ==
    ASSUME NEW S \in SUBSET Founding, S # {}
    PROVE  \E x \in S : \A y \in S : Place[x] <= Place[y]
<1> USE DEF Founding, Place
<1>1. CASE "hekate" \in S
  BY <1>1
<1>2. CASE "hekate" \notin S /\ "user" \in S
  BY <1>2
<1>3. CASE "hekate" \notin S /\ "user" \notin S /\ "identity" \in S
  BY <1>3
<1>4. CASE S = {"relationship"}
  BY <1>4
<1> QED BY <1>1, <1>2, <1>3, <1>4

(* One record of ensure_identity. *)
LEMMA EnsureIdentityStep ==
    ASSUME IInv, NEW d \in Deliveries, EnsureIdentity(d) PROVE IInv'
<1> DEFINE r == CHOOSE x \in missing[d] : \A y \in missing[d] : Place[x] <= Place[y]
<1>1. /\ missing[d] \subseteq Founding /\ r \in missing[d] /\ r \in Founding
      /\ \A y \in missing[d] : Place[r] <= Place[y]
  BY FirstMissing DEF IInv, TypeOK, EnsureIdentity
<1>2. /\ pc[d] = "found" /\ CallInv(d)
      /\ founded' = {r} \cup IF r = "hekate" THEN founded \ {"identity"} ELSE founded
      /\ copies' = [x \in DOMAIN copies |-> IF x = r THEN copies[x] + 1 ELSE copies[x]]
      /\ missing' = [missing EXCEPT ![d] = {x \in Founding \ founded' : Place[x] > Place[r]}]
      /\ loaded' = [loaded EXCEPT ![d] = FALSE] /\ Commits(d)
      /\ Goto(d, IF missing'[d] = {} THEN "record" ELSE "found")
      /\ UNCHANGED <<lease, observed, focus, run, decisions, attempt, target, plan, verdict>>
  BY DEF IInv, CallsInv, EnsureIdentity
<1> HIDE DEF r
<1>3. /\ pc' \in [Deliveries -> {"new"} \cup Working \cup Releasing \cup Ended]
      /\ pc'[d] = (IF missing'[d] = {} THEN "record" ELSE "found")
      /\ \A e \in Deliveries \ {d} : pc'[e] = pc[e]
  BY <1>2 DEF IInv, TypeOK, Goto, Working
<1>4. /\ missing' \in [Deliveries -> SUBSET Founding]
      /\ missing'[d] = {x \in Founding \ founded' : Place[x] > Place[r]}
      /\ \A e \in Deliveries \ {d} : missing'[e] = missing[e]
  BY <1>2 DEF IInv, TypeOK
<1>5. TypeOK'
  <2>1. loaded' \in [Deliveries -> BOOLEAN] /\ stale' \in [Deliveries -> BOOLEAN]
    BY <1>2, CommitsType DEF IInv, TypeOK
  <2>2. copies' \in [{"identity", "relationship"} -> Nat]
    BY <1>2 DEF IInv, TypeOK
  <2>3. founded' \subseteq Founding
    BY <1>1, <1>2 DEF IInv, TypeOK
  <2>4. \A e \in Deliveries : pc'[e] = "found" => missing'[e] # {}
    BY <1>3, <1>4 DEF IInv, TypeOK
  <2> QED
    BY <1>2, <1>3, <1>4, <2>1, <2>2, <2>3, <2>4 DEF IInv, TypeOK, lease
<1>6. LeaseInv'
  BY <1>2, <1>3, LeaseKept DEF Working
<1>7. CallsInv'
  <2>1. \A e \in Deliveries \ {d} : CallInv(e)'
    BY <1>2, <1>3, OthersAge DEF IInv, TypeOK
  <2>2. CallInv(d)'
    BY <1>2, <1>3 DEF IInv, TypeOK, CallInv, Current, Deciding, Relying, Thinking
  <2> QED BY <2>1, <2>2 DEF CallsInv
<1>8. FocusInv' /\ DecisionInv'
  BY <1>2 DEF IInv, FocusInv, ActiveRuns, DecisionInv, Succeeded
<1>9. RecordInv'
  <2> SUFFICES ASSUME stalls = 0 PROVE RecordInv'
    BY <1>2 DEF RecordInv, lease
  <2>1. /\ InOrder(founded) /\ missing[d] = Founding \ founded /\ Known(d) = {}
        /\ \A x \in {"identity", "relationship"} : copies[x] = IF x \in founded THEN 1 ELSE 0
    BY <1>2 DEF IInv, RecordInv
  <2>2. \A e \in Deliveries \ {d} : pc[e] \notin {"found", "record"}
    BY <1>2, NoneAssumption DEF IInv, LeaseInv, Working
  <2>3. founded' = founded \cup {r}
    BY <1>1, <1>2, <2>1 DEF InOrder, Founding, Place
  <2>4. InOrder(founded')
    BY <1>1, <2>1, <2>3 DEF InOrder, Founding, Place
  <2>5. missing'[d] = Founding \ founded'
    BY <1>1, <1>4, <2>1, <2>3 DEF Founding, Place
  <2>6. \A x \in {"identity", "relationship"} : copies'[x] = IF x \in founded' THEN 1 ELSE 0
    BY <1>1, <1>2, <2>1, <2>3 DEF IInv, TypeOK
  <2> QED
    BY <1>2, <1>3, <2>1, <2>2, <2>4, <2>5, <2>6 DEF IInv, RecordInv, Known, InOrder
<1> QED
  BY <1>5, <1>6, <1>7, <1>8, <1>9 DEF IInv

(* What commits of one observation at a time leave alone, decided and focused, is as
   good as it was. *)
LEMMA DecisionKept ==
    ASSUME IInv, UNCHANGED <<focus, decisions, target>>, observed \subseteq observed',
           \A e \in Deliveries : attempt'[e] = "succeeded" <=> attempt[e] = "succeeded"
    PROVE  DecisionInv'
<1>1. \A x \in Deliveries : Succeeded(x)' = Succeeded(x)
  BY DEF Succeeded
<1> QED BY <1>1 DEF IInv, DecisionInv

(* ObservationRecorded. *)
LEMMA RecordObservationStep ==
    ASSUME IInv, NEW d \in Deliveries, RecordObservation(d) PROVE IInv'
<1>1. /\ pc[d] = "record" /\ CallInv(d) /\ observed' = observed \cup {d}
      /\ loaded' = [loaded EXCEPT ![d] = FALSE] /\ Commits(d) /\ Goto(d, "resolve")
      /\ UNCHANGED <<lease, foundation, focus, run, decisions, attempt, locals>>
  BY DEF IInv, CallsInv, RecordObservation
<1>2. /\ pc' \in [Deliveries -> {"new"} \cup Working \cup Releasing \cup Ended]
      /\ pc'[d] = "resolve" /\ \A e \in Deliveries \ {d} : pc'[e] = pc[e]
  BY <1>1 DEF IInv, TypeOK, Goto, Working
<1>3. TypeOK'
  <2>1. loaded' \in [Deliveries -> BOOLEAN] /\ stale' \in [Deliveries -> BOOLEAN]
    BY <1>1, CommitsType DEF IInv, TypeOK
  <2> QED
    BY <1>1, <1>2, <2>1 DEF IInv, TypeOK, lease, foundation, locals
<1>4. LeaseInv'
  BY <1>1, <1>2, LeaseKept DEF Working
<1>5. CallsInv'
  <2>1. \A e \in Deliveries \ {d} : CallInv(e)'
    BY <1>1, <1>2, OthersAge DEF IInv, TypeOK, locals
  <2>2. decisions[d] = 0 /\ target[d] = d
    BY <1>1 DEF IInv, CallInv, DecisionInv
  <2>3. CallInv(d)'
    BY <1>1, <1>2, <2>2
    DEF IInv, TypeOK, CallInv, Current, Deciding, Relying, Thinking, locals
  <2> QED BY <2>1, <2>3 DEF CallsInv
<1>6. FocusInv'
  BY <1>1 DEF IInv, FocusInv, ActiveRuns
<1>7. DecisionInv'
  BY <1>1, DecisionKept DEF locals
<1>8. RecordInv'
  <2> SUFFICES ASSUME stalls = 0 PROVE RecordInv'
    BY <1>1 DEF RecordInv, lease
  <2>1. \A e \in Deliveries : pc'[e] \notin {"found", "record"}
    BY <1>1, <1>2, NoneAssumption DEF IInv, LeaseInv, Working
  <2>2. \A x, y \in observed' : Message[x] = Message[y] => x = y
    BY <1>1 DEF IInv, RecordInv, Known
  <2> QED
    BY <1>1, <1>2, <2>1, <2>2 DEF IInv, RecordInv, InOrder, foundation
<1> QED
  BY <1>3, <1>4, <1>5, <1>6, <1>7, <1>8 DEF IInv

(* The focus of an observation that had none: a task is created with its first run, or
   goes on with its open run or, when none is open, with a new one. *)
LEMMA FocusPersisted ==
    ASSUME IInv, NEW x \in Deliveries, NEW p \in Plans(x), FocusIsValid(x, p),
           focus' = [focus EXCEPT ![x] = p],
           run' = IF p.run = x THEN [run EXCEPT ![x] = "running"] ELSE run
    PROVE  FocusInv'
<1>1. /\ focus \in [Deliveries -> Resolutions] /\ run \in [Deliveries -> RunStatuses]
      /\ FocusInv /\ focus[x] = NoFocus
  BY DEF IInv, TypeOK, FocusIsValid
<1>2. /\ \A y \in Deliveries \ {x} : focus'[y] = focus[y] /\ run'[y] = run[y]
      /\ focus'[x] = p /\ focus[x].task = None /\ run[x] = "none"
  BY <1>1 DEF FocusInv, NoFocus
<1>3. \A y \in Deliveries : focus[y].task # x
  BY <1>1, <1>2 DEF FocusInv
<1>4. \/ p.task = None
      \/ p.task = x
      \/ /\ p.task \in Tasks
         /\ IF ActiveRuns(p.task) = {} THEN p.run = x ELSE p.run \in ActiveRuns(p.task)
  <2>1. CASE p \in Continuations(x)
    <3>1. PICK t \in Tasks : p \in (IF ActiveRuns(t) = {} THEN {Work(t, x)}
                                     ELSE {Work(t, r) : r \in ActiveRuns(t)})
      BY <2>1 DEF Continuations
    <3> QED BY <3>1 DEF Work
  <2>2. CASE p \in {Clarification, Conversation(x), Work(x, x)}
    BY <2>2 DEF Clarification, Conversation, Work
  <2> QED BY <2>1, <2>2 DEF Plans
<1>5. \A y \in Deliveries : focus'[y].task # None => focus'[focus'[y].task].task = focus'[y].task
  <2>1. \A t \in Tasks : t \in Deliveries /\ t # x /\ focus[t].task = t
    BY <1>1, <1>3 DEF Tasks, Resolutions, FocusInv
  <2>2. \A y \in Deliveries \ {x} : focus[y].task # None => focus[y].task \in Tasks
    BY DEF Tasks
  <2> QED BY <1>2, <1>4, <2>1, <2>2
<1>6. \A y \in Deliveries : focus'[y] = NoFocus => run'[y] = "none"
  BY <1>1, <1>2 DEF FocusInv, NoFocus
<1>7. ASSUME NEW t \in Deliveries PROVE \A y, z \in ActiveRuns(t)' : y = z
  <2>1. \A y, z \in ActiveRuns(t) : y = z
    BY <1>1 DEF FocusInv
  <2>2. ActiveRuns(t)' \subseteq ActiveRuns(t) \cup {x}
    BY <1>2 DEF ActiveRuns
  <2>3. x \in ActiveRuns(t)' => ActiveRuns(t) = {}
    <3>1. SUFFICES ASSUME x \in ActiveRuns(t)' PROVE ActiveRuns(t) = {}
      OBVIOUS
    <3>2. p.task = t /\ p.run = x
      BY <1>2, <3>1 DEF ActiveRuns
    <3>3. CASE t = x
      BY <1>3, <3>3 DEF ActiveRuns
    <3>4. CASE t # x
      BY <1>2, <1>4, <3>2, <3>4 DEF ActiveRuns
    <3> QED BY <3>3, <3>4
  <2> QED BY <2>1, <2>2, <2>3
<1> QED
  BY <1>5, <1>6, <1>7 DEF FocusInv

(* FocusResolved, in one batch with its task and its run. *)
LEMMA PersistFocusStep ==
    ASSUME IInv, NEW d \in Deliveries, PersistFocus(d) PROVE IInv'
<1> DEFINE x == target[d]
<1>1. /\ pc[d] = "persist" /\ ~loaded[d] /\ CallInv(d) /\ x \in Deliveries
      /\ UNCHANGED <<lease, foundation, observed, decisions, attempt, locals, loaded>>
  BY NotLoaded DEF IInv, CallsInv, TypeOK, PersistFocus
<1>2. CASE stale[d] \/ ~FocusIsValid(x, plan[d])
  BY <1>1, <1>2, AbortsStep DEF PersistFocus, Working, projection
<1>3. CASE ~stale[d] /\ FocusIsValid(x, plan[d])
  <2>1. /\ focus' = [focus EXCEPT ![x] = plan[d]]
        /\ run' = IF plan[d].run = x THEN [run EXCEPT ![x] = "running"] ELSE run
        /\ Commits(d) /\ Goto(d, "process")
    BY <1>3 DEF PersistFocus
  <2>2. plan[d] \in Plans(x) /\ decisions[x] = 0 /\ focus[x].run = None /\ x \in observed
    BY <1>1, <1>3
    DEF CallInv, Current, Deciding, Relying, FocusIsValid, NoFocus
  <2>3. /\ pc' \in [Deliveries -> {"new"} \cup Working \cup Releasing \cup Ended]
        /\ pc'[d] = "process" /\ \A e \in Deliveries \ {d} : pc'[e] = pc[e]
    BY <2>1 DEF IInv, TypeOK, Goto, Working
  <2>4. TypeOK'
    <3>1. stale' \in [Deliveries -> BOOLEAN]
      BY <2>1, CommitsType
    <3>2. focus' \in [Deliveries -> Resolutions] /\ run' \in [Deliveries -> RunStatuses]
      BY <1>1, <2>1 DEF IInv, TypeOK, RunStatuses
    <3> QED
      BY <1>1, <2>3, <3>1, <3>2 DEF IInv, TypeOK, lease, foundation, locals
  <2>5. LeaseInv'
    BY <1>1, <2>3, LeaseKept DEF Working
  <2>6. CallsInv'
    <3>1. \A y \in Deliveries : focus[y].run # None => focus'[y].run # None
      BY <1>1, <2>1, <2>2 DEF IInv, TypeOK
    <3>2. \A e \in Deliveries \ {d} : CallInv(e)'
      BY <1>1, <2>1, <2>3, <3>1, OthersAge DEF locals
    <3>3. CallInv(d)'
      BY <1>1, <2>2, <2>3 DEF CallInv, Current, Deciding, Relying, Thinking, locals
    <3> QED BY <3>2, <3>3 DEF CallsInv
  <2>7. FocusInv'
    BY <1>1, <1>3, <2>1, <2>2, FocusPersisted
  <2>8. DecisionInv'
    <3>1. \A y \in Deliveries : Succeeded(y)' = Succeeded(y)
      BY <1>1 DEF Succeeded, locals
    <3>2. \A y \in Deliveries \ {x} : focus'[y] = focus[y]
      BY <2>1 DEF IInv, TypeOK
    <3> QED
      BY <1>1, <2>2, <3>1, <3>2 DEF IInv, DecisionInv
  <2>9. RecordInv'
    BY <1>1, <2>3, RecordKept DEF lease, locals
  <2> QED
    BY <2>4, <2>5, <2>6, <2>7, <2>8, <2>9 DEF IInv
<1> QED BY <1>2, <1>3

(* A question is a decision, without an attempt. *)
LEMMA ClarifyStep == ASSUME IInv, NEW d \in Deliveries, Clarify(d) PROVE IInv'
<1> DEFINE x == target[d]
<1>1. /\ pc[d] = "process" /\ ~loaded[d] /\ CallInv(d) /\ x \in Deliveries
      /\ focus[x].run = None
      /\ UNCHANGED <<lease, foundation, observed, focus, run, attempt, locals, loaded>>
  BY NotLoaded DEF IInv, CallsInv, TypeOK, Clarify, Clarification
<1>2. CASE stale[d]
  BY <1>1, <1>2, AbortsStep DEF Clarify, Working, projection
<1>3. CASE ~stale[d]
  <2>1. /\ decisions' = [decisions EXCEPT ![x] = @ + 1]
        /\ Commits(d) /\ Goto(d, "answer")
    BY <1>3 DEF Clarify
  <2>2. decisions[x] = 0 /\ x \in observed
    BY <1>1, <1>3 DEF CallInv, Current, Deciding, Relying
  <2>3. /\ pc' \in [Deliveries -> {"new"} \cup Working \cup Releasing \cup Ended]
        /\ pc'[d] = "answer" /\ \A e \in Deliveries \ {d} : pc'[e] = pc[e]
    BY <2>1 DEF IInv, TypeOK, Goto, Releasing
  <2>4. /\ decisions' \in [Deliveries -> Nat] /\ decisions'[x] = 1
        /\ \A y \in Deliveries \ {x} : decisions'[y] = decisions[y]
    BY <1>1, <2>1, <2>2 DEF IInv, TypeOK
  <2>5. TypeOK'
    <3>1. stale' \in [Deliveries -> BOOLEAN]
      BY <2>1, CommitsType
    <3> QED
      BY <1>1, <2>3, <2>4, <3>1 DEF IInv, TypeOK, lease, foundation, locals
  <2>6. LeaseInv'
    BY <1>1, <2>3, LeaseKept DEF Working
  <2>7. CallsInv'
    <3>1. \A e \in Deliveries \ {d} : CallInv(e)'
      BY <1>1, <2>1, <2>3, <2>4, OthersAge DEF locals
    <3>2. CallInv(d)'
      BY <1>1, <2>3, <2>4 DEF CallInv, Current, Deciding, Relying, Thinking, locals
    <3> QED BY <3>1, <3>2 DEF CallsInv
  <2>8. FocusInv'
    BY <1>1 DEF IInv, FocusInv, ActiveRuns
  <2>9. DecisionInv'
    <3>1. \A y \in Deliveries : Succeeded(y)' = Succeeded(y)
      BY <1>1 DEF Succeeded, locals
    <3> QED
      BY <1>1, <2>2, <2>4, <3>1 DEF IInv, DecisionInv
  <2>10. RecordInv'
    BY <1>1, <2>3, RecordKept DEF lease, locals
  <2> QED
    BY <2>5, <2>6, <2>7, <2>8, <2>9, <2>10 DEF IInv
<1> QED BY <1>2, <1>3

(* A commit of d to its attempt, which is not the one that succeeds. *)
LEMMA AttemptMoves ==
    ASSUME IInv, NEW d \in Deliveries, NEW there \in {"check", "abort"},
           pc[d] \in {"process", "close"}, pc[d] = "process" <=> there = "check",
           NEW status \in {"started", "failed"}, attempt' = [attempt EXCEPT ![d] = status],
           Commits(d), Goto(d, there), there = "check" => ~stale[d] /\ focus[target[d]].run # None,
           UNCHANGED <<lease, foundation, observed, focus, run, decisions, locals>>,
           loaded' = [loaded EXCEPT ![d] = FALSE]
    PROVE  IInv'
<1>1. CallInv(d) /\ attempt[d] # "succeeded" /\ attempt'[d] # "succeeded"
  BY DEF IInv, TypeOK, CallsInv, CallInv
<1>2. /\ pc' \in [Deliveries -> {"new"} \cup Working \cup Releasing \cup Ended]
      /\ pc'[d] = there /\ \A e \in Deliveries \ {d} : pc'[e] = pc[e]
  BY DEF IInv, TypeOK, Goto, Working, Releasing
<1>3. /\ attempt' \in [Deliveries -> {"none", "started", "succeeded", "failed"}]
      /\ \A e \in Deliveries \ {d} : attempt'[e] = attempt[e]
  BY DEF IInv, TypeOK
<1>4. TypeOK'
  <2>1. loaded' \in [Deliveries -> BOOLEAN] /\ stale' \in [Deliveries -> BOOLEAN]
    BY CommitsType DEF IInv, TypeOK
  <2> QED
    BY <1>2, <1>3, <2>1 DEF IInv, TypeOK, lease, foundation, locals
<1>5. LeaseInv'
  BY <1>2, LeaseKept DEF Working
<1>6. CallsInv'
  <2>1. \A e \in Deliveries \ {d} : CallInv(e)'
    BY <1>2, <1>3, OthersAge DEF IInv, TypeOK, locals
  <2>2. ~loaded'[d]
    BY DEF IInv, TypeOK
  <2>3. CallInv(d)'
    BY <1>1, <1>2, <2>2 DEF CallInv, Current, Deciding, Relying, Thinking, locals
  <2> QED BY <2>1, <2>3 DEF CallsInv
<1>7. FocusInv'
  BY DEF IInv, FocusInv, ActiveRuns
<1>8. DecisionInv'
  BY <1>1, <1>3, DecisionKept DEF locals
<1>9. RecordInv'
  BY <1>2, RecordKept DEF lease, locals
<1> QED
  BY <1>4, <1>5, <1>6, <1>7, <1>8, <1>9 DEF IInv

(* AttemptStarted. *)
LEMMA StartAttemptStep ==
    ASSUME IInv, NEW d \in Deliveries, StartAttempt(d) PROVE IInv'
<1>1. /\ pc[d] = "process" /\ ~loaded[d] /\ focus[target[d]].run # None
      /\ UNCHANGED <<lease, foundation, observed, focus, run, decisions, locals, loaded>>
      /\ loaded' = [loaded EXCEPT ![d] = FALSE]
  BY NotLoaded DEF IInv, TypeOK, StartAttempt
<1>2. CASE stale[d]
  BY <1>1, <1>2, AbortsStep DEF StartAttempt, Working, projection
<1>3. CASE ~stale[d]
  BY <1>1, <1>3, AttemptMoves DEF StartAttempt
<1> QED BY <1>2, <1>3

(* AttemptCompleted(Failed). *)
LEMMA CloseAttemptStep ==
    ASSUME IInv, NEW d \in Deliveries, CloseAttempt(d) PROVE IInv'
  BY AttemptMoves DEF CloseAttempt

(* What the decision records of the run is a move forward. *)
LEMMA FinalMoves ==
    ASSUME IInv, NEW d \in Deliveries, FinalCommit(d), ~stale[d]
    PROVE  /\ focus[target[d]].run \in Deliveries
           /\ verdict[d] \in RunStatuses
           /\ \/ verdict[d] = run[focus[target[d]].run]
              \/ MayMove(run[focus[target[d]].run], verdict[d])
<1>1. pc[d] = "final" /\ target[d] \in Deliveries /\ CallInv(d)
  BY DEF IInv, CallsInv, TypeOK, FinalCommit
<1>2. focus[target[d]].run \in Deliveries
  BY <1>1 DEF IInv, TypeOK, CallInv, Thinking, Resolutions
<1>3. verdict[d] \in Verdicts(target[d])
  BY <1>1 DEF CallInv, Current
<1> QED
  BY <1>1, <1>2, <1>3, VerdictsType DEF IInv, TypeOK

(* The decision, the run's status and AttemptCompleted(Succeeded). *)
LEMMA FinalCommitStep ==
    ASSUME IInv, NEW d \in Deliveries, FinalCommit(d) PROVE IInv'
<1> DEFINE x == target[d]
           r == focus[x].run
<1>1. /\ pc[d] = "final" /\ ~loaded[d] /\ CallInv(d) /\ x \in Deliveries
      /\ UNCHANGED <<lease, foundation, observed, focus, locals, loaded>>
  BY NotLoaded DEF IInv, CallsInv, TypeOK, FinalCommit
<1>2. CASE stale[d]
  BY <1>1, <1>2, AbortsStep DEF FinalCommit, Working, projection
<1>3. CASE ~stale[d]
  <2>1. /\ decisions' = [decisions EXCEPT ![x] = @ + 1]
        /\ attempt' = [attempt EXCEPT ![d] = "succeeded"]
        /\ run' = [run EXCEPT ![r] = verdict[d]]
        /\ Commits(d) /\ Goto(d, "answer")
    BY <1>3 DEF FinalCommit
  <2>2. decisions[x] = 0 /\ x \in observed /\ r # None
    BY <1>1, <1>3 DEF CallInv, Current, Deciding, Relying, Thinking
  <2>3. /\ pc' \in [Deliveries -> {"new"} \cup Working \cup Releasing \cup Ended]
        /\ pc'[d] = "answer" /\ \A e \in Deliveries \ {d} : pc'[e] = pc[e]
    BY <2>1 DEF IInv, TypeOK, Goto, Releasing
  <2>4. /\ decisions' \in [Deliveries -> Nat] /\ decisions'[x] = 1
        /\ \A y \in Deliveries \ {x} : decisions'[y] = decisions[y]
    BY <1>1, <2>1, <2>2 DEF IInv, TypeOK
  <2>5. /\ attempt' \in [Deliveries -> {"none", "started", "succeeded", "failed"}]
        /\ attempt'[d] = "succeeded" /\ \A e \in Deliveries \ {d} : attempt'[e] = attempt[e]
    BY <2>1 DEF IInv, TypeOK
  <2>6. /\ r \in Deliveries /\ verdict[d] \in RunStatuses
        /\ verdict[d] = run[r] \/ MayMove(run[r], verdict[d])
        /\ run \in [Deliveries -> RunStatuses]
    BY <1>3, FinalMoves DEF IInv, TypeOK
  <2>7. TypeOK'
    <3>1. stale' \in [Deliveries -> BOOLEAN]
      BY <2>1, CommitsType
    <3>2. run' \in [Deliveries -> RunStatuses]
      BY <2>1, <2>6
    <3> QED
      BY <1>1, <2>3, <2>4, <2>5, <3>1, <3>2 DEF IInv, TypeOK, lease, foundation, locals
  <2>8. LeaseInv'
    BY <1>1, <2>3, LeaseKept DEF Working
  <2>9. CallsInv'
    <3>1. \A e \in Deliveries \ {d} : CallInv(e)'
      BY <1>1, <2>1, <2>3, <2>4, <2>5, OthersAge DEF locals
    <3>2. CallInv(d)'
      BY <1>1, <2>3, <2>4 DEF CallInv, Current, Deciding, Relying, Thinking, locals
    <3> QED BY <3>1, <3>2 DEF CallsInv
  <2>10. FocusInv'
    <3>1. \A y \in Deliveries : run'[y] = run[y] \/ (run[y] # "none" /\ run'[y] # "running")
      BY <2>1, <2>6 DEF MayMove
    <3>2. \A t \in Deliveries : ActiveRuns(t)' \subseteq ActiveRuns(t)
      BY <1>1, <3>1 DEF ActiveRuns
    <3> QED
      BY <1>1, <3>1, <3>2 DEF IInv, FocusInv
  <2>11. DecisionInv'
    <3>1. Succeeded(x) = {}
      BY <1>1, <2>2 DEF IInv, DecisionInv
    <3>2. \A y \in Deliveries \ {x} : Succeeded(y)' = Succeeded(y)
      BY <1>1, <2>5 DEF Succeeded, locals
    <3>3. ASSUME NEW y \in Deliveries
          PROVE  /\ decisions'[y] \in {0, 1}
                 /\ decisions'[y] = 1 => y \in observed'
                 /\ Succeeded(y)' # {} <=> focus'[y].run # None /\ decisions'[y] = 1
                 /\ \A e, f \in Succeeded(y)' : e = f
      <4>1. CASE y = x
        <5>1. decisions'[y] = 1 /\ y \in observed' /\ focus'[y].run # None
          BY <1>1, <2>2, <2>4, <4>1
        <5>2. Succeeded(y)' = {d}
          BY <1>1, <2>5, <3>1, <4>1 DEF Succeeded, locals
        <5> QED BY <5>1, <5>2
      <4>2. CASE y # x
        BY <1>1, <2>4, <3>2, <4>2 DEF IInv, DecisionInv
      <4> QED BY <4>1, <4>2
    <3> QED
      BY <3>3 DEF DecisionInv
  <2>12. RecordInv'
    BY <1>1, <2>3, RecordKept DEF lease, locals
  <2> QED
    BY <2>7, <2>8, <2>9, <2>10, <2>11, <2>12 DEF IInv
<1> QED BY <1>2, <1>3

-----------------------------------------------------------------------------
(* The invariant holds from the start. *)
LEMMA InitInv == Init => IInv
<1> SUFFICES ASSUME Init PROVE IInv
  OBVIOUS
<1>1. focus \in [Deliveries -> Resolutions] /\ plan \in [Deliveries -> Resolutions]
  BY DEF Init, NoFocus, Resolutions, Outcomes
<1>2. copies \in [{"identity", "relationship"} -> Nat]
  BY DEF Init
<1>3. TypeOK
  <2>1. /\ run \in [Deliveries -> RunStatuses] /\ verdict \in [Deliveries -> RunStatuses]
        /\ attempt \in [Deliveries -> {"none", "started", "succeeded", "failed"}]
        /\ decisions \in [Deliveries -> Nat] /\ target \in [Deliveries -> Deliveries]
    BY DEF Init, RunStatuses
  <2>2. /\ pc \in [Deliveries -> {"new"} \cup Working \cup Releasing \cup Ended]
        /\ \A d \in Deliveries : pc[d] = "found" => missing[d] # {}
    BY DEF Init
  <2>3. loaded \in [Deliveries -> BOOLEAN] /\ stale \in [Deliveries -> BOOLEAN]
    BY DEF Init
  <2>4. /\ missing \in [Deliveries -> SUBSET Founding] /\ observed \subseteq Deliveries
        /\ owner \in Deliveries \cup {None} /\ live \in BOOLEAN /\ founded \subseteq Founding
    BY FoundedAssumption DEF Init
  <2>5. stalls \in 0..MaxStalls
    BY StallsAssumption DEF Init
  <2> QED
    BY <1>1, <1>2, <2>1, <2>2, <2>3, <2>4, <2>5 DEF TypeOK
<1>4. LeaseInv
  BY DEF Init, LeaseInv, Working, Releasing
<1>5. CallsInv
  BY DEF Init, CallsInv, CallInv, Current, Deciding, Relying, Thinking
<1>6. FocusInv
  BY DEF Init, FocusInv, ActiveRuns, NoFocus
<1>7. DecisionInv
  BY DEF Init, DecisionInv, Succeeded
<1>8. RecordInv
  BY FoundedAssumption DEF Init, RecordInv
<1> QED
  BY <1>3, <1>4, <1>5, <1>6, <1>7, <1>8 DEF IInv

(* Every step keeps it. *)
LEMMA StepInv == IInv /\ [Next]_vars => IInv'
<1> SUFFICES ASSUME IInv, [Next]_vars PROVE IInv'
  OBVIOUS
<1>1. CASE UNCHANGED vars
  <2>1. TypeOK' /\ LeaseInv' /\ FocusInv' /\ RecordInv'
    BY <1>1
    DEF IInv, TypeOK, LeaseInv, FocusInv, ActiveRuns, RecordInv, Known, InOrder, vars, lease,
        projection, foundation, locals
  <2>2. CallsInv'
    BY <1>1, CallKept DEF CallsInv, vars, locals
  <2>3. DecisionInv'
    BY <1>1, DecisionKept DEF vars, projection, locals
  <2> QED BY <2>1, <2>2, <2>3 DEF IInv
<1>2. CASE Expire \/ OtherCommit
  BY <1>2, ExpireStep, OtherCommitStep
<1>3. ASSUME NEW d \in Deliveries, Acquire(d) \/ Step(d) \/ Fail(d) \/ Crash(d)
      PROVE  IInv'
  <2>1. CASE Acquire(d) \/ Fail(d) \/ Crash(d)
    BY <2>1, AcquireStep, FailStep, CrashStep
  <2>2. CASE Step(d)
    BY <2>2, LoadStep, RecordLoadStep, RecordConflictStep, EnsureIdentityStep,
       RecordObservationStep, LookUpDecisionStep, ResolveStep, PersistFocusStep, ClarifyStep,
       StartAttemptStep, CheckContextStep, ThinkStep, JudgeStep, FinalCommitStep,
       CloseAttemptStep, ReleaseStep
    DEF Step
  <2> QED BY <1>3, <2>1, <2>2
<1> QED
  BY <1>1, <1>2, <1>3 DEF Next

(* The conjunction of what is proved about the calls is inductive. *)
THEOREM Invariance == Spec => []IInv
  BY InitInv, StepInv, PTL DEF Spec

(* Every variable stays within its type. *)
THEOREM TypeCorrect == Spec => []TypeOK
<1>1. IInv => TypeOK
  BY DEF IInv
<1> QED BY <1>1, Invariance, PTL

(* Unless a lease ran out under its holder, no two calls are at work together
   (acquire_foreground_lease and release_foreground_lease). *)
THEOREM LeaseTheorem == Spec => []LeaseIsExclusive
<1>1. IInv => LeaseIsExclusive
  BY DEF IInv, LeaseInv, LeaseIsExclusive
<1> QED BY <1>1, Invariance, PTL

(* A message delivered again is recognised, and the identity and the relationship are
   created once (handle_leased, ensure_identity). *)
THEOREM RecordedOnceTheorem == Spec => []RecordedOnce
<1>1. IInv => RecordedOnce
  <2> SUFFICES ASSUME IInv, stalls = 0
               PROVE  /\ \A x, y \in observed : Message[x] = Message[y] => x = y
                      /\ \A r \in DOMAIN copies : copies[r] <= 1
    BY DEF RecordedOnce
  <2>1. DOMAIN copies = {"identity", "relationship"}
    BY DEF IInv, TypeOK
  <2> QED BY <2>1 DEF IInv, RecordInv
<1> QED BY <1>1, Invariance, PTL

(* An observation is decided once, by the one attempt that succeeded if it was thought
   about: the expected revision of the final batch (process_observation). *)
THEOREM DecidedOnceTheorem == Spec => []DecidedOnce
<1>1. IInv => DecidedOnce
  <2> SUFFICES ASSUME IInv, NEW x \in Deliveries
               PROVE  /\ decisions[x] <= 1
                      /\ Cardinality(Succeeded(x)) = IF focus[x].run = None THEN 0 ELSE decisions[x]
    BY DEF DecidedOnce, Succeeded
  <2>1. decisions[x] \in {0, 1}
    BY DEF IInv, DecisionInv
  <2>2. CASE Succeeded(x) = {}
    BY <2>1, <2>2, FS_EmptySet DEF IInv, DecisionInv
  <2>3. CASE Succeeded(x) # {}
    <3>1. PICK d \in Succeeded(x) : Succeeded(x) = {d}
      BY <2>3 DEF IInv, DecisionInv
    <3>2. Cardinality(Succeeded(x)) = 1
      BY <3>1, FS_Singleton
    <3> QED BY <2>1, <2>3, <3>2 DEF IInv, DecisionInv
  <2> QED BY <2>2, <2>3
<1> QED BY <1>1, Invariance, PTL

(* An answer has its decision in the ledger, and an error no succeeded attempt. *)
THEOREM AnswersTheorem == Spec => []AnswersAreTrue
<1>1. IInv => AnswersAreTrue
  BY DEF IInv, CallsInv, CallInv, AnswersAreTrue
<1> QED BY <1>1, Invariance, PTL

(* A task has one open run, even when overlapping calls continue it (choose_from_pool,
   persist_focus_plan). *)
THEOREM OneOpenRunTheorem == Spec => []OneOpenRun
<1>1. IInv => OneOpenRun
  <2> SUFFICES ASSUME IInv, NEW t \in Tasks PROVE Cardinality(ActiveRuns(t)) <= 1
    BY DEF OneOpenRun
  <2>1. t \in Deliveries
    BY DEF IInv, TypeOK, Tasks, Resolutions
  <2>2. CASE ActiveRuns(t) = {}
    BY <2>2, FS_EmptySet
  <2>3. CASE ActiveRuns(t) # {}
    <3>1. PICK x \in ActiveRuns(t) : ActiveRuns(t) = {x}
      BY <2>1, <2>3 DEF IInv, FocusInv
    <3> QED BY <3>1, FS_Singleton
  <2> QED BY <2>2, <2>3
<1> QED BY <1>1, Invariance, PTL

(* A run is started once and only moves forward, whatever the state its decision was
   made on (persist_focus_plan, transition_run). *)
THEOREM RunsMoveForwardTheorem == Spec => RunsMoveForward
<1> DEFINE Forward == \A x \in Deliveries :
                          run'[x] # run[x] =>
                              \/ run[x] = "none" /\ run'[x] = "running"
                              \/ MayMove(run[x], run'[x])
<1>1. IInv /\ [Next]_vars => [Forward]_run
  <2> SUFFICES ASSUME IInv, Next, run' # run PROVE Forward
    BY DEF vars, projection
  <2>1. PICK d \in Deliveries : PersistFocus(d) \/ FinalCommit(d)
    BY DEF Next, Expire, OtherCommit, Acquire, Fail, Crash, Step, Load, RecordLoad,
           RecordConflict, EnsureIdentity, RecordObservation, LookUpDecision, Resolve, Clarify,
           StartAttempt, CheckContext, Think, Judge, CloseAttempt, Release, projection
  <2>2. CASE PersistFocus(d)
    <3>1. /\ run' = [run EXCEPT ![target[d]] = "running"]
          /\ focus[target[d]] = NoFocus /\ target[d] \in Deliveries
      BY <2>2 DEF IInv, TypeOK, PersistFocus, FocusIsValid
    <3> QED
      BY <3>1 DEF IInv, TypeOK, FocusInv
  <2>3. CASE FinalCommit(d)
    <3>1. ~stale[d] /\ run' = [run EXCEPT ![focus[target[d]].run] = verdict[d]]
      BY <2>3 DEF FinalCommit
    <3> QED
      BY <2>3, <3>1, FinalMoves DEF IInv, TypeOK
  <2> QED BY <2>1, <2>2, <2>3
<1> QED BY <1>1, Invariance, PTL DEF Spec, RunsMoveForward
=============================================================================

----------------------------- MODULE Initiative -----------------------------
(***************************************************************************)
(* Initiative proposals: the agenda of what HEKATE could raise on its own  *)
(* (initiative/agenda.rs), the service that turns one candidate of it into *)
(* a proposal (InitiativeService::run_once, propose_candidate, dismiss),   *)
(* and the worker that runs the service in cycles (InitiativeWorker).  The *)
(* worker of a chat, the command --initiative-once and the user's          *)
(* dismissals run beside the foreground calls that change what the agenda  *)
(* is made from.                                                           *)
(*                                                                         *)
(* Every batch of the service names the revision it loaded, so by          *)
(* Ledger.tla it commits if and only if nobody committed since: moved[w]   *)
(* says that somebody did.                                                 *)
(***************************************************************************)
EXTENDS Backoff, FiniteSets, Sequences

CONSTANTS
    Worker,        \* the process of the worker
    Once,          \* a process that runs --initiative-once
    Sources,       \* conflicts, commitments, and positions of HEKATE
    SourceKind,    \* SourceKind[s]
    Party,         \* Party[s]: the position of HEKATE in the conflict s
    Rank,          \* Rank[s]: place in the order of the agenda: by kind, then by id
    MaxCandidates, \* MAX_SLEEP_CANDIDATES
    MaxSources,    \* MAX_CANDIDATE_SOURCES
    Settings,      \* what the store holds, the worker's configuration and the bounds:
                   \* clock, dismissals, faults, and whether Once runs
    None

Procs == {Worker, Once}
PositionSources == {s \in Sources : SourceKind[s] = "position"}
ConflictSources == {s \in Sources : SourceKind[s] = "conflict"}
CommitmentSources == {s \in Sources : SourceKind[s] = "commitment"}

ASSUME KindsAssumption ==
    SourceKind \in [Sources -> {"conflict", "commitment", "position"}]
ASSUME PartyAssumption == Party \in [ConflictSources -> PositionSources]
ASSUME RankAssumption ==
    /\ Rank \in [Sources -> Nat]
    /\ \A r, s \in Sources : Rank[r] = Rank[s] => r = s
ASSUME NoneAssumption == None \notin Sources
ASSUME ProcsAssumption == Worker # Once
ASSUME SettingsAssumption ==
    \A s \in Settings :
        /\ s.open \subseteq Sources
        /\ s.clock \in Nat
        /\ s.initial \in Nat /\ s.maximum \in 0..DurationMax

VARIABLES
    setting,     \* the member of Settings the behaviour started from
    \* the projection
    source,      \* source[s]: status, version and time of its last event
    about,       \* about[q]: the times of messages related to the position q
    clock,       \* how many batches foreground calls committed
    initiatives, \* the proposals, in the order they were recorded
    \* the foreground call and its lease
    lease,       \* has_active_foreground_lease
    call,        \* what the foreground call does next
    behind,      \* somebody else committed since the call loaded its state
    \* the service
    pc,          \* pc[w]: what w does next
    picked,      \* picked[w]: the agenda candidate w is at
    moved,       \* moved[w]: somebody committed since w's first load
    dismissing,  \* the proposal a dismissal has read, or 0
    late,        \* somebody committed since that dismissal's load
    \* the worker
    failures,    \* consecutive_failures
    delay,       \* the last delay, if it was a backoff
    streak,      \* history: how many cycles in a row failed
    faults       \* faults the bound still allows

world == <<source, about, clock>>
foreground == <<lease, call, behind>>
service == <<pc, picked, moved>>
dismissal == <<dismissing, late>>
policy == <<failures, delay, streak, faults>>
vars == <<setting, world, initiatives, foreground, service, dismissal, policy>>

NoPick == [source |-> None, version |-> 0, evidence |-> {}]

TypeOK ==
    /\ source \in [Sources -> [status: {"absent", "open", "closed"},
                               version: Nat, stamp: 0..clock]]
    /\ \A s \in Sources : source[s].status = "absent" <=> source[s].version = 0
    /\ about \in [PositionSources -> SUBSET (1..clock)]
    /\ clock \in 0..setting.clock
    /\ \A i \in DOMAIN initiatives :
          /\ initiatives[i].status \in {"ready", "dismissed"}
          /\ LET c == initiatives[i].candidate
             IN c.source \in PositionSources <=> c.evidence # {}
    /\ lease \in BOOLEAN
    /\ call \in {"idle", "begun", "recorded", "loaded"}
    /\ behind \in BOOLEAN
    /\ pc \in [Procs -> {"idle", "check", "state", "events", "again", "lease", "commit"}]
    /\ \A w \in Procs : picked[w] # NoPick <=> pc[w] \in {"again", "lease", "commit"}
    /\ moved \in [Procs -> BOOLEAN]
    /\ dismissing \in 0..Len(initiatives)
    /\ late \in BOOLEAN
    /\ failures \in 0..MaxFailures
    /\ delay \in 0..DurationMax

Init ==
    /\ setting \in Settings
    /\ ValidConfig(setting.initial, setting.maximum)
    /\ source = [s \in Sources |->
                    IF s \in setting.open
                      THEN [status |-> "open", version |-> 1, stamp |-> 0]
                      ELSE [status |-> "absent", version |-> 0, stamp |-> 0]]
    /\ about = [q \in PositionSources |-> {}]
    /\ clock = 0
    /\ initiatives = <<>>
    /\ lease = FALSE
    /\ call = "idle"
    /\ behind = FALSE
    /\ pc = [w \in Procs |-> "idle"]
    /\ picked = [w \in Procs |-> NoPick]
    /\ moved = [w \in Procs |-> FALSE]
    /\ dismissing = 0
    /\ late = FALSE
    /\ failures = 0
    /\ delay = 0
    /\ streak = 0
    /\ faults = setting.faults

-----------------------------------------------------------------------------
(* The agenda. *)

Open(s) == source[s].status = "open"

(* current_position_sequence, current_conflict_sequence and current_commitment: the
   last event of the source's life cycle, which is the one the projection shows. *)
LastEvent(s) == source[s].stamp

(* source_version: positions and conflicts count their versions, and a commitment
   has none but its creation. *)
Version(s) == source[s].version

(* bounded_valid_event_ids: the newest MaxSources of them. *)
Newest(messages) ==
    {m \in messages : Cardinality({n \in messages : n > m}) < MaxSources}

(* The related messages that arrived after the position's last event. *)
Evidence(q) == Newest({m \in about[q] : m > LastEvent(q)})

(* add_conflict_candidates: HEKATE's position in it is active, and older than the
   conflict's last event. *)
ConflictCandidate(s) ==
    /\ Open(s)
    /\ Open(Party[s])
    /\ LastEvent(Party[s]) < LastEvent(s)

(* add_commitment_candidates. *)
CommitmentCandidate(s) == Open(s)

(* Mutant of PositionCandidate: an active position is reviewed without evidence. *)
PositionCandidateAnyway(s) == Open(s)

(* add_position_review_candidates: not without evidence. *)
PositionCandidate(s) == Open(s) /\ Evidence(s) # {}

Candidates ==
    {s \in ConflictSources : ConflictCandidate(s)}
        \cup {s \in CommitmentSources : CommitmentCandidate(s)}
        \cup {s \in PositionSources : PositionCandidate(s)}

(* select: sorted, and cut off after MaxCandidates. *)
Agenda ==
    {s \in Candidates : Cardinality({r \in Candidates : Rank[r] < Rank[s]}) < MaxCandidates}

(* make_candidate, as of a revision; the evidence of conflicts and commitments
   does not change without their version. *)
Candidate(s) ==
    [source |-> s, version |-> Version(s), asof |-> clock,
     evidence |-> IF s \in PositionSources THEN Evidence(s) ELSE {}]

(* Mutant of Fingerprint: it covers the revision as well. *)
FingerprintWithRevision(c) == c

(* initiative_fingerprint covers the source, its version and the evidence, and not
   the revision. *)
Fingerprint(c) == [source |-> c.source, version |-> c.version, evidence |-> c.evidence]

Proposed(c) ==
    \E i \in DOMAIN initiatives : Fingerprint(initiatives[i].candidate) = Fingerprint(c)

(* Mutant of Picks: the first candidate, whether it was proposed before or not. *)
PicksFirst == {s \in Agenda : \A r \in Agenda : Rank[s] <= Rank[r]}

(* run_once: the first candidate without a proposal. *)
Picks ==
    LET new == {s \in Agenda : ~Proposed(Candidate(s))}
    IN {s \in new : \A r \in new : Rank[s] <= Rank[r]}

-----------------------------------------------------------------------------
(* A batch is committed: what anybody else has loaded is old now. *)
Overtakes(w) ==
    /\ moved' = [v \in Procs |-> v # w /\ pc[v] \notin {"idle", "check", "state"}]
    /\ late' = (dismissing # 0)

CallOvertakes ==
    /\ moved' = [v \in Procs |-> pc[v] \notin {"idle", "check", "state"}]
    /\ late' = (dismissing # 0)

(* The foreground call (Foreground.tla): it takes the lease, ... *)
CallBegins ==
    /\ call = "idle" /\ ~lease
    /\ clock < setting.clock
    /\ call' = "begun"
    /\ lease' = TRUE
    /\ UNCHANGED <<setting, world, initiatives, behind, service, dismissal, policy>>

(* ... records the user's message, which may be related to some positions, ... *)
CallRecords(related) ==
    /\ call = "begun"
    /\ clock < setting.clock
    /\ call' = "recorded"
    /\ clock' = clock + 1
    /\ about' = [q \in PositionSources |->
                    IF q \in related THEN about[q] \cup {clock + 1} ELSE about[q]]
    /\ CallOvertakes
    /\ UNCHANGED <<setting, source, initiatives, lease, behind, pc, picked, dismissing, policy>>

(* ... loads the state it answers on, ... *)
CallLoads ==
    /\ call = "recorded"
    /\ call' = "loaded"
    /\ behind' = FALSE
    /\ UNCHANGED <<setting, world, initiatives, lease, service, dismissal, policy>>

CallEnds ==
    /\ call' = "idle"
    /\ lease' = FALSE
    /\ behind' = FALSE

(* ... and commits its answer on that state: a source gets a last event. *)
Becomes(s, status, version) ==
    source' = [source EXCEPT ![s] = [status |-> status, version |-> version,
                                     stamp |-> clock + 1]]

(* validate_conflict: a conflict is between positions there are, every change of it
   has the next revision, and it is not taken up again once it is settled. *)
ConflictMoves(s) ==
    \E status \in {"open", "closed"} :
        \/ /\ source[s].status = "absent"
           /\ source[Party[s]].status # "absent"
           /\ Becomes(s, status, 1)
        \/ /\ Open(s)
           /\ Becomes(s, status, source[s].version + 1)

(* A commitment is made or fulfilled; a position is established, maintained, which
   leaves its version alone, and retracted or replaced. *)
Moves(s) ==
    \/ /\ source[s].status = "absent"
       /\ Becomes(s, "open", 1)
    \/ /\ Open(s) /\ s \in PositionSources
       /\ Becomes(s, "open", source[s].version)
    \/ /\ Open(s)
       /\ Becomes(s, "closed", source[s].version)

CallCommits ==
    /\ call = "loaded"
    /\ ~behind
    /\ clock < setting.clock
    /\ \/ \E s \in ConflictSources : ConflictMoves(s)
       \/ \E s \in Sources \ ConflictSources : Moves(s)
       \/ UNCHANGED source
    /\ clock' = clock + 1
    /\ CallOvertakes
    /\ CallEnds
    /\ UNCHANGED <<setting, about, initiatives, pc, picked, dismissing, policy>>

(* It fails and gives the lease back ... *)
CallFails ==
    /\ call # "idle"
    /\ CallEnds
    /\ UNCHANGED <<setting, world, initiatives, service, dismissal, policy>>

(* ... or dies, or stalls: the lease runs out. *)
CallDies ==
    /\ call # "idle"
    /\ call' = "idle"
    /\ behind' = FALSE
    /\ UNCHANGED <<setting, world, initiatives, lease, service, dismissal, policy>>

LeaseRunsOut ==
    /\ lease
    /\ lease' = FALSE
    /\ UNCHANGED <<setting, world, initiatives, call, behind, service, dismissal, policy>>

-----------------------------------------------------------------------------
(* next_delay of the worker's policy: a fixed interval after anything but a
   failure.  The command has no policy. *)
Waits(w, failed) ==
    \/ /\ w = Once
       /\ UNCHANGED <<failures, delay, streak>>
    \/ /\ w = Worker /\ failed
       /\ delay' = BoundedBackoff(setting.initial, setting.maximum, failures)
       /\ failures' = OneMore(failures)
       /\ streak' = streak + 1
    \/ /\ w = Worker /\ ~failed
       /\ delay' = 0
       /\ failures' = 0
       /\ streak' = 0

Goes(w, next) == pc' = [pc EXCEPT ![w] = next]

(* The cycle is over. *)
Ends(w) ==
    /\ Goes(w, "idle")
    /\ picked' = [picked EXCEPT ![w] = NoPick]

Returns(w) ==
    /\ Ends(w)
    /\ moved' = [moved EXCEPT ![w] = FALSE]
    /\ Waits(w, FALSE)
    /\ UNCHANGED faults

Stays == UNCHANGED policy

(* run_cycle: the worker looks at the lease before it calls run_once. *)
Cycle ==
    /\ pc[Worker] = "idle"
    /\ IF lease THEN Returns(Worker)
                ELSE Goes(Worker, "check") /\ Stays /\ UNCHANGED <<picked, moved>>
    /\ UNCHANGED <<setting, world, initiatives, foreground, dismissal>>

Command ==
    /\ setting.once
    /\ pc[Once] = "idle"
    /\ Goes(Once, "check")
    /\ UNCHANGED <<setting, world, initiatives, foreground, picked, moved, dismissal, policy>>

(* run_once: Deferred while a call is active. *)
CheckLease(w) ==
    /\ pc[w] = "check"
    /\ IF lease THEN Returns(w)
                ELSE Goes(w, "state") /\ Stays /\ UNCHANGED <<picked, moved>>
    /\ UNCHANGED <<setting, world, initiatives, foreground, dismissal>>

(* snapshot: load_state ... *)
LoadState(w) ==
    /\ pc[w] = "state"
    /\ Goes(w, "events")
    /\ moved' = [moved EXCEPT ![w] = FALSE]
    /\ UNCHANGED <<setting, world, initiatives, foreground, picked, dismissal, policy>>

(* verified_ledger and replay: the events are those the state was made of. *)
Agrees(w) == ~moved[w]

(* ... and load_events, StaleSnapshot unless the two agree; then the choice:
   Deferred, NoCandidate, Duplicate, or a candidate to propose. *)
Select(w) ==
    /\ pc[w] = "events"
    /\ IF ~Agrees(w) \/ Picks = {}
         THEN Returns(w)
         ELSE \E s \in Picks :
                /\ picked' = [picked EXCEPT ![w] = Candidate(s)]
                /\ Goes(w, "again")
                /\ Stays
                /\ UNCHANGED moved
    /\ UNCHANGED <<setting, world, initiatives, foreground, dismissal>>

(* validate_candidate: select would find the candidate again. *)
Valid(c) == c.version = Version(c.source) /\ c.source \in Agenda /\ c = Candidate(c.source)

(* propose_candidate: a second snapshot, Duplicate or Deferred unless it is at the
   revision of the first, and an error (Fails) if the candidate is not Valid there. *)
Revalidate(w) ==
    /\ pc[w] = "again"
    /\ IF moved[w] \/ Proposed(picked[w])
         THEN Returns(w)
         ELSE /\ Valid(picked[w])
              /\ Goes(w, "lease")
              /\ Stays
              /\ UNCHANGED <<picked, moved>>
    /\ UNCHANGED <<setting, world, initiatives, foreground, dismissal>>

(* Mutant of CheckLeaseAgain: the lease is looked at at the start only. *)
CheckLeaseOnce(w) ==
    /\ pc[w] = "lease"
    /\ Goes(w, "commit")
    /\ UNCHANGED <<setting, world, initiatives, foreground, picked, moved, dismissal, policy>>

(* The second look at the lease. *)
CheckLeaseAgain(w) ==
    /\ pc[w] = "lease"
    /\ IF lease THEN Returns(w)
                ELSE Goes(w, "commit") /\ Stays /\ UNCHANGED <<picked, moved>>
    /\ UNCHANGED <<setting, world, initiatives, foreground, dismissal>>

Record(c) == initiatives' = Append(initiatives, [candidate |-> c, status |-> "ready"])

(* initiative_source_exists, open or not. *)
Exists(s) == source[s].status # "absent"

(* apply_initiative_proposed: the source exists, and no proposal has the fingerprint. *)
Admits(c) == c.asof = clock /\ Exists(c.source) /\ ~Proposed(c)

(* Mutant of Propose: revision and as-of revision are read again for the batch. *)
ProposeOnAnyRevision(w) ==
    /\ pc[w] = "commit"
    /\ IF Proposed(picked[w])
         THEN UNCHANGED <<initiatives, late>> /\ Returns(w)
         ELSE /\ Record(picked[w])
              /\ Overtakes(w)
              /\ Ends(w)
              /\ Waits(w, FALSE)
              /\ UNCHANGED faults
    /\ behind' = (behind \/ (call = "loaded" /\ initiatives' # initiatives))
    /\ UNCHANGED <<setting, world, lease, call, dismissing>>

(* InitiativeProposed and InitiativeReadied in one batch on the loaded revision;
   Deferred if that is not the head any more. *)
Propose(w) ==
    /\ pc[w] = "commit"
    /\ IF moved[w]
         THEN UNCHANGED <<initiatives, late>> /\ Returns(w)
         ELSE /\ Admits(picked[w])
              /\ Record(picked[w])
              /\ Overtakes(w)
              /\ Ends(w)
              /\ Waits(w, FALSE)
              /\ UNCHANGED faults
    /\ behind' = (behind \/ (call = "loaded" /\ initiatives' # initiatives))
    /\ UNCHANGED <<setting, world, lease, call, dismissing>>

(* A storage error, or the projection does not match the replayed ledger. *)
Fails(w) ==
    /\ pc[w] # "idle"
    /\ faults > 0
    /\ faults' = faults - 1
    /\ Ends(w)
    /\ moved' = [moved EXCEPT ![w] = FALSE]
    /\ Waits(w, TRUE)
    /\ UNCHANGED <<setting, world, initiatives, foreground, dismissal>>

(* The process dies; the worker of the next one starts with a fresh policy. *)
Dies(w) ==
    /\ pc[w] # "idle"
    /\ faults > 0
    /\ faults' = faults - 1
    /\ Ends(w)
    /\ moved' = [moved EXCEPT ![w] = FALSE]
    /\ IF w = Worker THEN failures' = 0 /\ delay' = 0 /\ streak' = 0
                     ELSE UNCHANGED <<failures, delay, streak>>
    /\ UNCHANGED <<setting, world, initiatives, foreground, dismissal>>

-----------------------------------------------------------------------------
(* dismiss: a dismissed proposal is left as it is. *)
DismissLoad(i) ==
    /\ dismissing = 0
    /\ Cardinality({j \in DOMAIN initiatives : initiatives[j].status = "dismissed"})
          < setting.dismissals
    /\ i \in DOMAIN initiatives
    /\ initiatives[i].status = "ready"
    /\ dismissing' = i
    /\ late' = FALSE
    /\ UNCHANGED <<setting, world, initiatives, foreground, service, policy>>

(* apply_initiative_dismissed, apply_initiative_status: only what is Ready, and
   nothing of the proposal changes but its status. *)
DismissesReady(i) ==
    /\ initiatives[i].status = "ready"
    /\ initiatives' = [initiatives EXCEPT ![i].status = "dismissed"]

(* InitiativeDismissed on the loaded revision, or Deferred. *)
Dismiss ==
    /\ dismissing # 0
    /\ dismissing' = 0
    /\ late' = FALSE
    /\ IF late
         THEN UNCHANGED <<initiatives, behind, moved>>
         ELSE /\ DismissesReady(dismissing)
              /\ behind' = (call = "loaded")
              /\ moved' = [v \in Procs |-> pc[v] \notin {"idle", "check", "state"}]
    /\ UNCHANGED <<setting, world, lease, call, pc, picked, policy>>

-----------------------------------------------------------------------------
CallStep ==
    \/ CallBegins
    \/ \E related \in SUBSET {q \in PositionSources : Open(q)} : CallRecords(related)
    \/ CallLoads
    \/ CallCommits

CallStops == CallFails \/ CallDies

ServiceStep(w) ==
    \/ CheckLease(w)
    \/ LoadState(w)
    \/ Select(w)
    \/ Revalidate(w)
    \/ CheckLeaseAgain(w)
    \/ Propose(w)

Next ==
    \/ CallStep
    \/ CallStops
    \/ LeaseRunsOut
    \/ Cycle
    \/ Command
    \/ \E w \in Procs : ServiceStep(w) \/ Fails(w) \/ Dies(w)
    \/ \E i \in DOMAIN initiatives : DismissLoad(i)
    \/ Dismiss

(* The worker's loop runs on (run_until_shutdown). *)
Fairness == WF_vars(Cycle) /\ WF_vars(ServiceStep(Worker))

Spec == Init /\ [][Next]_vars /\ Fairness

-----------------------------------------------------------------------------
(* docs/initiative-v1-lifecycle.md: fingerprints remain reserved after dismissal,
   so an unchanged source cannot recreate a dismissed proposal.  No two proposals
   have the same source, version and evidence, whoever proposed them and whatever
   was committed in between (run_once, apply_initiative_proposed). *)
ProposedOnce ==
    \A i, j \in DOMAIN initiatives :
        LET c == initiatives[i].candidate
            d == initiatives[j].candidate
        IN <<c.source, c.version, c.evidence>> = <<d.source, d.version, d.evidence>> => i = j

(* A candidate is on the agenda, at its version and with its evidence, in the very
   state its proposal is committed to, although it was selected and validated in
   loads before (propose_candidate). *)
ProposedFromTheAgenda ==
    [][Len(initiatives') > Len(initiatives) =>
          LET c == initiatives'[Len(initiatives')].candidate
          IN c.source \in Agenda /\ c = Candidate(c.source)]_initiatives

(* docs/initiative-v1-lifecycle.md: the worker yields while the foreground lease is
   active.  A proposal is never committed between the load and the commit of a call
   that holds its lease: the call's answer would be stale.  A call may begin after
   the last look at the lease, but its first commit then overtakes the worker
   (run_cycle, run_once, propose_candidate). *)
YieldsToCalls ==
    [][Len(initiatives') > Len(initiatives) => ~(call = "loaded" /\ lease)]_initiatives

(* After n failures in a row the worker waits for the initial backoff doubled n - 1
   times, or the maximum if that is less, and never for no time at all; the Sleep
   worker would wait as long (next_delay, bounded_backoff). *)
BacksOff ==
    streak > 0 =>
        /\ delay = Smaller(setting.initial * 2 ^ (streak - 1), setting.maximum)
        /\ delay = SleepBackoff(setting.initial, setting.maximum,
                                Smaller(streak - 1, MaxFailures))

(* Once the foreground rests, what stays on the agenda is proposed in the end,
   behind every candidate that is ahead of it and was proposed already (run_once,
   run_until_shutdown). *)
EventuallyProposed ==
    \A s \in Sources :
        <>[](~lease /\ s \in Agenda) => <>[](s \in Agenda => Proposed(Candidate(s)))
=============================================================================

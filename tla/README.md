# HEKATE in TLA+

A verification project for the HEKATE runtime: a single-user assistant whose
whole state is an event ledger in SQLite with a projection stored beside it.
Several processes (the interactive command line, one-off commands, the sleep
worker, the initiative worker) work on one database file, and nothing
coordinates them but that file. The modules here model how they write the
ledger, how a message is handled under the foreground lease, how approved
actions are executed, how background integration ("Sleep") follows behind, how
memories and positions change and are recalled, when a task counts as completed,
and how HEKATE proposes something on its own ("Initiative").

Paths below are those of the repository, relative to its root (`src/runtime/...`);
`PROJECT.json` prefixes them with `src/`.

## 1. The system: inventory

| component | state it keeps | operations | hard behaviour |
|---|---|---|---|
| Event ledger and projection (`runtime/projector.rs`, `adapters/sqlite/store.rs`) | table `events`, row `current_state` (revision, projection) | `record`, `record_batch`, `load_state`, `commit_batch`, `replay` | the projection is computed on a copy outside the transaction; writers interleave; crashes; redelivered batches |
| Foreground lease (`runtime/engine.rs`, `store.rs`) | one row: owner, expiry | acquire, renew every 10 s, release, `has_active` | expiry under a live holder; failed renewal; failed release; death of the holder |
| Foreground engine (`runtime/engine.rs`) | principals, identity and relationship, observations, focus resolutions, runs, attempts, decisions | `handle` | the founding of the identity in several records; redelivery of a message at any point of an earlier delivery; state read before the model thinks and used after it |
| Continuity (`runtime/continuity/`) | none | `resolve` | picks the open run in one load, starts it in a later transaction |
| Operations and approvals (`runtime/engine.rs`) | operations, approvals, receipts, verifications | plan (part of a decision), `resolve_approval`, `execute_operation` | an effect in the world between two commits; concurrent commands; crash after the effect |
| Sleep (`runtime/sleep.rs`, `sleep_batch.rs`) | sleep runs, the observation cursor, integration candidates | `sleep_once` | resumption of a run whose owner may still be alive; interruption by foreground; the window and the cursor |
| Sleep worker (`runtime/sleep_worker.rs`) | backoff counters | loop over `sleep_once` | must get through in the end |
| Memory (`runtime/engine.rs`, `runtime/memory_integration.rs`) | memory candidates, active memories, positions, integration candidates, what was materialized from them | create, promote, reject, supersede, expire, verify, materialize | reject and promote at once; a target that changed since it was verified; the foreground engine changing positions at any time |
| Recall and embeddings (`runtime/recall.rs`, `runtime/embedding_indexer.rs`, `adapters/sqlite/embedding.rs`) | table `embedding_records`, derived | `index_once`, the index task after a commit, `recall_with_budget` | tasks that overlap, fail, die or are overtaken leave rows of memories no longer active |
| Initiative (`runtime/initiative/`) | initiative proposals, fingerprints, the worker's backoff | `run_once`, `propose_candidate`, `dismiss`, worker loop | two processes propose the same entry; a call begins meanwhile; an agenda that is cut |
| Completion (`runtime/completion.rs`) | criteria, claims, task status | define, claim, verify, reject, `complete_task` | a gate evaluated before the completion event; two verdicts at once; evidence recorded between two reads; one evidence claimed by two commands |
| Recovery (`runtime/recovery.rs`) | none | `recover` | compares projection and replay, read at two instants |
| Policy (`adapters/local_policy.rs`) | none | `evaluate` | pure |
| Cognitive model (`adapters/primary_model.rs`) | none | `think` | an answer that does not parse is corrected once |
| Context building, prompts, response profile, consolidation and contest, transports, capabilities, CLI, configuration | derived or none | – | I/O, formatting or read-only derivation |

How they interact: everything that changes state calls `Projector::record_batch`
(or `record`, the same without an expected revision). `record_batch` loads the
projection, applies the batch, and `commit_batch` writes events and projection
in one transaction if the head is still where the load found it. A caller may
name the revision it decided on; a foreign commit since then makes it
`StaleContext`. Only `handle` takes the lease; Sleep and Initiative look at it
and give way; operations, approvals, memories and the completion gate ignore
it. Integration candidates go from Sleep to Memory through the ledger; the gate
reads operations and approvals; recall restores what the index returns from the
projection the call loaded; commits that change what is active start an index task.

What makes each component correct is stated as its properties (section 3); what
is hard to test is listed, line by line, under `hazards` in `PROJECT.json`.

## 2. Modules

| module | models | state and actions |
|---|---|---|
| `AtomicLedger` | what the ledger promises: a batch takes effect whole at one instant, validated against the log of that instant, or not at all | `log`, a request per writer; `Look`, `Ask`, `Grant`, `Refuse`, `Forget` |
| `Ledger` | `record_batch` over `commit_batch` | the two tables; per writer the base revision, its copy of the projection and the head its transaction read. `LoadState`, `Submit`, `RecordBatch`, `CommitBegin`, `CommitBatch`, `Return`, `Crash` |
| `LedgerProofs`, `OperationsProofs`, `CompletionProofs`, `MemoryProofs`, `RecallProofs`, `SleepProofs`, `ForegroundProofs`, `InitiativeProofs` | the theorems | |
| `Operations` | `resolve_approval` and `execute_operation` | status, approval and receipts per operation; per process its step and whether its load is stale; how often the capability ran |
| `Foreground` | `handle` and all it calls, and the lease | the lease row; what is founded, observations, focus, runs, attempts, decisions; per delivery its step and locals |
| `Sleep` | `sleep_once`, the worker's loop | observations, cursor, sleep runs, lease; per process its step, run and draft |
| `Memory` | the memory commands and `MemoryIntegration`; Sleep and the foreground engine as environments | candidates, memories and their replacements, positions, integration candidates; per process what it is about to commit and whether its load is old |
| `Recall` | extends `Memory` by the index tasks and a recalling foreground call | one row per memory; per task its pass, snapshot and findings; the call's known memories and bundle |
| `Completion` | extends `Operations` by `CompletionGate` | tasks, criteria, claims, blockers; per command what it decided on and whether that is old |
| `Backoff` | `bounded_backoff` of both workers, pure | operators over durations with a largest value |
| `Initiative` | extends `Backoff` by agenda, service and worker, beside foreground calls | sources with versions and related messages, proposals, lease; per process its load and pick; the worker's streak of failures and delay |
| `MC*` | instances for TLC | constants only |

**One abstraction carries the rest.** `Ledger` is shown to implement
`AtomicLedger`: a `record_batch` takes effect if and only if nobody committed
since the load it relies on. The other modules therefore do not repeat loads
and transactions; a process has a flag `stale`, set by every commit of somebody
else and cleared by its own loads and commits. A record without expected
revision is still two steps there (`RecordLoad`, then the commit or
`RecordConflict`), because its own load and its commit may be separated by a
foreign commit; that window is what two of the findings are about.

Choices that a reader should know:

* `Ledger`. An event is its identity. The validations of `Projector::apply` are
  the constant relation `Refused`: an event is refused once one of certain
  others has been applied. SQLite's refusal to upgrade an outdated read snapshot
  (the transaction is deferred) is `BusySnapshot`, external to the repository.
* `Operations`. `Guarded` is the policy's verdict. A capability ends in one of
  the four ways `execute_operation` tells apart. `OperationSucceeded` and the
  verification are in one batch, so `succeeded` is never a stored status.
* `Foreground`. A call of `handle` is a delivery `d`; `d` also names the
  observation, task, run and attempt it creates. A store is founded, in part or
  not at all (`Founded`): `EnsureIdentity` creates one missing part per record, in
  the order of the code, and principals have fixed identities, so that creating
  one again replaces it. `FocusIsValid` is what the projector asks of a
  resolution. The model may be asked a second time (`correct`), never a third.
  `Plans` is the set of answers `continuity::resolve` can give; which words
  lead to which is left out. `legacy_resolution` is left out: with the current
  writer a run and its `FocusResolved` are in one batch. No code creates pending
  runs or resumes suspended ones, and tasks are completed by the completion
  gate only. Losing the lease is noticed only while the model thinks, as in the
  code's `select!`. `Fail` is every other error of a step.
* `Sleep`. The cursor and the high-water mark count observations. An observation
  is `fit`, `damaged` (`decode_seed` gives `None`) or `large` (it does not fit the
  seed budget alone). Run identities are reused when a run is over, which keeps
  the model finite. Interrupting reads the head again, as the code does.
* `Memory`. A memory goes by the identity of its candidate; a lesson's content and
  sources are `Content`. `Settings` is a set of stores and of bounds, of which a
  behaviour picks one: what is known and held at the start and what Sleep will
  propose. Positions are those of one subject. Every command but
  `reject_memory` names the revision it decided on; what the projector checks again
  when it applies a batch is part of the commit. Evidence of a verdict is told apart
  by where it lies and how new it is, since `ValidEvidence` asks for no more. Every
  commit moves the head, a rejection of what was rejected already included; in
  `Recall` that makes index tasks and calls old.
* `Recall`. The index is written by tasks in no transaction of the ledger; `alone`
  and `old` record whether a pass was overtaken. Similarity decides which rows a
  search returns; a search here returns all, the most an answer can rest on. Positions take
  the memories' path.
* `Completion`. Evidence names *sources*: events of any kind, or artifacts with the
  event that is their provenance. Any commit may record one. Sequence numbers count
  the recorded sources instead of all events: every check compares a source's
  sequence, the sequence a reference says it was read at and the claim's revision
  with each other, and the count keeps their order. An artifact has the sequence of
  its event, for the two are recorded in one batch. A reference is `genuine` when its
  hash is that of the source. `ValidEvidence` is the check of the service,
  `AppliedEvidence` the weaker one of the projector, which compares neither the hash
  of an event nor a source with the sequence it was read at. `Offers` are the lists
  of references commands come with. `supersedes` is left out: it is checked to name a
  claim of the criterion and read by nothing else. `Ready` looks at the pending
  approvals and unknown effects of all tasks, as the code does.
* `Initiative`. A source has a version and a stamp of its last event; messages
  related to a position arrive in batches. `Agenda` is ordered and cut as
  `agenda.rs` does, before entries already proposed are left out.

## 3. Runs

| run | instance | states | shows |
|---|---|---|---|
| `ledger` | 2 writers, 3 events, 4 batches (empty, single, double, with a duplicate), one event refused after another | 383 k | `SnapshotMatchesLedger`, `LedgerValid`, `AcknowledgedIsDurable`, and that the store implements `AtomicLedger` |
| `operations` | 2 processes, a guarded and an unguarded operation, crashes | 1.0 M | no capability before its approval, no denial after it, receipts only for runs, no repetition unless two executions overlap |
| `operations_twice` | 2 processes, a guarded operation, no crashes | – | **violated**: finding 1 |
| `operations_receipts` | 1 process, no crashes | – | **violated**: finding 2 |
| `foreground` | a message delivered twice and another one, one lease that may run out under its holder, a founded store | 3.1 M | exclusion, one decision per observation, true answers, one open run per task, runs only move forward |
| `foreground_ends` | a message delivered twice, a store whose first call died between the principals and the identity, fair | 224 k | one observation per message and one identity; every call ends; the lease comes back |
| `foreground_twice` | a message delivered twice | – | **violated**: finding 3 |
| `sleep` | worker and command, 2 observations of any kind, 3 disturbances, fair | 67 k | one running run, every observation taken up exactly once, the cursor moves only with completion, everything readable is integrated in the end |
| `memory` | six stores of at most three memories or positions and two proposals with two commands at a time; two indexed stores with two index tasks, or one beside a recalling call | 371 k | a memory is replaced once and never comes back, a lesson is not learnt twice, an integrated position stands alone; answers rest on active memories, an undisturbed pass restores the index |
| `memory_race` | one store of preferences | – | **violated**: finding 4 |
| `initiative` | a conflict, a commitment and a position; worker, `--initiative-once`, a foreground call, a dismissal, faults; backoffs of four configurations; fair | 186 k | no fingerprint twice, proposals from the agenda of their revision and never beside a call, the backoff doubles up to its maximum, what stays on the agenda is proposed |
| `completion` | one process on a guarded operation; two commands on a task with one criterion, an event and an artifact that are recorded meanwhile, cited as read early or late, under their own hashes or others | 1.8 M | verified claims have provenance, a valid as-of sequence and no blocker; verdicts last, also on evidence that a second command claims; the gate is open when a completion is committed |

Bounds. Every hazard listed needs two actors and at most one extra
disturbance. Two writers reach every pair of positions inside `record_batch`;
three deliveries let two share a message while a third changes the projection;
two observations make a window that is full, cut, or interrupted in the middle.
`MaxStalls` bounds leases that run out under a live holder (one is enough for
two calls at work together; several properties are claimed only for none, and
say so). `MaxRuns` bounds the count of capability runs: above two, nothing new.
A store in founding shows what it has to show with two deliveries, one that
dies and one that goes on.
`Settings` bounds, store by store, the foreground's changes of positions (two:
establish and revise), index tasks, batches of messages, dismissals and faults
(five reach the maximum of every configured backoff and stay there). `DurationMax`
and `MaxFailures` are the largest values of the types, small ones here so that
doubling reaches them. The agenda holds two of the three sources (8 in the code),
so that it is cut. In `completion` the event can be claimed by two readings of one
fingerprint when it is recorded first, and with and without the artifact when it
comes second: the one order has the second claim that must be refused, the other the
later claim that closes the gate again. Claims without any evidence are left to the proof (`VerifiedTheorem`), and a
process that dies to `operations`: an outcome that meets a foreign commit leaves the
gate the same operation, started and abandoned.
`MaxDisturbances` bounds lease acquisitions, foreign commits, commands and
crashes in `Sleep`: with unboundedly many of them nothing would ever be
integrated. Events, operations and observations are finite, which makes the
ledger finite.

Symmetry is used only where safety alone is checked: `foreground` (the two
deliveries of one message), `memory` and `memory_race` (processes, unused
identities of one kind, tasks) and `completion` (commands).

Fairness. `Foreground!FairSpec`: weak fairness of each call's steps (the runtime
polls the future; the model client and SQLite answer or time out) and of the
clock passing `expires_at_ms`. Nothing is asked of new deliveries, failures or
foreign commits. `Sleep!FairSpec`: weak fairness of the steps of whoever has
begun, of the worker's next iteration (its loop only ends at shutdown) and of the
foreground giving back the lease; strong fairness of planning, resuming and
deliberating successfully, that is, neither the model nor the budget check fails
every single time. Without the last a broken model keeps failing runs for ever,
as it does in the code. `Initiative!Fairness`: weak fairness of the worker's next
cycle and of the steps of its service, whose loop ends only at shutdown.
`EventuallyProposed` speaks of times when the foreground rests and of the agenda
as it is cut: with more than `MAX_SLEEP_CANDIDATES` sources whose proposals are
reserved already, an entry behind them is never on it.

Deadlock is checked in the runs of `Ledger`, `Operations`, `Foreground` and
`Sleep`, none of which may stop. `Memory`, `Recall`, `Completion` and `Initiative`
may: their stores are finite and their commands come from a user who may have
nothing more to ask.

## 4. Findings

1. **An operation can be executed twice** (`operations_moves`).
   `docs/state-machines.md:5`: an unknown started operation "is never silently
   retried". `execute_operation` refuses a started operation, but checks the status
   once, on a load, and records `OperationStarted` without an expected revision; the
   projector stores operations without comparing statuses. In the run's trace two
   commands load an approved operation as authorized. The first starts it and runs
   the capability; before it has recorded the outcome the second starts it again,
   meets no conflict, and runs the capability too (`NeverRetried`). One after the
   other they cannot, whatever crashes (`NoRetryInSequence`).
2. **An effect without a receipt** (`operations_receipts`).
   `docs/invariants.md:18`: "Writes have receipts and verification records."
   After the capability has run, the outcome batch fails if any other writer
   commits between its load and its commit; nothing retries, and the operation
   stays started.
3. **A message can be processed twice** (`foreground_twice`).
   `docs/invariants.md:19`. When a lease runs out between the search for an
   earlier delivery and `record`, which expects no revision, a second delivery
   records and decides the message as well. Without such a stall it cannot
   (`RecordedOnce`), and even with it each observation is decided once
   (`DecidedOnce`).
4. **A rejected memory can stay active** (`memory_race`). `docs/invariants.md:9`:
   "Promotion is explicit; rejection does not activate recall", and
   `docs/state-machines.md:9` lets a candidate be promoted or rejected.
   `reject_memory` checks the candidate on a load and then appends without an
   expected revision; when a promotion is committed in between, the candidate is
   rejected and its memory active. All other commands name their revision, and for
   what they do no such race exists (`MemoriesMoveForward`, `ReplacedOnce`).

## 5. Proofs

`LedgerProofs` proves, for every set of writers, events and batches and every
relation `Refused`:

* `TypeCorrect`: `Spec => []TypeOK`;
* `SnapshotTheorem`: the stored projection is that of the ledger;
* `LedgerValidTheorem`: no event twice, none that should have been refused;
* `AcknowledgedTheorem`: what was answered Ok is in the ledger, whole and in place;
* `LedgerImplementsAtomicLedger`: `Spec => Atomic!Spec`, with the refinement
  mapping `Request` from the program counter to the state of a request.

Assumptions: batches are sequences of events, `Refused` is a function from events
to sets of events. Nothing is assumed finite.

The argument. None of the invariants is inductive alone: a commit installs a copy
computed long before. The inductive invariant `IInv` adds `WriterInv`, and in it
`CopyInv`: a copy's revision is at most the head plus the batch, and *if it is
equal* the copy is the head's projection with the batch applied, consistent. A
foreign commit makes the head grow, so the comparison `state.revision = head + len`
becomes false (lemma `Lags`) and nothing needs to be known of the copy any more;
that one comparison is what the store's correctness hangs on (its mutant
`NeverConflict` breaks `SnapshotMatchesLedger`). `WritingInv` says that the
comparison held when the transaction began, and `BusySnapshot` that the head has
not moved since. `AppliesConsistent` lifts the event-by-event validation to the
whole ledger.

`OperationsProofs` proves, for every number of processes and operations, any choice
of guarded ones and with or without crashes: `TypeCorrect`; `ApprovalTheorem`, no
capability under approval runs before its approval or after a denial; and
`ResolvedOnceTheorem`, an approval is resolved once. `ApprovalBeforeEffect` alone
is not inductive: it has to be known that a process inside `execute_operation`
passed the check and that approvals are not taken back (`ExecutingInv`), which in
turn needs that a process whose load is current and that is about to resolve an
approval finds it pending (`ResolvingInv`, the expected revision at work), and that
a plan never overwrites an approval (`AbsentInv`). On top of it,

* `NoRetryTheorem`: two runs of one capability take two executions entered at once.
  `SoleInv` says it of operations that were never entered twice: one process
  executes them, whoever has not invoked the capability yet is the first, and a
  status from which execution could begin again means that nothing ran. It needs
  that only the policy puts operations up for approval (`PendingInv`): otherwise an
  approval could move a started operation back to authorized;
* `ReceiptsTheorem`: receipts do not outnumber runs, and a finished operation has a
  receipt or was denied. `EarnedInv` counts the processes with an outcome in hand
  (`Unrecorded`): a run adds one, the outcome batch turns one into a receipt, a
  conflict or a death only takes one away.

`CompletionProofs` proves, for every number of commands, tasks and criteria:

* `GateImplementsOperations`: a behaviour of the composition is one of `Operations`,
  so that every theorem above holds beside the gate;
* `GateTypeCorrect`: type correctness, of what each command has in hand too;
* `OpenGateTheorem`: the gate is open when a completion is committed. `GateHolds` is
  what makes it inductive: for a command that evaluated the gate and whose load is
  not old, the gate is open *now*. A commit of anybody else makes the load old, and
  then nothing needs to be known; `apply_task_completion` itself does not look;
* `JudgedOnceTheorem`: a verdict stands, and no other claim of the same evidence comes
  beside it. `ClaimedOnceTheorem` is what it needs: no evidence is claimed twice for a
  criterion, whoever else offers it;
* `VerifiedTheorem`: a verified claim names no blocker, and each of its sources was
  in the ledger, under its own hash, when it was read and that before the claim.
  `ClaimsRest` is the inductive invariant: claims, and what a command has in hand to
  become one, rest on evidence that is valid at a revision the ledger has reached.
  `SourcesLast` (nothing recorded moves or goes) keeps it so (`RestLasts`). What the
  projector checks again is not used: provenance rests on `create_claim` alone, and
  the mutant that forgets the hash there is not stopped by the projector.

`MemoryProofs` proves, for every number of commands, memories, positions and
candidates and whatever the store holds at the start:

* `MoveForwardTheorem`, `ReplacedOnceTheorem` and `LessonsDistinctTheorem`: memories
  never come back, are replaced once and are learnt once. None of the three is
  inductive. `CurrentInv` is the argument: what a command found when it loaded (the
  memory is active, the candidate open, the lesson unknown) holds as long as nobody
  commits, because every commit makes all other loads old (lemma `CommitsAge`) and
  an old load never commits. `MovesStep` then gives the only moves a memory makes,
  from absent to active to superseded or expired, with `UnpromotedInv`: a candidate
  nobody promoted has no memory yet. `reject_memory`, which names no revision,
  disturbs none of this, since it writes the candidate only; finding 4 is what it
  does disturb;
* `IntegratedAloneTheorem`: what `apply_position_integration` looks at when it applies
  the event is enough for positions, with `TargetInv`: a candidate keeps the target it
  was proposed with, and a command carries out what the candidate proposes;
* `TypeCorrect`. That the version of a position stays within the number of positions
  is an invariant of its own (`VersionInv`): a version is at most the number of
  positions stored so far, since every revision, by the foreground engine or by
  `materialize_position`, is stored under an identity nobody used, and what is stored
  again keeps its version. It needs that a withdrawal is of the very position its
  candidate names (`RestInv`).

`RecallProofs` proves, for every number of index tasks beside all that:

* `ImplementsMemory`: `RecallSpec => Spec`. Index tasks and calls change nothing of
  `Memory`, a final batch is one of its other commits, so every theorem above holds
  beside them (`TogetherTheorem` states them for the composition, `RecallTypeCorrect`
  the types);
* `AnswersTheorem`: an answer that can still be committed rests on active memories
  only. `CallInv` says that a call on an unmoved head knows exactly what is active,
  and that what it recalled is part of what it knows; about the rows of the index
  nothing is needed, because `restore_item` looks every match up in the loaded state;
* `ReconstructsTheorem`: a pass nobody overtook leaves exactly the active memories in
  the index. `PassInv` follows the pass: its snapshot is what is active while the
  head stays, and, while no other task writes, what is left to embed is all that
  misses (`embed`), then nothing misses (`rows`), then the rows it read are the rows
  there are (`deactivate`). Lemma `UnderTheIndex` is where `Memory` enters: a step that changes
  which memories are active moves the head under every task and call.

`SleepProofs` proves, for every number of commands beside the worker, any window and
any observations: `TypeCorrect`; `OneRunningTheorem`, two runs are never under way;
`TakenUpOnceTheorem`, every readable observation up to the cursor was taken up by one
completed run; and `CursorTheorem`, the cursor moves with a completion only. The
inductive invariant says that the one run under way starts at the cursor and that its
window holds nothing too large (`RunsInv`), and what a process loaded: while its load
is not old, no run is under way and its draft starts at the cursor (`Starts`), or the
run it works on is still running (`WorksOn`). A commit of anybody else makes a load
old and an old load starts or completes nothing. That a completed window takes up what
no earlier one did is then arithmetic: it begins where the cursor is.

`ForegroundProofs` proves, for every number of deliveries and messages, any partly
founded store and any number of leases that run out:

* `LeaseTheorem` and `RecordedOnceTheorem` say what the lease guarantees as long as it
  does not run out under its holder: exclusion (`LeaseInv`: whoever is at work owns a
  live lease), and with it that what a call looked for before it records, the message,
  the missing parts of the identity, is still not there when it does (`RecordInv`);
* `DecidedOnceTheorem`, `AnswersTheorem`, `OneOpenRunTheorem` and
  `RunsMoveForwardTheorem` hold with overlapping calls as well. Here it is the expected
  revision: `Current` says of a call whose load is not old that its observation is
  undecided and that its plan and verdict are still such as `resolve` and the judgement
  could give. `FocusInv` (a task goes by the observation that created it, and of its
  runs one is active) and `DecisionInv` (the succeeded attempts are the decisions that
  were thought about) make it inductive.

`InitiativeProofs` proves, for every agenda, every setting and any number of messages:

* `ProposedOnceTheorem`: no fingerprint is proposed twice; `FromTheAgendaTheorem`: what
  is proposed is on the agenda at the commit; `YieldsTheorem`: no proposal under a call
  that loaded its state with the lease. `WorkInv` follows the service from its load:
  what it picked is proposable, and after the validation on the second load it stays
  valid until somebody commits; a call that recorded its message or loaded its state
  while the service was past its look at the lease has moved the head by then, and the
  proposal is refused;
* `BacksOffTheorem`: the waiting time is the initial backoff doubled once per failure,
  up to the maximum, for every count of failures the type can hold. This is a proof by
  induction on the number of failures. It rests on lemma `Least`, that a set of naturals
  which is not empty has a least element (from the well-foundedness of strict inclusion
  among finite sets), on `PowersOfTwo`, which counts the subsets of `1..n`, and on
  `BoundedBackoffIs` and `SleepBackoffIs`: the two functions of the code, with their
  different loops, both compute `Delay`, the smaller of `i * 2^n` and the maximum.

Assumed, each by name in the module that declares the constant:

* `None` is no value of the sets it stands beside, and the worker is none of the
  commands;
* `Guarded` is a set of operations, `MaxRuns` a positive number, the commands that run
  at a time are finitely many (`ReceiptsTheorem` counts them);
* `Positions` is finite, which says no more than that identities are; the bounds of
  stores are numbers;
* `Completion`: each criterion belongs to a task (`CriteriaAssumption`), evidence is a
  set of references (`OffersAssumption`);
* `Sleep`: the commands are finitely many and there are more run identities than
  processes (`EnoughRuns`): the code draws a new identity for every run, the model
  reuses those nobody refers to;
* `Foreground`: a store was founded in the order of `ensure_identity`
  (`FoundedAssumption`): there is no other way to found one;
* `Initiative`: the settings are numbers within their types, and so many failures as
  the counter can hold double any backoff beyond the largest duration
  (`EnoughFailures`): the counter is a `u32`, a duration of the code has fewer than 100
  bits.

Only model-checked: liveness (`CallsEnd`, `LeaseReturns`, `EventuallyIntegrated`,
`EventuallyProposed`), for which the prover has no rule, and what the runs that end in
a violation show. Every safety property of a passing run is a theorem. The
properties of `Foreground` that are claimed for `stalls = 0` only are proved as they
are claimed: finding 3 is what happens otherwise.

## 6. Plan

1. `LeaseTheorem` says when calls overlap; how many may, a call per lease that ran
   out, is neither stated nor proved.
2. The agenda of `Initiative`: that it is ordered by rank and holds the first entries
   of the ordered sources, as lemmas about its operators.
3. `Sleep` beside a foreground call that begins between the last look at the lease and
   the completion (the hazard at `sleep.rs:454`): no document of the repository forbids
   it, so that no property states it.

### Not modelled

* Context building, prompt budgets and rendering (`runtime/context_builder.rs`,
  `prompt_budget.rs`, `prompt_renderer.rs`): pure functions from the projection to
  text. Nothing reads their result but the model, which answers anything.
* Response profile, consolidation, contest: read-only derivations and small pure
  helpers without state.
* Transports and the parsing of model output: network and text; `think` is an answer,
  an answer that does not parse, or an error.
* Capability adapters: files, Git, browser, desktop. `Operations` tells their four
  outcomes apart.
* Similarity, ranking and budgets of recall: numerical. A search returns all rows.
* Command line, configuration, bootstrap: wiring. Evaluation and seeding tools under
  `src/bin`: outside the running system.
* The start-up report (`recover`) beyond its central check: it changes nothing.

# TLA+ models of Matters

Matters is a local-first application that indexes a person's files and mail,
forms "matters" out of them with the help of an AI runner, and shows them in a
browser view. All of it is one Python service, `MatterService`
(`src/src/matters/application/orchestrator.py`), over one SQLite store. The
service is opened by several processes at a time: the desktop process (a threaded
WSGI server and a maintenance thread), every command of the command line, and the
MCP server. Nothing but the store is shared between processes.

This directory holds TLA+ modules for the parts in which that matters, TLC
configurations that check them on small instances, and TLAPS proofs for every
value of the constants. `PROJECT.json` lists the runs, the lines each definition
models, the hazards and the theorems; this file explains them.

    tlc -workers 2 -config SnapshotStore.cfg MCSnapshotStore
    tlapm SnapshotStoreProofs.tla

Paths below are relative to `src/src/matters/` unless they start with `src/`.

## The system

| Part | State it keeps | Operations | What makes it hard | Modelled in |
|---|---|---|---|---|
| Snapshot store, `infrastructure/sqlite/store.py` | `snapshots`, `snapshot_archive`, `current_objects` | plan and append, append many, append next, compare and append, content-addressed append, archive page, history | writers of several processes; a revision planned outside the transaction that inserts it; compression that moves rows | `SnapshotStore` |
| Filesystem claims, `store.py` and `application/source_workflows.py` | `filesystem_claims`, `filesystem_claim_items` | claim, checkpoint, complete, abandon; the batch command that drives them | leases that end under a live worker, crashes at every stage, replay, a rescan in the middle | `FilesystemClaims` |
| Coverage ledger, `application/coverage_ledger.py` | one `object_coverage` row per object | mark a stage, reconcile an inventory, retire, select | read-modify-write of the whole row without a comparison | `FilesystemClaims` (as far as claims see it) |
| Inventory, `inventory/owners.py`, `orchestrator.reconcile_inventory` | the current occurrence index | scan, orphan page | four transactions, a crash between any two | `FilesystemClaims` |
| Work queue, `infrastructure/jobs/runner.py` | `work_item` records and a copy per process | enqueue, run next, pause, resume, recover | the copies diverge; a failed write leaves memory ahead of the store | `WorkQueue` |
| Corrections, `revisions/*.py`, `orchestrator.submit_matter_correction` | `revision`, `correction_input`, `owner_recompute`, `projection` | submit, recompute by owners, refresh the hierarchy | threads and processes that number alike, run each other's jobs, stop in between | `CorrectionRecompute` |
| Matter hierarchy, `application/hierarchy.py` | parent edges, publish requests, hierarchy revisions, dispositions, audits and summaries | attach, batch attach, reparent, detach, split, merge, save a work item, invalidate, publish, recover | a check under one process's lock, a pending edge published later, interrupted batches and splits | `MatterHierarchy` |
| Analysis operations, `analysis/operations.py`, `application/dispatcher.py`, `orchestrator.py` | packages, results, invalidations, owner records, follow-up plans and relations | import, run, queue, rebase, dispatch, follow up, retire duplicates | a rebase while a runner works; a dispatch that is repeated; two imports of one annotation | `AnalysisOperations` |
| Autonomous maintenance, `application/maintenance.py` | worker state | cycle, start, stop | redispatch after a crash, a page read before its packages are taken, an exception inside the handler of exceptions | `AnalysisOperations` (a worker of it) |
| Maintenance orchestration, `application/maintenance_orchestration.py` | plans, run receipts, terminal receipts of observations | plan, run, join, settle | dependency order, retries, two runs at once, a crash between the receipts | `MaintenanceOrchestration` |
| Gmail bodies, `application/gmail_body_continuation.py` | batches and their stages | import a batch | replay after a crash | not modelled |
| Source registry and migration, `provenance/*` | sources, versions, anchors | register, migrate in place | races, restart | not modelled |

The other parts (readers of files and providers, classification and scoring, read
models, presentation, skills, configuration, entry points, browser code) are
listed in `PROJECT.json` with the reason they are not modelled: they keep no
protocol state of their own, or are I/O or formatting.

How the parts meet: every durable change goes through the snapshot store. The
inventory writes the index and the coverage rows; claims read both and the worker
writes coverage rows and checkpoints. A correction writes its records, invalidates
the hierarchy and the coverage stages, and hands jobs to the queue; the queue
calls the owners' handlers, which write their records; the correction's thread
then publishes the hierarchy. An analysis result, imported by an AI host or produced
by the maintenance thread's runner, goes to the dispatcher, which calls the owners
of its findings one after the other; one of them is the owner of the hierarchy,
whose pending splits the maintenance thread resumes. Planned maintenance collects
the observations that users report through the AI gateway and gives each its
terminal receipt.

What makes each part correct:

- *Store*: the current pointer names a live row; history is dense and append-only;
  an acknowledged write is read back; content-addressed writes converge.
- *Claims*: a live row belongs to one claim; claims and rows agree; checkpoints do
  not go back; a late worker completes nothing; every waiting file is processed
  and every vanished file is retired in the end.
- *Corrections*: a job passes only if its owner executed; a correction is applied
  only if all owners did; jobs of corrections that were numbered alike are not
  mixed; one runner for a job in a process; the hierarchy is fresh only after all
  owners; a submission returns.
- *Hierarchy*: the edges are a forest; a summary marked current agrees with the
  edges; a batch is published whole or recovered; a split counts as published only
  when every member was disposed of; a pending edge does not stay pending.
- *Operations and maintenance*: what is recorded as applied belongs to the current
  result; an owner writes a finding once although results are dispatched again; a
  rebase invalidates what was applied; an annotation has one follow-up; passed
  results are applied in the end.
- *Orchestration*: a terminal receipt repeats what a run joined and is not taken
  back; no task succeeds after a dependency that did not; every observation gets
  its receipt.

## Modules

### RevisionHistory, SnapshotStore

`RevisionHistory` is the abstract specification: for each object a log that only
grows at its end, one entry for an immutable identity, several objects in one step.
`SnapshotStore` is the store. Its actions are the statements between which other
writers can act. Python's `sqlite3` opens a transaction at the first `INSERT`, so
`next_revision`/`next_revisions` (`PlanAppend`, `PlanAppendMany`), the read of the
prior revision (`ReadPrior`) and the insert with the pointer update and the
archive entry (`CommitAppend`, or `RefuseAppend` when a primary key is taken) are
separate steps; a caller that fails or dies in between is `Abandon`.
`append_next`, `compare_current_and_append`, `append_content_addressed_many` and the
archive page begin with `BEGIN IMMEDIATE` and are one step each. The record of a
row is its writer and its payload. Histories may start with legacy rows not yet
compressed. `HistoryOnlyGrows` is the refinement `Log!Spec`.

### FilesystemClaims

Workers are processes that run `process_registered_filesystem_batch`. One claim is
`Claim` (a transaction in the code), then `Load` reads the rows it may work on, and
for every file `Take`, `ReadRow`, `WriteRow` (the two halves of `mark_stage`),
`Checkpoint`, `Complete`; `EndPage` closes the page. `Crash` loses the process;
`Interrupt` is an exception, which abandons the claim; `LeaseLost` and
`OrphanExpires` are the lease running out with and without a worker. The scan is
the steps `ScanIndexes`, `ScanReads`, `ScanWrites`, `ScanRetires` of
`reconcile_inventory`: the new snapshot, the rows read, the rows written, and the
rows of files retired that the comparison with the snapshot before found deleted
(`Deleted`). `ScanDies` is a scan that ends between them: what it found deleted is
forgotten, and the next comparison does not find it again. Such rows, and those of
moved files, which the comparison does not call deleted, are left to
`PageOrphans`/`RetireOrphans`, the page of vanished files. One scan runs at a time.
Time is abstracted to whether a lease has run out.

Abstractions: the reads of the coverage row and of the index in `Load` are one
step; the reads inside one block call are one step with it; selection by policy
is one step with its writes. Payloads of a coverage row are reduced to activity,
inventory revision and the source stage; the other stages of a row follow these
and no claim reads them. Reading a document is a choice of its outcome.

### WorkQueue, CorrectionRecompute

`WorkQueue` holds the state of the queue and its operations as operators of one
process, `CorrectionRecompute` the threads that use it. `memory[p]` is the copy of
process p, `jobs` the store. A thread goes through the steps of
`submit_matter_correction`: `Number` and `Remember` (the unlocked length and append
of the coordinator's list), `AppendRevision` (refused when the revision exists),
`AppendInput`, `Invalidate`, `Enqueue` for one owner after the other, and then the
loop of `run_to_terminal`: `Join` looks at its own jobs, `Take` runs `run_next` on
whatever job sorts first, `Publish`, `Record` and `Finish` are the handler and what
follows it, `Raise` the exception that makes a job fail, `Blocked` the end when
nothing is queued. `Refresh` and `Return` end the submission. A write that fails
raises: in a handler it fails the job (`HandlerFails`), in the queue it leaves the
copy ahead of the store (`PersistFails`), in the submission itself it leaves what
was written before, a revision without its input or an invalidation with no jobs
(`WriteFails`). `StartUp` is the
construction of the service, which loads the queue and puts back what was
running; `Stop` kills a process anywhere; `Command` is the `work pause` and
`work resume` of the command line, a process each.

Abstractions: corrections are of one matter, and their words are who submitted
them and whether the projection owner can apply them. The hierarchy is one flag
`fresh`. The coverage stages a correction marks are left out, since nothing in
this component reads them. A job's `running` write and its handler's start are
under the queue's lock and are one step; the handler runs outside it. Statuses
read one after the other by `run_to_terminal` are read in one step. Recovery of
one item is one step. The jobs of `record_model_miss`, which have no handler, and
`cancel`, `checkpoint` and `start_background`, which have no caller, are left out.

### MatterHierarchy

Each process has a `MatterHierarchyOwner`, whose lock lets one call at a time run;
a step of a call is one transaction. The `Begin...` actions are the entry of a call
with its reads and checks; `WriteEdge`, `Invalidate`, `Settle`, `Read` and `Write`
are the steps of `attach_child`, `reparent_child`, `detach_child` and
`save_work_item`: the pending edge, the stale audits, the edge made current, the
summary computed, the summary stored. `CommitBatch` is the one transaction of
`attach_children_batch`, with the request that `Open` and `Recover` finish when a
process opens the service. `Dispose`, `Apply`, `MarkApplied`, `BlockReview` and
`PublishSplit` are a split, whose dispositions the dispatcher applies one by one;
`ResumeSplit` is the maintenance thread. `Refuse` is an append whose revision or
index row another process took. `raced` notes that two processes overtook each
other, `owes` and `lost` what an invalidation is still due for, `torn` a split that
died, or that the maintenance thread of another process resumed, while its
dispositions were recorded.

Abstractions: a summary is what it is computed from, of a child what its own owners
decided and not its members (`Shown`); all matters are admitted; the members of a
split are given, so that the check of its dispositions against the inventory
(`hierarchy.py:859-869`) always passes, and a member that appears after that check
is not modelled; a member that is copied goes as one that is moved; the owner
changes the members of all matters of a disposition in one step, where the code
appends one matter after another (`dispatcher.py:2154-2182`), a loop that does
nothing twice when it is repeated; the path stored in the projection, moves of a child in a split, and details of work
items are left out. Planning a revision and inserting it is `SnapshotStore`'s
subject.

### AnalysisOperations

Workers are threads of any process: an AI host's import, the maintenance thread,
a rebase command, a repair command. The packages are those of one source: its
annotation and the semantic follow-ups, identified by contract, dependency and the
frozen time of the plan. `Run` and `Persist` are the two ends of an analysis
(`AgentOperationOwner.run`), between which nothing is checked again. `Invoke`,
`Record` and `Reject` are `_dispatch_once`: the owner's write and the record that
it was applied or refused are different transactions; `Stage` and `Mark` the
coverage stage and the result appended with its new dispatch status. `Follow`,
`Queue`, `Enqueue` and `Relate` are the follow-up of an annotation; `BeginRebase`,
`ReadOutputs` and `CommitRebase` a page of the rebase, whose commit is one
transaction per package; `Repair`, `Keep` and `Retire` the retirement of
duplicates, of which `Keep` is left out when the annotation is related to the kept
one already. `BeginCycle` and `Take` are the maintenance cycle; `Report` the
handler of its exceptions. `Fail` is an exception anywhere, `Kill` a process that
dies and is replaced. `marred` notes how workers met on a package; the properties
name the meetings they except, and none excepts more than the one package.
`shared`, `again` and `torn` are of a package and its dispatch; `parted`, `doubled`
(duplicates that a behaviour starts with, of one version of an annotation or over
both) and `disputed` (two repairs at once) of an annotation and its follow-ups.

Abstractions: what the validation of findings and the runner's identity reject is
a blocked result. C6 and C12 stand for the owners: C12 refuses what has no matter,
and any owner may refuse at most `MaxFaults` times. A passed result has findings.
Source expansion, research packages and other dependencies are left out. The
reads of one page are one step, and so are the reads of one follow-up. A page is
any set of at most `PageLimit` packages and not the next ones by key: every order
of pages is included, and more.

### MaintenanceOrchestration

A host asks (`Request`: planner, pending feedback, validated plan), stores the plan
(`Plan`), and does one task after the other: `Block` for a task whose dependency
is not good, `Try` for an attempt, which is repeated within the budget unless it
fails as before. `Finish` stores the run's receipt, `Look` and `Settle` give each
observation its receipt as revision 1, which fails when another run was faster.
A planner may name a task in the validator's role itself (`about`), next to the one
the owner adds for the same observation, and also for an observation that is
terminal or not yet recorded; it is settled as the owner's are, in the order of the
plan, and the first result is the one that stays. A plan whose identities collide
is refused.
`Fail` is a dead process or an adapter that raises. The stored plan is read by no
code, so nothing is resumed from it, in the code or here.

Abstractions: an observation is its identity, a failure its identity. A validator's
task of a planner names an observation and its owner; one whose payload lacks them
raises after the run receipt, which is `Fail`. Pages of
observations are read in one step; a plan with `no_change` is the empty plan;
every host has its own run identity.

## Runs

| Run | Instance | Question |
|---|---|---|
| `snapshot_store` | two writers; a compressed, a plain and an immutable object; 3 revisions, of which up to 2 are legacy; pages of 2 | Is the store a readable, dense, append-only history under all its write paths? |
| `coverage_history` | the same | Is every acknowledged coverage write read back? *No*, see below. |
| `filesystem_claims` | two workers, two files, pages of 2, 2 faults | Do claims and rows stay in step, and can a late worker do harm? |
| `filesystem_files` | two workers, one file, one rescan, one fault, which may be the death of the scan, fairness | Is every file processed or retired in the end? |
| `interrupted_claim` | one fault and a rescan | Does an interrupted claim resume? *No*, see below. |
| `correction_recompute` | one server with two threads, two corrections of two owners, a queue of 3, one stop, one failed write, fairness | Are jobs and corrections kept apart, and does a submission return? |
| `paused_work` | one server thread and a command process, two stops, one failed write | Do `passed` and `auto_applied` mean what they say although copies diverge? |
| `projection_order` | one server, one thread, one correction of three owners | Does the projection wait for the owners? *No*, see below. |
| `restarted_recompute` | one server, one thread, two corrections of two owners, one stop, fairness | Are outstanding owners resumed after a restart? *No*, see below. |
| `matter_hierarchy` | two processes, three matters, pairs and triples of calls from two starting hierarchies, one fault, fairness | Do edges, audits, batches and splits stay in step with each other, and does what is pending settle? |
| `analysis_operations` | two workers in fourteen pairs of jobs and starting packages, two times, two answers, one fault, fairness | Are findings applied once, to the right result, and in the end? |
| `maintenance_orchestration` | two hosts, two observations, a plan of one task about the first of them and one of two tasks with a retry, one fault, fairness | Is a terminal receipt earned and final, and does every observation get one? |

Why the bounds are enough for these questions. Every race in the store is between
a plan and a commit of two writers and an archive page; three revisions let a plan
be overtaken, archived and repeated. In the claims, two workers and two files let
a page be taken over whole, in part, and after one of its rows was completed; two
faults are a crash and a lost lease of the worker that took over. The one fault of
`filesystem_files` may be the scan that dies after it found the file gone; a second
rescan passes as well, but takes too long to be run each time. Claim
identifiers are bounded, but one that nobody refers to may be drawn again, and
`ClaimsAssumption` has more of them than can be referred to at once; the view
`Anonymous` identifies states that differ in unreferenced identifiers only. In the
corrections, two of two owners each and a capacity of 3 let a queue be full in the
middle of a submission; the numbering race needs two threads of one process,
which `correction_recompute` has, and divergence needs two processes, which
`paused_work` has. Both at once exceed what TLC can finish, and no step uses more
than one thread and one process beside its own; the theorems below cover every
number of both. In the hierarchy, three matters are the least for a move between
parents, and two close a cycle; the workloads pair calls that touch one edge (two
attaches in opposite directions, a batch and a move of one of its children, a
detach and a split, a move and an unpublished change), and a review and a change
are served by both processes alone; one split has two members, so that it can be
resumed when half of it is recorded. In the analyses, every kind of worker meets every
kind whose rows it shares, from packages that are new, of the former contract,
half applied and duplicated, two repairs of the same duplicates and an import beside
a rebase among them; each workload has its own bound on calls, of 2 to 4,
and the page of 2 packages makes a rebase split what depends on each other. In the
orchestration the budget of 2 lets a plan leave room for one observation or none,
so that the second waits until the first is settled; the planner's tasks are about
the first, so that a run may have two tasks about it, and so may two runs. A third plan
that leaves room for both passes as well, but takes three and a half minutes. `CHECK_DEADLOCK FALSE` is set everywhere because the system may
idle and the bounds on revisions, scans and faults stop it.

Fairness. `filesystem_files`: the batch command is documented to be repeated until
it reports idle, and a live process goes on; a scan that has begun goes on unless it dies, leases
end, and selection follows a scan. Crashes, lost leases and new scans are not fair.
`correction_recompute`: a thread goes on with what it has begun and a stopped
process is started again; nobody has to submit another correction.
`matter_hierarchy`: a live call goes on, the service is opened again, and an attach
that is asked for again and again is served at last (the maintenance thread
dispatches a result until its owners have applied it). `analysis_operations`: a
call that began goes on and the maintenance thread turns; no import, rebase or
repair has to begin. `maintenance_orchestration`: a run goes on, and a host asks
again, at times with a plan that leaves room in its budget. That is strong
fairness of the host, which the code leaves to the host: a plan that always fills
the budget starves the observations.

### Disagreements with the documents

1. `coverage_history`: an append whose revision was planned before other writers
   appended and archived that revision inserts it again, since archiving freed its
   primary key. It is acknowledged, and history returns the archived row.
   `authorization-coverage/spec.md:301-302` excludes that.
2. `interrupted_claim`: a reclaimed row keeps the inventory revision of its first
   claim, and after any rescan the file is blocked instead of resumed, against
   `source-provenance/spec.md:213`.
3. `projection_order`: `run_next` takes the job whose id sorts first, and
   `C12_projection_bilingual_ui` sorts before `C6_...`, so the projection is
   published before the owners it depends on, against
   `correction-invalidation/spec.md:25-28`.
4. `restarted_recompute`: after a restart the recovered jobs have no runner until
   somebody submits another correction, and jobs not yet enqueued are not derived
   again, against `correction-invalidation/spec.md:43`.

What the runs except, by name, because the code does it:

- *Hierarchy*. The checks for cycles and a single parent are under one process's
  lock: two processes that overtake each other (`raced`) may write what neither
  would have accepted (`hierarchy.py:143`). A retry after a crash in the middle of
  a move raises "current primary parent changed" and the edge stays pending
  (`hierarchy.py:493`); a retry of an attach whose edge became current before its
  summaries takes the unchanged shortcut (`hierarchy.py:213`). A split that died
  while its dispositions were appended is resumed with those alone
  (`hierarchy.py:901`), and so is a split that is still being recorded when the
  maintenance thread of another process finds it (`orchestrator.py:8806`). The
  stored paths of descendants are not refreshed by a move
  (`presentation/browser.py:2121`).
- *Analyses*. A late result of a package that was superseded meanwhile is stored
  and dispatched, and its outputs are not invalidated (`operations.py:692`). A
  retired duplicate stays on the page of pending packages (`store.py:7381`). A page
  of refused results keeps the others waiting (`store.py:7557`). A refusal may be
  recorded over another dispatcher's success (`dispatcher.py:612`). `queue` may
  write "queued" over a result that passed meanwhile (`operations.py:1210`). A
  crash between an annotation's mark and its follow-up leaves the follow-up to the
  next import (`orchestrator.py:4827`). A rebase whose page parts an annotation
  from its follow-up can give it two. Two repairs of one annotation at once, which
  read different relations, retire what the other keeps (`orchestrator.py:5030`).
  A cycle analyses again a package that was closed after its page was read (`maintenance.py:137`).
- *Orchestration*. A slower run does the task of an observation that is already
  terminal, and only its receipt is refused. A blocked receipt is final. Pages of
  200 observations are read by offset while others are recorded, so that a row may
  be read twice and the plan refused.

The specifications are under
`src/openspec/changes/build-matters-model-driven-core/specs/`.

## Proofs

All theorems are of `Spec`, the next-state relation without fairness, under the
named assumptions on the constants that TLC evaluates on every run.

- `SnapshotStoreProofs`: `StoreInv` is `TypeOK`, `CurrentIsReadable`,
  `HistoryIsDense` and two facts about plans. The promise to readers is not
  inductive alone: a stale plan could leave a gap. `PlansAreNear` (no plan is more
  than one past the current revision) is what makes it harmless, and
  `PlansAreMutable` keeps planned appends away from content-addressed identities.
  Proved: `StoreTypeCorrect`, `CurrentStaysReadable`,
  `HistoryStaysDense`. `KeptInv` adds that rows outside compression have no archive
  entry, and a fact about the bound on revisions. From it every step keeps the rows
  there are (`RowsStay`) and advances an object by at most one (`GrowsByOne`), which
  gives `PlainWritesStayKept`, `ImmutableStaysConverged` and, step by step, the
  refinement `StoreImplementsHistory` of `RevisionHistory`.
- `FilesystemClaimsProofs`: `ClaimInv` is `ClaimStatusAgrees` with the types, the
  fact that a row in progress names a claim, and that a worker about to write knows
  what. The action properties follow from a lemma that says what any step may do to
  one row (`EveryStepIsRowStep`). Proved: `ClaimsTypeCorrect`, `ClaimsStayInStep`,
  `LiveRowsStayWithTheirClaim`, `CheckpointsNeverGoBack`, `OnlyLiveClaimsComplete`.
- `CorrectionRecomputeProofs`: `RecomputeInv` has four parts. `Typed` ties what a
  thread holds to its step. `Executed` carries the owner's record from `Record`
  over `Finish` to the status, and from all statuses to `refresh` and `applied`.
  `Attributed` says that a thread past `AppendRevision` owns its revision, which is
  why a second correction of one number never gets as far as a job. `Alone` says a
  thread's job is `running` in its process's copy, so that `Take`, which picks a
  queued job, cannot pick it; and that a process that is not up has no thread at
  work, so that recovery cannot take a job from one. `Alone` and `Attributed`
  depend on each other through `Raise` and `Finish`, which must know that the job
  they close existed. Proved: `RecomputeTypeCorrect`, `PassedJobsWereExecuted`,
  `AppliedCorrectionsWereExecuted`, `JobsStayWithTheirCorrection`,
  `RunnersAreUnique`, `HierarchyIsPublishedLast`.
- `MaintenanceOrchestrationProofs`: `OrchestrationInv` adds to `ReceiptsAreEarned`
  that a run which settles has stored a receipt with the dispositions it is about
  to write, that it is at a task about an observation, and that what was said is what `terminal` holds; without the first a
  receipt could be written unearned, without the second it could be taken back.
  `Followed` needs that a task not yet reached has no receipt. Proved:
  `OrchestrationTypes`, `TerminalReceiptsAreEarned`.
- `AnalysisOperationsProofs`: `OperationsInv` has five parts. `Typed` says what the
  step of a worker implies for the rest of its record (`Placed`). `Noticed` says that
  two workers on one package have been marked as such: it lets every other part
  treat the package of a step as the worker's alone, which is the case nobody
  excepted. `Once` follows a finding from the owner's write to its record, and is
  what a redispatch relies on: a written finding without a record has a worker
  about to record it, or is marked torn. `Rebases` says that what a rebase read is
  still all there is when it commits. `Currents` says that nothing is applied for
  a package that is about to be analysed or queued anew, and that what is
  dispatched agrees with the current result. The steps that write a result
  share one lemma (`WroteStep`), those that do not another (`KeptStep`). Proved:
  `OperationsTypes`, `OwnersWriteOnceHolds`, `RebasesInvalidateOutputs`,
  `AppliedStaysCurrent`.
- `MatterHierarchyProofs`: `HierarchyInv` says of every process (`ProcessInv`) which
  call it is at each step of (`ControlOf`), that what it checked still holds unless
  it was overtaken (`PlanOf`), that it is going to invalidate or publish what it
  owes (`ReachOf`, `OwesOf`), that what it read is what it would read now
  (`SeenOf`), and what its split has recorded and moved (`SplitOf`); and of the
  store `Forest`, `RestSettled` and `DispositionsAgree`. `Forest` needs `PlanOf`: an
  edge is written on the strength of a check some steps ago, and only the lock and
  the absence of an overtaking process carry the check to the write. The
  argument for any set of matters: if after the write the parents of all its
  members are in it, then before the write that was so of its members among the
  ancestors of the new parent, to which the child does not belong.
  `CurrentMeansAgrees` is weaker than `RestSettled`, which follows what an operation
  owes until it is invalidated: a change owes the ancestors that its matter will
  have when it gets there. `SplitsAreComplete` needs that the dispositions of a split
  are its own and complete from the moment its process has left their recording.
  Proved: `HierarchyIsTyped`, `HierarchyStaysForest`, `SummariesStayTrue`,
  `SplitsStayComplete`.
- `AnalysisFollowUpProofs`: `FollowUpInv` adds to `OperationsInv` what the workers that
  queue, relate and retire follow-ups hold (`Shapes`), `Alones` and `Settles`. `Alone`
  says that what is, or by a rebase may become, a follow-up of an annotation is at
  most one package, the one its plan reserves; and that only one of the two versions
  of an annotation is planned. That a plan is stored before its package, with the
  frozen time that identifies it, is the whole reason why replays and racing imports
  converge. `Settled` says that of the duplicates which a repair retires, none is
  the one related. Proved: `FollowUpsStayOne`.

The attempts changed the models. A split resumed while it is recorded is published
incomplete, which a split of one member cannot show. A rebase
gives the follow-ups of the former version to the current annotation, so that
duplicates over both versions had to be recognised in the initial state; and two
repairs may undo each other. TLC confirmed each with the workloads that are now part
of the runs.

The proofs cover every invariant, action property and refinement that a passing run
checks. Only model-checked are the liveness properties: `FilesAreProcessed`,
`GoneFilesAreRetired`, `RowsAreCompleted`, `SubmissionsReturn`, `BatchesArePublished`,
`PendingEdgesSettle`, `PassedResultsAreApplied` and `ObservationsSettle`, since the
prover handles neither fairness nor `ENABLED`. They are shown
for the instances of the runs, and so are the four disagreements. No module uses
a `RECURSIVE` operator; results that need induction over data are not attempted:
ancestors are stated by sets that are closed under the parent, not by recursion.

## Plan

Done: the store, the claims, the corrections, the hierarchy, the analyses with the
maintenance thread, and planned maintenance, with the theorems of their safety.

Next: the lemmas that two proofs share (updates of a function of records, steps that
leave a process alone) in a form both can cite; the stages of a Gmail batch and the
source registry as components, when there is a property of theirs that more than one
process can break.

## Not modelled

- The superseded projection: a correction that is resumed or slower publishes over
  a newer one (`orchestrator.py:3012`); the code attempts no order.
- Gmail bodies: one process imports a batch, stage by stage, with writes that are
  the store's; the registry and its migration run alone as well.
- Reading and parsing of files and mail, the AI runner itself, scoring and
  classification, read models, presentation and installation of skills: I/O,
  formatting, or decisions on one call's input without state of their own.
- `src/flowguard_models`, scripts, plug-ins and tests: development tools.

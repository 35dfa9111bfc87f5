# A formal model of CAO's lifecycle

CAO (`src/scripts/`) keeps the state of coding work in plain files under
`.orchestrator`: Works, sessions, runs and their evidence, the project's
background, an event log, and journals of operations that touch more than one of
them. It has no server. Every command is a short-lived process; several may run at
once, any may be killed, and editors, hosts and providers change the same files
and the product meanwhile. What must hold in spite of that is decided by a lock, a
store, a few journals, and by the rules for which result, reply or report still
counts when it arrives. This project models that code in TLA+, checks the models
with TLC, and proves with TLAPS all the safety that the runs check.

Contents: [1 the system](#1-the-system), [2 the modules](#2-the-modules),
[3 the runs](#3-the-runs), [4 fairness](#4-fairness), [5 proofs](#5-proofs),
[6 observations on the code](#6-observations-on-the-code),
[7 not modelled](#7-not-modelled), [8 plan](#8-plan).

## 1 The system

Components, with the state each keeps and what makes it correct.

**Repository transaction** (`state_store.py`; `RepoLock`). A process-wide
re-entrant mutex per repository, a thread-local nesting depth, an advisory
operating-system lock on `state.lock`. Operations: enter (block, poll, time out),
nest, leave. Every other component writes under it. Hard: threads and processes
together, time-outs between the two acquisitions, death of a holder. Correct when
one transaction runs at a time, nothing leaks, and whoever waits gets an answer.

**Work store** (`cao_work_store.py`, `lifecycle_guard.py`, the log in
`cao_runtime.py`; `WorkStore`, abstract `WorkLedger`). Per Work a record and,
under lifecycle contract 2, a guard that names the last authorised bytes; one
index; one event log. Operations: load, save, recover the index, drain queued
events, `lifecycle recover`. A save is eight durable writes or more, and drains the
queues of other Works on the way. Hard: death between any two writes, power loss
and fsync failure, stale copies, writers that do not know the guard. Correct when
saves are atomic to readers, no event is lost or doubled, and one Work is active.

**Work operations** (`work_operations.py`, `requirement_amend.py`,
`deferred_work.py`, status commands of `cao_work_commands.py`; `WorkSwitch`,
abstract `WorkBoard`). A journal per operation: `switch` moves the active place
from one Work to another, `amend` replaces a requirement file and the Work's
anchor. Operations: write the journal, recover it (at once, or later by
`switch recover`), abort it; every other write is refused while a journal is
open. Hard: death at every write, recovery beside recovery and beside abort,
edits of what the journal inspected, pausing after repeated conflicts. Correct
when an operation is all or nothing, is finished or aborted in the end, and
nobody else touches its Works in between.

**Verification runs** (`cao_verification.py`, `runtime_execution.py`,
`runtime_finalize.py`, `runtime_queries.py`, `runtime_commands.py`;
`VerificationRuns`). A run reads the Work and the inputs with no lock, is
admitted under it, executes without it for a long time, and commits its verdict
under it; `start.json`, `admission.json` and `receipt.json` tell what a dead
executor had got to, and `finalize` and `abandon` act on that. Hard: everything
that moves the Work on meanwhile, two runs, finalize beside the executor, deaths
between the records. Correct when a pass is official only for the newest run of
a Work that has not moved, on complete records, once.

**Sessions, host events, effects, provider restarts** (`cao_sessions.py`,
`cao_host_events.py`, `host_effects.py`, `effect_resolution.py`,
`provider_restart.py`; `HostSessions`). Per session and host a record that names a
Work; immutable handoffs; calls of tools that began and have not been seen to end;
pending restarts. Operations: the host's events, handoff, settle, install, and the
status commands that attach sessions. Hard: a handler is several writes; ends come
late, twice or never; Works take turns under a running call. Correct when a late
report neither moves a session nor settles another Work's effect, what runs is
accounted for exactly once, and nothing writes for a Work that is not active, under
an open switch, or with resources that are not loaded.

**Project background, set-up, baseline** (`project_commands.py`,
`project_context.py`, `project_setup.py`, `verification_probe.py`;
`ContextChange`, `ProjectChecks`). Immutable revisions behind one pointer; changes
with an owner; per scope a set-up record, verification files, and the results of
checks. Operations: set, bind, propose, apply, finish; plan, apply, check,
materialize, check --project, recover. Hard: three files per command, deaths
between them, checks that run without the lock, proposals applied much later.
Correct when a change moves one scope by one revision for one Work, a result on
record is of one run of what is there, and no Work starts on a baseline nobody saw
pass.

**Native executions and evidence** (`native_execution.py`,
`native_host_execution.py`, `lifecycle_contract.py`, `completion_repairs.py`,
`evidence_archive.py`, `native_reports.py`, `lifecycle_migration.py`;
`NativeExecution`, `NativeEvidence`, `NativeCompletion`). Under contract 2 a Work is
completed on results of commands it ran, evidence attached to it and a binding of
reports. Operations: execute, retry, abandon, the host's receipts, attach, bind,
repair, verify, done, reopen, migrate, rollback. Hard: late executions, a binding
used long after it was made, results of before a repair, one report for two Works, a
migration cut short. Correct when completion rests on results of what is there, no
result serves two Works or comes back from the dead, a product repair ends on an
execution after it (it does not: section 6), and a migration loses nothing.

**Route approval and native reviews** (`native_route.py`, `cao_native_sync.py`,
`native_obligations.py`, `review_dispatch.py`, `review_observation.py`,
`review_binding.py`, `review_resolution.py`, `native_loopback.py`;
`SpecApproval`, `NativeReviews`). A declared route with a
digest of the intent, requests shown to a human and their replies, the baseline of
the verification policy; tickets for review layers, the sessions of reviewers,
their findings and the loopback. Hard: a reply may come after what it answers was
replaced; sessions start, report and end in any order while the code moves.
Correct when nothing stands in for a human, and a ready review was made by as many
sessions as layers, after their tickets, on the code there is or patches of it.

**Plans, acceptance and completion under contract 1** (`cao_plans.py`,
`sdd_acceptance_runtime.py`, `sdd_acceptance_commands.py`, `cao_completion.py`,
`provider_execution.py`, `cmd_done`, `cmd_reopen`; `PlanScope`, `Acceptance`,
`ContractOne`). The requirement's tasks as the provider keeps them, the workflow
record, the SPEC binding, technical verification, and an independent acceptance of
declared criteria; `done` judges twice, around a command of the provider. Hard: five
kinds of file may be edited at any time, executors die and come back late, tasks
appear and vanish, the command may be applied and its owner dead. Correct when a
completed Work was accepted as it is now, has nothing unfinished, and its
transition was not applied twice.

How they interact: all of them call the store inside the transaction; the store
drains events into the log; an operation's journal closes the store to all writers
but its own recovery; a Work's `execution_generation`, raised by status changes,
amendments and recoveries, is what every run is compared with; a switch asks for
unresolved runs and effects; the hook in front of a write asks sessions, restarts,
the route, the policy and the active Work; starting a Work asks the background and
the baseline.

`PROJECT.json` lists all components with their sources, and under `hazards` each
place where an order, a death or a stale value decides.

## 2 The modules

```
RepoLock  <--------------------------+         WorkLedger  <== refined by ==  WorkStore
ContextChange <--- ProjectChecks <---+--- LockAndProjectProofs
VerificationRuns <--- VerificationRunsProofs   WorkBoard   <== refined by ==  WorkSwitch
WorkStore  <--- WorkStoreProofs                WorkSwitch  <--- WorkSwitchProofs
HostSessions <--- HostSessionsProofs
NativeExecution <--- NativeEvidence <--- NativeCompletion <--- NativeCompletionProofs  (contract 2)
SpecApproval    <--- NativeReviews   <--- NativeReviewsProofs
PlanScope       <--- Acceptance     <--- ContractOne   <--- ContractOneProofs     (contract 1)
MC*: instances for TLC
```

An arrow is EXTENDS: the module at its head holds the state and the operations of
one component, the next one adds a component that works on the same records, and
the last has the specification. Across the chains the modules are composed by
abstraction. `RepoLock` shows that a transaction excludes others, so elsewhere
what happens under the lock and cannot be interrupted is one step. `WorkStore`
takes a save apart into its durable writes and shows that it is one step of the
ledger; the others write a Work in one step. `VerificationRuns` has a
verification's inner life, which is one step in `NativeCompletion` and two in
`Acceptance`.

Where a handler writes several files (`HostSessions`, `ContextChange`,
`ProjectChecks`) it is modelled as the sequence of disks those writes leave: the
handler completes, or a death leaves one of the earlier ones.

Operators called `...Without...`, `...Unchecked` and the like, each commented
as a mutant, are deliberately wrong variants of a definition. They are used in
no specification; each shows that some property notices the mistake.

### RepoLock
`pc` is the position in `repo_transaction`, `mutex` and `count` the RLock of each
process, `depth` the thread-local depth, `oslock` the descriptor that holds the
lock. Each statement that another thread can see is an action. A process dies by
`Crash`: its memory and its descriptors go.

### WorkStore
`file`, `guard`, `log`, `index` are the files; `synced` is how much of the log an
fsync has made durable; `snap` is the copy of a Work a command holds, which may
come from an earlier transaction; `txn` is the command in progress, with the
durable write it comes to next. A record keeps its revision, generation, status,
contributions (`notes`) and queued events. `Load`, `Begin`, `Save`, `Refuse`,
`Recover`, `Rescan` start commands; `WriteWork`, `SealGuard`, `Drain`,
`AppendEvent`, `ClearQueue`, `Scan`, `PickWork`, `WriteIndex` are their writes in
the order of the code; `GiveUp` is an exception in a nested read. `Crash`,
`PowerLoss`, `FsyncFails` and `ForeignWrite` are the environment. `seen` and
`owed` are history: what a command has been shown, which events are due.

Reading matters as much as writing: `verify` seals or removes the guard of an
interrupted write, so each read of a Work updates `guard`, in the order the code
reads (`ReadBeforeFailure`).

`WorkLedger` is what callers rely on: one value per Work that changes by whole
commits, revision by revision, and events that become public once and after
their commit. The refinement takes a record to count when the file is replaced,
and an event when it is durable.

### WorkSwitch
`work`, `file` (requirement bytes), `product`, `cfg`, `stale` (Works bound to an
older project context), `busy` (the inputs a live or unknown execution started
from), `ops` and `repairs` (journals and their recorded failures), `lock`, and
per process `proc`, the step of the operation it is in. A recovery reads its
inputs with no lock (`Look`), validates under it (`Enter`), replaces the
requirement file (`PutFile`), marks the journal, writes the Works one by one
(`Apply`) and commits; a refusal is counted (`Note`). The journal's writer goes
on to the same steps under the lock it already has. The one-Work commands
(`Defer`, `Start`, `Block`, `Reopen`, `Done`, `Rebind`, `RunStarts`, ...) are one
step each. `earned` is the accepted evidence, reduced to the state of the product
it was earned on.

`WorkBoard` says that a move is one step: with an open journal's Works read as
they were before it, no reader sees a source that has left for a target that has
not arrived.

### VerificationRuns
One Work; `status`, `gen`, `seq`, `ver`, `said` are the fields of its record that
decide about runs, `run`, `files` and `outcome` what each executor has done and
left, `inputs` a value that stands for everything a verification depends on,
`fresh` the executors whose copy of the Work is still current (`load_work(...) !=
original_work`), `finalizer` a finalize between its two transactions. Each
command that changes the status, the generation or the inputs is an action.

### HostSessions
`disk` is everything kept in files: the session records by host, the Works' agents,
the handoffs, for each call where it began, ended or was settled, the active Work,
a switch's journal and the pending restarts. `stage` says where each call really
is, which only the host knows; `owed` whether the host has yet to load what was
installed for it. The events of a host (`SessionStart`, `Prompt`, `PreTool`,
`PostTool`, `Stop`, `SessionEnd`, ...) and the commands are actions; `Writes` lets a
handler end on each of its disks. The gates of other components before a write are one
choice of the environment.

### ContextChange and ProjectChecks
A revision's identity is a digest of its content and of the one before, so a
revision is the sequence of all contents up to it; `disk.revisions` are the files,
`disk.context` the pointer. `disk.changes` and `disk.works` hold the proposals and
the Works' bindings. `ProjectChecks` adds the set-up plan and result of a scope,
verification files, recorded runs and certifications (`baseline`), and the checks
that run (`process`), each from its reading of the inputs to its result. Every command of
both runs inside one transaction of `RepoLock`, which is why a command is one step here;
a check holds the lock only while it begins and while it ends, and is two.

### NativeExecution, NativeEvidence, NativeCompletion
`work[w].rows` are the results of executions and the host's receipts, `runner`
what each process is doing between its two transactions, `file` the reports,
`product` what results are about. A report's text is a runner's output,
a named result, a statement, a result that cites a log, or prose. A binding is stored by
`Bind` and judged again at every use (`Usable`, `EvidenceReady`), as the code does.
Completion is `DoneJudges` and `DoneCloses`, with the provider's transition in between;
`Migrate` and `Rollback` are a journal, a save and a seal that may come later.

### SpecApproval and NativeReviews
`consent` is the Work's record: route, requests, anchor, implementation;
`talk` what the human and the host know, with `agreed` and `vetted` what was
really said. A reply is a prompt in a session, or the answer to a question that was
bound when it was asked. `reviews` holds the run of each layer with its ticket,
`session` what the host observed of each reviewer. A write of the product is
judged by the hook's own decision (`RouteReady`, `PolicyAccepted`).

### PlanScope, Acceptance, ContractOne
`file` holds the versions of code, requirement, SPEC and configuration, and who
wrote the declared output; `plan` the provider's items. `work` is the Work as saved,
`jobs` the living executors, `saw` in a record of a run the files as they were when its
executor began, `closing` where
each `cao done` is, `past` what really happened. Every command that observes the
plan saves what it found, so `Observe` is part of each of them. What an
executor brings back (`VerifyFinish`, `AcceptFinish`) is compared with the Work as it is
then; `cao done` is `Judge`, `Launch`, `Ends` and `Close`, with a journal row in between.

## 3 The runs

Eleven pass; `declared_refresh` shows what the code does against its own documents.
States are distinct states.

| run | asks | instance | states |
| --- | --- | --- | --- |
| `repo_lock` | exclusion, leaks, answers, that the lock comes free | 2 processes, one with 2 threads, 3 levels | 160 |
| `work_store` | readers only go forward, events once and never lost | 1 guarded Work, 2 agents, 2 faults, 1 foreign write of any kind at any moment | 443 thousand |
| `work_store_pair` | one active Work, acknowledged means settled, refinement of `WorkLedger`, that queued events are published | 2 Works (one guarded), 2 agents, 1 fault, 1 foreign overwrite | 536 thousand |
| `work_switch` | what a journal promises, refinement of `WorkBoard` | 2 Works, 2 processes, 2 requirement contents, 1 operation, 1 edit (of a file or of the context), 1 crash | 1,165 thousand |
| `switch_liveness` | an open operation is resolved | 2 Works, 1 process, 3 requirement contents, 1 operation, one edit of any kind, 1 crash | 653 thousand |
| `verification_runs` | all safety of runs, and that a waiting Work gets an answer | 2 runs, 2 values of the inputs, generation up to 1, 1 edit | 598 thousand |
| `host_sessions` | attachment, effects, handoffs, writes | coordinator and subagent, 2 calls, 2 Works; 5 profiles | 372 thousand |
| `project` | changes of the background, set-up and checks | 1-2 Works, 1-2 scopes, 2 stacks, 2 processes; 8 profiles | 764 thousand |
| `native_completion` | what a contract-2 Work is completed on, migration | 2 Works, 2 executions, 1 host call, 2 processes; 7 profiles | 695 thousand |
| `declared_refresh` | whether a product repair needs an execution after it: it does not | the same | (fails) |
| `native_reviews` | human consent and reviews | 2 sessions of the coordinator, 1 question, 2 reviewers, 1-2 layers; 6 profiles | 299 thousand |
| `contract_one` | what a contract-1 Work is completed on, late results, the transition | 1 Work, 2 plan items, up to 4 runs, 2 `cao done`; 16 profiles | 590 thousand |

**Profiles.** A component with many operations has an instance that lets all of them
happen at once only at sizes where nothing interesting happens. The runs from `host_sessions` on
therefore have a variable `limits` that is chosen at first and never changes: a profile,
which bounds each kind of event. Every profile runs the same specification, so what is
left out in one is still guarded as in the code; and the profiles of a run are commented
by the question they put. A budget is spent in the guards (`used`, `Spend`, the fields of
`limits`) and bounds only what somebody outside decides to do: an edit, a command, a death.

**What the properties say.**

* `MutualExclusion`, `NothingLeaks`, `WaitersAnswered`, `LockComesFree`: one
  transaction at a time; whoever leaves or dies takes nothing along; whoever waits is
  answered; and the lock is free again and again.
* `StoreSound`, `ObservedOnlyAdvances`, `AcknowledgedMeansSettled`, `EventsPublished`,
  `ImplementsLedger`: see section 2.
* `BoardSound`, `JournalKept`, `OpenResolved`, `ImplementsBoard`: an operation changes
  its Works from before to after and only them, it suspends none that is executing (unless
  it is behind the project context: section 6), it is committed with all of them moved, and
  then it is over for good; and it does end, but for one dead end (section 6).
* `AcceptsOnlyNewest`, `PassedIsBacked`, `VerdictStands`, `VerdictReached`: a pass is
  official for the newest admission of an unmoved Work, on a complete trail, once; an
  abandoned run stays out; a waiting Work gets an answer.
* `AttachedInOrder`: a report of what is over never attaches a session, and a Work names
  an agent only when its session is attached. `EffectsAccounted`: a running call is an
  open effect of exactly one place until its end or a settlement. `WritesInBounds`: a
  switch leaves nothing running, a write that begins is the active Work's, and none
  begins between an installation and the start that loads it. `HistorySound`: no link to
  a handoff that is not there, none recorded twice.
* `ChangeContained`, `FilesAgree`: a change moves one scope by one revision, for the one
  Work that owns it; what the files say of each other survives deaths. `ChecksSound`,
  `BaselineHolds`: a result on record belongs to one run of the plan, background and
  files that are there; a certification, once shown, is not lost to a failed check; no
  Work starts without one.
* `CompletedOnEvidence`: at the moment of completion every bound result is of what is
  there, however many edits, switches, repairs and second thoughts came before.
  `OneClaimPerResult`, `ResultsAreEarned`: no result serves two Works, and an execution
  that was given up never passes. `RepairNeedsExecution`, which fails: a repair ends on an
  execution after it.
  `MigrationKeepsProgress`: moving between contracts, and back, loses nothing and never
  lowers the generation.
* `HumanDecides`: whenever the hook would let the product be written, a human agreed to
  this route, intent and policy; a conflict with an intent stands, over edits of
  the intent and back, until a human decides again or a restart under another intent puts its
  record away (section 6). `RepliesApproveWhatWasAsked`: a reply decides one record, and an answer
  only what its question was about. `ReviewsSound`: ready reviews are of as many sessions
  as layers, each begun after its ticket, of this code or of patches of it.
* `CompletedIsEarned`: the accepted executor began on code, requirement and SPEC as they
  are at completion, under the declaration agreed to, after the last reopen; of a reused
  verification this holds for the code only (section 6).
  `NothingUnfinished`: every task ever seen in the requirement's plan is there and done.
  `LateResultsChangeNothing`: who comes back after its run was replaced changes no
  verdict. `RecordsSound` (`ContractOne`): runs on record are of this generation and
  declaration, and the transition is not started twice unless somebody found that the
  first did nothing.

Every property of a passing run has at least one mutant in `PROJECT.json`: a small wrong change
of the code's own rule that makes the run report that property.

**Why the bounds are enough.** Each property needs few actors and one or two
disturbances to be broken, and for each there is a mutant that the run catches.

* Threads: the third thread, in another process, is what the two levels of the
  lock are for. Three levels give an inner, a middle and an outer exit.
* `MaxRev = 4` for one Work is two saves with a drain in between (a drain raises
  the revision, too), so a stale copy meets a newer record. Two faults are an
  interrupted drain and an interrupted repetition of it; power loss after a failed
  fsync needs both. `MaxRev` bounds commands only: recovery saves above it.
* Foreign writes happen only to a Work that has a guard: before that they are
  indistinguishable from the engine's own. `ForeignInWindow` says whether they
  may hit a guard that is only prepared. `work_store` allows it. The refinement
  does not: there the guard cannot tell the restored old record from a write that
  never happened, and what the ledger reads as the authority would go back.
* Three contents of a requirement are the old one, the new one, and what somebody else
  wrote meanwhile, on which an amendment pauses; two are enough where only safety is asked.
* `MaxOps = 1`: a journal bars any other, so operations do not overlap; the
  barrier, and a recovery that comes after the commit, need only one.
  One crash leaves an open journal at each of its writes; the recovery that
  follows runs beside another process.
* Two runs overlap in each way that a sequence number or a generation has to
  tell apart. A generation of at most 1 separates before from after.
* Sessions: a session that belongs to another Work than the active one, and a call that
  began before the Works changed places, need two Works, a coordinator with or without a
  subagent, and one call each. The child matters because it inherits its parent's place.
* Background: five revisions are a set, a change, a change of mind and a later
  application; two Works are an owner and another in the scope; the two named scopes and
  `root` overlap in every way the code distinguishes. Checks: two of them beside each
  other, and a third that finds what a death left.
* Evidence: two executions are one given up and one that replaces it, or one from before
  and one from after a repair. Two bindings are the one that counted and the one offered
  again. Two edits change an input and change it once more.
* Reviews: two routes and three requests are one that is replaced while its answer is
  under way; two layers and two reviewers are every wrong pairing; three tickets of one
  layer are a round, its restart and a late session of the first.
* Contract 1: a file has two contents and may be edited any number of times, away and back,
  so that what a record was made from can come to match again. Two items are one that is done and one that appears or vanishes; two
  generations are before and after a reopen; two processes in `done` are one between its
  two judgements and one that overtakes it.

**Reductions.** `work_store`, `work_switch`, `host_sessions`,
`native_completion`, `declared_refresh` and `native_reviews` use symmetry, with safety properties only. Each
permuted set is treated alike by the next-state relation; a profile that names one of
them is permuted with the state. `View` of `work_switch` drops finished journals and a
history variable, which no guard and no property of that run reads. `switch_liveness` and `verification_runs` fix which of the interchangeable contents is
there at first (`OneStart`). `StorySpec` of `MCWorkSwitch` lets one-Work commands lead up
to the operation and leaves executions out: neither appears in what a recovery asks.
`CHECK_DEADLOCK FALSE` is used where all commands are bounded and all are
optional: a repository in which nobody issues a command stops, by design.

## 4 Fairness

Nobody has to issue a command, so commands that begin something get no fairness.

* `RepoLock`: a thread that has begun goes on (`Progress`). Bodies terminate,
  also those nested inside one another, which takes strong fairness of their
  exits because they are entered again at will. A waiter either gets the lock or
  its deadline passes.
* `WorkStore`: a command that has begun goes on or dies. Users keep issuing
  commands, all of which start with reading the index (`Rescan`), and follow the
  error message that tells them to run `lifecycle recover` (`Recover`). Strong,
  because other commands hold the lock in between.
* `WorkSwitch`: an operation's process goes on; `switch recover` is issued again
  as long as a journal is open; and somebody puts back what was edited, as the
  conflict messages ask (`Restore`). Without the last, `OpenResolved` fails, and
  should: cao never overwrites an edit. Even with it one end is left, `DeadEnd`: an
  amendment that paused on a requirement file of which the pause takes no notice.
* `VerificationRuns`: a live executor goes on; `abandon` is issued if it is
  possible again and again. Finalize gets none.
* The other modules have no liveness property: in all of them progress is a person's
  next command, reply or edit, which nothing in the code makes happen.

## 5 Proofs

For every value of the constants, `MaxGen`, `MaxDepth` and the other bounds
included; assumed are only the named `ASSUME`s of the modules.

**LockAndProjectProofs**, the transaction (`LockAssumption`: every thread has a process). `IInv` adds to
the type that the mutex belongs exactly to the thread between acquisition and
release, that its count is the depth inside a body and 1 around it, that depth is
positive exactly inside, and that the lock is held exactly inside or about to be
closed. Exclusion alone is not inductive: nothing in it says that a thread at
depth 2 holds the lock it does not take again. Proved: `TypeCorrect`,
`Exclusive`, `NoLeak`, `Agreement`, and `Consistent`, the run's `WellFormed`.

**LockAndProjectProofs**, the project (`ContextAssumption`: `root` is a scope, the
placeholders are none of the values, the bounds are numbers and sets of these;
`ChecksAssumption`: the placeholder is no process, plan, result or standard). The lock's
theorems and these share a module because exclusion is what justifies modelling a command
as one step: its files are written by nobody else meanwhile. That is an argument about the
models; no step of the second proof cites the first. `ProjectInv` has these parts:

* `Fine` of the disk: every revision up to the pointer is kept (`Kept`); a change in
  progress was begun, names its owner and is shown by its scope (`ActiveOK`); a completed
  one was begun and is no longer in progress (`CompletedOK`); and what the record of a
  Work may say (`Right`): it is bound to no revision still to come, its change was begun
  and is its own, and if another Work's change is in progress it is not bound to the
  present revision in that change's scope;
* `SetupOK`: a result is of the plan on record, and one that passed was found of the
  plan's background with the files it began with;
* `ProcessOK`: a check in progress is the one its scope names, has seen the plan that is
  there or holds the certificate that was there, and shares its number with no other;
* `CertifiedByARun`; code is not edited more often than anything is; the types.

What the run checks is not inductive. `CompletedWasAccepted` says nothing of a change that
has begun and is not finished, so that `Begun` (the revision after the base shows the change)
is carried from `apply` on. `OnlyTheOwner` speaks of every Work whose record is written,
were it only suspended or bound anew: that it then holds no change of another rests on
`Right`, that the change it held before was its own. `OneCheckPerScope` follows only from what the scope's
record names. `ResultIsOfThePlan` needs, while the check runs without the lock, that the
plan it read is the one on record: `NotRunning` keeps `plan` and `apply` out.

Each command leads through a list of disks, so a lemma per command says that every disk of
its list is `Fine` (`SetContextFine`, `BeginFine`, `DoneEndsFine`, `PlanSetupStep` and the
like) and that it `Follows` the disk before: by at most one revision and one scope, a stack
moved only for a change or when no Work is bound to it (`Settled`), and no Work brought
into another's change (`WorksFollow`). The `Written` and `Left` lemmas carry that over a death
between two of the writes. Proved: `ProjectInductive`,
`ProjectFilesAgree` (`FilesAgree`), `ProjectChecksSound` (`ChecksSound`),
`ProjectChangeContained` (`ChangeContained`), `ProjectBaselineHolds` (`BaselineHolds`):
all that the run checks.

**VerificationRunsProofs** (`RunsAssumption`: the placeholders are no runs and no
inputs). The invariant has seven parts:

* `TrailInv`: which records are on disk, and whether there is an outcome, for each
  stage of an executor, including what a dead one may have left;
* `SaidInv`: nothing is said of a run before its admission, no verdict while its
  executor is alive and has not committed;
* `OfficialInv`: the official run was admitted; while it is running it is the
  newest, and has no verdict;
* `SequenceInv`: a preparation that is still current has the next place, one being
  admitted holds the lock and is still current, places taken are behind and
  different;
* `FinalizerInv`, `PassedIsBacked`, `TypeOK`.

`SequenceIsUnique` needs the third clause of `SequenceInv`, that what is being
admitted is still current: the comparison under the lock is what keeps two
preparations from the same place. `VerdictIsFinal` needs `OfficialInv` for the
executor that commits after finalize, and `SaidInv` for the reverse.
The proof is laid out by what a step leaves alone: `Still` for the commands that
leave all executors alone, `Own` for the steps of one, `Alone` for the others
meanwhile; then a lemma per part of the invariant. Proved: `Inductive`, and from
it `TypeCorrect`, `Backed`, `Unique`, `OnlyNewest`, `Final`, `StaysOut`; and the
run's own `WellFormed` and `VerdictStands` as `Consistent` and `Stands`.

**WorkStoreProofs** (`StoreAssumption`: Works are numbers, scanned in their order; the bounds
are numbers; the placeholders are no records, guards or events). `StoreSound` says that the event of a
committed record is durable or queued *by that record*, which no write preserves by
itself: between the guard and the file two records are possible, and the command's next
write was chosen from one of them. `IInv` therefore speaks of all records the guard of a
Work could still make the present one:

* `GuardInv`: a guard accepts a record and its successor only, and what it holds is no
  older than what anybody has read; `SnapInv`: no copy in memory is newer;
* `TxnInv`: what each step of the command in progress relies on, above all that the
  record being written keeps the events still owed, and that before the queue is cleared
  they are all in the part of the log that survives;
* `EventInv`: an owed event is durable, or queued by every acceptable record; no complete
  line occurs twice.

There is a lemma per action, and one per half of a guarded write (`PrepareStep`,
`CommitStep`, `ReadStep`). Proved: `QueueIsSound` (the run's `StoreSound`) and
`ReadersOnlyAdvance` (`ObservedOnlyAdvances`) for all kinds of foreign writes;
`OneActiveWork` (`SingleActive`) and `IndexIsSettled` (`AcknowledgedMeansSettled`) where
foreign writes only put unreadable contents into a file (`OverwriteOnly`), which is the
setting of the run `work_store_pair` that checks them and is needed: §6 tells how a
deleted file lets two Works be active. For these two `OneContends` is carried along: one
Work at most is active, or about to be, in its file, its guard or the command in progress.

`StoreImplementsLedger` (`ImplementsLedger`) is the refinement, under `OverwriteOnly` and
`OutsideWindow` (no foreign write while a guard is only prepared), again the setting of that
run; inside the window an overwritten file takes a Work back to the record before, which the
ledger does not allow. `LInv` is what it adds:

* `DamageSealed`: only a sealed Work is damaged, so its guard still says what it is; `Holds`
  is that value, and `View` says that it is what the mapping computes;
* `LedgerStep`: what a command is about to write either extends the record that is there or
  empties its queue, and then all of the queue is durable; what it appends is queued;
* `Unsynced`: a line that is not durable yet is torn or stands for an event that is queued.
  This is what makes a power loss harmless, and what lets a late fsync publish the lines of
  a command that died.

`LedgerSteps` splits the steps: the write of a record (`LedgerMoves`: one `Commit` or one
`Settle`) and all others, which keep what every Work holds and at most let the log grow
(`LedgerPublishes`: one `Publish`, or a stutter). The mapping of the log, `Complete`, leaves
out torn lines by a recursive function; `Collects` describes its values, and
`CollectionExists`, `CollectionsAgree`, `Collection` and `CollectionGrows` prove by
`SetInduction` that it is defined, depends on the lines alone, and only grows at its end.

**WorkSwitchProofs** (`WorkSwitchAssumption`). `IInv` says of every open journal that it is
the only one and what it says of the board (`Switches`, `Amends`: the target waits, the
one other Work named is the active one), of every process the lock it holds
(`LockInv`), and of the process that is recovering that the Works it has not written yet
are where the journal found them (`WriterInv`). `SingleActive` alone is not inductive:
between the two records of a switch it holds only because of what the journal says the
rest of the board looks like. Proved: `BoardIsSound` (`BoardSound`); `JournalIsKept`
(`JournalKept`: while a journal is open only it writes its Works, from before to after; it
suspends none that is executing, unless it is behind the project context at that moment;
it is committed with all of it in place; final is final), for all behaviours, the project
context changing at any time; and
`MoveIsOneStep` (`ImplementsBoard`): the refinement, in which a switch becomes visible
when its journal is committed, and each other write maps to a stutter.

**HostSessionsProofs** (`SessionsAssumption`: coordinators and children are different,
the placeholder is nothing else, the bounds are bounds). A handler is a sequence of
disks, and may leave any of them; so the lemmas are about sequences: `RegisterFine`,
`UpdateFine`, `HandOverFine`, `Observing` say of every disk a helper may leave how it
follows from the one before (`Follows`, `Stays`, `Notes`), `JoinFollows` and
`WritesJoined` put them together, and each action's lemma uses these. `IInv` adds to the
files' soundness `CallInv`, which says of a call at each stage what the files hold of it,
denied and unseen calls included, and `OwedInv`, that what the host has to load is in
the restart file. Proved: `HistoryIsSound`, `EffectsAreAccounted`, `AttachmentIsOrderly`,
`WritesStayInBounds`, the four properties of the run.

**ContractOneProofs** (`PlanAssumption`: what the bounds of a behaviour may be;
`AnchorAssumption`: the placeholder is no anchor). A Work carries copies of facts about the
files, and closing compares copies with files; what the copies are worth is what `IInv`
says, one conjunct per record:

* `VerOK`, `AccOK`, `RunOK`: a run began in the generation and under the declaration it
  stands for, and on the code it was recorded with; an acceptance run also on its requirement
  and SPEC, unless it took over a verification. What `done` compares with the files is what
  was recorded, so an edit that is put back makes a run count again, and rightly. Run
  numbers only grow, so a replaced run's number is never another's;
* `PlanOK` (`Tracks`): the Work still knows every item that any observation told of: they
  are in its scope or, for the tasks of a SPEC, among its known items while the SPEC is its
  route. Each kind of plan has its lemma (`TasksObserved`, `SprintObserved`,
  `StoriesObserved`, `SpecObserved`), joined in `Watched`;
* `RowsOK`: only the last row is unresolved, and a running command is its own.

There is a lemma per action; those of the runs go through `RunStep`, those of plan,
workflow and gate through `OuterStep`. Proved: `RecordsAreSound` (`RecordsSound`),
`CompletionIsEarned` (`CompletedIsEarned`), `CompletionLeavesNothingOpen`
(`NothingUnfinished`), `VerdictsAreFinal` (`LateResultsChangeNothing`), the four properties
of the run.

**NativeReviewsProofs** (`ApprovalAssumption`, `ReviewsAssumption`: the bounds are bounds,
the placeholder is none of the records). `HumanDecides` compares what is on disk with what
was really agreed to; `IInv` adds why the disk may be believed:

* `AgreedOK`, `AskedOK`: an approval in force is of what the human agreed to, and a question
  is bound to a request only if it was asked while that request was open, about its topic;
* `RoundOK`, `RunOK`, `SessionsOK`: no two layers have one ticket; a session bound to a run
  holds that run's ticket and is younger than it; a run's text was really said in it;
* `ConflictOK`: every conflict with an intent, the present one or another, that no restart
  under another intent put away (`talk.retired`) has a witness (`Contested`), the run that was
  classified with it, or the loopback that took the approval. That a conflict stands is not
  inductive without naming the witness: `Begin` refuses the restart that would lose the run,
  and a round after the loopback needs a new decision.

A reply may reach several requests through several records, so its lemmas (`EnsuredOK`,
`RepliedOK`, `ExposedOK`, `ReplyThenShown`) say what a reply may do to each. `Prepare` runs
through the layers, by a recursive function whose values are found by induction:
`SetInduction` states it of a set of naturals instead of a predicate, and follows from the
library's well-foundedness of `<`; `RoundsExist` and `RoundsGood` use it. Proved:
`HumansDecide` (`HumanDecides`), `ReviewsAreSound` (`ReviewsSound`), `RepliesAreHeardRight`
(`RepliesApproveWhatWasAsked`), the three properties of the run.

**NativeCompletionProofs** (`NativeAssumption`: a run is no host call, the placeholder is no
repair, an instance starts in a contract there is and with a Work there is). What the run
checks about completion is a matter of single steps; what makes it true is the bond between
a process and its row, which `IInv` states:

* `RowsOK`: rows have identities of their own, and nothing but the host's rows comes after an
  execution without a result. It is not enough that a running execution is the last one now:
  a retry abandons it and an older second may put the next one before the host's last row;
* `RunnersOK`: whoever executes has a row of its own, without a result or given up
  (`GivenUp`), which means of an older generation or with an execution after it. For such a
  row `StillValid` is false (`GivenUpIsInvalid`), so a late process cannot pass;
* `EntryOK`: a migration's journal holds a Work and the same Work in the other contract and
  the next generation; so what a resumed migration installs, and what a rollback restores,
  is the Work as it is, in the other contract.

Three lemmas on sequences (`Appended`, `Updated`, `Inserted`) and two on receipts (`Marked`:
rows end; `Widened`: a row comes in) carry the steps; `Calm` is what most of them are. There is
a lemma per action. `Received` (what `ReceiptMatches` accepts is of a row that passed on this
material), `ReadyIsBacked` and `ReadyAnswers` say what the second judgement of `cao done` is
worth. Proved: `RecordsAreSound` (`RecordsSound`), `ClaimsAreApart` (`OneClaimPerResult`),
`CompletionRestsOnEvidence` (`CompletedOnEvidence`), `ResultsAreOfTheirTime`
(`ResultsAreEarned`), `MigrationLosesNothing` (`MigrationKeepsProgress`), the five properties
of the run.

**Only model-checked.** Liveness, since fairness and ENABLED are beyond the prover:
`WaitersAnswered` and `LockComesFree` (`RepoLock`), `EventsPublished` (`WorkStore`),
`OpenResolved` (`WorkSwitch`), `VerdictReached` (`VerificationRuns`). Every other property
of a passing run is stated by a theorem.

## 6 Observations on the code

Each is what the code does, met while modelling it. `RepairNeedsExecution` has a run of its
own, `declared_refresh`; of the others, where a module states the property that fails it is
named, and adding it to the module's configuration gives the trace. Where a property of a run
makes an exception of one of them, this is said.

**The code and its own documents or comments disagree.**

* `PausedOnlyInConflict` (`WorkSwitch`): after two recoveries of an amendment failed on
  an edited requirement under `.orchestrator`, putting the file back does not lift the
  pause: that file is in none of the inputs the signature is made of. A prepared amendment can
  still be aborted then; an applying one cannot, and its journal bars every writer.
  `OpenResolved` excepts this pause by name (`DeadEnd`); to get there takes a content that
  is neither the old nor the new one.
* `StaysHistorical` (`WorkSwitch`): `block --suspend` and `unblock` bring a completed
  Work back to active with the evidence it was completed on.
* `SourceAtRest` (`WorkSwitch`) excepts a Work that is behind the project context: its
  recovery plan returns before it lists unresolved runs (`recovery_plan.py:66-69`), so a
  switch suspends it although its execution is alive. Without the exception the property
  fails; `references/task-continuity.md` says that known live or unknown runs of the source
  block switching.
* `SingleActive` (`WorkStore`) fails with foreign deletions: the file of an active,
  guarded Work is deleted, another Work is activated (the check looks at files that
  exist), and `lifecycle recover` brings the first one back as active.
* `SupersededStaysOut` (`VerificationRuns`): a verification recorded as superseded while
  the Work was suspended becomes the official pass by `finalize` after the Work is
  started again.
* `DoneEndsTheChange` (`ContextChange`): a Work whose `apply` was cut short after the
  context's commit can be done without ending its change, although
  `references/project-context.md:65-66` says that done stabilises the migration.
* `InterruptedCheckRecovers` (`ProjectChecks`): after the death of a set-up check and a
  `context set`, recover is refused with PROJECT_SETUP_CONTEXT_STALE, while plan and
  apply are refused with PROJECT_SETUP_CHECK_RUNNING;
  `references/project-initialization.md:100-101` names recover as the way out.
* `RepairNeedsExecution` (`NativeCompletion`, run `declared_refresh`): a statement of
  acceptance that names Work and code closes a product repair without any execution, and may
  have been written before it; the reports of before can be bound again afterwards for the same
  inputs. `references/native-lifecycle.md:140-176` and the advice in
  `lifecycle_contract.py:56` ask for results of after the repair.
* A conflict with the intent is retired without a human by editing the intent, restarting,
  editing it back and restarting. `review_dispatch.py:128-129`, `native_obligations.py:74-79`
  and `references/bmad-review-dispatch.md:63` and `:132` leave that to native clarification.
  `ConflictStands` remembers every conflict until a human decides, and excepts this one
  way of losing it by name (`talk.retired`).
* A reused verification may have begun on another requirement or SPEC than the acceptance that
  takes it over: anchor at one SPEC, edit it, `cao verify`, put it back, `acceptance reuse`,
  `done`. Neither `cao verify` (`cao_verification.py:257-378`) nor the technical inputs
  (`acceptance_inputs.py:17-29`) contain them, and reuse (`sdd_acceptance_commands.py:227-256`)
  compares no more. `CompletedIsEarned` excepts reused verifications (`run.reused`), and only
  in these two files.
* After a new route with another rendering of the same intent and layers, a review that
  passed under the old rendering stays ready, although the whole round is to restart.
* The guidance says never to attach a reviewer after its inspection; attach is possible
  after its output.

**Store, operations, verifications.** After a foreign write into a prepared guard, `verify`
advises `lifecycle recover`, which refuses guards that are not committed. `lifecycle
recover` writes the authorised bytes and then saves a raised generation: after a death in
between, the next one finds nothing to do, and the raise and the audit event never come.
A run whose executor dies between its start record and the save of the Work is unresolved
to the recovery plan, and neither `finalize` nor `abandon` takes it.

**Sessions.** A child's call is observed for its *parent's* current Work, so after the
parent resumed another Work a running call is recorded there. `session_end` hands over the
active Work even when the session is attached elsewhere. The event of a handoff is lost
when a death falls between its record and the Work's save. A restart entry without a host
is acknowledged by any host.

**Native completion.** A prepared migration whose Work moved on is refused by migrate
(RECOVERY_CONFLICT) and by rollback (PROGRESS_CHANGED) alike; which journal counts is
decided by a time in seconds, then by a random name. `execute` writes its report before it
saves the Work, and takes the owner lock after the transaction that admitted it. An
execution begun in the same second as a row of the host's sorts before it. A successful
host execution does not lift a recorded failure of binding, while `execute` does. A paused
binding can depend on the policy or on another Work's claim, which are not in its
signature. A re-execution that overwrites a log makes a review that passed on it stale.
Evidence attached with `--supersedes` answers any earlier result that did not pass.

**Reviews.** Code edited after all layers were classified clean is passed by `resolve`
without having been reviewed. Resolving layers one by one, with patches in between, makes
the earlier ones stale. A oneshot build never asks for a human's resolution; its review with
all layers clean can be classified but not submitted. A final message repeated as A, B, A
leaves artifact B. A reply without an identity that was meant for an older request approves
the one issued since in that session. One call with several questions binds all its answers
to one record. That a session is older than its ticket is asked twice (marker and attach).

**Contract 1.** A blocked observation of tasks, stories or a SPEC saves nothing of what it
found (`Told` has only the sprint's): a story that appears while another is gone, and is
gone later, is not missed. After a change of the
requirement `configure` with the same output name is refused until the file is removed.
The output of an executor that died, or that was replaced, blocks until somebody removes
it. The second transaction of `done` does not compare the generation: after a reopen
between transition and judgement it completes without the new generation's transition, even
while another process runs it. The end of a transition cannot be recorded when the outputs
are unreadable; its row stays open until it is resolved by hand. Plain tasks are guarded by
their count alone. Workflow commands have no guard on the Work's status, and `verify` saves
the observed plan even of a completed Work.

## 7 Not modelled

**Components.** What `PROJECT.json` lists as `not_modelled` has no state of its own that
another part depends on, or belongs to a parser or to the operating system: rendering of
review packages and diagnostics, forms of route declarations, text policies of
requirements and specifications, classification of shell commands, hashing of trees,
starting and killing processes, drafts of reports and one-way synchronisation of a
provider's status, installation of providers, instructions and guidance, command line and
dashboard, host adapters, release tools. Retention and quotas prune what is no longer read;
how they meet a live run is left open. What these parts decide enters the models as an
input: a verdict, a classification, an equality.

**In the modelled components.**

* *Store*: protecting a Work for the first time, moving archives of a foreign
  specification tool on load, `backup_once`, the advisory lock owner file.
* *Operations*: the handoff written before a switch; start with a changed provider; the
  amendment token and the requirement history; edits *inside* a command. The last is a
  real gap of the code: inputs are compared once, before the first write.
* *Verifications*: how readiness is computed before admission; receipts of single
  commands; projections, logs and quotas, pruning. A cancelled command is a failed one.
  Inputs that change and change back during a run are not noticed, as in the code.
* *Sessions*: what a handoff quotes beyond one content; a handoff's identity contains the
  dirty paths, taken not to include `.orchestrator`; observed models and tools.
* *Background*: evidence, paths, versions, the fields of a stack, forms of plans; the
  wrapper migration and the repair of verification entries by diagnosis.
* *Native*: the admission of a command's text is an input; obligations besides workflow and
  evidence are taken as fulfilled; of the workflow only its completion occurs; a repair
  follows a failed verification of the Work (the branch for a certified failing project
  result is left out); archived bytes and quotas.
* *Approval and reviews*: one model of reviewers; the active layers do not change; a tool
  call is one step with its hook; a reply is one word per request; receipts of a
  resolution's checks and per-finding files are "the code changed since the ticket".
* *Contract 1*: only Works bound to a project; each task has an identity (`minimum_tasks`
  left out); an edit of requirement or SPEC changes a criterion; files and plans are
  compared by content, so an edit that is put back while an executor works is seen by nothing,
  in the code as here (`saw` is what was there when the executor began); the workflow's artifact is the SPEC, which is not
  code; native route, review, planning, commit, context and conformance are taken as ready
  (the route matters only where the SPEC holds the tasks); the policy's review is
  `SpecApproval`'s; the archive relocation, discovery of references, suspension, several
  plans of a requirement, `covers` of criteria.

**Abstractions.** Contents, configurations and trees are values that are equal or not.
Time is absent: a deadline may pass whenever the code allows waiting. Wording is left out.

## 8 Plan

Done: the four core modules with their abstract specifications; sessions and effects; the
project's background and checks; both completion contracts; approval and reviews; proofs
for all of them. What is left, in this order:

1. An abstract `Evidence` (admitted, judged, late) refined by `VerificationRuns`,
   `Acceptance` and `NativeExecution`, which follow one scheme.
2. Retention beside a live run.

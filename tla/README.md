# Foxforge-code: specifications, model checks and proofs

This directory holds TLA+ modules for the parts of Foxforge-code whose
correctness depends on the order in which threads, processes, crashes and the
user do things, the TLC configurations that check them on small instances, and
proofs of safety properties for every instance. `PROJECT.json` lists the
components, the runs, the source lines every definition stands for, the
hazards, the findings and the theorems. Paths below are relative to
`src/SourceCode/`.

    tlc -config Ends.cfg MC_Ends.tla     # a run
    tlapm RecordProofs.tla               # a proof

## 1. The system

Foxforge-code is a local coding and research assistant. A terminal UI takes
messages and slash commands; an orchestrator turns them into calls of local
models, web searches and research pools; small stores keep what must survive in
SQLite or JSON files. Nothing central serialises it: each command of the UI
runs in a thread of its own, each `/msg`, `/forage` and MCP call builds its own
orchestrator, the MCP server is a second process, and all of them share the
files of one repository root. Locks belong to objects, and most objects are
made anew by every orchestrator, so a lock seldom keeps anybody out but the
threads of one command.

| Component | State | Operations | Hard behaviour |
|---|---|---|---|
| UI and dispatcher (`tui/app.py`, `tui/commands/dispatcher.py`) | active project, one thread per command | `/open`, `/plan`, `/execute`, `/build`, `/msg`, `/forage`, ... | commands overlap for minutes and share one state object; outcomes are applied later by the UI thread |
| Plan store and builder (`shared_tools/plan_store.py`, `agents_make/stack_builder_pool.py`) | plans with digest, supersession, execution | create, supersede, is_stale, build, mark_executed | check, then build; crash between build and mark |
| Turn pipeline (`orchestrator/main.py`, `pipelines/turn_graph.py`) | forage log, what a turn leaves behind | handle_message, conversation_reply, lanes, forage gate | a reply may be made three times; cancellation at every await; gate read long before the row is written |
| Research service (`orchestrator/services/research_service.py`) | set of active projects | light and heavy lane, pool, gap filling, finalizing | one heavy run per project across threads; exceptions and cancellations on every path |
| Research pool and report (`agents_research/`) | queue, running agents, findings; report files | submit, hand off, adjudicate, repair, write, translate, gate | pause against cancellation, agents in any order; two runs in one directory |
| Web research (`shared_tools/web_research.py`, `web_cache.py`) | source log, chunk table, query cache, backoffs | query, search, fetch, purge | threads share one engine: purge against append, backoff met by somebody else |
| Library (`shared_tools/library_service.py`) | items, chunks, files, artifacts | intake, ingest, update, delete | stages committed one by one; deletion under an ingest |
| Inference router and clients (`inference_router.py`, `ollama_client.py`, `llamacpp_client.py`) | declarations and backoffs shared by all routers | chat, fallbacks, wait_for_available | looks at shared tables that expire between two looks |
| Premium model lock (`premium_model_lock.py`) | sentinel file, leases | acquire, release | several processes, TTL takeover, swap, torn writes |
| Loop controller (`loop_controller.py`) | passes, severity, two lock objects | draft, critique, revise, premium pass | a run waits for a lease it holds itself; cancellation and exceptions under a lease |
| External requests (`external_requests.py`) | request rows | create, transition_status, append_result, mark_terminal | three transactions per resolution, several resolvers, late providers |
| Approval gate, executor, workspace tools | proposals, the user's files | propose, decide, execute | check-then-write of files; decisions during an execution |
| Handoff queue (`handoff_queue.py`) | pending, inbox, outbox, denied, processed files | create, approve, deny, sync, answer; routing of pending actions | two file operations per decision; routing over three stores; crashes |
| Memory and learning (`personal_memory*.py`, `topic_memory.py`, `feedback_learning.py`, `self_reflection.py`) | records, facts, reviews, lessons, cycles | capture, confirm, forget; merge, review; reflect, answer, reinforce | snapshots saved after others changed the rows; three files per review; two processes weighing one lesson |
| Conversations and project index (`conversation_store.py`, `project_engine.py`) | JSON documents | load, change, save by one temporary file | a lock per instance, many instances; rename under an open file |
| Background jobs (`infra/background/`) | job rows, registered jobs | start, progress, cancel, finish | report reads in one transaction and writes in another |
| Watchtower, routines (`watchtower.py`, `routine_engine.py`) | watch rows, running set | scheduler, run now, update, delete, routine step | snapshot against the running set; a second engine writes whole rows |
| Database layer (`db.py`, `migrations.py`) | SQLite | connect, transaction | its `BEGIN IMMEDIATE` transactions are the atomic steps of the models |
| Activity bus, make and tool agents, text helpers, family accounts, MCP, bots, widgets | - | telemetry, prompts, text, I/O | not modelled (section 7) |

Interaction: the dispatcher calls the plan store, the builder and the project
engine directly and constructs orchestrators; an orchestrator owns the approval
gate, the external requests, the handoff queue, the memories, the library and
the services; `TurnPipeline` calls the research service (`Foraging`), which runs
a pool (`ResearchPool`) whose crawls are web queries (`WebResearch`,
`WebFetch`) and whose findings become a report (`Synthesis`), perhaps through
the critique loop (`LoopController`), which takes the premium lock
(`PremiumModelLock`); every model call goes through the router (`Inference`);
deliverables go to the `Library`; reflections and failed web queries become
pending actions that the user answers or routes (`Learning`, `Handoffs`). The
caller's module knows the callee by the outcomes the callee's module gives it.

What makes each component correct is the property in section 3 that is named
after it; the hazards it answers are in `PROJECT.json`.

## 2. Modules

| Module | Stands for |
|---|---|
| `PremiumLease` | abstract: what the premium lock promises to its users |
| `PremiumModelLock` | the sentinel lock; implements `PremiumLease` |
| `LoopController` | critique loops that share the lock; use it as `PremiumLease` allows |
| `RequestLifecycle` | abstract: what a request is promised |
| `ExternalRequests` | the request store and its callers; implements `RequestLifecycle` |
| `PlanSession` | dispatcher, plan store and builder together, as the UI drives them |
| `WorkspacePatches` | workspace tools, approval gate and executor together |
| `TurnPipeline` | turns of several callers, with the forage gate and the chat graph |
| `Foraging` | the research lanes and their guard |
| `ResearchPool` | one foraging run: executor, handoffs, adjudicators, repairs |
| `Synthesis` | from the findings to the report and its files |
| `WebResearch`, `WebFetch` | web queries on one engine; how it searches and fetches |
| `Inference` | which backend answers a model call |
| `Library` | the document library |
| `Learning` | reflection cycles, lessons, the outbox |
| `HandoffLedger` | abstract: what handoffs and routings promise together |
| `Handoffs` | handoff files and the routing of pending actions; implements `HandoffLedger` |
| `Documents` | chat files and the project index |
| `TopicMemory`, `PersonalMemory` | facts of topics; records of the user |
| `BackgroundJobs` | job rows and the runner |
| `Watchtower` | watches, their scheduler, the watch step of a routine |
| `MC_*` | the instances of the runs, and the sums of components |
| `*Proofs` | theorems (section 6) |

Operators that stand before an action and begin with the word *Mutant* in
their comment are plausible bugs of that action. No specification uses them;
each property is shown to fail when its mutant replaces the action.

### PremiumModelLock

One owner is one `PremiumModelLock` object (its `owner_token`); owners live in
processes. `file` is the record of `premium_lock.json`. One rewrite of the file
runs under `_PROCESS_LOCK` and `flock`, so `Grant` and `BeginRelease` are
single steps; the unloads come after the lock, so `FinishSwap` and
`FinishRelease` are steps of their own. A process that dies inside a rewrite
may leave the file empty (`torn`). `resident` is the set of premium models
the inference server holds; an unload may fail and the failure is swallowed.

Time is kept as ages that stop one unit past the threshold they are compared
with (600 s for the record, the caller's timeout for the wait), which keeps
every order of events that the comparisons can tell apart without a bound on
the clock.

`PremiumLease` is the same lock without file, models and clock: it is taken when
it is free, stale, or one's own, and given back once; who gives back a lease
that was taken over changes nothing for the new holder; and only a torn file
frees it otherwise. `LeaseKept` is the refinement: the holder is the owner of the
record, stale is a record past the TTL, and a lease is what an owner has been
granted (`current`) and has not given back.

### LoopController

A run is `phase`, one stage for each place where the code leaves the run's own
data: the draft, the look at the checker, the acquire of the outer lock object
around a critique, of the inner one around a revision, and the premium phase.
`holder` is the lock as `PremiumLease` describes it: one holder, whose record
may grow `stale`, after which anybody may take it. `LoopKeepsLease` says that the
loops take and return leases as `PremiumLease` allows: a lease is what a run
keeps between an acquire and the `finally` clause that belongs to it, through
either lock object (`Leased`). In the premium phase a run
holds the outer lease while its revision asks for the inner one; both are
objects with tokens of their own, so it waits for itself until its timeout.
`severe` is the only thing that the severity decides.

### ExternalRequests and RequestLifecycle

`create`, `transition_status` and `append_result` are one transaction each and
one step each. `mark_terminal` is three (`MarkGet`, `MarkMove`, `MarkMerge`),
and any other step, or the death of the caller's process, comes in between. A
resolution of the user (`ignore_pending_action`, `answer_pending_action`) is a
`BeginMark` with the target `ignored`; other terminal targets are what a
provider adapter would ask for. Provider adapters are not in the repository:
the protocol class is, and `TransitionStatus` and `AppendResult` are its calls
in any order. `result` is the keys of `result_json`, of patches and of noted
transitions, and `says` whose patch stands under each: `append_result`
overwrites, and a second resolution with the target that the row already has
skips the transition and patches again, over the first one's patch. What a
provider's patches say is a `Word`.

`RequestLifecycle` says the same without statuses or callers: a request only
moves forward, is closed once with one outcome, keeps the handle it was given
and shares it with nobody. What is recorded of it stands under keys. To move
loses nothing of it; a record may replace what stands under its key; no key is
ever dropped. `KeepsLifecycle` is the refinement: stage is the rank of the
status, outcome the status once `completed_at` is set, `facts` the function
from `result` to what `says` gives of it.

### PlanSession

A command is a record that moves through the steps of `_cmd_open`,
`_cmd_plan`, `_cmd_execute`, `_cmd_build` and finally `_apply_outcome`; the
steps are cut where the code leaves the thread's own data: the model call, each
transaction of the store, the staleness check, the build, the UI thread. The
dispatch threads share `active`.

A workspace is its digest. `workspace_digest` hashes relative paths, sizes and
nanosecond times, so a digest is modelled as the stamp of the last change.
Three cases are not unique and the model keeps them: a missing directory has
the empty digest, which `is_stale` takes for "never stale"; all directories
without files share one hash; and copies of one tree (`/new import --copy`
uses `copytree`, which keeps the times) start with the same digest. A plan
whose digest is none of these is called *telling*, and the properties about
workspaces speak of those: for the others the code promises nothing.

Assumptions: no two projects are attached to one directory, and no tool
restores an old tree with its old times. `/new` and `/import` are not actions
here: the projects exist from the start, in every combination of shared and
distinct digests.

### WorkspacePatches

The content of a file stands for its SHA-256. `BeginPropose` reads the files,
`FinishPropose` stores what the model answered: any sequence of files, one
possibly twice, each with the content read before (nothing when the file was
missing: the code stores an empty hash). Reading the files of a batch is one
step. `execute_proposal` is: read the row (`BeginExecute`), per file compare
(`CheckFile`), truncate (`OpenFile`) and fill (`FillFile`), then update the row
if it is still pending (`Record`). Decisions, edits, other executions and
crashes come between any two of these. Proposals without files are those of
`_queue_action_proposals`, whose type the executor does not know.

In this repository `approve_action_proposal` of the orchestrator has no caller,
and the `/workspace-*` commands of `docs/workspace_tools.md` have no handler in
the dispatcher; `/approve` decides a proposal without executing it. The model
covers what the methods do whoever calls them.

### TurnPipeline and Foraging

A turn is the place it has reached in `handle_message` and `conversation_reply`
and the set of what it has left behind (`did`): facts and web notes of the
question, and an approval, a deliverable, the files of a forage, a cycle or a
note of the answer. A forage that is cancelled stops where it is: it files a
partial summary, and raw notes if workers had begun, and its reply names the
summary (`partial`). Any other cancelled turn leaves nothing of an answer.
`graph` says who runs the reply (the chat graph, its fallback, nobody) and
`checks` whether that reply knows the cancel checker. `forageLog` keeps the
executed rows that the gate counts; time makes rows old (`fresh`), nothing else
of it matters. Rows of cancelled forages are never counted and left out.

`Foraging` is the research service of one process: `active` is
`_active_foraging`, and a turn leaves it in a step of its own (`finally`). The
pool's outcome is one of those in which `ResearchPool` ends.

### ResearchPool and Synthesis

`main` is the thread of `run_research_pool` with what it has still to do,
`run` the agents in the executor and the one that the main thread runs itself;
`pending` and `queue` are the code's. An agent looks at pause and cancel
checkers between two model calls. Findings carry how they came (pool, handoff,
adjudicator, repair) and whether they are good, weak or failed.

In `Synthesis` a text is what the stages tell apart: cut off or whole; the
sections it has, those that only its writer gives and those of the contract;
where "Project Implications" stands; whether the translation is shown. A draft
that is rejected, or a fallback, may go on without the writer's sections, and
`FinishSummary` adds those of the contract and no others. `ReportHolds` speaks
of what the stages do to a text: none loses a section that was accepted, and
the contract's are there in the end. Two runs of one project share a directory
and name their files by the second in which they began.

### WebResearch and WebFetch

A query is its stage, key, request, result and the log lines it has read for a
purge; `log` and `stored` are the queries with a line and with chunks, `cached`
the answer of each key. The purge reads the log and rewrites it in two steps,
between which others append. `DecidePending` is one step: the load and the save
of pending actions are modelled in `Handoffs`. `WebFetch` is one call of search
or fetch over the backoffs that the threads of an engine share; whether a
service answers an attempt, and with an empty list or not, is open. The flag
for proxies is left out: no property tells the two values apart.

### Inference

The configuration (`home`, `rescue`) is any. Each look at the shared tables
(`shunned`, `known`, `declared`) and each change of them is a step; entries
expire at any time. Whether a backend answers, after all retries inside the
client, is open. `refused` remembers what a call has asked in vain.

### Library

An item is its row, the threads whose chunks it has, its files and its
artifacts. Every stage is a step; the lock of a service makes a stage's update
one step for its own threads. All documents have the same content, the hard
case for the test of duplicates. An ingest may stop between any two writes
(`StopIngest`, `StopIntake`): by an exception, which marks the item as failed if
the `try` of `_ingest_item` sees it, or because the process ends, which takes its
daemon threads along and marks nothing. The model lets a thread stop alone; the
end of a process is several such steps in a row. A file that cannot be removed
is passed over, as the code does. The user's update and deletion are cut in the
same way (`StopKeeper`). Two histories name what the code has no defence against:
`overlap`, the items on which an ingest and somebody else worked at once, and
`torn`, those of which a stop or a failed removal left something behind (a ready
item without its artifact, a deleted one with a file). A ready item is whole
whatever stopped.

### Learning and Handoffs

A learner in `Learning` is a thread with an orchestrator, that is, with a
reflection engine and a learning engine of its own; the locks of these join
nobody. `reflections.json` is loaded and saved as a whole. A call keeps the rows
it has loaded (`rows`), cuts the file off (`CutRows`) and writes it (`SaveRows`);
whoever loaded before that has not seen it (`stale`), and his save puts back what
he knew, a closed cycle as an open one included. A file that is cut off, or on
which two writes met, may not be readable (`legible`), and is then taken for an
empty one. `clobbered` is the history of such saves. The lessons are in a
database, whose transactions exclude each other (`NoWriter`): one is held while
the model reads the feedback. `reinforce` writes back the status that it had read
before its transaction, which may make a rejected lesson a candidate again. A
lesson is named by what it was learned from.

`Handoffs` moves files: a decision is a look, a write and an unlink, a
placeholder a look and a write, an answer a move; several processes (`Clerk`)
do so. Two of them may approve and deny the same handoff, and then both files
are there. A routing of a pending action is a creation, an approval and a mark
in three stores. The actions are loaded, checked and saved as a whole, under a
lock of each engine (`MarkErrand` and `DecideErrand` load, `SaveErrand` saves
all rows), so that a save may undo another's. An action that is not found,
since its file could not be read, is refused. All actions exist from the
beginning. A process may die between any two steps (`CrashClerk`).

`HandoffLedger` has neither files nor processes: a handoff is filed once, and what
is decided of it, one way or both, is kept for good. The actions are saved all
at once and may fall back, but none says that it was routed unless a handoff
that was filed for it is decided. `KeepsLedger` is the refinement, with the
three directories for what is filed, approved and denied. A decision counts
from the moment its file is written, whether or not the pending file is still
there, so that unlinking it, or dying before, is a stutter.

### Documents

A change loads a document, opens the temporary file, writes it and renames it.
Who has a temporary file open when another command renames it keeps writing
into the document itself, and a rename may find no file: `inode` says where a
writer's handle points. The first text of the project index is written in its
place (`MakeIndex`, `CutIndex`, `StartIndex`). `clash` marks documents on which
two changes were at work at once; what is promised speaks of the others, and of
crashes.

### TopicMemory and PersonalMemory

`TopicMemory` is one instance: its lock is held while up to three files are
written (`saving`), and the process may stop between two. Claims the code finds
alike are one claim. `PersonalMemory` has a row for each field, texts that
differ by length (which is what the code compares), and threads that read the
snapshot in one call and save it in another. `word` and `dropped` are history:
what the user confirmed, and what he has forgotten.

### BackgroundJobs and Watchtower

A report reads the tracker in one transaction and writes it in another; a job
is finished in its row, with whatever status the caller names, before it is
unregistered; so `CancelSticks` speaks of the flag that the worker reads and not
of the last status. In `Watchtower` a tick is half
a day; `thread` are run threads, with the engine that made them: the main one,
which has the running set, or one made for the step of a routine. An update of
a row is a read (`update`) and a write of the whole row, under a lock of the
engine. An update may leave a topic blank; the run of such a watch returns at
once and stamps nothing, so that it stays due. `DueWatchServed` therefore speaks
of watches with a topic (`Waiting`).

## 3. Runs

Components that share no state are checked in one run as a sum: `MC_Ends`,
`MC_Progress`, `MC_Work` and `MC_Records` have a variable `part` that names the
component a behaviour moves; the others stay where they begin. Nothing is lost
by it, since no action of one reads a variable of another, and no product of
state spaces is built. The fairness of such a run is the fairness of the
component that `part` names. Where components do meet, the caller's module has
the callee's outcomes, as section 1 says.

| Run | Components | Checks |
|---|---|---|
| `plan_session` | `PlanSession` | `OwnWorkspace`, `ExecutedWasBuilt`, `ReplayRefused` |
| `workspace_patches` | `WorkspacePatches` | `ComparedBeforeWrite`, `DecisionStands`, `OkMeansWritten` |
| `ends` | `ExternalRequests`, `ResearchPool`, `PlanSession`, `WorkspacePatches` | `PatchAgrees`, `NotesFormPath`, `EveryAgentReports`; `IgnoreSettles`, `CancelEnds`, `CommandsEnd`, `ExecutionDecides` |
| `progress` | `PremiumModelLock`, `LoopController`, `Watchtower` | types, `ExclusiveUntilStale`, `NoOrphanedRecord`, `NoLeaseLeft`, `OneRunPerWatch`; `LeaseKept`, `LoopKeepsLease`; `AcquireReturns`, `LoopEnds`, `DueWatchServed` |
| `work` | `TurnPipeline`, `Foraging`, `WebResearch`, `WebFetch`, `Synthesis`, `Inference` | types, `ForageBudget`, `CancelledTellsAll`, `OneForagingPerProject`, `AnswerStaysReadable`, `FindsWhatAnswers`, `ReportHolds`, `RaisesUnanswered` |
| `records` | `ExternalRequests`, `Library`, `Learning`, `Handoffs`, `Documents`, `TopicMemory`, `PersonalMemory`, `BackgroundJobs` | types, `LibraryConsistent`, `LessonsEarned`, `KeptUnlessClash`, `FactsReachReader`, `ConfirmedStands`, `CancelSticks`; `KeepsLifecycle`, `KeepsLedger` |
| `premium_residency` | `PremiumModelLock` | violates `OnePremiumResident` |
| `plan_switch` | `PlanSession` | violates `OnlyOpenSwitches` |
| `patch_overwrite` | `WorkspacePatches` | violates `OverwritesOnlyBase` |
| `patch_rejected` | `WorkspacePatches` | violates `RejectedStaysUnwritten` |
| `loop_cancel` | `LoopController` | violates `CancelHonored` |
| `memory_forget` | `PersonalMemory` | violates `ForgottenStaysOut` |

`UniqueRef` is part of what `KeepsLifecycle` says, `NoHandoffLost` and
`RoutedHasHandoff` of what `KeepsLedger` says; they are proved (section 6) and not
checked a second time, and neither are the types of `PlanSession`,
`WorkspacePatches` and `ResearchPool`.

### Bounds

| Component | Instance, and why it is enough |
|---|---|
| `PlanSession` | 2 projects, 2 commands, 2 plans, stamps to 5: the second plan is what "latest" and `--refresh` tell apart from the first; the stamps leave room for an edit or a build after a plan and a replay after that. For `CommandsEnd` 1 project and stamps to 4. `MaxPlan` and `MaxStamp` stand in the guards `RoomForPlan` and `RoomForChange`, which reserve what commands under way will write, so that no bound stops a command that has begun. |
| `WorkspacePatches` | 2 files, 3 contents, 1 proposal of up to 2 items, 2 clients, 1 edit: the smallest batch that can halt half-way, the smallest number of clients that race. In `ends` 1 file and no edits, which neither enable nor disable a step of an execution. `MaxItems` is 8 in the code. |
| `ExternalRequests` | `ends`: 1 request, 2 resolvers, 2 outcomes, with and without notes, for the races between three transactions each; `records`: 2 requests and 2 references of 1 provider, 1 resolver and 2 words of the provider, for uniqueness, overwriting and the refinement. Providers never interact. |
| `PremiumModelLock` | 2 owners in 2 processes, 2 models, TTL 2, timeout 1: every relation the code compares (own, other's, stale record, same or other model); a TTL above the timeout lets callers give up on a fresh record and take over a stale one. |
| `LoopController` | 2 runs, 1 revision of the 2 in the code: two runs compete, one waits for itself; a second revision is the same passage again. |
| `ResearchPool` | 2 primary agents, 1 adjudicator, 2 workers, 1 handoff, 1 call: agents finish in both orders, a handoff and a repair meet an adjudicator. `MaxCall` bounds the calls of an agent. |
| `Watchtower` | 1 watch, 2 threads, hourly, clock to 1, 1 exception: scheduler, run-now and routine compete for the watch; watches only meet in the snapshot, which is visited in any order. |
| `TurnPipeline` | 2 callers, 1 seed, limit 1, 3 rows: the second caller is the one that passes the gate unseen. |
| `Foraging` | 2 turns, 1 project or none. |
| `WebResearch` | 2 queries, 1 key, 1 pending request, 1 exception: append against purge, and two answers for one key. |
| `WebFetch` | 2 calls, 2 retries: a backoff met by one call is spared by the other. |
| `Synthesis` | 2 reports, 1 round, clock to 1: the same second, or one after the other. |
| `Inference` | 2 callers, 2 models, 1 server, every configuration of these. |
| `Library` | 1 service, 2 items, 2 ingests, 2 projects: a duplicate, an item that is deleted and taken in again, and one that moves. Two services are two steps of intake that do not exclude each other; they store content twice, which the property allows, and what two threads do to one item is here already. |
| `Learning` | 2 learners, 1 cycle, 1 letter: two saves of one file, a review against a reinforcement, two calls for one letter. |
| `Handoffs` | 2 processes, 1 handoff, 2 pending actions, 1 crash: a save that overwrites a decision of its own action, or of the other one. |
| `Documents` | 2 commands, 2 chats and the index, 1 entry, 4 changes: enough to write, rewrite and collide. |
| `TopicMemory` | 2 topics, 1 claim, 1 review, 2 threads, 3 confidences. |
| `PersonalMemory` | 2 fields of which one prefers longer texts, 2 texts, 2 threads. |
| `BackgroundJobs` | 1 job, 2 reports at once, 2 agents. |

Every counter bound (`MaxTick`, `MaxFault`, `MaxRaise`, `MaxRow`, `MaxSecond`,
`MaxSlip`, `MaxChange`, `MaxText`, `MaxCall`, `MaxEdit`) is a named constant that
stands in the guard of the actions it bounds: actions of the user, of the clock
or of failures, and in the components without liveness properties also the
beginning of a call. `MaxCall` ends an agent, as the code's passes do.

Symmetry: `plan_session` over commands and projects, `workspace_patches` over
files, proposals, clients and the texts other than the empty one, `records`
over the projects of the library and the two threads `t1`, `t2`, which several
components share as names. No run with a liveness property uses symmetry.
`CHECK_DEADLOCK FALSE` stands where a model can really stop: every call made,
every client dead, every bound reached.

## 4. What the violations show

1. `OnePremiumResident`: the class promises a "mutex for premium model
   residency". The mutex is over the record: unloading happens after the lock
   is dropped, and a holder past the TTL is taken over without being told.
2. `OnlyOpenSwitches`: every outcome carries the project that was active when
   its command returned; applied after an `/open` of another thread, it moves
   the user back.
3. `OverwritesOnlyBase`: the hash is compared and the file written in two
   steps; and a patch that creates a file stores no hash, so a file that
   appeared meanwhile is overwritten without a comparison.
4. `RejectedStaysUnwritten`: the status is read once, before the writes.
5. `CancelHonored`: a cancellation that is noticed at the top of a later pass
   only leaves the loop; the escalation after it is decided without it and the
   premium pass is made.
6. `ForgottenStaysOut`: a forgotten field counts as blank, and every turn
   captures again from the last messages of the history.

Each quotes its document, comment or test in `PROJECT.json`.

## 5. Fairness

- `PremiumModelLock`: weak fairness of the clock and of the polling loop
  (`Grant`, `GiveUp`). The loop sleeps 0.1 s and has no other exit. No release
  is assumed: holders may compute for ever.
- `LoopController`: weak fairness of a run's steps: models answer within their
  timeouts and a wait for the lock ends by its timeout. Nobody has to release.
- `ExternalRequests`: weak fairness of a resolver's next transaction.
  Providers need not do anything.
- `PlanSession`: weak fairness of the steps of a command that has started:
  model calls have a timeout, the builder copies finitely many files, and the
  UI thread takes what `call_from_thread` hands it.
- `WorkspacePatches`: weak fairness of the steps of an execution.
- `ResearchPool`: weak fairness of the main thread and of each agent. The user
  may leave a run paused for ever; `CancelEnds` holds nevertheless.
- `Watchtower`: weak fairness of the scheduler's thread and of a write that has
  been read for; strong fairness of a run thread's step, because it needs the
  engine's lock, which others take and give back all the time and hold for an
  update only.

A crash is never fair and never excluded; where it ends a promise the property
says so. The other components have no liveness property: their code ends by
returning, and what could go wrong there is what it leaves behind.

## 6. Proofs

Every theorem holds for all values of the constants under the named assumption
of its module, which TLC evaluates in the runs. The assumptions say that
special values are none of the ordinary ones (`NoOwner`, `NoProject`, the main
thread, which is no persona of a roster), that bounds are natural numbers, and
positive where the code repeats at least once, that what is counted is finite
(the agents of a pool, the callers of a turn), and that a set from which a
record takes a first value is not empty (`Model`, `Seed`, `Key`, `Watch`,
`Schedule`, `Topic`, `Claim`, the services and projects of the library).

An invariant is seldom inductive as it stands. What had to be said with it:

- `ProgressProofs`, the lock. `ExclusiveUntilStale` speaks of the owners' own
  ages, the code of the age of the record. A record is as old as its owner's
  latest grant (`RecordAge`), and a lease younger than the TTL is what the
  record names (`FreshIsRecorded`), because a record is taken over only when it
  is stale and released only by its owner; a process that dies inside a rewrite
  is the one exception. `LockInvariant`, `TypeCorrect`, `Exclusive`, `NoOrphan`.
- `ProgressProofs`, the lock as a lease. `LockIsLease`: a grant is a `Take`, the
  first step of a release a `GiveBack`, a tick perhaps a `GrowStale`, a crash
  inside a rewrite a `Tear`, all other steps stutter.
- `LoopControllerProofs`. `NoLeaseLeft` says where a holder is not; inductive
  is where it is (`HolderWorks`): an outer lease between its acquire and the end
  of its phase, an inner one during a revision. `LoopInvariant`,
  `LeasesReturned`. `LoopUsesLease`: every step of a loop is one of
  `PremiumLease`, because who waits for, or has, a lease that only premium models
  need has such a model (`BigHolds`). Together with `LockIsLease`: what the lock
  provides is what the loops rely on.
- `ProgressProofs`, the pool. `EveryAgentReports` is about the end of a run. Until
  then an agent without a finding is in somebody's hands: in the queue, at a
  worker, or among the agents the main thread has still to hand off, to
  adjudicate or to repair (`InHands`). `AgentsReport`, `PoolTypesHold`.
- `ProgressProofs`, the watches. An update that ends a run is of a thread that
  waits for it, and its engine has no other on the way (`RunsApart`). `RunsOnce`,
  `WatchTypesHold`.
- `ExternalRequestsProofs`. A resolver that reached `MarkMerge` saw its target
  in the row, and terminal statuses have no successor, hence the row is still
  there when the patch is merged. `RequestInvariant`, `PatchesAgree`,
  `NotesArePath`, `RefsUnique`, and `Refinement`: every step of the store is a
  step of `RequestLifecycle` or a stutter, also those that overwrite what stands
  under a key.
- `PlanSessionProofs`. A telling digest belongs, now and later, to the plan's
  own workspace: stamps come from a growing clock, and no two workspaces share
  one that is not of a copied tree. A build moves its workspace past every
  digest there is, so a plan that was built cannot pass the check again.
  `PlanInvariant`, `BuiltInOwnWorkspace`, `RecordedWasBuilt`, `NoReplay`.
- `WorkspacePatchesProofs`. An execution works on a stored proposal, whose
  payload never changes (`Stored`), and is at file n only after it wrote the
  files before n (`Filled`); a file about to be written was compared, or is in
  `touched`. `PatchInvariant`, `OkIsWritten`, `Compared`, `DecisionsStand`.
- `TurnPipelineProofs`. A reply may be cancelled wherever it still looks for a
  cancellation, so nothing may have been left at any of these places but the
  summary of a forage, and that only with a reply that names it (`TurnFits`):
  `CancelledTurnsTellAll`. The gate counts rows, and a forage
  writes its row long after it passed the gate; what is bounded is the rows and
  the forages under way together, by the limit and one for each other caller
  (`BudgetInv`, over lemmas on the number of recent rows when one is appended,
  dropped or grows old): `BudgetKept`. `TurnTypes`.
- `WorkProofs`. `OneRunAtATime` (the guard's set and the turns inside are said
  together); `NobodyAnswers` (a candidate left behind was refused when the call
  went on, `TriedInVain`); `SourcesStay` (an answer is cached only past the
  write of its chunks, `StoredInTime`, and chunks are never purged with the
  log); `NothingUnlessNobody` (a call that has gone past a service without a
  result was refused by it or left it alone, `CallFits`); `ReportsAreWhole` (a
  text has at each stage the sections that the stages before accepted or gave it,
  `TextFits`, and a
  report whose name is its own is on the shelf as written, `ShelfFits`). Types:
  `FetchTypes` (attempts left, `FetchBounds`), `SynthTypes` (cycles within the
  rounds, `CyclesLeft`).
- `RecordProofs`. `CancellationsStick` and `ConfirmedIsRecalled` survive each
  step once the types are known. `DecisionsAreRecorded`, `RoutingsAreRecorded`
  and `LessonsAreEarned` need what a call that is half-way counts on
  (`DutyFits`, `StudyFits`) to survive the steps of all others, and that includes
  the rows it has loaded and will save: a row that says "routed", or names
  lessons, was true when it was loaded, and decided handoffs and lessons never
  go away, so it is true whenever it comes back. The handoff of a routing, or a
  new cycle, is one call's alone (`DutiesApart`, `CyclesApart`). Only
  `LateAnswerTeachesNothing` needs that no save went over another (`clobbered`).
  `FilesKeepLedger`, the refinement of
  `HandoffLedger`, needs besides that only a handoff that is there is for an
  action (`FiledFor`), so that filing one finds it without a purpose.
  `FilesAgree`, `SavedIsThere` and `LibraryIsConsistent` follow the same argument
  for the writer of a document (`WriterFits`: its temporary file is its own and
  its text has what was saved) and for the thread that ingests an item
  (`IngestFits`: what it has written by each stage, so that wherever it stops the
  item is not called ready before it is whole), as long as nobody else is at
  the same document or item (`clash`, `overlap`), and for artifacts and removed
  files as long as nothing was left behind (`torn`); and of the intakes of one
  service one is inside (`IntakesAlone`), hence content is stored once per
  service. Types: `HandoffTypes`, `LearningTypes`, `TopicTypes`, `DocumentTypes`,
  `LibraryTypesHold`.

A behaviour of a sum, projected on one component, is a behaviour of that
component (`AllParts`, `WorkParts`, `RecordParts`). Hence what the runs
`progress`, `work` and `records` check is proved of the very specification they
check it of: `ProgressTypes`, `ProgressSafe`, `WorkTypes`, `WorkSafe`,
`RecordTypes`, `RecordSafe`.

Only model-checked is liveness: `AcquireReturns`, `IgnoreSettles`, `CommandsEnd`,
`ExecutionDecides`, `LoopEnds`, `CancelEnds` and `DueWatchServed` rest on fairness
and enabledness, which the prover does not treat. Every other property of a
passing run is stated by a theorem. The properties of section 4 are false of
the code. No module uses a recursive operator.

## 7. Not modelled

- Formatting, logging, prompts, configuration files; ranking and scoring of
  texts, claim extraction, persona routing, citations: pure functions, of whose
  outcomes the models choose any.
- Activity bus (telemetry, nothing decides by it); make and tool agents (a
  sequence of model answers, of which `TurnPipeline` has the outcome); family
  accounts (a front end that is not in the repository); MCP client and server (a
  second process, which the models have as another owner, caller, clerk or
  thread); widgets, bots, benchmark, scaffolds; migrations.
- Lane approval requests and the executor's `write_file` and `append_note`,
  which no code proposes; `/new` and `/import`; I/O errors of SQLite itself.
- `PersonalMemory`: the notes of "remember this", `save` by hand and
  `update_record`, the usage counter. The load and the save inside one call are
  one step, which is so within one instance only (`personal_memory.py`, 229): two
  instances, in one process or two, can lose each other's records and share a
  temporary file.
- `TopicMemory`: two instances. Each orchestrator has one with a lock of its
  own, and two can lose each other's entries (listed as a hazard without a
  property: nothing in the repository promises otherwise).
- Routines: their other step types and their own schedule.
- Embeddings and streaming of the inference clients; the retries inside one
  call are one step.

What is excused by name is not caught: `KeptUnlessClash` says nothing of
documents that two changes worked on at once (double conversations, lost
messages), `FactsReachReader` nothing of topics whose review was cut short by a
crash, `AnswerStaysReadable` nothing of lost lines of the source log,
`LibraryConsistent` less of `overlap` and `torn` items, `LateAnswerTeachesNothing`
nothing after saves that met (`clobbered`). In each case the code has no
defence, and no document promises one. In the same way `LessonsEarned` is about
the status and activity of lessons and not about prompts: a lane without
approved lessons is taught confident candidates (`feedback_learning.py`, 722).

## 8. Plan

Done: the components above, in the order of what users can lose: files and
plans, decisions and resolutions, the machine's memory, turns and research,
records.

Proved: every safety property of the runs, three refinements
(`RequestLifecycle`, `PremiumLease`, `HandoffLedger`) and the types.

Next:

1. One abstract turn that `TurnPipeline` and `Foraging` implement, with the
   refinement proved as the others are; abstract promises of the document store
   and of the library in the same way.
2. What `PremiumLease` and `HandoffLedger` guarantee, proved of them once and
   carried to whoever implements them.
3. Two instances of the topic memory, and of the personal memory with its
   shared temporary file, over the file steps of `Documents`.
4. The composition of `TurnPipeline` with `Foraging`, and of `ResearchPool` with
   `WebResearch`, with the outcomes replaced by the callee's actions.
5. Routines with their own schedule and all step types; embeddings.

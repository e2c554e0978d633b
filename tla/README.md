# agentg: verification of the automation core

agentg is a set of cooperating TypeScript modules that turn Telegram traffic into
durable data and run automations over it. Each module is a process (or a set of
modules in one process) with its own PostgreSQL schema. Modules call each other by
RPC and announce facts over NATS, at most once. This directory holds TLA+ models of
the part in which most of the concurrency and failure handling lives, the chain

    triggers  --runTriggered-->  pipelines  --llm.run-->  llm-runner
                                     ^                        |
                                     +---- result events -----+

of the policies that decide which pipelines there are, and of the part of the telegram
module that keeps the account's messages and files,

    TDLib  --updates-->  ingestion  -->  messages, live coverage <-- gap restore
       ^                                        |                        |
       +--- pages --- history reconciler  <-----+---- getMessages -------+
       +--- files --- file download queue <---- slots of messages, requests

with TLC configurations that check the models, and TLAPS proofs of what matters most.
Paths below are relative to `src/packages`; documentation is quoted from
`src/docs/03-domains`.

## 1. Inventory

### 1.1 triggers (`triggers/src`)

**State.** Tables `triggers_registrations` (a periodic condition per key, owned by a
module) and `triggers_occurrences` (one row per registration key and scheduled time:
status, attempt count, `nextAttemptAt`, lease owner and expiry).

**Operations.** `replaceRegistrations` (one owner's full set: upsert, deactivate what
is missing, cancel its waiting occurrences), `reconcile` at startup, and
`runDueTriggers`, a tick: list registrations, compute the due periods within the
lookback, insert occurrences with *on conflict do nothing*, select and claim due rows
under a lease, then dispatch them one after the other and store each outcome.
`serialize` runs these one at a time in a process. Several processes share only the
database.

**Hard.** Every statement of a tick is a point where another process, a crash, or a
replacement may come in. The rows are marked by key alone (`store.ts:168`, `:601`), so
the leases must keep two workers apart. A call that timed out may still have started
a run.

**Correct when** no occurrence is in two hands; what is settled stays settled; an
accepted occurrence has a run; every occurrence settles; a retry waits for its backoff
and counts against the limit; missed periods within the lookback are made up, once;
replacement touches one owner only.

### 1.2 pipelines (`pipelines/src`)

**State.** `pipelines_definitions` and `pipelines_trigger_bindings`; `pipelines_runs`
with an idempotency key; `pipelines_node_runs`.

**Operations.** *Runs*: `runPipeline`/`runTriggered` create a run inside `serialize`
and execute it outside; `executeRun` walks the nodes in order, dispatches each action
and either stores its output, or fails the run, or (an accepted asynchronous provider)
parks node and run as waiting; `resumeProviderRun` (two event subscriptions) and
`resumeWaitingRuns` (startup) read the provider's result, settle the node inside
`serialize` and execute the rest. *Definitions*: `setPipeline`, `deletePipeline` and
`reconcilePolicyRules` first replace the registrations in triggers by a call, then
write the definition in a transaction of their own.

**Hard.** Calls, subscriptions and startup are tasks that interleave at every await;
the event of a provider may be handled before the acceptance it answers is stored; a
crash or a failing statement may fall between any two writes; two services are updated
without a common transaction.

**Correct when** no node is dispatched twice; outcomes and outputs are final; a
completed run completed every node; a waiting run has something to wait for; runs end;
a restart makes up for lost events; registrations agree with stored definitions.

### 1.3 llm-runner (`llm-runner/src`)

**State.** Table `llm_runner_runs` (status, output, `updatedAt` as the lease), the
in-memory set `activeRuns`, refresh timers.

**Operations.** `runAction` inserts a run, claims and processes it in the background;
`processRun` refreshes the lease, calls the model, stores the output or the failure
and publishes a terminal event; a recovery loop claims runs whose lease went stale.

**Hard.** Two processes race for a stale run; a stalled process does not learn that it
was replaced; a failure after the completion was stored reaches the catch block.

**Correct when** a run has one processor; the event announces what is stored; an
output is not discarded; every run ends.

### 1.4 policies (`framework/src/policies`, `policies/src`)

**State.** A directory of files per policy kind; the server's parsed instances; in
each module a live value fetched from the server.

**Operations.** `setInstance` and `deleteInstance`, one at a time: prepare the new
state, write or delete the file, replace the state, publish a change. A module
subscribes, fetches the value, and on each change fetches it again, one refresh after
another, calling its `onChange` (for pipelines, `reconcilePolicyRules`).

**Hard.** The file, the answers of the server and the value of the module are three
copies that a crash, a failing write, a lost event or a failing fetch may part;
changes are announced while the first refresh, or an earlier one, still runs.

**Correct when** the server answers what its files say; a module with nothing to do
that missed no change lives by what the server answers; rules that stop changing take
effect in the definitions.

### 1.5 telegram: history (`telegram/src/reconciler`, `history`, `gap-restore`)

**State.** `telegram_history_coverage` (covered intervals of seconds per owner),
`telegram_history_jobs`, `telegram_messages`; for what arrives by itself
`telegram_history_live_windows` and `telegram_history_live_chats`.

**Operations.** *Reconciler*: `getMessages` measures what is missing and enqueues a
job, coalesced with an overlapping one; a tick revives, claims one job, fetches a page
of TDLib, stores it, records what it proves, checks again and completes, releases,
defers or fails the job. *Live coverage*: an observer opens a window when the
connection is there, extends it every second, closes it when the connection is gone,
and registers the chats it holds for. *Update queue*: updates are handled a few at a
time, and start and stop wait until it is drained. *Gap restore*: at the end of start,
a range before the open window is asked for, for each chat a rule selects.

**Hard.** Coverage is a claim about messages nobody looks at again, so each interval
must be rounded and cut to the safe side: pages that share seconds, windows that open
inside a second, crashes between a page and its coverage, windows a crash left open.
Requests arrive while a tick runs. A new chat, a message and the registration of the
known chats come in any order.

**Correct when** what is covered is stored; a completed job's range is readable; every
job settles; live windows hold only what was received, and what was not is asked for.

### 1.6 telegram: files (`telegram/src/files`)

**State.** `telegram_file_assets` (status, the latest TDLib id, bytes),
`telegram_file_download_jobs`, in memory the completed files.

**Operations.** Slots recorded from messages and explicit requests enqueue assets;
one worker takes completed files, then stale downloads, then queued ones: it copies
the file into canonical storage and marks it ready, asks TDLib again, or dispatches.
`updateFile` records progress and completion.

**Hard.** The worker is woken while its tick runs; TDLib's ids change meaning with a
restart; a failure is reported for a file that became ready since; the map of completed
files is lost in a crash. The report of a failure may fail itself: the tick then ends
while the rows worked off together with it run on (`queue.ts:177`, `:119`). An enqueuer
may fail after its job is inserted and before it wakes the worker (`index.ts:215-219`).

**Correct when** no wake-up is lost; work is done only under a job; a ready file stays
ready and none becomes ready unasked; retries are bounded; downloads end.

### 1.7 The rest

Telegram's storage of updates as rows, its read procedures, the TDLib client and its
scheduler; `framework` (RPC, events, module lifecycle, telemetry), `data` (datasets),
`gateway`, `codex-mcp`, `claude-plugin` (proxies), `dashboard`, `telemetry`,
`tdlib-docs` (user interface), `scripts`, `infra`, `observability`. Of these only the
effects the modelled components feel are in the models: a call fails, its answer is
lost, or it times out; an event is lost with its process; a subscription handles one
event at a time; TDLib answers with any page, or any id, it may. `PROJECT.json` lists
each part with its reason.

## 2. Modules

| module | what it is | how it corresponds to the code |
|---|---|---|
| `OccurrenceLifecycle` | abstract: the life of an occurrence, without workers, leases, time | the statuses and transitions triggers.md promises |
| `Triggers` | detailed | a worker is a process; `pc`, `listed`, `selected`, `claimed`, `current` are the local variables of `runDueTriggers` and of the store's claim; one action per SQL statement or call |
| `TriggersProofs` | theorems | |
| `RunLifecycle` | abstract: the life of a pipeline run | the run statuses and transitions |
| `PipelineRuns` | detailed | one process as an event loop: calls, two subscriptions and the startup are tasks, with a label for each await of `startRun`, `executeRun`, `settleWaitingNode`; `holder` is `serialize` |
| `PipelineRunsProofs` | theorems | |
| `PipelineDefinitions` | detailed | one action per write: the registrations of a name (a call to triggers), then its definition; `torn` are the names at which an operation broke off |
| `PipelineDefinitionsProofs` | theorems | |
| `PolicyRules` | detailed | files, answers and one live value; `mutation` is where each caller is in the server's queue; one action per await of `setInstance`, `deleteInstance`, `start` and of a refresh |
| `PolicyPipelines` | composition | `PipelineDefinitions` whose reconciliations are the `onChange` of the value in `PolicyRules` |
| `PolicyPipelinesProofs` | theorems | |
| `HistoryCoverage` | operators | `mergeSegments`, `subtractSegments` and the write of a segment, defined over seconds where the code sweeps sorted lists |
| `HistoryReconciler` | detailed | the calls of `getMessages` and the one runner, `pc` its stage; the history of Telegram is a constant, and a page is any run of messages that ends below the cursor |
| `HistoryReconcilerProofs` | theorems, and lemmas about the operators of `HistoryCoverage` | |
| `LiveCoverage` | detailed | `ops` is the promise chain of the observer, `updates` the update queue, `phase` the await at which `start` or `stop` is; `posted` is what was sent, in half seconds; `plan` and `asked` belong to the gap restore |
| `LiveCoverageProofs` | theorems | |
| `FileLifecycle` | abstract: what is shown of a file | the state machine of telegramFiles.md, and beside it the steps it does not draw, each named and under its condition: `Retry`, `RetryLate`, `Drop`, `Forget`, `Straggle` |
| `FileDownloads` | detailed | `job` and `asset` are the tables, `completed` the map in memory, `work` what is done for each row that is worked off, `turn` the rows of the present slice, `left` those whose tick has failed without them, `call` each enqueuer between its statements, `naming` what TDLib's ids mean |
| `FileDownloadsProofs` | theorems | |
| `ProviderContract` | abstract: an accepted run gets one result, for good | what `PipelineRuns` assumes of its provider |
| `LlmRunner` | detailed | `proc` is what each process does for each run, `age` the time since `updatedAt`, `lag` the time since a recovery tick took `now` |
| `LlmRunnerProofs` | theorems | |
| `MC*` | instances for TLC | constants as model values, schedules and plans as small sets, symmetry |

`Triggers` and `PipelineRuns` meet in the trigger call: `Triggers` models its provider
by what `runTriggered` does (a second call with a key finds the first one's run), and
`PipelineRuns` has calls with a common key. `PipelineRuns` and `LlmRunner` meet in
`ProviderContract`: the provider in `PipelineRuns` moves as the contract does, and
`LlmRunner` is checked to implement it. `PolicyPipelines` composes the policy server,
its events and the reconciliation. `LiveCoverage` ends where a range is asked for,
which is where `HistoryReconciler` begins; they share no other state: live coverage
counts as covered only while a window is open, durable coverage for good.

Operators whose comment begins with *Mutant* are deliberate errors (a dropped
condition, an off-by-one, a swapped order). Each stands before the definition it
alters, is used by nothing, and breaks the property `PROJECT.json` names beside it:
evidence that the property depends on that code.

### What is abstracted

- **Triggers.** Time is counted in seconds from 0 to `MaxClock`. Outputs, error codes
  and telemetry are left out. The rest of a registration's row does not matter to
  what fires. A failing statement drops the batch as the tick's exception does.
- **PipelineRuns.** A document is the sequence of its nodes' kinds in execution order
  (`data`: answered at once; `llm`: accepted, answered later). Datasets are left out.
  The events of one kind are handled one at a time, in any order.
- **LlmRunner.** The rows of a request and the attempts per row are one step that
  succeeds or fails. Ages beyond the point where they matter are one age.
- **PipelineDefinitions.** A document stands for its registrations and bindings.
- **PolicyRules.** YAML, paths and validation: a mutation that is rejected changes
  nothing. The resolved value is the function from names to instances.
- **HistoryReconciler.** The commit of a statement, the wake-up that follows it and the
  answer of its caller are one step. Messages are numbers with a second; `due` says
  that `nextRunAt` or the lock has passed. Live coverage is left out.
- **LiveCoverage.** Only open windows are kept, because the readiness of an owner asks for
  no other. Of the updates there are those of messages, chat lists and the connection. A
  tick and the recording of a message are called with `void`: where the code lets their
  failure end the process, the model has `Crash`. Which rule selects a chat, and how far
  back it reaches, are a constant.
- **FileDownloads.** Time is a timer and a claim that is stale or not; priorities are
  left out; what a message's slots are is left out. Five times several statements are
  one step: the snapshot of `updateFile` is kept and told to its asset, a slot's snapshot
  and asset are written and read, a message's slot is refreshed and its row read again, a
  job is selected and claimed, TDLib's answer about a stale job is recorded and the claim
  renewed. Rows are places to work on a file; more than `Rows` at a time do not fit. The
  reason of a failure is whether it was the retry limit (`stalled`), which is all the
  policy asks of it. Three history variables carry what the properties except: `outlived`,
  `unseen`, `overlooked`.

## 3. Runs

| run | specification | shows |
|---|---|---|
| `MCTriggersSolo` | `LiveSpec`, 1 worker | `TypeOK`; `NoneCreatedAfterRemoval`; `MissedPeriodsMadeUp` (against `PeriodsOwed`, a reference definition that names the periods instead of computing them); `EveryOccurrenceSettles` |
| `MCTriggersPair` | `TimelySpec`, 2 workers | `HolderOwnsRow`, `AcceptedHasRun`; refinement of `OccurrenceLifecycle` |
| `MCPipelineRunsFaults` | `Spec` | `TypeOK`, `DispatchedOnce` |
| `MCPipelineRunsPatient` | `PatientLiveSpec` | `CompletedThroughout`, `WaitingForANode`; refinement of `RunLifecycle`; `EveryRunEnds`, `RestartSettles` |
| `MCLlmRunnerTimely` | `TimelySpec` | `TypeOK`, `OneProcessor`, `AnnouncedIsStored`; refinement of `ProviderContract` |
| `MCLlmRunnerLive` | `LiveSpec` | `EveryRunEnds` |
| `MCPolicyPipelines` | `SystemLiveSpec` | `SystemTypeOK`, `RegistrationsAgree`, `ServedIsStored`, `SettledIsCurrent`, `ReconcileMaterializes`, `RulesTakeEffect` |
| `MCHistory` | `LiveSpec` | `TypeOK`, `CoveredMeansStored`, `CoverageOnlyGrows`, `CompletedMeansReady`, `JobsSettle` |
| `MCHistoryHoles` | `Spec` | *violated*: `CoveredMeansStored` |
| `MCLiveCoverage` | `FairSpec` | `TypeOK`, `LiveMeansStored`, `RestoreMeetsLive`, `WindowsInHand`, `CoverageResumes` |
| `MCFileDownloads` | `LiveSpec`, 1 asset | `TypeOK`, `JobsMoveOn` |
| `MCFileDownloadsPair` | `Spec`, 2 assets, 2 rows at a time | `NoLostWakeup`, `WorkHasJob`; refinement of `FileLifecycle` |

### What the violated run says

**A page covers a hole.** For a page request the cursor starts at the oldest stored
message, and the coverage the fetched page proves ends at the end of the interval
(`reconciler/adapters/historySource.ts:149`). After a range read of the same owner the
messages between that range and the present were never fetched, and become covered.
"Return a synchronous result only when coverage proves that the local read model is
usable as is" (telegramGetMessages.md:24).

### Disagreements without a run of their own

Each was met while modelling; the ones marked (TLC) were seen as counterexamples when
the assumption that excludes them was taken away.

*Triggers.*
- A batch that outlives its lease (TLC): up to 50 dispatches of up to 30 seconds run
  under leases of 60 seconds, and the marks look at neither lease nor status
  (`store.ts:168`; "Terminal occurrences are never dispatched again",
  triggers.md:420). With two workers the backoff of a retry may be cut short likewise.
- With two workers an occurrence may be created for a registration removed, or a
  schedule replaced, between a tick's read and its insert (`runtime.ts:133`) (TLC).

*Pipelines.*
- `startRun` asks for the definition before the key, so the second call for an existing
  run is rejected once the pipeline is deleted (`runtime.ts:264`; pipelines.md:527) (TLC).
- A result event handled before `markNodeAccepted` finds no waiting node and is
  dropped; the run waits until a restart (`runtime.ts:298`; pipelines.md:239) (TLC).
- A disabled rule deletes a manual definition of the same name (`runtime.ts:133-135`),
  though "Policy reconciliation does not delete `source: manual` definitions"
  (pipelines.md:499; also :123), and an enabled one overwrites it (TLC).
  `ReconcileMaterializes` asks for neither: it speaks of rules that are on, and of the
  definitions that no rule names, which must be left alone if they are manual.
- A crash between the creation of a run and its execution leaves it running
  (`runtime.ts:278`); an acceptance whose answer is lost is recorded as a rejection
  (`actions.ts:68`).

*LLM runner.* With `TelemetryEnabled` a statistics read that fails after
`markCompleted` (`runtime.ts:279`) turns a completed run into a failed one (TLC).

*Policies.* One unparsable rule keeps the whole set from being reconciled
(`pipelines/src/runtime.ts:125`); a server that restarts over edited files announces
nothing; a refresh that fails is not tried again before the next change.

*History.*
- A job whose request reaches the first message of its owner never ends, though it
  should when "the beginning of owner history is reached" (telegramGetMessages.md:471-482):
  a page holds the message it starts from, so it is never empty, and one that holds only
  the first message proves nothing (`historySource.ts:366-378`); the job is released with
  its attempts reset (`runtime.ts:263`) and the page fetched again, for ever (TLC). So for
  a page with a count above the length of the history, and for a range that touches the
  second of the first message. The same befalls a page before a message that is not the
  owner's (`messageReadinessRepository.ts:100`), a range whose seconds hold `PageSize`
  messages or more, and a range of an owner TDLib does not find messages of by date.
  `JobsSettle` is about the other requests (`InReach`); those out of reach are in its run,
  and must not keep the others from ending.
- A request coalesced into a job that is being claimed may be completed with the old
  range (telegramGetMessages.md:438); a repeated selector may get another request id
  (:913); what "beginning of history" proves is decided by an empty page (:351,
  `historySource.ts:93`).
- A window whose row cannot be closed goes on over the time without connection
  (`history/liveCoverage.ts:95`), and start opens a window whether or not the
  connection is there (`ingestion/index.ts:145`), though "Live coverage is still a
  strict readiness guarantee" (telegramGetMessages.md:978) (TLC, both). Further: a
  message whose handling failed stays in a covered second; a window that could not be
  opened is not tried again before the next change of the connection; the second in
  which a chat was entered may be covered from its beginning; a chat that is left keeps
  its registration; closed windows are shown as covered but not used by the readiness
  of an owner.

*Files.*
- A tick that finishes or fails its rows schedules no other, and an older download is
  not looked at until something else wakes the worker (`files/queue.ts:105`), though "A
  job must not remain in `downloading` forever" (telegramFiles.md:383; also :767) (TLC).
  `NoLostWakeup` and `JobsMoveOn` except the download such a tick has overlooked.
- An enqueuer that fails after its insert (`filePersistenceStorage.ts:239-260`, a later
  slot, a publication) wakes nobody (`files/index.ts:215-219`, `:303-308`): its job stays
  queued while the worker sleeps (TLC). So do the queued jobs a tick has not come to
  because the job it had claimed was gone when its row was read (`queue.ts:97`). Both
  properties except these jobs (`unseen`) until the next tick begins.
- When the report of a failure fails (`queue.ts:177`), `Promise.all` (`:119`) rejects and
  the tick ends, while the other rows of the slice run on. The next tick may work on the
  same file, store it and delete its job under such a row, and the row may fail a file
  that was queued anew or make a failed one ready (TLC). `WorkHasJob` excepts the files of
  such rows (`outlived`); what becomes of them is `Straggle` in `FileLifecycle`.
- "Failed assets are retried only by explicit user intent" (telegramFiles.md:766; also
  :293, :342-348): a failure at the retry limit is retried by any slot (`policy.ts:82`),
  which is `Retry` in `FileLifecycle`, and any failure by a slot that read the status
  before it (`RetryLate`). A read before an enqueue may also queue a file that became
  ready (:291); a reset after an enqueue erases a failure (`Forget`); a second report of a
  failure deletes a newer job, and a completed file that cannot be stored fails one that
  was not claimed (`Drop`).
- TDLib's ids are not compared across sessions (`files/queue.ts:337`); a slot that is
  there already hides later ones of its message (`messageSlots.ts:29`).

### Bounds

- `MaxClock` 3 in Pair: with a period of 2 this is room for a lease that expires under
  one worker and is taken by the other. `MaxClock` 2 in Solo: with periods of 1 and 2 and
  a lookback of 1, room for an occurrence that is missed, made up, retried and settled;
  there the last second stands for every later one (`LongAfter`).
- Triggers: one registration of one owner: what a replacement does to another owner's
  rows is in the model (`OwnedBy`) and in the proofs, not in an instance. `MaxFaults` 1, a
  crash or a failed statement. `MaxReplacements` 2: register, and remove or change.
- Two calls for one run, a trigger and its redelivery. Runs share nothing but
  `serialize`, the subscriptions and the startup scan, so one run stands for each.
  Plans of two nodes: something runs before, or after, the node that waits; in
  `AskTwiceOrWrite` a run may wait twice. `MaxLost` 1.
- LLM runs: two processes, two runs (one for liveness), `Stale` 2, recovery ticks of
  up to `MaxLag` 1, two faults.
- Policies and definitions: two names, two documents of which one is unparsable, two
  callers with two mutations, one manual operation, two faults of the pipelines module
  and one disturbance of the policies: a change before and after the first refresh, and
  one that overtakes a reconciliation.
- History: a chat whose messages share a second, with two overlapping ranges, and a topic
  with two pages, of which one reaches its first message and never ends; two callers that
  ask twice, pages of up to three messages, one transient failure allowed and one fault: a
  range that needs several pages, a merge with a job that waits or is claimed, and a failure
  in each stage. `MCHistoryHoles` needs pages of two and no fault.
- Live coverage: clock 0 to 3 (two seconds, each with a beginning and an inside), one
  message, one chat known from the start and one entered later, two updates handled at
  a time, the connection lost and found again once, one fault; starts and stops are not
  bounded. Clock 4 with two messages was checked for the safety properties (16 million
  states).
- Files, `MCFileDownloads`: one asset of two files whose ids are exchanged by a restart,
  size 2, retry limit 2, one call, two faults (an enqueuer, a tick or a report that fails,
  and a crash after it). `MCFileDownloadsPair`: two assets whose ids stay, two rows at a
  time, two calls, one fault: a report that fails leaves the other row of the slice
  behind, and the next tick, or a request, comes to its file.

Symmetry is used only where no liveness property is checked. In `MCFileDownloadsPair` the
two files are exchanged together with their ids, and the rows with each other; that a claim
takes the row `CHOOSE` gives it is no obstacle, since free rows do not differ.
`CHECK_DEADLOCK FALSE` is set for pipelines: once the calls are answered and the runs have
ended, nothing more happens; definitions and policies stop when the operations are used up,
history and live coverage when the requests and the clock are.

### Assumptions on timing, and fairness

The code relies on timing that it does not enforce. Each such reliance is a named
action constraint of a specification, so that it is visible what rests on it:

- `Triggers!BatchesWithinLeases`: with several workers, a tick ends within the leases
  it took. Without it `TerminalIsFinal`, `OneHolder` and the refinement fail.
  `AcceptedHasRun` needs no such assumption (and is proved without).
- `PipelineRuns!Patient`: a provider's result, or the failure to read it, does not
  come before the execution has recorded the acceptance. `DispatchedOnce` is checked
  without it.
- `LlmRunner!RefreshedInTime`: one of three refreshes per lease gets through.
  `EveryRunEnds` is checked without it.
- `LiveCoverage`: `LinkHoldsAtStart` (the connection is up while start runs) and
  `ClosesSucceed` (the row of a window can be closed) are constants; setting either to
  FALSE makes TLC find the corresponding disagreement above. Queues may be behind by any
  time: the properties are stated for the moments when nothing is left to handle.

Fairness is weak, on steps the event loop or the scheduler takes as soon as it can:
a process runs the task it has, a process that is down is started again (process
supervisor), ticks recur, time passes, a call returns or times out, the provider ends
what it accepted. No fairness is assumed of failures, crashes, losses or of operations
that somebody outside calls. `PipelineRuns!EveryRunEnds` excuses runs when a crash, a
failing statement or a lost event intervened, because the code then does leave runs
behind: an execution lost in a crash is not taken up again. `RestartSettles` says what
remains true: a restart that nothing disturbs settles every waiting node whose result
is available.

The other liveness properties say what they rest on beside weak fairness.
`EveryOccurrenceSettles` assumes that the queue of a process does not delay every single
tick for as long as it may (strong fairness of a tick that starts in the second it was
called). `JobsSettle` assumes that the row with the oldest `nextRunAt` is selected in the
end (the order of the query; strong fairness of the selection), that locks and delays run
out, and that from some point on TDLib returns as much as the page allows: pages that stay
short defer a job for ever, by design. It speaks of requests within the reach of the pages
(`InReach`) and holds while others, which never end, take their turns between them.
`JobsMoveOn` assumes the order of the queries for queued and stale jobs and that TDLib is
not busy each time the worker wants to claim. That somebody wakes the worker is not assumed:
the property excepts what only a wake-up would move, that is, jobs nobody was going to tell
of, and downloads the last tick overlooked while the worker sleeps. `RulesTakeEffect`
excepts the module that missed the last change. `CoverageResumes` excepts a window that
could not be opened.

## 4. Proofs

All proofs are for arbitrary constants satisfying the assumptions declared beside them
(numbers are naturals, `LeaseSeconds` and `ClaimLimit` positive, null values are not
among the values). Neither the workers, the registrations nor the names need be finite.

**`TriggersProofs`**

- `TypeCorrect`: `Spec => []TypeOK`.
- `TimelyInvariant`: `TimelySpec => []TimelyInv`, where
  `TimelyInv == TypeOK /\ Ownership /\ BatchesWithinLeases`. `HolderOwnsRow` is not
  inductive: nothing in it keeps a second worker from claiming a held row. `Ownership`
  adds what does: the row carries the lease the batch took (`now + LeaseSeconds`), the
  claims of a batch are distinct, and the status tells whether the row is being
  dispatched. Under `BatchesWithinLeases` the claiming update's condition on the lease
  is then false of every held row (`HeldLeaseNotFree`, `ClaimRowOwns`), and a worker
  writes only rows of its own (`OwnRowOnly`).
- `HoldersOwnTheirRows`, `OnlyOneHolder`: consequences.
- `ImplementsLifecycle`: `TimelySpec => RefinesLifecycle`. The marks have no condition
  on the status; that each is a legal transition follows from `Ownership`.
- `TerminalForGood`: `TimelySpec => TerminalIsFinal`, through the refinement.
- `AcceptedAlwaysHasRun`: `Spec => []AcceptedHasRun`, with no timing assumption. Its
  invariant `AttemptsInv` follows an attempt from the mark to the call and the run.
- `NoneAfterRemoval` and `MissedAreMadeUp`: with one worker (`OneWorker`),
  `Spec => NoneCreatedAfterRemoval` and `Spec => MissedPeriodsMadeUp`. The due periods are
  listed in one step and inserted in a later one; `CreationInv` says that what is listed
  is still what the registrations make due, because a replacement waits in the same
  queue. With two workers it does not wait, and both fail (section 3). The second rests
  on `DueIsOwed`: for every schedule, anchor, lookback and moment the periods `dueTimes`
  computes by a division that rounds up are the periods that are owed by definition.

**`PipelineDefinitionsProofs`**

- `TypeCorrect`: `Spec => []TypeOK`.
- `RegistrationsAlwaysAgree`: `Spec => []RegistrationsAgree`, from `AgreementInv`: at
  most one name is between its two writes, and its registrations are already those of
  the document to come.
- `ReconciliationMaterializes`: `Spec => ReconcileMaterializes`, from `ReconcileInv`:
  what is not pending is settled as its rule says, and after the sweep no definition of
  the policy is without a rule. That a reconciliation leaves the manual definitions no
  rule names alone (`ManualKept`) follows from what its steps may delete.

**`PolicyPipelinesProofs`**

- `ImplementsDefinitions`: the module under its policy is a behaviour of
  `PipelineDefinitions`: the policy only chooses which reconciliation begins. So
  `AgreementUnderPolicy` and `MaterializedUnderPolicy` follow from the theorems above.
- `FilesAreServed`: `ServedIsStored` for any number of callers, rules and faults. Its
  invariant `FilesInv` says where the one mutation in its turn stands: what it prepared
  from is still what is served, and the file differs from it in its own name only.
- `SettledModuleIsCurrent`: `SettledIsCurrent`, from `LiveInv`: a change that the value
  does not show yet is still announced, queued, or was missed.
- `SystemTypeCorrect`: `SystemSpec => []SystemTypeOK`. That the two queues are bounded is
  the part that is not a type: `CountInv` counts that every event announced and every
  refresh queued goes back to an accepted mutation, or is the one a start asks for.

**`LiveCoverageProofs`**

- `WindowsStayInHand`: `WindowsInHand` for any chats and bounds, and without the two
  assumptions of its run: the connection may change while `start` runs, and closing a
  window may fail. (`TypeCorrect` comes with it.)

  The property is not inductive: a window is opened two statements after the observer
  found none, and what it means that stop has ended depends on what was queued before. Its
  invariant `IInv` adds what the queues hold. `Fits` says of the operations that an
  opening is under way only at the head, with no window open and none in hand; that start
  and stop wait for one operation at a time; that the one start waits for first is served
  before any other, so that the windows a crash has left open are closed before a handler
  is answered; and that the one stop waits for is the last. `Hand` says that, from then on,
  an open window is the one in hand, and that updates are handled before stop closes it.
  The lemmas follow the queue: what is appended, taken from the head or replaced there
  (`AppendFits`, `TailFits`, `BecomesFits`), and who goes on when an operation ends
  (`ReturnFits`).
- `LiveCoverageHolds`: `LinkHoldsAtStart /\ ClosesSucceed => (Spec => []LiveMeansStored)`.
  The two assumptions are those of the run, and are needed: without either TLC finds a
  covered second whose message is not stored. What was not seen can be in no window that
  stays. The invariant `LInv` says this of the queues: while the connection is down,
  whatever is open or will be opened is followed by a disconnect, among the operations or
  still among the updates (`Doomed`); a window that is followed by none begins after all
  that was missed (`Spares`); and what was seen is stored, lost with its handler, or still
  queued (`SeenInHand`). The first two need not hold while the module stops or is down, so
  they are stated for the phases in which it serves (`Serving`).
- `RestoreReachesLive`: `LinkHoldsAtStart => (Spec => RestoreMeetsLive)`, from the same
  invariant: since its first window was opened, the known chats are registered in it
  (`Registered`), and each chat a rule selects is asked for up to that window or still to
  be (`AskedFor`). Windows need not close for this.

**`LlmRunnerProofs`**

- `TypeCorrect`: `Spec => []TypeOK`.
- `OneProcessorAtATime` and `AnnouncedAlwaysStored`, under `TimelySpec`. `OneProcessor`
  speaks of runs that are not final; its invariant `OneHolder` is stronger: whoever has
  a run in its hands, until its outcome is published, is alone with it. A process writes
  a row without looking at it, so `RowsFit` says what the row may be for each step that
  holds it, and `AnnouncedLast` that a run which was announced has no holder left.
- `ImplementsContract`: without `TelemetryEnabled`, `TimelySpec => KeepsContract`: each
  step is one of `ProviderContract` or leaves what it shows alone.

**`PipelineRunsProofs`**

- `TypeCorrect`: `Spec => []TypeOK`, for any plans and tasks.
- `NoNodeIsDispatchedTwice`: `Spec => []DispatchedOnce`, whatever fails. Its invariant
  `TurnInv` says that the turn to take a run further is in one place (`OneTurn`: with one
  task, with the startup's list, or with the node that waits), and that a node which a
  task has seen open, in rows it may have read several awaits before, was not sent
  (`SentOnce`).
- `CompletedRunsAreThrough`, `WaitingRunsHaveANode`, `RunsFollowTheLifecycle`, under
  `PatientSpec`. One invariant carries the three: `RunInv` says for each run who writes
  it, that the rows the writer has read are the rows there are where it relies on them
  (`RowsFit`), that a node waits at most once and has no result before it does, and that
  a waiting run is accounted for (`Accounted`: by a node, a task or a fault). The
  refinement reads each change of a run's status off it.

**`HistoryReconcilerProofs`**

- `TypeCorrect`, `CoverageNeverShrinks`, `CompletedJobsAreReady`, for every history,
  every set of requests and whatever fails, from `HInv`: what the runner has in hand is
  a row that fits its selector, though calls may widen the row meanwhile; a page is one
  the source may give; the job it is about to complete can be read.
- They rest on the coverage computations, proved for every finite set of segments:
  `MergeCovers` (merging changes no second), `SubtractCovers` (what is missing is what is
  asked for and not covered), `WriteCovers` (a write adds exactly its own seconds). No
  induction is needed for them: each is an argument about the least or the greatest
  second of a bounded set (`Least`, `Greatest`), which follow from the well-foundedness
  of finite sets.
- `CoverageProves`: `ReadOneWay => (Spec => []CoveredMeansStored)`. An owner is read one
  way if it is found by date and asked for ranges, or is read from the present
  backwards. The invariant `StoredInv` adds what the page in hand proves (`PageProves`)
  and that an owner read backwards is stored without a hole from its oldest stored
  message on (`Backwards`). The two cases left out are real: an owner that is read both
  ways has holes below covered seconds (`MCHistoryHoles`), and a page that ends before a
  given message covers that message's second, of which newer messages were not fetched
  (TLC, with a page of two before a message that shares its second).
- `CompletedRangesAreStored`: what a caller of `getMessages` relies on. Of such an owner
  every message in the range a request asked for is stored when its row disappears,
  also when other requests were merged into the job.

**`FileDownloadsProofs`**

- `TypeCorrect`, `WorkIsUnderAJob`: `Spec => []WorkHasJob`, from `FInv`. `WorkHasJob` is
  about jobs that others delete by asset alone; that none of them can, unless a row has
  outlived its tick, is an argument over every pair of a row's step and another's. `FInv`
  says for each row what holds of it in any company (`Sound`), where the stages have put
  it, and that only claimed rows outlive their tick (`Placed`), and what the statements
  between its read and its write cannot have changed while it is alone with its file
  (`Fits`). `PairInv` says when it is: two rows work on one file only where one has
  outlived its tick.
- `StatusFollowsLifecycle`: `Spec => RefinesLifecycle`. What is shown of a file is
  computed from two tables; every statement that writes one of them is an arrow of
  `FileLifecycle` or shows nothing. One lemma per arrow says which writes it stands for;
  what a row of an excepted file writes is `Straggle` or one of the arrows.
- `NoWakeupIsLost`: `Spec => []NoLostWakeup`, from `WakeInv`, which extends the property
  to the moments while a tick runs: then `pending`, or the tick's own result, remembers
  the wake-up, or the tick is still to claim what is queued.

### Model-checked only

Every invariant, action property and refinement of the passing runs is stated by a
theorem, under the assumptions named above. What stays with TLC:

- the liveness properties `EveryOccurrenceSettles`, `EveryRunEnds` (of pipelines and of
  LLM runs), `RestartSettles`, `RulesTakeEffect`, `JobsSettle`, `JobsMoveOn` and
  `CoverageResumes`: the provers have no rules for fairness and ENABLED;
- the cases a theorem excludes: two workers for the two theorems with `OneWorker`, batches
  that outlive their leases, owners read both ways. There the property fails, and section
  3 says how;
- that the bounds of the instances let the interesting cases happen, which a proof for all
  constants does not show. The mutants do.

Induction over data cannot be carried out with the provers at hand (the induction
theorems of the library take an operator as a parameter). The one place that needs it is
avoided by the well-foundedness of finite sets (`Least`).

## 5. Not modelled, and why

Parsing of documents and node ordering (pure functions of a document), the mapping of
TDLib's updates to rows and of messages to slots (data rather than control), the
TDLib client and its scheduler (priorities and rates of calls to an external library),
the contents of datasets and messages, user interfaces, proxies, metrics, deployment.
Most of the repository's lines are of these kinds, which is why the share the models
cover is small although the concurrent core is in them.

Not covered by a property although the models have the behaviour: runs left running by
a crash, and a provider run orphaned when its acceptance is lost. The documentation
promises nothing about either.

## 6. Plan

1. A composition of `Triggers`, `PipelineRuns` and `LlmRunner` at the level of their
   abstract specifications: an occurrence that is accepted leads to a finished run.
2. `LiveCoverage` with `HistoryReconciler`: the range the restore asks for becomes a
   job, and readiness counts both kinds of coverage.
3. The TDLib scheduler, and the topological order of a pipeline's nodes against its
   definition.

# Verification of raychat

TLA+ models of the concurrent and crash-prone core of raychat (a terminal chat
agent with plugins, a journal and a self-updating core), the TLC runs that
check them and the theorems proved about them. Every definition is translated
from the source; `PROJECT.json` maps each one to the lines it stands for, lists
the hazards found in the code and names the properties that address them.

Model checking: `tlc -workers 2 -config <cfg> <module>`; proofs:
`tlapm <module>Proofs.tla` for each of the modules of section 4.

## 1. The system

```
 terminal ── raychat_bootstrap.Supervisor ── process per core ── core_entry.py
             (event loop, recovery.json)       CoreBridge
                                               └ ui.controller (frontend thread)
                                                  └ AgentWorker (owning thread)
                                                     └ AgentSession ── SessionStore
                                                        └ plugins.Runtime ── plugins
                                                           (goals, subagents, memory, ...)
```

| component | state it keeps | operations | talks to |
|---|---|---|---|
| Supervisor (`raychat_bootstrap/supervisor.py`) | the current core, the last state document, update results, releases, one transition task, `recovery.json` | start, update (validate, drain, capture, probe, retire, replace, activate), fall back, recover, resume the queue | cores over two ordered streams of frames; the terminal |
| Core side (`raychat/core_bridge.py`, `core_entry.py`, `raychat/ui/handoff.py`) | `active`, `draining`, `frozen`, acknowledgements, undelivered update results | authorize a dispatch, claim a result, restore, capture, retire | the supervisor; the frontend thread, which polls it |
| Terminal interface (`raychat/ui/*`) | views, message queue, editor, selection | keys, dispatch of the queue, review of update results, hand-over | bridge, workers, the agent sessions |
| Agent worker (`raychat/workers.py`) | command queue, accepted and cancelled jobs, pending approval, `_closed`, `_stop_flag` | submit, cancel, approve, reset, reconfigure, stop | the conversation through callbacks; events to the interface |
| Session and journal (`raychat/session.py`, `raychat/storage.py`) | history, plugin state, rollback copy, checkpoint owners; an append-only file | turn, delegated turn, checkpoint, fork, resume, reset | plugins, the file system |
| Plugin runtime (`raychat/plugins.py`) | the current generation, operations per thread, pending reloads, resources of each generation | operation, command, request_reload, reload, close | plugins, package manager, session |
| Package manager (`raychat/plugin_manager.py`) | receipts per scope, cached and on disk; installed trees, staging and backup directories | install, update, uninstall, set_enabled, catalog, ensure_profile | plugin runtime (prepare/commit/rollback hooks), other processes through a file lock |
| Goals (`plugins/goals`) | the goal and its revision; the goal last saved as plugin state | `/goal` commands; the send-and-judge loop around a turn | session (messages, plugin state), the user |
| Subagents, workflows (`plugins/subagents`, `plugins/workflows`) | the catalog of child chats and their workers, the activity count | create, wait, report; export, restore, reconfigure and close the catalog | one `AgentWorker` per child, plugin runtime (reloads), interface |
| Isolated workers (`raychat/transport.py`, `raychat/worker_entry.py`) | a child process, its frames, a task per pipe | run a turn in a child, take its snapshot, cancel, kill the group | session, operating system |
| Process plugin (`plugins/process`) | one command and its reader threads | start, poll, time out, cancel, end the whole tree | operating system |
| Context policy (`plugins/context`) | none: a function of the history and the budget | select the instructions, build and compact a request | session |
| Memory, filesystem tools (`plugins/memory`, `plugins/filesystem`) | one memory file and each session's copy of it; nothing between two calls of a file tool | load, add, remove, page; list, read, write, edit | session, other sessions and programs through the file system |
| Terminal (`ui/terminal.py`, `ui/terminal_backend.py`) | modes and screen of the terminal; partial keys, characters and pastes | enter, leave; decode, hand over | operating system, controller |
| Optimiser (`plugins/optimization`) | candidates, scores, fronts, caches, budget; a checkpoint | run, resume, reflect, merge; evaluate a batch | an evaluator, a model |
| Model client (`plugins/chat_completions`, `raychat/http_debug.py`, `http_replay.py`) | one request; its capture | ask, read, retry, record | a server, the file system |
| Skills | read-only files | see the plugin | session |

### What is hard

* **Threads.** Clients call an `AgentWorker` while its thread runs a job; a
  cancel, an answer, a stop and a retiring job race. Commands edit and
  checkpoint plugin state beside an open turn.
* **Tasks.** In the supervisor the loop, the startup task and the transition
  task interleave at every `await`, and Ctrl+R cancels the transition wherever
  it happens to be.
* **Messages.** Controls and reports cross on two streams. What a core owned
  when it asked for a dispatch may be gone when the answer arrives.
* **Crashes.** A core, the supervisor or the whole machine may go between any
  two steps; `recovery.json` and the journal are what is left.
* **Partial failure.** A manifest write, an fsync, a capture, a probe, a user
  callback may fail in the middle of a multi-step protocol.
* **Time.** Some waits have a timeout and a fallback, some have neither.

## 2. The modules

| module | models | role |
|---|---|---|
| `JobService` | – | what a worker promises: jobs begin one at a time in the order they were accepted, each ends once, none is accepted or begun after `stop()` |
| `AgentWorker` | `raychat/workers.py` | all of the worker; implements `JobService` |
| `AgentWorkerProofs` | – | theorems about `AgentWorker` |
| `JournalProofs` | – | lemmas about `SessionJournal`: types, reading a file that has grown or been cut, checkpoints |
| `WorkspaceProofs`, `ServicesProofs`, `RuntimeProofs`, `InterfaceProofs`, `SupervisorProofs`, `DispatchProofs` | – | theorems about `SessionJournal` (with `JournalProofs`), `MemoryFile`, `TerminalModes`, `FileTools`; `GoalRun`, `CommandRun`, `IsolatedChild`, `AgentCatalog`, `PackageTransaction`; `PluginRuntime` and `ReloadService`; `ApprovalReview` and `ChatFrontend`; `Supervisor`; `CoreDispatch`; each as the composed module has them |
| `SessionJournal` | `session.py`, `storage.py` | turns, checkpoints and forks over a journal that crashes; `/clear` and `/resume` between journals |
| `CoreDispatch` | `supervisor.py`, `core_bridge.py`, `ui/controller.py`, `ui/handoff.py` | who may start queued work, what is durable before it starts, what comes back |
| `Supervisor` | `supervisor.py`, `core_entry.py` | processes and tasks of start, update, fallback and recovery |
| `ReloadService` | – | what the plugin runtime promises: every reload request ends once, an activation happens only when no operation runs, nothing is activated after `close()` |
| `PluginRuntime` | `raychat/plugins.py` | operations, reloads and generations of plugins; implements `ReloadService` |
| `PackageTransaction` | `raychat/plugin_manager.py`, `raychat/file_lock.py` | package changes of several processes that crash |
| `GoalRun` | `plugins/goals/*` | the goal loop of a run beside `/goal` commands |
| `AgentCatalog` | `plugins/subagents/*`, `plugins/workflows/runner.py`, `raychat/workers.py` | children of a conversation across reloads and close |
| `IsolatedChild` | `raychat/transport.py`, `raychat/worker_entry.py` | a turn in a child process |
| `CommandRun` | `plugins/process/*` | one shell command and what it starts |
| `ContextPolicy` | `plugins/context/*`, `raychat/session.py` | the request built from a history within the budget |
| `EvaluationPool` | `plugins/optimization/gepa/evaluation.py`, `stdio_capture.py`, `optimize_anything.py` | a batch evaluated by threads that share a cache and the standard output |
| `HttpExchange` | `plugins/chat_completions/client.py`, `raychat/http_debug.py`, `optimize_chat_prompt.py` | a question to the model, its retries and its capture |
| `ChatFrontend` | `ui/controller.py`, `ui/state.py`, `ui/message_queue.py`, `ui/terminal.py`, `workers.py` | one chat with its two workers: events, the queue and its edits, cancelling, quitting |
| `ApprovalReview` | `ui/controller.py` | what must have been on the screen before an approval is accepted |
| `FileTools` | `plugins/filesystem/operations.py` | read, edit and write of a file that others change |
| `MemoryFile` | `plugins/memory/*` | a memory several sessions share and replace |
| `KeyDecoder` | `ui/terminal.py` | keys from bytes that arrive in pieces |
| `TerminalModes` | `ui/terminal.py`, `ui/terminal_backend.py` | what is taken of the terminal and given back |
| `CandidateSearch` | `plugins/optimization/gepa/*`, `optimize_chat_prompt.py` | the optimiser's search, its cache, fronts, budget and checkpoint |
| `MCInterface` | – | `CoreDispatch`, `ChatFrontend` and `ApprovalReview`, for one run |
| `MCServices` | – | the nine services around a conversation, for one run |
| `MCWorkspace` | – | `SessionJournal` and the five modules before `MCInterface`, for one run |
| other `MC*` | – | model values for the runs |

Each component module ends with its properties. Between the actions stand small
definitions introduced by the words *planted error*: variants of one definition
with a plausible mistake. No specification uses them; each property is known to
fail when the definition it guards is replaced by its variant, so no property
holds vacuously.

### AgentWorker

One action is one region under `_state_lock`, or one effect between two such
regions. `jobs`, `accepted`, `cancelled`, `active`, `processing`,
`pendingControls`, `pending`, `answers`, `stopFlag` are the fields of the class
(`_jobs`, `_accepted_jobs`, ...). `call` and `reply` are the clients' program
counters (a client of `submit()` has passed the first check and not the second;
one of `respond_approval()` has released the lock and not queued its answer),
`thread` is that of the owning thread, in the order of `_run` and `_run_job`.
The conversation is what it does through its callbacks: publish an event, ask
for an approval, fail, return. `begun`, `terminal`, `completion`, `executed`,
`granted`, `cancelSeen`, `lateUi` are history for the properties. `Faults` names
the two places where a user callback can end the thread.

### SessionJournal

`file`, `synced`, `torn` are the journal and how much of it survives; a crash
leaves any length between `synced` and the end (`CrashLengths`), possibly
followed by an incomplete record. `shelf` has the journals that were left by
`reset()` (`/clear`) or `/resume`: closed, and cut by a crash like the open one.
`RestoreChild` ends in phase `restored` while the restore hooks run; one that fails puts
back history and state from before the return (`RestoreFails`, phase `undone`), and with
them what a command has edited and checkpointed in between. `Undone(o)` says that
this has met `o`; a checkpoint of `o` then saves the older value, and `kept`,
the number that a plugin is promised, is lowered to it.
`Reset`, `Resume` and `Fork` need an idle session and no command in progress
(`Settled`). When the new journal cannot be created the worker of the session ends
(finding 1), so `ResetFails` is an end of the process in good order; when a restore hook
refuses another journal, `_load` has already cut off its incomplete record
(`ResumeFails`). The journal a process starts with is the last one; starting with
another is a `Resume` after it. A plugin's state is the number of the edit
that wrote it, so a smaller number is an older value. `phase` is where the turn
thread is (`child`: the turn runs in another process and its copy comes back),
`io` a durable append between its write and its fsync, during which the mutex is
held, `cmd` a command between its edit and its checkpoint.

### CoreDispatch

`toCore` and `toSup` are the streams. `last`, `results`, `claimed`, `manifest`
are `last_state`, `update_results`, `claimed_results`, `recovery.json`;
`active`, `draining`, `frozen` are the bridge's; `ui` is the frontend waiting in
`authorize_dispatch`, where it goes on applying controls (`Poll`). Replacing a
core is one step here; its stages are `Supervisor`'s. A dispatch that is not
acknowledged in ten seconds kills the core, so it is a `Crash`. A capture that
takes longer than thirty seconds is given up, yet the core may still answer it, and
neither message carries a token: the answer is then taken for that to the next
capture, and the prompts entered in between are not in it. `Unanswered` says when
a drain begins with such an answer outstanding; the history variable `lost` records
it, as it records a crash, and `QueueKept` does not promise anything after it.

### Supervisor

`proc` is the truth about the processes, `seen` what the supervisor's `Core`
objects say of them, `out` what is still unread between the two. `task` has the
startup and the transition task at the `await` they have reached; `CancelledTo`
is what the exception handlers do when a task is cancelled there. Controls take
effect at once here (their delay is `CoreDispatch`'s subject), a killed process
is gone at once and reaped later, and process numbers are used again when a
process is reaped and no task refers to it (`Free`), which keeps the number of
processes bounded without bounding the number of recoveries.

A capture that times out (`CaptureFails`) finds the messages that the old core sent
before its answer already read: `_loop` reads every hundredth of a second, the timeout
is thirty. Without this an `update` that is still unread could begin a second
transition, whose capture would take the late answer to the first for its own.

### PluginRuntime and ReloadService

`frames` holds, per thread, the operations it is inside, each with its own list of
requests; `busy` is `_operations`, `stage` the generation a thread is pinned to,
`pending` the requests that wait for the last operation, `current` the active
generation with its plugins and its cleanup callbacks, `open` the resources that are
acquired and not released. `_release_operation` is split where `_lock` allows others
in: the requests have left `_pending_reloads` (`todo`) and are applied one by one, with
callbacks of the requesters in between (`Report`) that may raise. Loading may
fail, a cleanup may fail, a plugin may hand its state on to the next generation
or not. `ReloadService` knows only which requests are waiting and how each
ended; the refinement is a property of the run.

### PackageTransaction

`receipt` is the receipt of the scope on disk, `tree` and `backup` the directories,
`cache` each process's receipt in memory, `lock` the file lock. A change is the sequence of effects in
`_write_transaction_files` and `_finish_transaction` under the file lock: move the
old tree aside, place the new one, write the receipt, commit; `Abandon`, `Restore`
and `Unrecord` are the rollback, which may be entered from any of these. `Crash`
ends the process at any step and frees its lock. `stale` and `torn` are history:
a receipt written from an old cached copy, and a crash between the two renames.

### GoalRun

`goal` and `revision` are the controller's, `current` the revision a round of
`_GoalRun.run` works on (read once per round, outside the lock), `state` and
`durable` the goal in the plugin's state and in the last checkpoint. `writer` has
the threads inside `_GoalHooks.save`, which reads the goal and writes it in two steps
on the thread of the run and on that of a command. `turnStart` is the session's
rollback state: a turn that is aborted (`Abort`, from `SendFails` and `RaiseInTurn`) puts
it back, and a checkpoint of the command replaces it. `doubtful` is history: the last
save overlapped another, was cut by an abort, or could not be made.

### AgentCatalog

A batch of pool threads creates children; a child is an `AgentWorker` reduced to
what shows outside it: its thread, its one job and the report of its activity
before and after. A reload exports the catalog (`chats` and `counted` of one generation), restores it
into the next and reconfigures that one, while the pool threads keep the catalog they
began with (`home`) and the workers the one they report to (`observer`); `close()`
stops and joins.

### IsolatedChild and CommandRun

Processes are taken apart as the operating system does: leader, group members,
pipes. `IsolatedChild` has the child's writer, the parent's `_exchange` with its
two tasks and the end in `_stop`, each of whose steps may fail or time out; the
parent may die, and the child's watcher thread then ends it. `CommandRun` has the
gate that holds a Windows command until it is in its job object, the poll loop
and the reader threads. Processes started by a command are external.

### ContextPolicy

The only module about a calculation. A text is its length, a history any sequence that
`AgentSession.send` can build from messages of `Lengths`, and the policy is the
chain of its functions: the instructions are selected against a floor of the
request, and the request is then built, compacted pair by pair and enriched.

### EvaluationPool

`work` holds each position of a batch: its step in `_call_evaluator` and
`_refine_and_evaluate`, the candidate it asks about and the answer it has. A look into the
cache and the storing of an answer are separate regions of the lock. The evaluator
answers any score, or raises. `stdout`, `users` and `installed` are the stream and its
wrappers; `answered`, `recorded`, `strayed` are history.

### HttpExchange

`step` goes through an attempt: open, connect, send, wait, read (or drain, when an
error is captured), close. A response is a status, a framing, a size and how much of it
arrives; `Reads` is `HTTPResponse.read` of the standard library for the three framings.
`past` keeps what was served and captured in each attempt at the question.

### ChatFrontend

A frame is what `_process_frame` does, in its order: the events of the agent's
worker, those of the command worker (`Consume`), one look at the queue
(`_continue_update`, `_drain_queue`), then keys. `phase`, `activeJob`, `commandJob`,
`startedIdle` and `approval` are the chat's view of its jobs; `queue`, `running`,
`stage`, `cancelled`, `events`, `asked` belong to the workers, which run beside the
frame and are `AgentWorker` reduced to what a client can see. `items`, `selected`,
`edits`, `editor` are the message queue and its edit transaction. A dispatch may be
refused by the bridge after the message has been taken (`Denied`, `DrainRefused`).
`entered`, `sent`, `dropped` are history: what the user handed over, what a worker
accepted, what a cancellation removed.

### ApprovalReview

A frame takes the new size, reads keys and draws. The text of an approval is
`Units` pieces; a layout shows some of them in a row, one row at a time, or is too small to
show any. The fields of `ChatView` that decide when "yes" counts (`scroll`,
`reviewed`, `until`, `unlock`, `drained`, `ready`, ...) are kept as they are, and
`shown` records the pieces that have really been on the screen. Keys carry whether
they were typed before the last page was drawn.

### FileTools

A tool call is its steps between which others may run: open, page, block by block,
the looks at the path (`_file_state`), the rename. A file is an inode that a call may
hold open after its name is gone, and whose number is used again; a block is the
number of the change that wrote it. `expected` is the content whose digest an agent last
received. Programs beside the tools (`Scribble`, `Delete`) are external.

### MemoryFile

`store` is what a session has read and answered since, `saving` what it is writing
to its temporary file. `told` and `writer` are history: the entries a session has
named to its user, and the session whose copy the file is.

### KeyDecoder

`Drain` is `_drain` as a function of the decoder: each case takes something from the
front of the buffer, or waits. Bytes stand for classes of bytes; `first` is the
decoder a behaviour began with, which after a hand-over may be inside a paste. The
property compares what came of the reads with what the same bytes give in one read.
`Oversize` recognises a control sequence that was given up because it is longer than
`max_escape_bytes`; it ends where the read ends that makes it too long, so there cuts do
matter.

### TerminalModes

`step` is the next call to the system in `__enter__`, in the undoing of an entry that failed,
or in `__exit__`; any of them may fail, and a write may fail after it has reached the
terminal. `refused` records what the system would not take back.

### CandidateSearch

An iteration is the steps between which an evaluation may raise or the process be
killed: save, merge or reflect, evaluate, add. A new process (`Start`) goes on from the
saved state, with or without a cache. The evaluator is a function of candidate and example
chosen in the initial state; `spent` counts its calls, also those of an evaluation that
raises (`AskRaises`), which the code does not count; `uncounted` is their number.
Random choices (sample, candidate, pair, ancestor) are nondeterministic.

### MCInterface

As in `MCServices` below, `part` chooses one of the three in the initial state.

### MCWorkspace

The same for the journal, the file tools, the memory, the keys, the terminal and the
search.

### MCServices

The services share no state and one is active in a behaviour: `service` is chosen
in the initial state, and the variables of the others stay as they are. One run
thus explores the union of nine separate state spaces.

## 3. The runs

Bounds cap the counters named in each module's CONSTANTS; the specifications
have no other limits. All runs set `CHECK_DEADLOCK FALSE`, because every one of
these systems may stop: the worker closes, the journal's bounded turns are used
up, the program ends.

| run | states | question and answer |
|---|---|---|
| `worker` | 242,990 | A client against the thread, under fairness. Safety: `ResolvedOnce`, `QuiescentMeansResolved`, `StopIsLast`, `ExecutedWereGranted`, `PendingIsLive`, `NoUiAfterCancel`; refinement of `JobService`; liveness: `WorkEnds` (`StopTerminates`, `CancelledJobEnds`, `AcceptedJobsEnd`). All hold. |
| `worker_reset` | – | `SubmittedJobsEnd` fails (finding 1). |
| `workspace` | 2,124,305 | Journal: `PublishedSurvives`, `CheckpointsKept`, `TurnStaysPrivate`, `IdleMemoryIsDurable`, with crashes and failing writes anywhere. Files: `EditsAreInformed` (a digest is that of the file as it is; an edit replaces what its agent knew and nothing else). Memory: `MemoryHonest` (every start finds a valid file, an id names one entry, an answer is the file's). Keys: `CutsDoNotMatter`. Terminal: `GivenBack`. Search: `SearchHonest` (fronts, scores, lineage, budget). All hold. |
| `journal_race` | – | `CheckpointSavesCommand` fails (finding 2). |
| `interface` | 1,473,459 | Dispatch: `NothingReplayed` (no queued work runs twice, no feedback of a review is delivered by two cores, each on a durable record), `QueueKept` (an update loses no prompt, and a recovered core starts none before it is told to). Chat: `ChatMatchesWork` (the frontend never raises; what it shows as running is what its workers run), `QueueHonest` (each message is queued, sent or removed, once and in order), `EscapeHitsItsJob` (the second Escape cancels the job of the first). Review: `ApprovedWasSeen`. All hold. |
| `dispatch_review` | – | `ReviewedOnce` fails (finding 3). |
| `dispatch_update` | – | `UpdateEnds` fails (finding 4). |
| `supervisor` | 1,648,931 | `OneCoreInCharge` (`OneOwner`: one core owns dispatch; `OneWriter`: one has the journal open, until Ctrl+R is pressed twice), `CapturedIsFinal` (what is captured is what the old core last had, and input waits until somebody owns it). Hold. |
| `supervisor_live` | 151,679 | `NothingHangs` (`RecoveryEnds`, `CancelEnds`). Holds. |
| `supervisor_crash` | – | `TerminalUsable` fails (finding 5). |
| `supervisor_start` | – | `RecoveryKeepsRunning` fails (finding 6). |
| `services` | 2,194,529 | One service per behaviour, see below. All hold. |

What `services` asks of each:

| service | properties |
|---|---|
| plugin runtime | `ReloadsSound`: a reload request is always in exactly one place or ended (`RequestsOwned`); nothing an active generation uses is closed, nothing it lost stays open (`ResourcesLive`). `ImplementsReloadService`. |
| package manager | `InstalledTreesExist`: after any crash an installed package has its tree. `AllOrNothing`: a change that reported failure left nothing, one that reported success is on disk. |
| goals | `GoalHonest`: a verdict completes only the revision it judged (`VerdictIsCurrent`); what a restart would load is the goal, whatever turns were aborted, unless the last save is `doubtful` (`SavedGoalIsCurrent`). |
| subagents | `ChildrenOwned`: after `close()` no child runs (`ChildrenStop`); the activity shown is that of the children (`CountIsCurrent`). |
| isolated worker | `ResultsGenuine` (`SnapshotIsResult`): only the snapshot of a finished, undisturbed turn becomes history. |
| process plugin | `NothingLeftRunning`: when `run_command` has returned, nothing in its group or job runs. |
| context | `RequestsSound` (`SelectedFits`): instructions that were accepted always leave room for a valid request. |
| evaluation | `ResultsGenuine` (`PoolHonest`): each result is an answer to its example (`ResultsInPlace`), caches hold what was answered and no failure that is raised (`CacheGenuine`), the best scores are kept (`BestKept`), output goes to the evaluation that wrote it and the stream comes back (`OutputCaptured`), a cached answer is asked for again only in a race (`AskedOnce`). |
| model client | `RequestsSound` (`ExchangeHonest`): a reply is a whole, finished text within the limit (`ReplyIsWhole`), an attempt is repeated only after a transient failure (`RetriesJustified`), the capture says complete of what was read to its end (`CaptureTrue`). |
| all | `TypesOK`. |

### Bounds, and why they suffice

* `worker`: two jobs give a successor to a retiring one, two approvals a stale
  answer and a later request, one control a reset or reconfiguration between two
  jobs, one step an action that follows an event. One client suffices for each
  race of a client with the thread; races of clients with each other are covered by
  the theorems, which hold for any set of clients.
* `workspace`: in the journal two owners (one that commands, one that does not), two turns (one to
  keep, one to lose). `Journal` has two turns, two edits (one older, one newer) and four records: a
  whole turn and a checkpoint, or the start of the next. `Edited` has one turn, two edits and six
  records: a whole turn, which both may overtake, and three records of theirs. `Long` has
  six records and one edit: two complete turns, or one with a fork and checkpoints.
  `Moving` has
  two journals and shares five records and one edit between them: a whole turn in one
  and a delegated turn in the other, with any order of `/clear` and `/resume`. Two agents and two changes of a
  file of two blocks: one inside the edited range and one outside it, at any step of the
  other's call. Two sessions of memory, two entries, four identifiers and three starts, so
  that entries are forgotten, identifiers run out and sessions replace each other's file. Four bytes
  of thirteen classes, in any cuts, with every marker at most three long and a paste
  of two at most: every key, the SS3 one too, and overlong pastes occur. `Escapes` has six
  bytes of the classes that control sequences are made of, two more than
  `max_escape_bytes`: a sequence grows too long in the middle of a stream and something
  follows it. Two entries into the terminal, so that one finds what the other left.
  Two components of two texts, one example for training and two for validation, four
  candidates: the seed, both rewrites and their merge; the two evaluators make the merge
  better than its parents, or equal. A sample of three examples out of two draws one twice.
  Evaluations that raise may have made `MaxUncounted` calls in all.
* `interface`: in the dispatch part two prompts, so that one is dispatched while the other is queued;
  one update result with two claims; three incarnations, hence two recoveries,
  restarts or updates in any order; one failing manifest write. In the chat part two
  pieces of work, so that a job has a successor and a message one behind it, and one
  approval. In the review part three pieces in a wide layout of two pieces a row and
  a narrow one of one, so that a resize moves the last row, and one key typed ahead.
* `supervisor`: four processes that exist at a time (an old core, its probe, the
  replacement, and one that is being reaped), one update, one resume, one crash,
  one forced recovery; two versions, so that a state can change between any two
  steps. `supervisor_live` drops the resume and the second version.
  **Known limit:** with two Ctrl+R presses (`MaxPresses = 2`, `MaxCores = 5`)
  `OneWriter` is violated: `_stop_live_children` waits for one child after
  another, so that a second press can cancel it while a probe that was told to
  leave hangs, and the core behind it is not killed before the next one is
  launched. It takes two processes that hang; `OneCoreInCharge` therefore asks for
  `OneWriter` only up to the first press.
* `services`: two threads, so that an operation of one outlives that of the other;
  two plugins, one handing on a resource and one not; two requests and depth two for a
  nested request beside a pending one. Two processes, two packages, one of them
  preinstalled, two versions: an update, a first install and a removal race with each other;
  one crash. Three goal revisions, two messages, one retry: a goal replaced during a review,
  and again during the retry. Two children, one at a time, one reload, one
  prompt by the user. Two frames. Budget 16 with lengths 1 and 4, so that every
  branch of the compaction is taken within two turns of two steps. Batches of two
  different examples and of one example twice, two candidates, two scores, two threads,
  one kill: answers come in either order, two threads race for one cache entry, a new
  process finds the old one's files. A limit of one byte and bodies of up to three: empty,
  whole, at and over the limit, each broken off at any byte; one retry, two questions
  so that a failed reflection meets the next one, one failing write of the capture.

Known limits that the properties of `services` exclude, each through a named
condition or history variable, because the code has them:

* a change started from a cached receipt can write another process's install out of
  the receipt (`stale`); a crash between the two renames leaves a receipt without
  its tree (`torn`), and nothing repairs it at the next start;
* a `notify` callback that raises drops the reloads still to be applied;
* two overlapping saves of a goal can store the older one; a turn aborted between the save
  and the checkpoint of a `/goal` command stores the goal from before the turn
  (`raychat/session.py:598-609`, `plugins/goals/registration.py:113-114`); and after a
  cancelled run, whose "done" cannot be published, the goal is not saved (`doubtful`);
* a child created in a catalog that a reload has already copied is in no catalog that
  anybody closes, and an activity report between restore and reconfigure is lost;
* a process that leaves its group survives, and `_collect_readers` waits without
  a timeout for the pipes it holds;
* two threads that evaluate the same example at once both ask the evaluator, and the later
  answer stays in the cache (`AskedOnce`);
* the capture of a body that ends with the connection, read once, never says complete,
  although README.md:120-123 takes that word for a sign of a partial response
  (`CaptureTrue`); a body of known length that breaks off is not a connection failure for the
  client but one that does not parse, and is not retried.

Those of `workspace`:

* a SESSION_RESTORE hook that fails on the return of a delegated turn reverts what a command
  has checkpointed since that return (`raychat/session.py:436-439`; phase `undone`);
* a change between the last look and the rename of an edit is lost (`late`), and a change
  that leaves all of `_file_state` as it was is not seen: times are assumed to change;
* the later of two sessions that change the memory drops the other's entry and gives
  out its identifier again (`writer`);
* a CR at the end of a read and the LF of the next are two Enters, and an expired
  Escape is one, and the rest of a control sequence too long to wait for is text
  (`cut`); the notice of an overlong paste is given or not, depending on the
  cuts, when an interrupt ends the paste;
* two plain lists given as training and validation data have the same identifiers in
  the cache of evaluations; `Id` is that of the namespaced loaders the repository's own
  command uses. A checkpoint does not hold the counters of the merge proposer, so a resumed
  run may merge `MaxMerges` times more; the budget holds nevertheless;
* the calls of an evaluation that raises are not counted (`reflective_mutation.py:242-247`,
  `merge.py:410-425`, `engine.py:124`), so that a search that goes on after exceptions
  may exceed its budget by them (`uncounted`); `BudgetKept` is about what is counted.

Those of `interface`:

* the list of saved sessions stays open while a review starts or the user quits; its choice
  is then submitted beside a running task, which raises or makes the chat forget its
  job (the model stops at `ChooseLate`);
* a job that ends with an error does not reset the double Escape, so that the second
  one can cancel the next job (`failed`);
* a resize while another chat is focused, or a fall back to this chat when the focused
  one disappears, keeps a count of rows that belongs to the old size (`mixed`).

### Fairness

* `AgentWorker!Fairness`: the owning thread runs (an operating-system thread is
  scheduled), and a client inside a call finishes it. Nobody has to answer an
  approval, cancel or stop, and a conversation may take its steps in any order
  but returns: `MaxSteps` bounds it as `run_options["max_steps"]` does.
  `AcceptedJobsEnd` is conditional on approvals not staying open for ever.
* `CoreDispatch!Fairness`: the supervisor's loop and its task, the frontend's
  polling and the worker's job make progress. No key is pressed by fairness.
* `MCServices`, `MCInterface` and `MCWorkspace` state no fairness: their parts are checked for safety only
  (`dispatch_update` checks liveness of `CoreDispatch` under `Fairness`).
* `Supervisor!Fairness`: the loop and the tasks run, a wait with a timeout ends,
  the end of a process is seen and reaped. A *process* has no fairness: it
  may hang at any point, which is what recovery is for.

### Findings

1. `worker_reset`: an exception out of `session.reset()` ends the owning thread
   (`raychat/workers.py`, `_reset_session` in `_run`); queued jobs are never run
   or cancelled, their futures stay pending, and `submit()` goes on accepting.
2. `journal_race`: a command's edit made before its `checkpoint()` is lost when
   the turn beside it aborts, or a delegated turn comes back, in between; the
   checkpoint then saves the older value without an error.
3. `dispatch_review`: a result that `/resume-queue` delivers again to the core
   reviewing it can reach the provider twice, since a claim of a claimed result
   is accepted.
4. `dispatch_update`: a recovered core reports idle once, and the next update
   waits without a timeout for a second report.
5. `supervisor_crash`: a core that dies while a transition is pending is marked
   as noticed and never recovered; only Ctrl+R helps.
6. `supervisor_start`: Ctrl+R `p`/`g` during startup kills the first core but not
   the startup task, which then ends the program.

## 4. What is proved

The proof system shows, for every value of the constants, what the runs show on
small instances. Except in `SupervisorProofs` (see there) a theorem assumes nothing but the named assumptions
of the module's constants: bounds are natural numbers, sets of clients, sessions or agents are finite
where the code enumerates them, a name such as "nobody" is not one of a session.
Those of the composed modules (`MCWorkspace!Spec`, `MCServices!Spec`,
`MCInterface!Spec`) are about the component that `part` or `service` chooses.

| module | theorem | statement |
|---|---|---|
| `AgentWorkerProofs` | `TypeCorrect` | `Spec => []TypeOK` |
| | `StopCorrect` | `Spec => []StopIsLast` |
| | `ResolvedCorrect` | `Spec => []ResolvedOnce` |
| | `ApprovalCorrect` | `Spec => []ExecutedWereGranted` |
| | `PendingCorrect` | `Spec => []PendingIsLive` |
| | `NoUiCorrect` | `Spec => []NoUiAfterCancel` |
| | `QuiescentCorrect` | `Spec => []QuiescentMeansResolved` |
| | `Implements` | `Spec => ImplementsJobService` |
| `RuntimeProofs` | `ReloadsCorrect` | `Spec => []ReloadsSound` |
| | `RuntimeRefines` | `Spec => ImplementsReloadService` |
| `ServicesProofs` | `GoalsCorrect` | `Spec => []GoalHonest` |
| | `ProcessesEnd` | `Spec => []NothingLeftRunning` |
| | `SnapshotsGenuine` | in service `isolated`, `SnapshotIsResult` always |
| | `ChildrenCorrect` | `Spec => []ChildrenOwned` |
| | `InstallsCorrect` | `Spec => []InstalledTreesExist` |
| | `TransactionsWhole` | `Spec => AllOrNothing` |
| `WorkspaceProofs` | `CheckpointsStayKept` | `Spec => []CheckpointsKept` |
| | `PublishedStays` | `Spec => []PublishedSurvives` |
| | `UncommittedStaysPrivate` | `Spec => []TurnStaysPrivate` |
| | `MemoryIsDurable` | `Spec => []IdleMemoryIsDurable` |
| | `MemoryCorrect` | `Spec => []MemoryHonest` |
| | `TerminalCorrect` | `Spec => []GivenBack` |
| | `FilesCorrect` | `Spec => EditsAreInformed` |
| `InterfaceProofs` | `ApprovalsInformed` | `Spec => []ApprovedWasSeen` |
| | `MessagesKept` | `Spec => []QueueHonest` |
| | `EscapeCancelsItsJob` | `Spec => EscapeHitsItsJob` |
| | `ChatShowsItsWork` | `Spec => []ChatMatchesWork` |
| `DispatchProofs` | `NothingReplayedCorrect` | `Spec => []NothingReplayed` |
| | `QueueCorrect` | `Spec => []QueueKept` |
| `SupervisorProofs` | `CoreInCharge` | `~RecoverDuringStart` proves `Spec => []OneCoreInCharge` |
| | `CaptureFinal` | `~RecoverDuringStart` proves `Spec => []CapturedIsFinal` |
| | `SupervisorTyped` | `~RecoverDuringStart` proves `Spec => []TypeOK` |

None of these properties is inductive. Each proof has an invariant that is, found
with TLC first: it says of every place in the code what that place relies on. There
is one lemma per action or group of actions; the refinements map each action to a
step of the abstract specification or to a stutter.

* **Worker** (`IInv`).
  `LocalsOK`: in a job's states the command in hand is a job, and so on.
  `StopCommand`: one STOP, at the end, only after the flag is set; this is what
  the second check of the flag in `submit()` buys.
  `JobsInv` (`QueuedJobs`, `AcceptedJobs`, `JobInHand`, `ActiveJob`): queued jobs stand in the order of their identifiers; an accepted
  job is queued or in hand, one no longer accepted has ended exactly once. Order
  of beginning in `JobService` and the endings in `QuiescentMeansResolved` follow from it.
  `CommandInHand`: `processing` is set exactly while the thread is at a command, and `pendingControls` is the number
  of controls in the queue and in hand, for the other half of `QuiescentMeansResolved`.
  `Answers`: identifiers are given out once, and every answer on its way (in a
  client's hand, in the queue, decided by the thread) that says yes carries a
  granted approval or one whose job has been cancelled.
  In `ActiveJob`, the relation between `cancelled` (which forgets retired jobs),
  `suppressed` and the cancellations clients have seen, for `NoUiAfterCancel`.
* **Journal** (`JournalInv`). A journal is read by following parents from its last selected
  record, so the lemmas about reading come first: `HistoryOf` and `Selected` of a record depend only on
  the records before it (`AlikeReads`), and what each operation appends or a crash cuts off
  changes them in one way (`BeginReads`, `RecordReads`, `ChildReads`, `FailedReads`, `CutReads`). `HistoryOf`
  and `Selected` are recursive functions, and what they return is shown by taking the least record
  for which it would be wrong (`Least`). The invariant has a part per property, which says of every length a crash may leave what that
  property says of the open journal, and of memory what the next append relies on.
  `JournalTypes`: an append in progress is the last record of the file and is not
  synced (`Appending`). `KeptInv`: neither memory nor the rollback copy is older than a checkpoint,
  except for a plugin whose checkpoint a failed restore has put back (`LiveKept`). `PublishedInv`: the
  published turns are on the committed branch and on the one a turn is working on (`MemoryHolds`), and
  a checkpoint's record has the committed branch as its parent. `DurableInv`, per phase: what history and live state are with respect to the
  records (`Quiet`, `Undo`, `Spoken`, `Pending`, `Level`). `PrivateInv` (`Numbered`, `Apart`): no record is of a later turn, and
  of the open turn nothing can be selected. All five were checked with TLC on every journal of the `workspace` run before they were proved.
  The steps are proved for `Log`, a session whose bounds allow what any of the four
  journals of `MCWorkspace` does, and a step of each is shown to be one of `Log`
  (`JournalWidens`, `EditedWidens`, `LongWidens`, `MovingWidens`); the properties read a
  journal in the same way (`SameReadings`).
* **Plugin runtime** (`RuntimeInv`). `Occupied`: `_operations` is the number of threads
  inside an operation, and a generation is replaced only while it is zero or the thread
  that replaces it is alone. `Apart`: the places a request can be in (frames of any
  thread, pending, taken out to be applied, reported) share none and repeat none, by
  lemmas about sequences of sequences. `Followed`: each step of an application knows
  the requests it holds. `Resourced`: what is open is what the active and the next
  generation hold, each once. `ReloadService` sees of this only which requests wait.
* **Packages** (`InstallerInv`). `Transaction(k)` says of each phase of a plan which of
  the tree, its backup and the staged tree exist and what the receipt on disk says;
  the file lock makes it hold for one plan at a time, and a crash leaves one of the states that
  the next process accepts.
* **Goals** (`GoalsInv`). A save in hand is alone, and no abort has come between, or it
  is not `sound`; a sound one carries the goal as it is, and the plugin's state is that goal once it is
  written. The checkpoint of one that is not sound sets `doubtful`.
* **Processes** (`CommandsInv`, `IsolatedInv`): at each call of the parent, whether the
  leader has ended, whether the reader has its pipe and what the child may have sent.
* **Children** (`AgentsInv`). `Belongs`: a child is in its own catalog, in the one that
  a reload copies it to, or a stray; `Counts`: the activity is the number of children whose
  last report went to that catalog.
* **Memory** (`MemoryInv`): every file that a rename makes visible is one that loads,
  also while a session that has an older copy is saving.
* **Terminal** (`TerminalInv`): at each step of the entry, of its undoing and of the exit,
  what has been taken and not given back is what that step is still going to return.
* **Files** (`FilesInv`): two inodes with one stamp are one inode, and at each step of a call
  the pages read, the block in hand and the temporary file are what the inode had then.
* **Approvals** (`ReviewInv`). `Covered`: the rows that a review counts as seen have been drawn in
  the layout the count belongs to; `Awaited`, `Onscreen`, `Unhurried`: the phases of the wait for
  the last page, what is on the screen, and keys that were typed before it.
* **Chat** (`ChatHolds`), for queues and streams of events of any length. `TextInv`: a number handed
  out is that of a message that waits, was sent or was dropped (`Placed`), all sent ones are
  older than those that wait (`InOrder`), and the three counts add up (`Counted`), which together
  say that no message is in two places. `EscapeInv`: an armed Escape remembers the jobs in hand,
  unless one has failed since. `ChatInv`, while the chat goes on: a worker publishes the events of
  a job in the order of its stages (`Running`, `Published`: the kinds have ranks, and
  what is still to be read of the job in hand has no higher rank than its stage), so that
  of a job that waits nothing is published (`Waits`); the end of the job that the chat waits for is
  still to come (`Awaits`); and `ChatShown` says for each stage and each unread event of that job
  which phases the chat can be in. That `begin_approval` never raises is the clause about an unread
  request (`ShownActive`), and it needs all of these: the request comes before every event that leaves
  the busy phases. Nothing of it holds once a saved session is chosen late (`ChooseLate`, where the
  model ends).
* **Dispatch** (`DispatchInv`), over two streams of unbounded length. `PromptInv`: no queue, in
  memory, on disk or on its way, holds a prompt that has run, or one twice (`Queues`); behind
  an intent on its way to the supervisor comes no state, and once it has been acknowledged nothing
  that the supervisor has recorded or will receive holds the prompt (`IntentTravels`,
  `AckTravels`, `Settled`); this is what replaces a lock between the frontend and the
  supervisor. `ResultInv`: a result that is no longer pending is known to the core that claimed it
  only (`Delivered`), and a claim or its answer on its way is that of the job in hand, with no end of
  a review behind it (`ClaimTravels`, `ReceiptTravels`). `RecoveryInv`: in front of any
  acknowledgement to a recovered core stands the order to drain. `UpdateInv`: from the drain on
  nothing on its way lets the old core go on, it is frozen when it answers, and its answer holds all
  that was entered and has not run (`Drained`, `Capturing`, `Capture`). The last part is not
  inductive if an earlier capture may still be answered, which is how that case was found.
* **Supervisor** (`SupervisorInv`). `Positions`: where the two tasks are, and that only the
  transition is at work once the first core is ready. `Remains`, `OneProcess`: between launching
  one process and the next every other one has been killed and reaped, except the old core
  and its probe in the phases that know both. `Ownership`: a core that was told to go on is
  the current one. `Sayings`: what a message on its way to the supervisor says of the core
  that sent it, in the order it was sent. `Undisturbing`, `Barrier`: from the moment the old core
  has answered that it is frozen, no message of it can change what was captured, and its
  state is the one it answered with; this is what the capture after the freeze buys.
  The three theorems assume `~RecoverDuringStart`, that Ctrl+R is not used before the first
  core is ready. They need it: with `RecoverDuringStart = TRUE` TLC finds the startup task
  and the recovery each restoring a core of its own (the flaw of finding 6), five steps from the start.

Only model-checked, and why:

* Liveness (`WorkEnds`, `NothingHangs`): the prover does not treat fairness and ENABLED.
* What rests on folds over data: `CutsDoNotMatter` (the decoder over the bytes), `RequestsSound`
  (the sizes of a request), `SearchHonest` (sums of scores). The provers cannot instantiate the
  induction theorems; the way round it that the journal takes (a least counterexample) needs a
  recursive function that the model names, and these folds are of library operators.
* `TypesOK` of the composed modules, which holds of several parts that no theorem is about.
* `ResultsGenuine` as a whole: the half about isolated workers is proved (`SnapshotsGenuine`); that
  about the optimiser's pool (`PoolHonest`) sorts with `SortSeq`, which the provers have no definition of.

## 5. What is not modelled

* Of modelled components: the creation of a journal's header step by step; the model's
  decisions; terminal input, frames, clipboard and size in the bridge; the contents of releases.
* Of the services: the second package scope, dependencies installed together, archive
  formats and downloads; the live handover of the catalog of children to another
  core; output limits and decoding of a command; the provider and plugin commands of
  an isolated worker, which send no snapshot; lookup of tools, commands and settings.
* Of the terminal interface: several chats at a time, menus and completion, selection and the
  composition of frames.
* Of memory and file tools: listing, UTF-8 boundaries, file modes, paging; skills.
* Of the terminal: the line editor, the pace of frames, the clipboard, `flush()` of the decoder,
  signals inside the entry and the exit.
* Of the model client: the catalog of models, the delay before a retry, quoting in replay commands.
* Of the optimiser: frontiers other than per example, partial validation, the shuffled order of
  samples, diagnostics of an evaluation, the model's part of a reflection, demonstrations and benchmarks; the self-harness.
* Pure input and output (release hashing, frame encoding, rendering,
  process control through the operating system), generated archives, tools and tests. `PROJECT.json` gives the reason for each.

## 6. Plan

In order of importance, with what each is to say:

1. The dependency order of packages.
2. Several chats of the interface and the hand-over of children to another core.

Proofs: `EvaluationPool` `PoolHonest`, with a sort of the model's own.

To keep the set of runs small as components are added, liveness and safety of a
component share a run where the bounds allow it, and a finding keeps its run only
while no fuller run shows it.

------------------------------ MODULE MCServices ------------------------------
(***************************************************************************)
(* The services around a conversation, each on a small instance: a behaviour  *)
(* exercises one of them while the others rest in their initial states.        *)
(* They share no state; one run of TLC checks them all.                        *)
(***************************************************************************)
EXTENDS Naturals

CONSTANTS
  Threads, NoThread, Plugins, Transferring, Installed,
  MaxRequests, MaxLoads, MaxDepth, Faults,
  Processes, NoProcess, Packages, Preinstalled, MaxVersion, MaxPlans, MaxCrashes,
  MaxRevision, MaxMessages, MaxRetries,
  MaxChildren, MaxParallel, MaxReloads, MaxPrompts, Attended,
  MaxFrames,
  Lengths, Budget, KeepRecent, MaxMemory, MaxTurns, MaxSteps,
  Candidates, x, y, TopScore, Workers, TopK, MaxRefinements, MaxBatches, MaxKills,
  Limit, Retries, MaxQuestions, MaxFaults

VARIABLES
  service,     \* the service this behaviour exercises
  frames, stage, leaving, busy, pending, runtimeClosing, closed, runtimeCurrent,
  generation, holder, runtimePhase, todo, change, ended, loads, open, released,
  receipt, tree, backup, lock, cache, alive, plan, crashes, stale, torn,
  goal, revision, state, durable, pc, goalCurrent, verdict, attempt, held, messages,
  turnStart, goalWriter, doubtful, reached,
  gen, handoff, chats, counted, shut, agentClosing, batch, live, exec, home, result,
  agentPhase, observer, asked, agentCancelled, agentOutcome, prompts, missed,
  parent, isolatedCancelled, isolatedPrimary, isolatedCleanup, isolatedWriter, reader,
  snapshots, final, lingering, isolatedChild, pipe, isolatedCode, signalled,
  isolatedReaped, helper, finished, commits, isolatedOutcome,
  system, call, leader, commandCode, commandReaped, commandChild, job, member, readers,
  commandCancelled, timedOut, commandPrimary, commandCleanup, started, commandOutcome,
  settings, history, start, stored, request,
  poolSettings, examples, candidate, work, done, handed, memory, disk, top, stdout, users,
  installed, batches, kills, answered, recorded, strayed,
  debug, asker, step, response, got, responseShut, trace, failure, past, outcome, latched,
  questions, faults

Runtime == INSTANCE PluginRuntime WITH
  closing <- runtimeClosing, current <- runtimeCurrent, phase <- runtimePhase
Installer == INSTANCE PackageTransaction
Goals == INSTANCE GoalRun WITH
  current <- goalCurrent, writer <- goalWriter
Agents == INSTANCE AgentCatalog WITH
  closing <- agentClosing, phase <- agentPhase, cancelled <- agentCancelled,
  outcome <- agentOutcome
Isolated == INSTANCE IsolatedChild WITH
  cancelled <- isolatedCancelled, primary <- isolatedPrimary, cleanup <- isolatedCleanup,
  writer <- isolatedWriter, child <- isolatedChild, code <- isolatedCode,
  reaped <- isolatedReaped, outcome <- isolatedOutcome
Commands == INSTANCE CommandRun WITH
  code <- commandCode, reaped <- commandReaped, child <- commandChild,
  cancelled <- commandCancelled, primary <- commandPrimary, cleanup <- commandCleanup,
  outcome <- commandOutcome
Context == INSTANCE ContextPolicy WITH
  Budgets <- {Budget}, MaxPrompts <- MaxTurns

\* Batches of two examples, and of one example twice; one thread or two, each cache,
\* with and without refinement, exceptions that are raised, and capture.
Setting(p, c, r, e, o) ==
  [parallel |-> p, caching |-> c, refining |-> r, raising |-> e, capturing |-> o]

Pool == INSTANCE EvaluationPool WITH
  settings <- poolSettings, batch <- examples, Examples <- {x, y},
  Batches <- {<<x, y>>, <<x, x>>},
  Settings <- {Setting(TRUE, "memory", FALSE, TRUE, TRUE),
               Setting(FALSE, "disk", FALSE, FALSE, FALSE),
               Setting(TRUE, "off", TRUE, TRUE, TRUE),
               Setting(TRUE, "disk", TRUE, TRUE, FALSE)}
Http == INSTANCE HttpExchange WITH shut <- responseShut

ASSUME RuntimeAssumed == Runtime!RuntimeAssumption
ASSUME InstallerAssumed == Installer!PackageAssumption
ASSUME GoalsAssumed == Goals!GoalAssumption
ASSUME AgentsAssumed == Agents!AgentAssumption
ASSUME PoolAssumed == Pool!PoolAssumption
ASSUME HttpAssumed == Http!ExchangeAssumption

runtimeVars == <<frames, stage, leaving, busy, pending, runtimeClosing, closed, runtimeCurrent,
    generation, holder, runtimePhase, todo, change, ended, loads, open, released>>
installerVars == <<receipt, tree, backup, lock, cache, alive, plan, crashes, stale, torn>>
goalsVars == <<goal, revision, state, durable, pc, goalCurrent, verdict, attempt, held, messages,
    turnStart, goalWriter, doubtful, reached>>
agentsVars == <<gen, handoff, chats, counted, shut, agentClosing, batch, live, exec, home, result,
    agentPhase, observer, asked, agentCancelled, agentOutcome, prompts, missed>>
isolatedVars == <<parent, isolatedCancelled, isolatedPrimary, isolatedCleanup, isolatedWriter, reader,
    snapshots, final, lingering, isolatedChild, pipe, isolatedCode, signalled,
    isolatedReaped, helper, finished, commits, isolatedOutcome>>
commandsVars == <<system, call, leader, commandCode, commandReaped, commandChild, job, member, readers,
    commandCancelled, timedOut, commandPrimary, commandCleanup, started, commandOutcome>>
contextVars == <<settings, history, start, stored, request>>
poolVars == <<poolSettings, examples, candidate, work, done, handed, memory, disk, top, stdout,
    users, installed, batches, kills, answered, recorded, strayed>>
httpVars == <<debug, asker, step, response, got, responseShut, trace, failure, past, outcome,
    latched, questions, faults>>

Services == {"runtime", "installer", "goals", "agents", "isolated", "commands", "context",
             "pool", "http"}

Init ==
  /\ service \in Services
  /\ Runtime!Init /\ Installer!Init /\ Goals!Init /\ Agents!Init
  /\ Isolated!Init /\ Commands!Init /\ Context!Init
  /\ Pool!Init /\ Http!Init
  /\ service # "commands" => system = "posix"
  /\ service # "context" =>
       stored = Context!NoMemory /\ settings = [asUser |-> TRUE, budget |-> Budget]
  /\ service # "pool" =>
       poolSettings = Setting(TRUE, "off", TRUE, TRUE, TRUE) /\ candidate = CHOOSE c \in Candidates : TRUE
  /\ service # "http" => ~debug /\ asker = "task"

Only(s) ==
  /\ service = s /\ UNCHANGED service
  /\ s # "runtime" => UNCHANGED runtimeVars
  /\ s # "installer" => UNCHANGED installerVars
  /\ s # "goals" => UNCHANGED goalsVars
  /\ s # "agents" => UNCHANGED agentsVars
  /\ s # "isolated" => UNCHANGED isolatedVars
  /\ s # "commands" => UNCHANGED commandsVars
  /\ s # "context" => UNCHANGED contextVars
  /\ s # "pool" => UNCHANGED poolVars
  /\ s # "http" => UNCHANGED httpVars

Next ==
  \/ Only("runtime") /\ Runtime!Next
  \/ Only("installer") /\ Installer!Next
  \/ Only("goals") /\ Goals!Next
  \/ Only("agents") /\ Agents!Next
  \/ Only("isolated") /\ Isolated!Next
  \/ Only("commands") /\ Commands!Next
  \/ Only("context") /\ Context!Next
  \/ Only("pool") /\ Pool!Next
  \/ Only("http") /\ Http!Next

vars == <<service, runtimeVars, installerVars, goalsVars, agentsVars,
          isolatedVars, commandsVars, contextVars, poolVars, httpVars>>

Spec == Init /\ [][Next]_vars

(***************************************************************************)
(* The type invariants of the services.                                       *)
(***************************************************************************)
TypesOK ==
  /\ service = "runtime" => Runtime!TypeOK
  /\ service = "installer" => Installer!TypeOK
  /\ service = "goals" => Goals!TypeOK
  /\ service = "agents" => Agents!TypeOK
  /\ service = "isolated" => Isolated!TypeOK
  /\ service = "commands" => Commands!TypeOK
  /\ service = "context" => Context!TypeOK
  /\ service = "pool" => Pool!TypeOK
  /\ service = "http" => Http!TypeOK

(***************************************************************************)
(* When a call that starts a process has returned, by whatever way, nothing of *)
(* its process group or job runs any more (transport.py run_child, process     *)
(* plugin run_command).                                                       *)
(***************************************************************************)
NothingLeftRunning ==
  /\ service = "isolated" => Isolated!NothingLeftRunning
  /\ service = "commands" => Commands!NothingLeftRunning

\* Every request_reload() of an operation is applied, rejected or rolled back by
\* exactly one owner, and no resource of a generation is released twice or while it
\* is in use (raychat/plugins.py _finish_operation, _apply_pending,
\* _discard_generation, _activate_generation).
ReloadsSound == service = "runtime" => Runtime!RequestsOwned /\ Runtime!ResourcesLive

\* Operations, nested operations and generations implement the reload service
\* that ReloadService promises (raychat/plugins.py).
ImplementsReloadService ==
  (service = "runtime" => Runtime!Promise!PromiseInit) /\ [][service = "runtime" => Runtime!KeepsPromise]_runtimeVars

\* What the receipt lists is on disk in the release it names (raychat/
\* plugin_manager.py _write_transaction_files, _rollback_transaction).
InstalledTreesExist == service = "installer" => Installer!InstalledTreesExist

\* A transaction of the package manager ends complete or undone (raychat/
\* plugin_manager.py _transaction).
AllOrNothing == [][service = "installer" => Installer!EndsWhole]_installerVars

\* A goal is completed by a review of that goal only, and the last checkpoint holds
\* the active goal unless its save was disturbed (plugins/goals/controller.py
\* accept_decision, registration.py save, raychat/session.py _finish_turn).
GoalHonest == service = "goals" => Goals!VerdictIsCurrent /\ Goals!SavedGoalIsCurrent

\* close() leaves no child worker alive, and the number of running children is right
\* across reloads (plugins/subagents/sessions.py close, activity, restore, reconfigure).
ChildrenOwned == service = "agents" => Agents!ChildrenStop /\ Agents!CountIsCurrent

\* Only the snapshot of a completed, undisturbed child becomes history (plugins/subagents
\* /sessions.py ProcessConversation.run), and a result of an evaluation is one the
\* evaluator gave for that example (plugins/optimization/gepa/evaluation.py evaluate).
ResultsGenuine ==
  /\ service = "isolated" => Isolated!SnapshotIsResult
  /\ service = "pool" => Pool!PoolHonest

\* Selected instructions always lead to a request that fits and keeps the task's results
\* (plugins/context/policy.py select_instruction, _Compaction.messages), and its reply is a
\* whole one, retried and recorded for what it was (plugins/chat_completions/client.py).
RequestsSound ==
  /\ service = "context" => Context!SelectedFits
  /\ service = "http" => Http!ExchangeHonest
=============================================================================

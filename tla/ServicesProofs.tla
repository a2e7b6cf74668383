--------------------------- MODULE ServicesProofs ---------------------------
(***************************************************************************)
(* Theorems about the services of MCServices for every value of the constants. *)
(***************************************************************************)
EXTENDS MCServices, TLAPS

(***************************************************************************)
(* Goals.                                                                   *)
(***************************************************************************)
(* A goal in hand is the active one, or a save of the run is still to come.     *)
Agreed(v) == v = goal \/ pc = "finish" \/ (pc = "saving" /\ ~Goals!Saving("run"))

(* A sound save is the only one, and carries the goal as it is; the last        *)
(* checkpoint holds it too, until the run has saved what it has changed.        *)
SaveAgrees ==
  /\ \A t, u \in Goals!Savers :
       Goals!Saving(t) /\ goalWriter[t].sound /\ Goals!Saving(u) => t = u
  /\ \A t \in Goals!Savers : goalWriter[t].sound =>
       /\ goalWriter[t].at = "read" => Agreed(goalWriter[t].read)
       /\ goalWriter[t].at = "written" => Agreed(state)
  /\ ~doubtful /\ ~Goals!Saving("command") => Agreed(durable) \/ pc = "saving"

GoalsInv ==
  /\ Goals!TypeOK /\ Goals!VerdictIsCurrent
  /\ Goals!Saving("run") => pc \in {"turnend", "saving"}
  /\ pc \in {"judging", "rejudge", "decided", "announced"} => goalCurrent # Goals!NoGoal
  /\ SaveAgrees

LEMMA GoalsInit == Goals!Init => GoalsInv
<1> SUFFICES ASSUME Goals!Init PROVE GoalsInv
  OBVIOUS
<1>1. Goals!TypeOK
  <2>1. goalWriter \in [Goals!Savers -> [at : {"none", "read", "written"},
                                        read : {Goals!NoGoal} \cup Goals!Revisions,
                                        sound : BOOLEAN]]
    BY DEF Goals!Init, Goals!Idle
  <2>2. attempt \in 0..MaxRetries /\ messages \in 0..MaxMessages
    BY GoalsAssumed DEF Goals!Init, Goals!GoalAssumption
  <2>3. QED
    BY <2>1, <2>2 DEF Goals!Init, Goals!TypeOK, Goals!NoGoal, Goals!Sites, Goals!Verdicts
<1>2. QED
  BY <1>1 DEF Goals!Init, GoalsInv, SaveAgrees, Goals!VerdictIsCurrent, Agreed, Goals!Saving,
       Goals!Savers, Goals!Idle

(* The steps of the run that leave the goal and its copies alone.               *)
GoalsQuiet ==
  \/ Goals!Message \/ Goals!Sent \/ Goals!Resend \/ Goals!Rejudge
  \/ Goals!Obsolete \/ Goals!Raise \/ Goals!JudgeFails \/ Goals!Announce \/ Goals!Finish
  \/ Goals!Review \/ \E v \in {"complete", "continue"} : Goals!Judged(v)

QuietEffect ==
  /\ UNCHANGED <<goal, revision, state, durable, goalWriter, doubtful, reached>>
  /\ turnStart' \in {turnStart, state}
  /\ goalCurrent' \in {goalCurrent, goal} /\ pc \notin {"turnend", "saving"}
  /\ pc = "finish" => pc' = "saving"
  /\ verdict' \in Goals!Verdicts /\ messages' \in 0..MaxMessages
  /\ attempt' \in 0..MaxRetries /\ held' \in BOOLEAN
  /\ pc' \in Goals!Sites
  /\ pc' \in {"judging", "rejudge", "decided", "announced"} =>
       \/ goalCurrent' # Goals!NoGoal
       \/ goalCurrent' = goalCurrent /\ pc \in {"judging", "rejudge", "decided"}

LEMMA QuietStep ==
  ASSUME Goals!TypeOK, GoalsQuiet
  PROVE  QuietEffect
<1> USE GoalsAssumed
    DEF QuietEffect, Goals!TypeOK, Goals!Goto, Goals!OpenTurn, Goals!Sites, Goals!Verdicts,
      Goals!GoalAssumption, Goals!saveVars
<1>1. CASE Goals!Message
  <2>1. messages' \in 0..MaxMessages /\ attempt' \in 0..MaxRetries
    BY <1>1 DEF Goals!Message
  <2>2. pc = "idle" /\ pc' = "sending" /\ held' = FALSE /\ turnStart' = state
        /\ UNCHANGED <<goal, revision, state, durable, goalWriter, doubtful, reached,
                       goalCurrent, verdict>>
    BY <1>1 DEF Goals!Message
  <2>3. QED
    BY <2>1, <2>2
<1>2. CASE Goals!Sent
  BY <1>2 DEF Goals!Sent
<1>3. CASE Goals!Resend
  BY <1>3 DEF Goals!Resend
<1>4. CASE Goals!Rejudge
  BY <1>4 DEF Goals!Rejudge
<1>5. CASE Goals!Obsolete \/ Goals!Raise
  BY <1>5 DEF Goals!Obsolete, Goals!Raise
<1>6. CASE Goals!Announce
  BY <1>6 DEF Goals!Announce
<1>7. CASE Goals!JudgeFails
  BY <1>7 DEF Goals!JudgeFails
<1>8. CASE Goals!Finish
  BY <1>8 DEF Goals!Finish
<1>9. CASE Goals!Review
  BY <1>9 DEF Goals!Review
<1>10. ASSUME NEW v \in {"complete", "continue"}, Goals!Judged(v)
      PROVE  QuietEffect
  BY <1>10 DEF Goals!Judged
<1>11. QED
  BY <1>1, <1>2, <1>3, <1>4, <1>5, <1>6, <1>7, <1>8, <1>9, <1>10 DEF GoalsQuiet

(* The steps that abort a turn.                                              *)
GoalsAbort == Goals!SendFails \/ Goals!RaiseInTurn

LEMMA GoalsTypeStep ==
  ASSUME GoalsInv, Goals!Next
  PROVE  Goals!TypeOK'
<1>0. Goals!TypeOK
  BY DEF GoalsInv
<1>1. CASE Goals!Command
  <2>1. revision + 1 \in Goals!Revisions /\ revision' = revision + 1
        /\ goal' \in {revision', Goals!NoGoal}
    BY <1>0, <1>1, GoalsAssumed
       DEF Goals!TypeOK, Goals!Command, Goals!Configure, Goals!Clear, Goals!Apply, Goals!Revisions,
         Goals!NoGoal, Goals!GoalAssumption
  <2>2. UNCHANGED <<state, turnStart, durable, doubtful, goalCurrent, pc, verdict, attempt,
                    messages, held, reached>>
    BY <1>1 DEF Goals!Command, Goals!ReadGoal, Goals!runVars
  <2>3. goal' \in {Goals!NoGoal} \cup Goals!Revisions
    BY <2>1
  <2>4. goalWriter' \in [Goals!Savers -> [at : {"none", "read", "written"},
                                          read : {Goals!NoGoal} \cup Goals!Revisions,
                                          sound : BOOLEAN]]
    BY <1>0, <1>1, <2>3 DEF Goals!TypeOK, Goals!Command, Goals!ReadGoal, Goals!Saving
  <2>5. QED
    BY <1>0, <2>1, <2>2, <2>3, <2>4 DEF Goals!TypeOK
<1>2. CASE GoalsQuiet
  <2>1. goalCurrent' \in {Goals!NoGoal} \cup Goals!Revisions
        /\ turnStart' \in {Goals!NoGoal} \cup Goals!Revisions
    BY <1>0, <1>2, QuietStep DEF QuietEffect, Goals!TypeOK
  <2>2. QED
    BY <1>0, <1>2, <2>1, QuietStep DEF QuietEffect, Goals!TypeOK
<1>3. CASE Goals!AcceptDecision
  <2>1. goalCurrent \in Goals!Revisions
    BY <1>3 DEF GoalsInv, Goals!TypeOK, Goals!AcceptDecision
  <2>2. reached' \subseteq Goals!Revisions \X Goals!Revisions
    BY <1>0, <1>3, <2>1 DEF Goals!TypeOK, Goals!AcceptDecision
  <2>3. QED
    BY <1>0, <1>3, <2>2 DEF Goals!TypeOK, Goals!AcceptDecision, Goals!saveVars, Goals!Sites
<1>4. CASE Goals!FinishRaises
  BY <1>0, <1>4 DEF Goals!TypeOK, Goals!FinishRaises, Goals!Sites
<1>5. CASE Goals!Save
  BY <1>0, <1>5 DEF Goals!TypeOK, Goals!Save, Goals!ReadGoal, Goals!runVars
<1>6. ASSUME NEW t \in Goals!Savers, Goals!WriteState(t)
      PROVE  Goals!TypeOK'
  BY <1>0, <1>6 DEF Goals!TypeOK, Goals!WriteState, Goals!runVars
<1>7. ASSUME NEW t \in Goals!Savers, Goals!Checkpoint(t)
      PROVE  Goals!TypeOK'
  BY <1>0, <1>7 DEF Goals!TypeOK, Goals!Checkpoint, Goals!Idle, Goals!Sites, Goals!NoGoal
<1>8. CASE GoalsAbort
  <2>1. goalWriter' \in [Goals!Savers -> [at : {"none", "read", "written"},
                                          read : {Goals!NoGoal} \cup Goals!Revisions,
                                          sound : BOOLEAN]]
    <3>1. Goals!Abort
      BY <1>8 DEF GoalsAbort, Goals!SendFails, Goals!RaiseInTurn
    <3>2. Goals!Idle \in [at : {"none", "read", "written"},
                         read : {Goals!NoGoal} \cup Goals!Revisions, sound : BOOLEAN]
      BY DEF Goals!Idle
    <3>3. QED
      BY <1>0, <3>1, <3>2 DEF Goals!TypeOK, Goals!Abort
  <2>2. CASE Goals!SendFails
    <3>1. attempt' \in 0..MaxRetries
      BY <1>0, <2>2, GoalsAssumed DEF Goals!TypeOK, Goals!SendFails, Goals!GoalAssumption
    <3>2. QED
      BY <1>0, <2>1, <2>2, <3>1 DEF Goals!TypeOK, Goals!SendFails, Goals!Abort, Goals!NoGoal,
        Goals!Sites
  <2>3. CASE Goals!RaiseInTurn
    BY <1>0, <2>1, <2>3 DEF Goals!TypeOK, Goals!RaiseInTurn, Goals!Abort, Goals!NoGoal, Goals!Sites
  <2>4. QED
    BY <1>8, <2>2, <2>3 DEF GoalsAbort
<1>9. QED
  BY <1>1, <1>2, <1>3, <1>4, <1>5, <1>6, <1>7, <1>8 DEF Goals!Next, GoalsQuiet, GoalsAbort

LEMMA GoalsStep == GoalsInv /\ Goals!Next => GoalsInv'
<1> SUFFICES ASSUME GoalsInv, Goals!Next PROVE GoalsInv'
  OBVIOUS
<1>0. Goals!TypeOK'
  BY GoalsTypeStep
<1> USE <1>0 DEF GoalsInv, SaveAgrees, Goals!VerdictIsCurrent, Agreed, Goals!Saving, Goals!Savers,
      Goals!TypeOK
<1>1. CASE Goals!Command
  BY <1>1 DEF Goals!Command, Goals!ReadGoal, Goals!runVars
<1>2. CASE GoalsQuiet
  BY <1>2, QuietStep DEF QuietEffect
<1>3. CASE Goals!AcceptDecision
  <2>1. Goals!VerdictIsCurrent'
    BY <1>3 DEF Goals!AcceptDecision
  <2>2. QED
    BY <1>3, <2>1 DEF Goals!AcceptDecision, Goals!saveVars
<1>4. CASE Goals!FinishRaises
  BY <1>4 DEF Goals!FinishRaises
<1>5. CASE Goals!Save
  BY <1>5 DEF Goals!Save, Goals!ReadGoal, Goals!runVars
<1>6. ASSUME NEW t \in Goals!Savers, Goals!WriteState(t)
      PROVE  GoalsInv'
  BY <1>6 DEF Goals!WriteState, Goals!runVars
<1>7. ASSUME NEW t \in Goals!Savers, Goals!Checkpoint(t)
      PROVE  GoalsInv'
  BY <1>7 DEF Goals!Checkpoint, Goals!Idle
<1>8. CASE GoalsAbort
  BY <1>8 DEF GoalsAbort, Goals!SendFails, Goals!RaiseInTurn, Goals!Abort, Goals!InTurn, Goals!Idle
<1>9. QED
  BY <1>1, <1>2, <1>3, <1>4, <1>5, <1>6, <1>7, <1>8 DEF Goals!Next, GoalsQuiet, GoalsAbort

LEMMA GoalsInvariant == Spec => [](service = "goals" => GoalsInv)
<1>1. Init => (service = "goals" => GoalsInv)
  BY GoalsInit DEF Init
<1>2. (service = "goals" => GoalsInv) /\ [Next]_vars => (service = "goals" => GoalsInv)'
  <2> SUFFICES ASSUME service = "goals" => GoalsInv, [Next]_vars, (service = "goals")'
               PROVE  GoalsInv'
    OBVIOUS
  <2>1. CASE UNCHANGED goalsVars /\ service' = service
    BY <2>1 DEF goalsVars, GoalsInv, SaveAgrees, Goals!TypeOK, Goals!VerdictIsCurrent, Agreed,
         Goals!Saving
  <2>2. CASE Only("goals") /\ Goals!Next
    BY <2>2, GoalsStep DEF Only
  <2>3. QED
    BY <2>1, <2>2 DEF Next, Only, vars
<1>3. QED
  BY <1>1, <1>2, PTL DEF Spec

(* A goal is completed by a review of that goal only, and between runs and      *)
(* commands the last checkpoint holds the active goal, unless the last save was  *)
(* overlapped, undone by an abort before its checkpoint or never made            *)
(* (plugins/goals/controller.py accept_decision, registration.py save,           *)
(* raychat/session.py _finish_turn), for any number of commands, messages and     *)
(* retries.                                                                *)
THEOREM GoalsCorrect == Spec => []GoalHonest
<1>1. (service = "goals" => GoalsInv) => GoalHonest
  BY DEF GoalsInv, SaveAgrees, GoalHonest, Goals!SavedGoalIsCurrent, Agreed
<1>2. QED
  BY <1>1, GoalsInvariant, PTL

-----------------------------------------------------------------------------
(***************************************************************************)
(* CommandRun.  Everything run_command does to its processes on the way out is  *)
(* a fact about where it is: the leader is over before it waits, reaped before  *)
(* it collects, and a process it could not end is remembered as a failure.      *)
(***************************************************************************)
Ended ==
  /\ leader \in {"none", "exited"} /\ job # "open"
  /\ Commands!Inside => commandPrimary \/ commandCleanup

CommandsInv ==
  /\ Commands!NothingLeftRunning
  /\ commandOutcome # "none" => call = "idle"
  /\ call \in {"idle", "collect"} => Ended /\ (leader = "exited" => commandReaped)
  /\ call = "create" => Ended /\ leader = "none"
  /\ call = "reap" => Ended
  /\ call \in {"assign", "gate", "poll", "terminate"} => leader # "none"
  /\ call \in {"assign", "gate"} => leader = "gated" /\ system = "windows"
  /\ call = "gate" => member
  /\ leader = "running" \/ commandChild # "none" \/ commandCode = "ok" => started
  /\ system \in {"posix", "windows"}

LEMMA CommandsStep == CommandsInv /\ Commands!Next => CommandsInv'
<1> SUFFICES ASSUME CommandsInv, Commands!Next PROVE CommandsInv'
  OBVIOUS
<1> USE DEF CommandsInv, Ended, Commands!NothingLeftRunning, Commands!Inside, Commands!Goto,
      Commands!Alone, Commands!procVars, Commands!jobVars, Commands!failVars
<1>1. CASE Commands!StartChild
  BY <1>1 DEF Commands!StartChild
<1>2. CASE Commands!ChildEnds \/ Commands!Exit
  BY <1>2 DEF Commands!ChildEnds, Commands!Exit
<1>3. CASE Commands!Reap \/ Commands!Cancel
  BY <1>3 DEF Commands!Reap, Commands!Cancel
<1>4. CASE Commands!Call
  BY <1>4 DEF Commands!Call
<1>5. CASE Commands!Spawn
  BY <1>5 DEF Commands!Spawn
<1>6. CASE Commands!SpawnFails
  BY <1>6 DEF Commands!SpawnFails
<1>7. CASE Commands!Assign \/ Commands!ReleaseGate \/ Commands!StartFails
  BY <1>7 DEF Commands!Assign, Commands!ReleaseGate, Commands!StartFails
<1>8. CASE Commands!PollRaises \/ Commands!PollExited \/ Commands!PollExpired
  BY <1>8 DEF Commands!PollRaises, Commands!PollExited, Commands!PollExpired, Commands!PollEnds
<1>9. CASE Commands!Terminate
  BY <1>9 DEF Commands!Terminate, Commands!KillTree
<1>10. CASE Commands!TerminateFails
  BY <1>10 DEF Commands!TerminateFails, Commands!KillTree
<1>11. CASE Commands!Reaped \/ Commands!ReadersEnd
  BY <1>11 DEF Commands!Reaped, Commands!ReadersEnd
<1>12. CASE Commands!Collect
  BY <1>12 DEF Commands!Collect
<1>13. QED
  BY <1>1, <1>2, <1>3, <1>4, <1>5, <1>6, <1>7, <1>8, <1>9, <1>10, <1>11, <1>12
     DEF Commands!Next

LEMMA CommandsInvariant == Spec => [](service = "commands" => CommandsInv)
<1>1. Init => (service = "commands" => CommandsInv)
  BY DEF Init, Commands!Init, CommandsInv, Ended, Commands!NothingLeftRunning, Commands!Inside
<1>2. (service = "commands" => CommandsInv) /\ [Next]_vars => (service = "commands" => CommandsInv)'
  <2> SUFFICES ASSUME service = "commands" => CommandsInv, [Next]_vars, (service = "commands")'
               PROVE  CommandsInv'
    OBVIOUS
  <2>1. CASE UNCHANGED commandsVars /\ service' = service
    BY <2>1 DEF commandsVars, CommandsInv, Ended, Commands!NothingLeftRunning, Commands!Inside
  <2>2. CASE Only("commands") /\ Commands!Next
    BY <2>2, CommandsStep DEF Only
  <2>3. QED
    BY <2>1, <2>2 DEF Next, Only, vars
<1>3. QED
  BY <1>1, <1>2, PTL DEF Spec

-----------------------------------------------------------------------------
(***************************************************************************)
(* IsolatedChild.  A call that comes out of _stop has ended the process and its *)
(* group and knows whether it could reap it; a call without a failure has seen   *)
(* the process exit well, and only a child that had completed its task does.    *)
(***************************************************************************)
Stopped == {"reap", "drain", "commit"}
After   == {"terminate", "kill"} \cup Stopped

IsolatedInv ==
  /\ Isolated!NothingLeftRunning /\ Isolated!SnapshotIsResult
  /\ parent \in Isolated!Sites
  /\ parent # "idle" => isolatedOutcome = "none"
  /\ isolatedOutcome = "none" => commits = 0
  /\ parent \in Stopped => ~Isolated!Alive /\ helper # "group"
  /\ parent \in {"drain", "commit"} => isolatedReaped \/ isolatedCleanup
  /\ isolatedReaped => isolatedChild = "exited"
  /\ isolatedCode = "ok" \/ isolatedChild = "done" => finished
  /\ parent \in After /\ ~isolatedPrimary => isolatedCode = "ok" /\ isolatedChild = "exited"
  /\ parent = "commit" => ~isolatedPrimary

ChildSteps ==
  \/ Isolated!ReadRequest \/ Isolated!Begin \/ Isolated!Event \/ Isolated!StartCommand
  \/ Isolated!Snapshot \/ Isolated!CloseSession \/ Isolated!Final
  \/ Isolated!ExitOk \/ Isolated!Fails \/ Isolated!Babble \/ Isolated!Unwind
  \/ Isolated!Exit \/ Isolated!Crash

LEMMA IsolatedStep == IsolatedInv /\ Isolated!Next => IsolatedInv'
<1> SUFFICES ASSUME IsolatedInv, Isolated!Next PROVE IsolatedInv'
  OBVIOUS
<1> USE DEF IsolatedInv, Isolated!NothingLeftRunning, Isolated!SnapshotIsResult, Isolated!Alive,
      Isolated!procVars, Isolated!Sites, Stopped, After
<1>1. CASE ChildSteps
  <2> USE DEF Isolated!Step, Isolated!runVars, Isolated!Undisturbed, Isolated!KeepHelper
  <2>1. CASE Isolated!ReadRequest \/ Isolated!Begin \/ Isolated!Event \/ Isolated!Babble
    BY <2>1 DEF Isolated!ReadRequest, Isolated!Begin, Isolated!Event, Isolated!Babble
  <2>2. CASE Isolated!StartCommand
    BY <2>2 DEF Isolated!StartCommand
  <2>3. CASE Isolated!Snapshot \/ Isolated!CloseSession \/ Isolated!Final
    BY <2>3 DEF Isolated!Snapshot, Isolated!CloseSession, Isolated!Final
  <2>4. CASE Isolated!ExitOk \/ Isolated!Fails \/ Isolated!Unwind
    BY <2>4 DEF Isolated!ExitOk, Isolated!Fails, Isolated!Unwind
  <2>5. CASE Isolated!Exit \/ Isolated!Crash
    BY <2>5 DEF Isolated!Exit, Isolated!Crash
  <2>6. QED
    BY <1>1, <2>1, <2>2, <2>3, <2>4, <2>5 DEF ChildSteps
<1>2. CASE Isolated!HelperEnds \/ Isolated!ParentDies \/ Isolated!ParentSeen
  BY <1>2 DEF Isolated!HelperEnds, Isolated!ParentDies, Isolated!ParentSeen, Isolated!runVars
<1>3. CASE Isolated!Cancel \/ Isolated!Reap
  BY <1>3 DEF Isolated!Cancel, Isolated!Reap
<1>4. CASE Isolated!Spawn
  BY <1>4 DEF Isolated!Spawn
<1>5. CASE \/ Isolated!ReadFrame \/ Isolated!CallbackRaises \/ Isolated!ReadEnd
           \/ \E w \in {"written", "broken", "failed"} : Isolated!Write(w)
  BY <1>5 DEF Isolated!ReadFrame, Isolated!CallbackRaises, Isolated!ReadEnd, Isolated!Write,
    Isolated!runningVars
<1>6. CASE Isolated!Linger
  BY <1>6 DEF Isolated!Linger, Isolated!KillGroup
<1>7. CASE Isolated!ExchangeRaises \/ Isolated!PipesHeld \/ Isolated!ExchangeDone
  <2>1. /\ parent = "exchange" /\ parent' = "terminate"
        /\ UNCHANGED <<isolatedChild, isolatedCode, helper, finished, isolatedCancelled,
                       isolatedCleanup, isolatedReaped, commits, isolatedOutcome>>
    BY <1>7 DEF Isolated!ExchangeRaises, Isolated!PipesHeld, Isolated!ExchangeDone,
      Isolated!ExchangeEnds
  <2>2. ~isolatedPrimary' => isolatedCode = "ok" /\ isolatedReaped
    <3>1. CASE Isolated!ExchangeRaises \/ Isolated!PipesHeld
      BY <3>1 DEF Isolated!ExchangeRaises, Isolated!PipesHeld, Isolated!ExchangeEnds
    <3>2. CASE Isolated!ExchangeDone
      BY <3>2 DEF Isolated!ExchangeDone, Isolated!ExchangeEnds
    <3>3. QED
      BY <1>7, <3>1, <3>2
  <2>3. QED
    BY <2>1, <2>2
<1>8. CASE Isolated!Terminate
  BY <1>8 DEF Isolated!Terminate
<1>9. CASE Isolated!Kill
  BY <1>9 DEF Isolated!Kill, Isolated!KillGroup
<1>10. CASE Isolated!Reaped \/ Isolated!ReapFails
  BY <1>10 DEF Isolated!Reaped, Isolated!ReapFails
<1>11. CASE Isolated!Drain
  BY <1>11 DEF Isolated!Drain
<1>12. CASE Isolated!Commit
  BY <1>12 DEF Isolated!Commit
<1>13. QED
  BY <1>1, <1>2, <1>3, <1>4, <1>5, <1>6, <1>7, <1>8, <1>9, <1>10, <1>11, <1>12
     DEF Isolated!Next, ChildSteps

LEMMA IsolatedInvariant == Spec => [](service = "isolated" => IsolatedInv)
<1>1. Init => (service = "isolated" => IsolatedInv)
  BY DEF Init, Isolated!Init, IsolatedInv, Isolated!NothingLeftRunning, Isolated!SnapshotIsResult,
    Isolated!Alive, Isolated!Sites, Stopped, After
<1>2. (service = "isolated" => IsolatedInv) /\ [Next]_vars => (service = "isolated" => IsolatedInv)'
  <2> SUFFICES ASSUME service = "isolated" => IsolatedInv, [Next]_vars, (service = "isolated")'
               PROVE  IsolatedInv'
    OBVIOUS
  <2>1. CASE UNCHANGED isolatedVars /\ service' = service
    BY <2>1 DEF isolatedVars, IsolatedInv, Isolated!NothingLeftRunning,
      Isolated!SnapshotIsResult, Isolated!Alive, Isolated!Sites, Stopped, After
  <2>2. CASE Only("isolated") /\ Isolated!Next
    BY <2>2, IsolatedStep DEF Only
  <2>3. QED
    BY <2>1, <2>2 DEF Next, Only, vars
<1>3. QED
  BY <1>1, <1>2, PTL DEF Spec

(* When a call that starts a process has returned, by whatever way, nothing of  *)
(* its process group or job runs any more, or the call has raised the failure   *)
(* to end it (raychat/transport.py run_child and _stop, plugins/process/        *)
(* runner.py run_command).                                                      *)
THEOREM ProcessesEnd == Spec => []NothingLeftRunning
<1>1. (service = "commands" => CommandsInv) /\ (service = "isolated" => IsolatedInv)
        => NothingLeftRunning
  BY DEF CommandsInv, IsolatedInv, NothingLeftRunning
<1>2. QED
  BY <1>1, CommandsInvariant, IsolatedInvariant, PTL

(* A snapshot becomes history only if its child had finished, closed and exited  *)
(* well and was not cancelled; a call that raises leaves the history as it was.   *)
(* This is the first half of ResultsGenuine (raychat/transport.py run_child,      *)
(* plugins/subagents/sessions.py run).                                           *)
THEOREM SnapshotsGenuine == Spec => [](service = "isolated" => Isolated!SnapshotIsResult)
<1>1. (service = "isolated" => IsolatedInv) => (service = "isolated" => Isolated!SnapshotIsResult)
  BY DEF IsolatedInv
<1>2. QED
  BY <1>1, IsolatedInvariant, PTL

-----------------------------------------------------------------------------
(***************************************************************************)
(* AgentCatalog.  A child reports to the active catalog as soon as it is in it,  *)
(* and what the catalog counts agrees with the child unless a report went to     *)
(* its predecessor; what a closed catalog holds has all been asked to stop.      *)
(***************************************************************************)
Phases   == {"none", "queued", "picked", "idle", "stopped"} \cup Agents!Busy
Unborn   == {"none", "queued", "checked"}
Finished == {"resolved", "left", "idle", "stopped"}

AgentsTyped ==
  /\ gen \in Agents!Catalogs
  /\ chats \in [Agents!Catalogs -> SUBSET Agents!Children]
  /\ counted \in [Agents!Catalogs -> SUBSET Agents!Children]
  /\ exec \in [Agents!Children -> {"none", "queued", "checked", "waiting", "ended"}]
  /\ home \in [Agents!Children -> Agents!Catalogs]
  /\ observer \in [Agents!Children -> Agents!Catalogs]
  /\ agentPhase \in [Agents!Children -> Phases]
  /\ agentOutcome \in [Agents!Children -> {"none"} \cup Agents!Outcomes]
  /\ handoff \in {"none", "exported", "restored"}
  /\ agentClosing \in {"no", "joining", "returned"}

Tracks(c, g) ==
  /\ agentPhase[c] \in {"running", "resolved"} => c \in counted[g]
  /\ agentPhase[c] \in {"none", "queued", "idle", "stopped"} => c \notin counted[g]

Counts(g) == \A c \in chats[g] : <<g, c>> \notin missed => Tracks(c, g)

Belongs(c) ==
  /\ exec[c] \in Unborn => agentPhase[c] = "none"
  /\ agentPhase[c] \in Finished => agentOutcome[c] # "none"
  /\ home[c] <= gen /\ observer[c] <= gen
  /\ agentPhase[c] = "none" => \A g \in Agents!Catalogs : c \notin chats[g] /\ c \notin counted[g]
  /\ c \in chats[gen] => observer[c] = gen

AgentsInv ==
  /\ AgentsTyped
  /\ handoff # "none" => agentClosing = "no" /\ gen + 1 \in Agents!Catalogs
  /\ \A c \in Agents!Children : Belongs(c)
  /\ agentClosing = "no" =>
       /\ asked = {} /\ Counts(gen)
       /\ handoff = "restored" => Counts(gen + 1)
  /\ agentClosing # "no" => gen \in shut /\ chats[gen] \subseteq asked
  /\ agentClosing = "returned" => \A c \in chats[gen] : agentPhase[c] = "stopped"

LEMMA CatalogIntegers ==
  /\ 0 \in Agents!Catalogs /\ Agents!Catalogs \subseteq Nat
  /\ \A g \in Agents!Catalogs : g < MaxReloads => g + 1 \in Agents!Catalogs
  BY AgentsAssumed DEF Agents!AgentAssumption, Agents!Catalogs

LEMMA AgentsInit == Init => AgentsInv
<1> SUFFICES ASSUME Agents!Init PROVE AgentsInv
  BY DEF Init
<1> USE CatalogIntegers DEF Agents!Init
<1>1. AgentsTyped
  BY DEF AgentsTyped, Phases
<1>2. ASSUME NEW c \in Agents!Children PROVE Belongs(c)
  BY DEF Belongs, Unborn, Finished
<1>3. Counts(gen)
  BY DEF Counts
<1>4. QED
  BY <1>1, <1>2, <1>3 DEF AgentsInv

\* What the job and its pool threads do, up to the creation of a child.
ThreadSteps ==
  \/ \E n \in 1..MaxChildren : Agents!StartBatch(n)
  \/ Agents!CancelJob \/ Agents!EndBatch
  \/ \E c \in Agents!Children :
       \/ Agents!Check(c) \/ Agents!CreateFails(c) \/ Agents!StopWaiting(c)
       \/ Agents!Report(c) \/ Agents!RejectReport(c)

ThreadEffect ==
  /\ exec' \in [Agents!Children -> {"none", "queued", "checked", "waiting", "ended"}]
  /\ home' \in [Agents!Children -> Agents!Catalogs]
  /\ \A c \in Agents!Children : exec'[c] \in Unborn => exec[c] \in Unborn
  /\ \A c \in Agents!Children : home'[c] \in {home[c], gen}

LEMMA ThreadStep ==
  ASSUME AgentsInv, ThreadSteps
  PROVE  AgentsInv'
<1> USE DEF AgentsInv, AgentsTyped
<1>1. /\ UNCHANGED <<agentPhase, observer, asked, agentOutcome>>
      /\ UNCHANGED <<gen, handoff, chats, counted, shut, agentClosing, missed>>
  BY DEF ThreadSteps, Agents!StartBatch, Agents!CancelJob, Agents!EndBatch, Agents!Check,
    Agents!CreateFails, Agents!StopWaiting, Agents!Report, Agents!RejectReport, Agents!childVars,
    Agents!catVars
<1>2. ThreadEffect
  <2>1. ASSUME NEW n \in 1..MaxChildren, Agents!StartBatch(n)
        PROVE  ThreadEffect
    BY <2>1 DEF Agents!StartBatch, Unborn, ThreadEffect
  <2>2. CASE Agents!CancelJob \/ Agents!EndBatch
    BY <2>2 DEF Agents!CancelJob, Agents!EndBatch, Unborn, ThreadEffect
  <2>3. ASSUME NEW c \in Agents!Children,
               \/ Agents!Check(c) \/ Agents!CreateFails(c) \/ Agents!StopWaiting(c)
               \/ Agents!Report(c) \/ Agents!RejectReport(c)
        PROVE  ThreadEffect
    BY <2>3 DEF Agents!Check, Agents!CreateFails, Agents!StopWaiting, Agents!Report,
      Agents!RejectReport, Agents!End, Unborn, ThreadEffect
  <2>4. QED
    BY <2>1, <2>2, <2>3 DEF ThreadSteps
<1>3. ASSUME NEW c \in Agents!Children PROVE Belongs(c)'
  BY <1>1, <1>2, CatalogIntegers DEF Belongs, ThreadEffect
<1>4. QED
  BY <1>1, <1>2, <1>3 DEF Counts, Tracks, ThreadEffect

LEMMA CreateStep ==
  ASSUME AgentsInv, NEW d \in Agents!Children, Agents!CreateChild(d)
  PROVE  AgentsInv'
<1> USE DEF AgentsInv, AgentsTyped
<1>1. /\ exec[d] = "checked" /\ home[d] \notin shut
      /\ chats' = [chats EXCEPT ![home[d]] = @ \cup {d}]
      /\ agentPhase' = [agentPhase EXCEPT ![d] = "queued"]
      /\ observer' = [observer EXCEPT ![d] = home[d]]
      /\ exec' = [exec EXCEPT ![d] = "waiting"]
      /\ UNCHANGED <<home, gen, handoff, counted, shut, agentClosing, asked, agentOutcome, missed>>
  BY DEF Agents!CreateChild, Agents!Register
<1>2. /\ agentPhase[d] = "none" /\ home[d] \in Agents!Catalogs /\ home[d] <= gen
      /\ \A g \in Agents!Catalogs : d \notin chats[g] /\ d \notin counted[g]
  BY <1>1 DEF Belongs, Unborn
<1>3. \A g \in Agents!Catalogs : chats'[g] = IF g = home[d] THEN chats[g] \cup {d} ELSE chats[g]
  BY <1>1
<1>4. AgentsTyped'
  BY <1>1, <1>2 DEF Phases
<1>5. ASSUME NEW c \in Agents!Children PROVE Belongs(c)'
  <2>1. CASE c = d
    BY <1>1, <1>2, <1>3, <2>1 DEF Belongs, Unborn, Finished
  <2>2. CASE c # d
    BY <1>1, <1>3, <2>2 DEF Belongs
  <2>3. QED
    BY <2>1, <2>2
<1>6. ASSUME NEW g \in Agents!Catalogs, Counts(g) PROVE Counts(g)'
  BY <1>1, <1>2, <1>3, <1>6 DEF Counts, Tracks
<1>7. agentClosing # "no" => chats'[gen] = chats[gen]
  BY <1>1, <1>3
<1>8. QED
  BY <1>1, <1>2, <1>4, <1>5, <1>6, <1>7

\* A step of a child's worker that is not reported: the catalog may not yet, or no
\* longer, count a child that has picked a job or left one.
Silent(d, from, to) ==
  /\ Agents!Child(d, from, to)
  /\ UNCHANGED <<observer, counted, missed>>
  /\ \A c \in Agents!Children \ {d} : agentOutcome'[c] = agentOutcome[c]

LEMMA SilentStep ==
  ASSUME AgentsInv, NEW d \in Agents!Children, NEW from \in Phases \ {"none", "stopped"},
         NEW to \in Phases \ {"none"},
         Silent(d, from, to),
         agentOutcome' \in [Agents!Children -> {"none"} \cup Agents!Outcomes],
         to \in Finished => agentOutcome'[d] # "none",
         agentClosing = "no" => \A g \in Agents!Catalogs : Tracks(d, g) => Tracks(d, g)'
  PROVE  AgentsInv'
<1> USE DEF AgentsInv, AgentsTyped
<1>1. /\ agentPhase[d] = from /\ agentPhase' = [agentPhase EXCEPT ![d] = to]
      /\ UNCHANGED <<exec, home, asked, gen, handoff, chats, shut, agentClosing, observer, counted,
                     missed>>
      /\ \A c \in Agents!Children \ {d} : agentOutcome'[c] = agentOutcome[c]
  BY DEF Silent, Agents!Child, Agents!execVars
<1>2. AgentsTyped'
  BY <1>1
<1>3. ASSUME NEW c \in Agents!Children PROVE Belongs(c)'
  <2>1. CASE c = d
    BY <1>1, <2>1 DEF Belongs
  <2>2. CASE c # d
    BY <1>1, <2>2 DEF Belongs
  <2>3. QED
    BY <2>1, <2>2
<1>4. ASSUME agentClosing = "no", NEW g \in Agents!Catalogs, Counts(g) PROVE Counts(g)'
  <2>1. ASSUME NEW c \in chats[g], <<g, c>> \notin missed PROVE Tracks(c, g)'
    <3>1. CASE c = d
      BY <1>4, <2>1, <3>1 DEF Counts
    <3>2. CASE c # d
      BY <1>1, <1>4, <2>1, <3>2 DEF Counts, Tracks
    <3>3. QED
      BY <3>1, <3>2
  <2>2. QED
    BY <1>1, <2>1 DEF Counts
<1>5. agentClosing = "returned" => \A c \in chats'[gen] : agentPhase'[c] = "stopped"
  BY <1>1
<1>6. QED
  BY <1>1, <1>2, <1>3, <1>4, <1>5

\* One that is: what it reports is right for its observer.
LEMMA ActivityStep ==
  ASSUME AgentsInv, NEW d \in Agents!Children, NEW from \in Phases \ {"none", "stopped"},
         NEW to \in Phases \ {"none"}, NEW active \in BOOLEAN,
         Agents!Child(d, from, to), Agents!Activity(d, active), UNCHANGED agentOutcome,
         to \in Finished => agentOutcome[d] # "none",
         to = IF active THEN "running" ELSE "idle"
  PROVE  AgentsInv'
<1> USE DEF AgentsInv, AgentsTyped
<1>1. /\ agentPhase[d] = from /\ agentPhase' = [agentPhase EXCEPT ![d] = to]
      /\ UNCHANGED <<exec, home, asked, gen, handoff, chats, shut, agentClosing, observer>>
      /\ counted' = [counted EXCEPT ![observer[d]] = IF active THEN @ \cup {d} ELSE @ \ {d}]
      /\ missed' = (missed \ {<<observer[d], d>>})
                     \cup (IF handoff = "restored" THEN {<<gen + 1, d>>} ELSE {})
  BY DEF Agents!Child, Agents!Activity, Agents!execVars
<1>2. observer[d] \in Agents!Catalogs /\ observer[d] <= gen /\ (d \in chats[gen] => observer[d] = gen)
      /\ gen \in Nat
  BY CatalogIntegers DEF Belongs
<1>3. \A g \in Agents!Catalogs :
        counted'[g] = IF g = observer[d] THEN IF active THEN counted[g] \cup {d} ELSE counted[g] \ {d}
                      ELSE counted[g]
  BY <1>1, <1>2
<1>4. AgentsTyped'
  BY <1>1, <1>2
<1>5. ASSUME NEW c \in Agents!Children PROVE Belongs(c)'
  <2>1. CASE c = d
    BY <1>1, <1>3, <2>1 DEF Belongs
  <2>2. CASE c # d
    BY <1>1, <1>3, <2>2 DEF Belongs
  <2>3. QED
    BY <2>1, <2>2
<1>6. ASSUME NEW g \in Agents!Catalogs, NEW c \in Agents!Children \ {d}, Tracks(c, g)
      PROVE  Tracks(c, g)'
  BY <1>1, <1>3, <1>6 DEF Tracks
<1>7. ASSUME NEW g \in Agents!Catalogs, NEW c \in Agents!Children \ {d}, <<g, c>> \notin missed'
      PROVE  <<g, c>> \notin missed
  BY <1>1, <1>7
<1>8. Counts(gen) => Counts(gen)'
  <2>1. d \in chats[gen] => Tracks(d, gen)'
    BY <1>1, <1>2, <1>3 DEF Tracks
  <2>2. QED
    BY <1>1, <1>6, <1>7, <2>1 DEF Counts
<1>9. handoff = "restored" /\ Counts(gen + 1) => Counts(gen + 1)'
  <2>1. handoff = "restored" => <<gen + 1, d>> \in missed'
    BY <1>1
  <2>2. handoff = "restored" => gen + 1 \in Agents!Catalogs
    OBVIOUS
  <2>3. QED
    BY <1>1, <1>6, <1>7, <2>1, <2>2 DEF Counts
<1>10. agentClosing = "returned" => \A c \in chats'[gen] : agentPhase'[c] = "stopped"
  BY <1>1
<1>11. QED
  BY <1>1, <1>4, <1>5, <1>8, <1>9, <1>10

WorkerSteps ==
  \E c \in Agents!Children :
    \/ Agents!Pick(c) \/ Agents!Begin(c) \/ Agents!Skip(c) \/ Agents!Leave(c) \/ Agents!Settle(c)
    \/ Agents!Exit(c) \/ Agents!Prompt(c) \/ Agents!CancelChild(c)
    \/ \E o \in Agents!Outcomes : Agents!Resolve(c, o)

LEMMA WorkerStep ==
  ASSUME AgentsInv, WorkerSteps
  PROVE  AgentsInv'
<1> PICK c \in Agents!Children :
      \/ Agents!Pick(c) \/ Agents!Begin(c) \/ Agents!Skip(c) \/ Agents!Leave(c) \/ Agents!Settle(c)
      \/ Agents!Exit(c) \/ Agents!Prompt(c) \/ Agents!CancelChild(c)
      \/ \E o \in Agents!Outcomes : Agents!Resolve(c, o)
  BY DEF WorkerSteps
<1>0. /\ agentOutcome \in [Agents!Children -> {"none"} \cup Agents!Outcomes]
      /\ agentPhase \in [Agents!Children -> Phases]
      /\ agentPhase[c] \in Finished => agentOutcome[c] # "none"
      /\ agentClosing = "no" => asked = {}
  BY DEF AgentsInv, AgentsTyped, Belongs
<1>1. CASE Agents!Pick(c)
  <2>1. Silent(c, "queued", "picked") /\ agentPhase[c] = "queued" /\ agentPhase'[c] = "picked"
        /\ UNCHANGED <<counted, agentOutcome>>
    BY <1>0, <1>1 DEF Agents!Pick, Silent, Agents!Child
  <2>2. QED
    BY <1>0, <2>1, SilentStep DEF Phases, Finished, Tracks
<1>2. CASE Agents!Begin(c)
  BY <1>2, ActivityStep DEF Agents!Begin, Phases, Agents!Busy, Finished
<1>3. CASE Agents!Skip(c)
  <2>1. Silent(c, "picked", "idle") /\ agentClosing # "no"
        /\ agentOutcome' \in [Agents!Children -> {"none"} \cup Agents!Outcomes]
        /\ agentOutcome'[c] # "none"
    BY <1>0, <1>3 DEF Agents!Skip, Silent, Agents!Outcome, Agents!Outcomes
  <2>2. QED
    BY <2>1, SilentStep DEF Phases
<1>4. CASE Agents!Leave(c)
  <2>1. Silent(c, "resolved", "left") /\ agentPhase[c] = "resolved" /\ agentPhase'[c] = "left"
        /\ UNCHANGED <<counted, agentOutcome>>
    BY <1>0, <1>4 DEF Agents!Leave, Silent, Agents!Child
  <2>2. QED
    BY <1>0, <2>1, SilentStep DEF Phases, Agents!Busy, Finished, Tracks
<1>5. CASE Agents!Settle(c)
  <2>1. agentPhase[c] = "left"
    BY <1>5 DEF Agents!Settle, Agents!Child
  <2>2. QED
    BY <1>0, <1>5, <2>1, ActivityStep DEF Agents!Settle, Phases, Agents!Busy, Finished
<1>6. CASE Agents!Exit(c)
  <2>1. Silent(c, "idle", "stopped") /\ agentClosing # "no" /\ agentPhase[c] = "idle"
        /\ UNCHANGED agentOutcome
    BY <1>0, <1>6 DEF Agents!Exit, Silent, Agents!Child
  <2>2. QED
    BY <1>0, <2>1, SilentStep DEF Phases, Finished
<1>7. CASE Agents!Prompt(c)
  <2>1. Silent(c, "idle", "queued") /\ agentPhase[c] = "idle" /\ agentPhase'[c] = "queued"
        /\ UNCHANGED <<counted, agentOutcome>>
    BY <1>0, <1>7 DEF Agents!Prompt, Silent, Agents!Child
  <2>2. QED
    BY <1>0, <2>1, SilentStep DEF Phases, Finished, Tracks
<1>8. CASE Agents!CancelChild(c)
  <2>1. UNCHANGED <<gen, chats, counted, exec, home, observer, agentPhase, agentOutcome, handoff,
                    agentClosing, asked, shut, missed>>
    BY <1>8 DEF Agents!CancelChild, Agents!execVars, Agents!catVars
  <2>2. QED
    BY <2>1 DEF AgentsInv, AgentsTyped, Belongs, Counts, Tracks
<1>9. ASSUME NEW o \in Agents!Outcomes, Agents!Resolve(c, o)
      PROVE  AgentsInv'
  <2>1. Silent(c, "running", "resolved") /\ agentPhase[c] = "running"
        /\ agentPhase'[c] = "resolved" /\ UNCHANGED counted
        /\ agentOutcome' \in [Agents!Children -> {"none"} \cup Agents!Outcomes]
        /\ agentOutcome'[c] # "none"
    BY <1>0, <1>9 DEF Agents!Resolve, Silent, Agents!Child, Agents!Outcome, Agents!Outcomes
  <2>2. QED
    BY <2>1, SilentStep DEF Phases, Agents!Busy, Tracks
<1>10. QED
  BY <1>1, <1>2, <1>3, <1>4, <1>5, <1>6, <1>7, <1>8, <1>9

LEMMA ReloadStep ==
  ASSUME AgentsInv, Agents!Export \/ Agents!Restore \/ Agents!Reconfigure \/ Agents!Reject
  PROVE  AgentsInv'
<1> USE DEF AgentsInv, AgentsTyped, Agents!execVars, Agents!childVars
<1>0. gen \in Nat /\ agentClosing = "no" /\ gen + 1 \in Agents!Catalogs /\ gen # gen + 1
      /\ agentClosing' = "no" /\ asked' = {}
  BY CatalogIntegers DEF Agents!Export, Agents!Restore, Agents!Reconfigure, Agents!Reject
<1>1. CASE Agents!Export
  <2>1. /\ chats' = [chats EXCEPT ![gen + 1] = chats[gen]] /\ handoff' = "exported"
        /\ UNCHANGED <<gen, counted, exec, home, observer, agentPhase, agentOutcome, missed>>
    BY <1>1 DEF Agents!Export
  <2>2. /\ \A c \in Agents!Children : Belongs(c)'
        /\ Counts(gen)'
    BY <1>0, <2>1 DEF Belongs, Counts, Tracks
  <2>3. QED
    BY <1>0, <2>1, <2>2
<1>2. CASE Agents!Restore
  <2>1. /\ handoff' = "restored"
        /\ counted' = [counted EXCEPT ![gen + 1] =
                         {c \in chats[gen + 1] : agentPhase[c] \in {"picked", "running", "resolved"}}]
        /\ missed' = missed \ ({gen + 1} \X Agents!Children)
        /\ UNCHANGED <<gen, chats, exec, home, observer, agentPhase, agentOutcome>>
    BY <1>2 DEF Agents!Restore
  <2>2. ASSUME NEW c \in Agents!Children PROVE Belongs(c)'
    BY <1>0, <2>1 DEF Belongs
  <2>3. Counts(gen)'
    BY <1>0, <2>1 DEF Counts, Tracks
  <2>4. Counts(gen + 1)'
    BY <1>0, <2>1 DEF Counts, Tracks
  <2>5. QED
    BY <1>0, <2>1, <2>2, <2>3, <2>4
<1>3. CASE Agents!Reconfigure
  <2>1. /\ handoff = "restored" /\ handoff' = "none" /\ gen' = gen + 1
        /\ observer' = [c \in Agents!Children |-> IF c \in chats[gen'] THEN gen' ELSE observer[c]]
        /\ UNCHANGED <<chats, counted, exec, home, agentPhase, agentOutcome, missed>>
    BY <1>3 DEF Agents!Reconfigure
  <2>2. ASSUME NEW c \in Agents!Children PROVE Belongs(c)'
    <3>1. /\ gen' = gen + 1 /\ observer'[c] = IF c \in chats[gen + 1] THEN gen + 1 ELSE observer[c]
          /\ Belongs(c) /\ gen \in Nat /\ home[c] \in Nat /\ observer[c] \in Nat
      BY <1>0, <2>1, CatalogIntegers
    <3>2. home'[c] <= gen' /\ observer'[c] <= gen'
      BY <2>1, <3>1 DEF Belongs
    <3>3. QED
      BY <2>1, <3>1, <3>2 DEF Belongs
  <2>3. Counts(gen)'
    BY <1>0, <2>1 DEF Counts, Tracks
  <2>4. QED
    BY <1>0, <2>1, <2>2, <2>3
<1>4. CASE Agents!Reject
  <2>1. /\ handoff' = "none"
        /\ chats' = [chats EXCEPT ![gen + 1] = {}]
        /\ counted' = [counted EXCEPT ![gen + 1] = {}]
        /\ UNCHANGED <<gen, exec, home, observer, agentPhase, agentOutcome, missed>>
    BY <1>4 DEF Agents!Reject
  <2>2. ASSUME NEW c \in Agents!Children PROVE Belongs(c)'
    BY <1>0, <2>1 DEF Belongs
  <2>3. Counts(gen)'
    BY <1>0, <2>1 DEF Counts, Tracks
  <2>4. QED
    BY <1>0, <2>1, <2>2, <2>3
<1>5. QED
  BY <1>1, <1>2, <1>3, <1>4

LEMMA CloseStep ==
  ASSUME AgentsInv, Agents!Close \/ Agents!Joined
  PROVE  AgentsInv'
<1> USE DEF AgentsInv, AgentsTyped, Agents!execVars, Agents!childVars
<1>1. UNCHANGED <<gen, handoff, chats, counted, exec, home, observer, agentPhase, agentOutcome>>
      /\ handoff = "none"
  BY DEF Agents!Close, Agents!Joined
<1>2. ASSUME NEW c \in Agents!Children PROVE Belongs(c)'
  BY <1>1 DEF Belongs
<1>3. CASE Agents!Close
  BY <1>1, <1>2, <1>3 DEF Agents!Close
<1>4. CASE Agents!Joined
  BY <1>1, <1>2, <1>4 DEF Agents!Joined
<1>5. QED
  BY <1>3, <1>4

LEMMA AgentsStep == AgentsInv /\ Agents!Next => AgentsInv'
<1>1. Agents!Next => \/ ThreadSteps \/ WorkerSteps
                     \/ \E c \in Agents!Children : Agents!CreateChild(c)
                     \/ Agents!Export \/ Agents!Restore \/ Agents!Reconfigure \/ Agents!Reject
                     \/ Agents!Close \/ Agents!Joined
  BY DEF Agents!Next, ThreadSteps, WorkerSteps
<1>2. QED
  BY <1>1, ThreadStep, CreateStep, WorkerStep, ReloadStep, CloseStep

LEMMA AgentsInvariant == Spec => [](service = "agents" => AgentsInv)
<1>1. Init => (service = "agents" => AgentsInv)
  BY AgentsInit
<1>2. (service = "agents" => AgentsInv) /\ [Next]_vars => (service = "agents" => AgentsInv)'
  <2> SUFFICES ASSUME service = "agents" => AgentsInv, [Next]_vars, (service = "agents")'
               PROVE  AgentsInv'
    OBVIOUS
  <2>1. CASE UNCHANGED agentsVars /\ service' = service
    BY <2>1 DEF agentsVars, AgentsInv, AgentsTyped, Belongs, Counts, Tracks
  <2>2. CASE Only("agents") /\ Agents!Next
    BY <2>2, AgentsStep DEF Only
  <2>3. QED
    BY <2>1, <2>2 DEF Next, Only, vars
<1>3. QED
  BY <1>1, <1>2, PTL DEF Spec

(* close() of the catalog leaves no child of it alive and every task it was given  *)
(* with an outcome, and the number of running children is right across reloads but *)
(* for a report that went to the catalog being replaced (plugins/subagents/        *)
(* sessions.py close, activity, restore, reconfigure), for any number of children  *)
(* and reloads.                                                                *)
THEOREM ChildrenCorrect == Spec => []ChildrenOwned
<1>1. ASSUME AgentsInv PROVE Agents!ChildrenStop
  BY <1>1 DEF AgentsInv, AgentsTyped, Belongs, Finished, Agents!ChildrenStop, Agents!Strays
<1>2. ASSUME AgentsInv PROVE Agents!CountIsCurrent
  BY <1>2 DEF AgentsInv, Counts, Tracks, Agents!CountIsCurrent
<1>3. (service = "agents" => AgentsInv) => ChildrenOwned
  BY <1>1, <1>2 DEF ChildrenOwned
<1>4. QED
  BY <1>3, AgentsInvariant, PTL

(***************************************************************************)
(* PackageTransaction.  The plan that holds the lock knows what the files must  *)
(* look like in its phase, and what they were like before: that is what its      *)
(* rollback returns to, and what a crash leaves.                               *)
(***************************************************************************)
Releases  == Installer!Versions \cup {Installer!Missing}
NoPackage == CHOOSE q \in Packages : TRUE
PlanRecords ==
  [proc : Processes \cup {NoProcess}, kind : {"none", "install", "remove", "switch"},
   package : Packages \cup {NoPackage}, version : Releases,
   before : Installer!Receipts, state : Installer!Receipts, known : BOOLEAN, fresh : BOOLEAN,
   source : Releases, phase : Installer!Phases]

InstallerTyped ==
  /\ receipt \in Installer!Receipts
  /\ cache \in [Processes -> Installer!Receipts]
  /\ tree \in [Packages -> Releases]
  /\ backup \in [Installer!Plans -> Releases]
  /\ plan \in [Installer!Plans -> PlanRecords]

\* What a plan that is under way would write, against what it was planned from.
Planned(r) ==
  r.phase \notin {"free", "done"} =>
    /\ r.package \in Packages /\ r.kind # "none"
    /\ r.kind = "switch" => r.state.packages = r.before.packages
    /\ r.kind = "install" /\ r.fresh =>
         r.state.packages = [r.before.packages EXCEPT ![r.package] = r.version]
    /\ r.kind = "remove" /\ r.fresh =>
         r.state.packages = [r.before.packages EXCEPT ![r.package] = Installer!Missing]

\* The files of the package a transaction changes, in each of its phases.
Underway(r, copy) ==
  /\ r.phase = "locked"   => receipt = r.before /\ tree[r.package] = r.source
  /\ r.phase = "aside"    => receipt = r.before /\ r.kind = "install" /\ copy = r.source
  /\ r.phase = "placed"   => receipt = r.before /\ r.kind = "install" /\ copy = r.source
                             /\ tree[r.package] = r.version
  /\ r.phase = "recorded" => /\ receipt = r.state
                             /\ IF r.kind = "install" THEN copy = r.source /\ tree[r.package] = r.version
                                                      ELSE tree[r.package] = r.source
                             /\ ~stale => r.kind = "switch" \/ r.fresh
  /\ r.phase = "restored" => receipt \in {r.before, r.state} /\ tree[r.package] = r.source

\* Everything else is as the receipt it was planned from says.
Elsewhere(r) ==
  ~torn /\ ~stale =>
    \A q \in Packages : r.before.packages[q] # Installer!Missing =>
      r.before.packages[q] = IF q = r.package THEN r.source ELSE tree[q]

Transaction(k) ==
  /\ Planned(plan[k])
  /\ plan[k].phase \in Installer!Held <=> lock = k
  /\ lock = k => Underway(plan[k], backup[k]) /\ Elsewhere(plan[k])

InstallerInv ==
  /\ InstallerTyped
  /\ lock \in Installer!Plans \cup {Installer!NoPlan}
  /\ \A k \in Installer!Plans : Transaction(k)
  /\ Installer!InstalledTreesExist

\* What the two ways of moving a plan on do to its record.
LEMMA PlanMoves ==
  ASSUME InstallerTyped, NEW k \in Installer!Plans, NEW ph \in Installer!Phases, Installer!To(k, ph)
  PROVE  /\ plan' \in [Installer!Plans -> PlanRecords]
         /\ plan'[k] = [plan[k] EXCEPT !.phase = ph]
         /\ plan'[k].phase = ph
         /\ \A j \in Installer!Plans \ {k} : plan'[j] = plan[j]
  BY DEF InstallerTyped, Installer!To, PlanRecords

LEMMA FirstPlans ==
  /\ Installer!FirstReceipt \in Installer!Receipts
  /\ Installer!NoChange \in PlanRecords /\ Installer!Ended \in PlanRecords
  /\ Installer!NoChange.phase = "free" /\ Installer!Ended.phase = "done"
<1>1. Installer!FirstReceipt \in Installer!Receipts /\ Installer!Missing \in Releases
  BY InstallerAssumed
     DEF Installer!PackageAssumption, Installer!FirstReceipt, Installer!Receipts, Releases,
       Installer!Versions
<1>2. Installer!NoChange \in PlanRecords /\ Installer!NoChange.phase = "free"
  BY <1>1 DEF PlanRecords, Installer!NoChange, NoPackage, Installer!Phases
<1>3. QED
  BY <1>1, <1>2 DEF PlanRecords, Installer!Ended, Installer!Phases

\* A plan that is made, refused or dropped changes nothing but itself.
LEMMA PlanOnly ==
  ASSUME InstallerInv, NEW k \in Installer!Plans,
         UNCHANGED <<receipt, tree, backup, lock, cache, stale, torn>>,
         plan' \in [Installer!Plans -> PlanRecords],
         \A j \in Installer!Plans \ {k} : plan'[j] = plan[j],
         plan[k].phase \notin Installer!Held, plan'[k].phase \notin Installer!Held,
         Planned(plan'[k])
  PROVE  InstallerInv'
<1>1. InstallerTyped' /\ Installer!InstalledTreesExist'
  BY DEF InstallerInv, InstallerTyped, Installer!InstalledTreesExist
<1>2. ASSUME NEW j \in Installer!Plans PROVE Transaction(j)'
  <2>0. Transaction(j) /\ Transaction(k)
    BY DEF InstallerInv
  <2>1. CASE j = k
    BY <2>0, <2>1 DEF Transaction
  <2>2. CASE j # k
    BY <2>0, <2>2 DEF Transaction, Underway, Elsewhere
  <2>3. QED
    BY <2>1, <2>2
<1>3. QED
  BY <1>1, <1>2 DEF InstallerInv

LEMMA PlanningStep ==
  ASSUME InstallerInv, NEW k \in Installer!Plans, NEW p \in Processes, NEW q \in Packages,
         NEW v \in Releases, NEW kind \in {"install", "remove", "switch"},
         NEW state_ \in Installer!Receipts,
         Installer!Planned(k, p, kind, q, v, state_),
         kind = "switch" => state_.packages = receipt.packages,
         kind = "install" => state_.packages = [cache[p].packages EXCEPT ![q] = v],
         kind = "remove" => state_.packages = [cache[p].packages EXCEPT ![q] = Installer!Missing]
  PROVE  InstallerInv'
<1> DEFINE new == [proc |-> p, kind |-> kind, package |-> q, version |-> v,
                   before |-> receipt, state |-> state_,
                   known |-> cache[p].packages[q] # Installer!Missing,
                   fresh |-> cache[p] = receipt, source |-> tree[q], phase |-> "queued"]
<1>1. new \in PlanRecords
  BY DEF PlanRecords, InstallerInv, InstallerTyped, Installer!Phases
<1>2. plan' = [plan EXCEPT ![k] = new]
  BY DEF Installer!Planned
<1>3. plan' \in [Installer!Plans -> PlanRecords] /\ plan'[k] = new
      /\ \A j \in Installer!Plans \ {k} : plan'[j] = plan[j]
  BY <1>1, <1>2 DEF InstallerInv, InstallerTyped
<1>4. Planned(new)
  BY DEF Planned
<1>5. UNCHANGED <<receipt, tree, backup, lock, cache, stale, torn>> /\ plan[k].phase = "free"
  BY DEF Installer!Planned, Installer!fileVars, Installer!histVars
<1>6. QED
  BY <1>3, <1>4, <1>5, PlanOnly DEF Installer!Held

LEMMA DroppedStep ==
  ASSUME InstallerInv, NEW k \in Installer!Plans,
         Installer!PrepareRefused(k) \/ Installer!Abandon(k)
  PROVE  InstallerInv'
<1>1. plan' = [plan EXCEPT ![k] = Installer!Ended] /\ plan[k].phase = "queued"
      /\ UNCHANGED <<receipt, tree, backup, lock, cache, stale, torn>>
  BY DEF Installer!PrepareRefused, Installer!Abandon, Installer!End, Installer!fileVars,
    Installer!histVars
<1>2. plan' \in [Installer!Plans -> PlanRecords] /\ plan'[k] = Installer!Ended
      /\ \A j \in Installer!Plans \ {k} : plan'[j] = plan[j]
  BY <1>1, FirstPlans DEF InstallerInv, InstallerTyped
<1>3. Planned(plan'[k])
  BY <1>2, FirstPlans DEF Planned
<1>4. QED
  BY <1>1, <1>2, <1>3, FirstPlans, PlanOnly DEF Installer!Held

\* A step of the plan that holds the lock, or takes or releases it: the other plans
\* do not hold it, and what they have planned stays.
LEMMA HolderStep ==
  ASSUME InstallerInv, NEW k \in Installer!Plans,
         lock \in {k, Installer!NoPlan}, lock' \in {k, Installer!NoPlan},
         InstallerTyped',
         \A j \in Installer!Plans \ {k} : plan'[j] = plan[j],
         Transaction(k)', Installer!InstalledTreesExist'
  PROVE  InstallerInv'
<1>1. Installer!NoPlan \notin Installer!Plans
  BY DEF Installer!NoPlan, Installer!Plans
<1>2. ASSUME NEW j \in Installer!Plans, j # k PROVE Transaction(j)'
  <2>1. Transaction(j) /\ lock # j /\ lock' # j /\ plan'[j] = plan[j]
    BY <1>1, <1>2 DEF InstallerInv
  <2>2. QED
    BY <2>1 DEF Transaction
<1>3. QED
  BY <1>2 DEF InstallerInv

LEMMA PrepareStep ==
  ASSUME InstallerInv, NEW k \in Installer!Plans, Installer!PrepareLocked(k)
  PROVE  InstallerInv'
<1> DEFINE q == plan[k].package
<1> USE DEF Installer!PrepareLocked
<1>0. /\ lock = Installer!NoPlan /\ lock' = k /\ receipt = plan[k].before
      /\ UNCHANGED <<receipt, tree, backup, cache, stale, torn>>
      /\ plan[k].phase = "queued" /\ plan[k] \in PlanRecords /\ Transaction(k)
  BY DEF Installer!fileVars, Installer!histVars, InstallerInv, InstallerTyped
<1>1. q \in Packages /\ tree[q] \in Releases
  BY <1>0 DEF Transaction, Planned, InstallerInv, InstallerTyped
<1>2. plan' = [plan EXCEPT ![k] = [plan[k] EXCEPT !.phase = "locked", !.source = tree[q]]]
  BY <1>0 DEF InstallerInv, InstallerTyped, PlanRecords
<1>3. [plan[k] EXCEPT !.phase = "locked", !.source = tree[q]] \in PlanRecords
  BY <1>0, <1>1 DEF PlanRecords, Installer!Phases, Installer!Held
<1>4. /\ plan' \in [Installer!Plans -> PlanRecords]
      /\ \A j \in Installer!Plans \ {k} : plan'[j] = plan[j]
      /\ plan'[k] = [plan[k] EXCEPT !.phase = "locked", !.source = tree[q]]
  BY <1>2, <1>3 DEF InstallerInv, InstallerTyped
<1>5. /\ plan'[k].phase = "locked" /\ plan'[k].source = tree[q] /\ plan'[k].package = q
      /\ \A f \in {"before", "state", "kind", "version", "fresh"} : plan'[k][f] = plan[k][f]
  BY <1>0, <1>4 DEF PlanRecords
<1>6. Planned(plan[k])'
  BY <1>0, <1>5 DEF Transaction, Planned
<1>7. InstallerTyped' /\ Installer!InstalledTreesExist'
  BY <1>0, <1>4 DEF InstallerInv, InstallerTyped, Installer!InstalledTreesExist, Installer!Plans,
    Installer!NoPlan
<1>8. Underway(plan[k], backup[k])'
  BY <1>0, <1>5 DEF Underway
<1>9. Elsewhere(plan[k])'
  BY <1>0, <1>5 DEF Elsewhere, InstallerInv, Installer!InstalledTreesExist
<1>10. QED
  BY <1>0, <1>4, <1>5, <1>6, <1>7, <1>8, <1>9, HolderStep DEF Transaction, Installer!Held

Fields == {"package", "before", "state", "kind", "version", "fresh", "source"}

LEMMA PhaseMoves ==
  ASSUME InstallerInv, NEW k \in Installer!Plans, NEW ph \in Installer!Held, Installer!To(k, ph)
  PROVE  plan'[k].phase = ph /\ \A f \in Fields : plan'[k][f] = plan[k][f]
<1>1. plan[k] \in PlanRecords /\ ph \in Installer!Phases
  BY DEF InstallerInv, InstallerTyped, Installer!Phases
<1>2. plan'[k] = [plan[k] EXCEPT !.phase = ph]
  BY <1>1, PlanMoves DEF InstallerInv
<1>3. QED
  BY <1>1, <1>2 DEF PlanRecords, Fields

\* A step that moves the plan holding the lock from phase to phase.
LEMMA PhaseStep ==
  ASSUME InstallerInv, NEW k \in Installer!Plans, NEW ph \in Installer!Held,
         plan[k].phase \in Installer!Held, Installer!To(k, ph),
         receipt' \in Installer!Receipts, tree' \in [Packages -> Releases],
         backup' \in [Installer!Plans -> Releases],
         UNCHANGED <<lock, cache, torn>>,
         \A q \in Packages \ {plan[k].package} : tree'[q] = tree[q],
         stale => stale',
         Underway(plan[k], backup[k])'
  PROVE  InstallerInv'
<1>0. ph \in Installer!Phases /\ lock = k /\ Transaction(k)
  BY DEF Installer!Phases, InstallerInv, Transaction
<1>1. /\ plan' \in [Installer!Plans -> PlanRecords]
      /\ \A j \in Installer!Plans \ {k} : plan'[j] = plan[j]
  BY <1>0, PlanMoves DEF InstallerInv
<1>2. plan'[k].phase = ph /\ \A f \in Fields : plan'[k][f] = plan[k][f]
  BY PhaseMoves
<1>3. Planned(plan[k])'
  BY <1>0, <1>2 DEF Transaction, Planned, Installer!Held, Fields
<1>4. Elsewhere(plan[k])'
  BY <1>0, <1>2 DEF Transaction, Elsewhere, Fields
<1>5. Installer!InstalledTreesExist' /\ InstallerTyped'
  BY <1>0, <1>1 DEF Installer!InstalledTreesExist, InstallerInv, InstallerTyped, Installer!NoPlan,
    Installer!Plans
<1>6. QED
  BY <1>0, <1>1, <1>2, <1>3, <1>4, <1>5, HolderStep DEF Transaction

LEMMA HolderSteps ==
  ASSUME InstallerInv, NEW k \in Installer!Plans,
         Installer!MoveAside(k) \/ Installer!Place(k) \/ Installer!Record(k) \/ Installer!Restore(k)
  PROVE  InstallerInv'
<1> DEFINE q == plan[k].package
<1>0. plan[k] \in PlanRecords /\ Transaction(k) /\ plan[k].phase \in Installer!Held
  BY DEF InstallerInv, InstallerTyped, Installer!MoveAside, Installer!Place, Installer!Record,
    Installer!Restore, Installer!Held
<1>1. /\ lock = k /\ q \in Packages /\ plan[k].source \in Releases /\ plan[k].version \in Releases
      /\ tree \in [Packages -> Releases] /\ backup \in [Installer!Plans -> Releases]
      /\ receipt \in Installer!Receipts /\ Installer!Missing \in Releases
      /\ plan[k].state \in Installer!Receipts
      /\ Underway(plan[k], backup[k]) /\ Planned(plan[k])
      /\ plan[k].phase \notin {"free", "done"} /\ plan[k].kind \in {"install", "remove", "switch"}
  BY <1>0 DEF Transaction, Planned, Installer!Held, PlanRecords, InstallerInv, InstallerTyped, Releases
<1>2. CASE Installer!MoveAside(k)
  <2> DEFINE ph == "aside"
  <2>1. /\ Installer!To(k, ph) /\ ph \in Installer!Held /\ plan[k].kind = "install"
        /\ plan[k].phase = "locked"
        /\ backup' = [backup EXCEPT ![k] = tree[q]] /\ tree' = [tree EXCEPT ![q] = Installer!Missing]
        /\ UNCHANGED <<receipt, lock, cache, stale, torn>>
    BY <1>2 DEF Installer!MoveAside, Installer!Held, Installer!histVars
  <2>2. plan'[k].phase = ph /\ \A f \in Fields : plan'[k][f] = plan[k][f]
    BY <2>1, PhaseMoves
  <2>3. Underway(plan[k], backup[k])'
    BY <1>1, <2>1, <2>2 DEF Underway, Fields
  <2>4. QED
    BY <1>0, <1>1, <2>1, <2>3, PhaseStep
<1>3. CASE Installer!Place(k)
  <2> DEFINE ph == "placed"
  <2>1. /\ Installer!To(k, ph) /\ ph \in Installer!Held /\ plan[k].phase = "aside"
        /\ tree' = [tree EXCEPT ![q] = plan[k].version]
        /\ UNCHANGED <<receipt, lock, cache, backup, stale, torn>>
    BY <1>3 DEF Installer!Place, Installer!Held, Installer!histVars
  <2>2. plan'[k].phase = ph /\ \A f \in Fields : plan'[k][f] = plan[k][f]
    BY <2>1, PhaseMoves
  <2>3. Underway(plan[k], backup[k])'
    BY <1>1, <2>1, <2>2 DEF Underway, Fields
  <2>4. QED
    BY <1>0, <1>1, <2>1, <2>3, PhaseStep
<1>4. CASE Installer!Record(k)
  <2> DEFINE ph == "recorded"
  <2>1. /\ Installer!To(k, ph) /\ ph \in Installer!Held
        /\ plan[k].phase = IF plan[k].kind = "install" THEN "placed" ELSE "locked"
        /\ receipt' = plan[k].state
        /\ stale' = (stale \/ (plan[k].kind # "switch" /\ ~plan[k].fresh))
        /\ UNCHANGED <<tree, lock, cache, backup, torn>>
    BY <1>4 DEF Installer!Record, Installer!Held
  <2>2. plan'[k].phase = ph /\ \A f \in Fields : plan'[k][f] = plan[k][f]
    BY <2>1, PhaseMoves
  <2>3. (stale => stale') /\ (~stale' => plan[k].kind = "switch" \/ plan[k].fresh)
    BY <2>1
  <2>4. Underway(plan[k], backup[k])'
    BY <1>1, <2>1, <2>2, <2>3 DEF Underway, Fields
  <2>5. QED
    BY <1>0, <1>1, <2>1, <2>3, <2>4, PhaseStep
<1>5. CASE Installer!Restore(k)
  <2> DEFINE ph == "restored"
  <2>1. /\ Installer!To(k, ph) /\ ph \in Installer!Held /\ plan[k].phase # "restored"
        /\ tree' = IF plan[k].phase \in {"aside", "placed", "recorded"} /\ plan[k].kind = "install"
                   THEN [tree EXCEPT ![q] = backup[k]] ELSE tree
        /\ backup' = [backup EXCEPT ![k] = Installer!Missing]
        /\ UNCHANGED <<receipt, lock, cache, stale, torn>>
    BY <1>5 DEF Installer!Restore, Installer!Held, Installer!histVars
  <2>2. plan'[k].phase = ph /\ \A f \in Fields : plan'[k][f] = plan[k][f]
    BY <2>1, PhaseMoves
  <2>3. Underway(plan[k], backup[k])'
    BY <1>0, <1>1, <2>1, <2>2 DEF Underway, Fields, Installer!Held
  <2>4. backup[k] \in Releases
    BY <1>1
  <2>5. QED
    BY <1>0, <1>1, <2>1, <2>3, <2>4, PhaseStep
<1>6. QED
  BY <1>2, <1>3, <1>4, <1>5

\* The end of a transaction, by which files are left as the receipt says.
LEMMA EndStep ==
  ASSUME InstallerInv, NEW k \in Installer!Plans, lock = k,
         Installer!End(k), lock' = Installer!NoPlan,
         receipt' \in Installer!Receipts, tree' \in [Packages -> Releases],
         backup' \in [Installer!Plans -> Releases], cache' \in [Processes -> Installer!Receipts],
         Installer!InstalledTreesExist'
  PROVE  InstallerInv'
<1>1. plan' = [plan EXCEPT ![k] = Installer!Ended]
  BY DEF Installer!End
<1>2. plan' \in [Installer!Plans -> PlanRecords] /\ plan'[k] = Installer!Ended
      /\ \A j \in Installer!Plans \ {k} : plan'[j] = plan[j]
  BY <1>1, FirstPlans DEF InstallerInv, InstallerTyped
<1>3. lock' # k /\ plan'[k].phase = "done"
  BY <1>2, FirstPlans DEF Installer!NoPlan, Installer!Plans
<1>4. Transaction(k)'
  BY <1>3 DEF Transaction, Planned, Installer!Held
<1>5. InstallerTyped'
  BY <1>2 DEF InstallerTyped
<1>6. QED
  BY <1>2, <1>4, <1>5, HolderStep

LEMMA EndSteps ==
  ASSUME InstallerInv, NEW k \in Installer!Plans, Installer!Commit(k) \/ Installer!Unrecord(k)
  PROVE  InstallerInv'
<1> DEFINE q == plan[k].package
<1>0. plan[k] \in PlanRecords /\ Transaction(k) /\ plan[k].phase \in Installer!Held
  BY DEF InstallerInv, InstallerTyped, Installer!Commit, Installer!Unrecord, Installer!Held
<1>1. /\ lock = k /\ q \in Packages /\ plan[k].proc \in Processes \cup {NoProcess}
      /\ plan[k].source \in Releases /\ plan[k].version \in Releases
      /\ tree \in [Packages -> Releases] /\ backup \in [Installer!Plans -> Releases]
      /\ cache \in [Processes -> Installer!Receipts]
      /\ receipt \in Installer!Receipts /\ Installer!Missing \in Releases
      /\ plan[k].state \in Installer!Receipts /\ plan[k].before \in Installer!Receipts
      /\ Underway(plan[k], backup[k]) /\ Planned(plan[k]) /\ Elsewhere(plan[k])
      /\ plan[k].phase \notin {"free", "done"} /\ plan[k].kind \in {"install", "remove", "switch"}
  BY <1>0 DEF Transaction, Planned, Installer!Held, PlanRecords, InstallerInv, InstallerTyped, Releases
<1>2. \A r \in Installer!Receipts : r.packages \in [Packages -> Releases]
  BY DEF Installer!Receipts, Releases
<1>3. CASE Installer!Commit(k)
  <2>1. /\ Installer!End(k) /\ plan[k].phase = "recorded" /\ lock' = Installer!NoPlan
        /\ cache' = [cache EXCEPT ![plan[k].proc] = plan[k].state]
        /\ backup' = [backup EXCEPT ![k] = Installer!Missing]
        /\ tree' = IF plan[k].kind = "remove" /\ plan[k].before.packages[q] # Installer!Missing
                   THEN [tree EXCEPT ![q] = Installer!Missing] ELSE tree
        /\ UNCHANGED <<receipt, stale, torn>>
    BY <1>3 DEF Installer!Commit, Installer!histVars
  <2>2. /\ receipt' = plan[k].state
        /\ IF plan[k].kind = "install" THEN tree[q] = plan[k].version ELSE tree[q] = plan[k].source
        /\ ~stale => plan[k].kind = "switch" \/ plan[k].fresh
    BY <1>1, <2>1 DEF Underway
  <2>3. ASSUME ~torn, ~stale, NEW r \in Packages, plan[k].state.packages[r] # Installer!Missing
        PROVE  tree'[r] = plan[k].state.packages[r]
    <3>1. plan[k].before.packages[r] # Installer!Missing =>
            plan[k].before.packages[r] = IF r = q THEN plan[k].source ELSE tree[r]
      BY <1>1, <2>3 DEF Elsewhere
    <3>2. CASE plan[k].kind = "switch"
      BY <1>1, <2>1, <2>2, <2>3, <3>1, <3>2 DEF Planned
    <3>3. CASE plan[k].kind = "install"
      BY <1>1, <1>2, <2>1, <2>2, <2>3, <3>1, <3>3 DEF Planned
    <3>4. CASE plan[k].kind = "remove"
      BY <1>1, <1>2, <2>1, <2>2, <2>3, <3>1, <3>4 DEF Planned
    <3>5. QED
      BY <1>1, <3>2, <3>3, <3>4
  <2>4. Installer!InstalledTreesExist'
    BY <2>1, <2>2, <2>3 DEF Installer!InstalledTreesExist
  <2>5. QED
    BY <1>1, <2>1, <2>4, EndStep
<1>4. CASE Installer!Unrecord(k)
  <2>1. /\ Installer!End(k) /\ plan[k].phase = "restored" /\ lock' = Installer!NoPlan
        /\ receipt' = IF receipt = plan[k].state THEN plan[k].before ELSE receipt
        /\ UNCHANGED <<tree, backup, cache, stale, torn>>
    BY <1>4 DEF Installer!Unrecord, Installer!histVars
  <2>2. receipt' = plan[k].before /\ tree[q] = plan[k].source
    BY <1>1, <2>1 DEF Underway
  <2>3. Installer!InstalledTreesExist'
    BY <1>1, <2>1, <2>2 DEF Installer!InstalledTreesExist, Elsewhere
  <2>4. QED
    BY <1>1, <2>1, <2>2, <2>3, EndStep
<1>5. QED
  BY <1>3, <1>4

\* A process writes the marks of the receipt while no transaction is under way,
\* or starts and only reads it.
LEMMA MarkStep ==
  ASSUME InstallerInv, NEW p \in Processes,
         Installer!Catalog(p) \/ \E profile \in BOOLEAN : Installer!Start(p, profile)
  PROVE  InstallerInv'
<1>1. /\ UNCHANGED <<tree, backup, lock, plan, stale, torn>>
      /\ cache' = [cache EXCEPT ![p] = receipt']
      /\ receipt' = receipt \/ (lock = Installer!NoPlan /\ \E b \in BOOLEAN : receipt' = [receipt EXCEPT !.marked = b])
  <2>1. CASE Installer!Catalog(p)
    BY <2>1 DEF Installer!Catalog, Installer!histVars, InstallerInv, InstallerTyped, Installer!Receipts
  <2>2. ASSUME NEW profile \in BOOLEAN, Installer!Start(p, profile)
        PROVE  /\ UNCHANGED <<tree, backup, lock, plan, stale, torn>>
               /\ cache' = [cache EXCEPT ![p] = receipt']
               /\ \/ receipt' = receipt
                  \/ lock = Installer!NoPlan /\ receipt' = [receipt EXCEPT !.marked = TRUE]
    BY <2>2 DEF Installer!Start, Installer!histVars
  <2>3. QED
    BY <2>1, <2>2
<1>2. receipt' \in Installer!Receipts
      /\ (receipt' = receipt \/ (lock = Installer!NoPlan /\ receipt'.packages = receipt.packages))
  <2>1. CASE receipt' = receipt
    BY <2>1 DEF InstallerInv, InstallerTyped
  <2>2. ASSUME NEW b \in BOOLEAN, receipt' = [receipt EXCEPT !.marked = b]
        PROVE  receipt' \in Installer!Receipts /\ receipt'.packages = receipt.packages
    BY <2>2 DEF InstallerInv, InstallerTyped, Installer!Receipts
  <2>3. QED
    BY <1>1, <2>1, <2>2
<1>3. InstallerTyped' /\ Installer!InstalledTreesExist'
  BY <1>1, <1>2 DEF InstallerInv, InstallerTyped, Installer!InstalledTreesExist
<1>4. ASSUME NEW j \in Installer!Plans PROVE Transaction(j)'
  BY <1>1, <1>2 DEF InstallerInv, Transaction, Underway, Elsewhere, Installer!NoPlan, Installer!Plans
<1>5. QED
  BY <1>1, <1>3, <1>4 DEF InstallerInv

\* The plans of a dead process end where they are.
LEMMA CrashStep ==
  ASSUME InstallerInv, NEW p \in Processes, Installer!Crash(p)
  PROVE  InstallerInv'
<1> DEFINE dies(k) == plan[k].proc = p /\ plan[k].phase \notin {"free", "done"}
<1>1. /\ UNCHANGED <<receipt, tree, backup, cache, stale>>
      /\ plan' = [k \in Installer!Plans |-> IF dies(k) THEN Installer!Ended ELSE plan[k]]
      /\ lock' = IF lock # Installer!NoPlan /\ plan[lock].proc = p THEN Installer!NoPlan ELSE lock
      /\ torn' = (torn \/ \E k \in Installer!Plans :
                            plan[k].proc = p /\ plan[k].phase \in {"aside", "placed", "restored"})
  BY DEF Installer!Crash, Installer!fileVars
<1>2. /\ plan' \in [Installer!Plans -> PlanRecords]
      /\ \A k \in Installer!Plans : plan'[k] = IF dies(k) THEN Installer!Ended ELSE plan[k]
  BY <1>1, FirstPlans DEF InstallerInv, InstallerTyped
<1>3. torn => torn'
  BY <1>1
<1>4. ASSUME NEW j \in Installer!Plans PROVE Transaction(j)'
  <2>0. Transaction(j)
    BY DEF InstallerInv
  <2>1. CASE dies(j)
    <3>1. plan'[j].phase = "done"
      BY <1>2, <2>1, FirstPlans
    <3>2. lock' # j
      BY <1>1, <2>0, <2>1 DEF Installer!NoPlan, Installer!Plans
    <3>3. QED
      BY <3>1, <3>2 DEF Transaction, Planned, Installer!Held
  <2>2. CASE ~dies(j)
    <3>1. plan'[j] = plan[j] /\ (lock' = j <=> lock = j)
      BY <1>1, <1>2, <2>0, <2>2 DEF Transaction, Installer!Held, Installer!NoPlan, Installer!Plans
    <3>2. QED
      BY <1>1, <1>3, <2>0, <3>1 DEF Transaction, Underway, Elsewhere
  <2>3. QED
    BY <2>1, <2>2
<1>5. Installer!InstalledTreesExist'
  <2>1. CASE lock = Installer!NoPlan
    BY <1>1, <1>3, <2>1 DEF InstallerInv, Installer!InstalledTreesExist
  <2>2. CASE lock # Installer!NoPlan /\ plan[lock].proc # p
    BY <1>1, <2>2 DEF Installer!InstalledTreesExist
  <2>3. CASE lock # Installer!NoPlan /\ plan[lock].proc = p
    <3> DEFINE k == lock
    <3>1. k \in Installer!Plans /\ Transaction(k) /\ plan[k] \in PlanRecords
      BY <2>3 DEF InstallerInv, InstallerTyped
    <3> HIDE DEF k
    <3>2. /\ plan[k].phase \in Installer!Held /\ Underway(plan[k], backup[k])
          /\ Elsewhere(plan[k]) /\ Planned(plan[k]) /\ plan[k].package \in Packages
          /\ plan[k].phase \notin {"free", "done"}
      BY <3>1 DEF Transaction, k, Installer!Held, Planned
    <3>3. ~torn' => ~torn /\ plan[k].phase \in {"locked", "recorded"}
      BY <1>1, <2>3, <3>1, <3>2 DEF k, Installer!Held
    <3>4. CASE plan[k].phase = "locked"
      BY <1>1, <3>1, <3>2, <3>3, <3>4
         DEF Installer!InstalledTreesExist, Underway, Elsewhere
    <3>5. CASE plan[k].phase = "recorded"
      <4>1. /\ receipt = plan[k].state /\ (~stale => plan[k].kind = "switch" \/ plan[k].fresh)
            /\ IF plan[k].kind = "install" THEN tree[plan[k].package] = plan[k].version
                                           ELSE tree[plan[k].package] = plan[k].source
        BY <3>2, <3>5 DEF Underway
      <4>2. plan[k].kind \in {"install", "remove", "switch"}
            /\ plan[k].before.packages \in [Packages -> Releases]
        BY <3>1, <3>2 DEF PlanRecords, Planned, Installer!Receipts, Releases
      <4>3. ASSUME ~torn', ~stale, NEW r \in Packages, receipt.packages[r] # Installer!Missing
            PROVE  tree[r] = receipt.packages[r]
        <5>1. plan[k].before.packages[r] # Installer!Missing =>
                plan[k].before.packages[r] =
                  IF r = plan[k].package THEN plan[k].source ELSE tree[r]
          BY <3>2, <3>3, <4>3 DEF Elsewhere
        <5>2. CASE plan[k].kind = "switch"
          BY <3>2, <4>1, <4>3, <5>1, <5>2 DEF Planned
        <5>3. CASE plan[k].kind = "install"
          BY <3>2, <4>1, <4>2, <4>3, <5>1, <5>3 DEF Planned
        <5>4. CASE plan[k].kind = "remove"
          BY <3>2, <4>1, <4>2, <4>3, <5>1, <5>4 DEF Planned
        <5>5. QED
          BY <4>2, <5>2, <5>3, <5>4
      <4>4. QED
        BY <1>1, <4>3 DEF Installer!InstalledTreesExist
    <3>6. QED
      BY <3>3, <3>4, <3>5 DEF Installer!InstalledTreesExist
  <2>4. QED
    BY <2>1, <2>2, <2>3
<1>6. QED
  BY <1>1, <1>2, <1>4, <1>5 DEF InstallerInv, InstallerTyped

LEMMA InstallerStep == InstallerInv /\ Installer!Next => InstallerInv'
<1> SUFFICES ASSUME InstallerInv, Installer!Next PROVE InstallerInv'
  OBVIOUS
<1>0. /\ receipt \in Installer!Receipts /\ cache \in [Processes -> Installer!Receipts]
      /\ Installer!Missing \in Releases /\ Installer!Versions \subseteq Releases
  BY DEF InstallerInv, InstallerTyped, Releases
<1>1. ASSUME NEW k \in Installer!Plans, NEW p \in Processes, NEW q \in Packages,
             NEW v \in Installer!Versions,
             Installer!Install(k, p, q, v) \/ Installer!Update(k, p, q, v)
      PROVE  InstallerInv'
  <2>1. /\ cache[p] \in Installer!Receipts /\ v \in Releases
        /\ Installer!Planned(k, p, "install", q, v, Installer!Installing(cache[p], q, v))
    BY <1>0, <1>1 DEF Installer!Install, Installer!Update
  <2>2. /\ Installer!Installing(cache[p], q, v) \in Installer!Receipts
        /\ Installer!Installing(cache[p], q, v).packages = [cache[p].packages EXCEPT ![q] = v]
    BY <2>1 DEF Installer!Receipts, Installer!Installing
  <2>3. QED
    BY <2>1, <2>2, PlanningStep
<1>2. ASSUME NEW k \in Installer!Plans, NEW p \in Processes, NEW q \in Packages,
             Installer!Uninstall(k, p, q)
      PROVE  InstallerInv'
  <2>1. /\ cache[p] \in Installer!Receipts
        /\ Installer!Planned(k, p, "remove", q, Installer!Missing, Installer!Removing(cache[p], q))
    BY <1>0, <1>2 DEF Installer!Uninstall
  <2>2. /\ Installer!Removing(cache[p], q) \in Installer!Receipts
        /\ Installer!Removing(cache[p], q).packages = [cache[p].packages EXCEPT ![q] = Installer!Missing]
    BY <2>1 DEF Installer!Receipts, Installer!Removing
  <2>3. QED
    BY <1>0, <2>1, <2>2, PlanningStep
<1>3. ASSUME NEW k \in Installer!Plans, NEW p \in Processes, NEW q \in Packages,
             NEW enabled \in BOOLEAN, Installer!SetEnabled(k, p, q, enabled)
      PROVE  InstallerInv'
  <2>1. Installer!Planned(k, p, "switch", q, Installer!Missing, Installer!Switching(receipt, q, enabled))
    BY <1>3 DEF Installer!SetEnabled
  <2>2. /\ Installer!Switching(receipt, q, enabled) \in Installer!Receipts
        /\ Installer!Switching(receipt, q, enabled).packages = receipt.packages
    BY <1>0 DEF Installer!Receipts, Installer!Switching
  <2>3. QED
    BY <1>0, <2>1, <2>2, PlanningStep
<1>4. ASSUME NEW k \in Installer!Plans,
             \/ Installer!PrepareLocked(k) \/ Installer!PrepareRefused(k) \/ Installer!MoveAside(k)
             \/ Installer!Place(k) \/ Installer!Record(k) \/ Installer!Commit(k)
             \/ Installer!Abandon(k) \/ Installer!Restore(k) \/ Installer!Unrecord(k)
      PROVE  InstallerInv'
  BY <1>4, PrepareStep, DroppedStep, HolderSteps, EndSteps
<1>5. ASSUME NEW p \in Processes,
             \/ Installer!Catalog(p) \/ Installer!Crash(p)
             \/ \E profile \in BOOLEAN : Installer!Start(p, profile)
      PROVE  InstallerInv'
  BY <1>5, MarkStep, CrashStep
<1>6. QED
  BY <1>1, <1>2, <1>3, <1>4, <1>5 DEF Installer!Next

LEMMA InstallerInit == Init => InstallerInv
<1> SUFFICES ASSUME Installer!Init PROVE InstallerInv
  BY DEF Init
<1>1. InstallerTyped
  <2>1. receipt \in Installer!Receipts /\ tree \in [Packages -> Releases]
    BY FirstPlans DEF Installer!Init, Installer!Receipts, Releases
  <2>2. /\ cache \in [Processes -> Installer!Receipts]
        /\ backup \in [Installer!Plans -> Releases] /\ plan \in [Installer!Plans -> PlanRecords]
    BY FirstPlans DEF Installer!Init, Releases
  <2>3. QED
    BY <2>1, <2>2 DEF InstallerTyped
<1>2. ASSUME NEW k \in Installer!Plans PROVE Transaction(k)
  BY FirstPlans DEF Installer!Init, Transaction, Planned, Installer!Held, Installer!NoPlan,
    Installer!Plans
<1>3. QED
  BY <1>1, <1>2 DEF InstallerInv, Installer!Init, Installer!InstalledTreesExist

LEMMA InstallerInvariant == Spec => [](service = "installer" => InstallerInv)
<1>1. Init => (service = "installer" => InstallerInv)
  BY InstallerInit
<1>2. (service = "installer" => InstallerInv) /\ [Next]_vars
        => (service = "installer" => InstallerInv)'
  <2> SUFFICES ASSUME service = "installer" => InstallerInv, [Next]_vars, (service = "installer")'
               PROVE  InstallerInv'
    OBVIOUS
  <2>1. CASE UNCHANGED installerVars /\ service' = service
    BY <2>1 DEF installerVars, InstallerInv, InstallerTyped, Transaction, Planned, Underway,
      Elsewhere, Installer!InstalledTreesExist
  <2>2. CASE Only("installer") /\ Installer!Next
    BY <2>2, InstallerStep DEF Only
  <2>3. QED
    BY <2>1, <2>2 DEF Next, Only, vars
<1>3. QED
  BY <1>1, <1>2, PTL DEF Spec

(* With no transaction under way, every package of the receipt is installed in   *)
(* the release it names, whatever processes planned, prepared, rolled back or     *)
(* died in between - outside the two known limits the property names (raychat/   *)
(* plugin_manager.py _write_transaction_files, _rollback_transaction).           *)
THEOREM InstallsCorrect == Spec => []InstalledTreesExist
<1>1. (service = "installer" => InstallerInv) => InstalledTreesExist
  BY DEF InstallerInv, InstalledTreesExist
<1>2. QED
  BY <1>1, InstallerInvariant, PTL

\* The phase of a plan only goes on by a hook of the plan itself, or by a crash.
LEMMA EndsByHook ==
  ASSUME InstallerInv, NEW k \in Installer!Plans, Installer!Next,
         plan[k].phase \in Installer!Held, plan'[k].phase = "done", alive' = alive
  PROVE  Installer!Commit(k) \/ Installer!Unrecord(k)
<1>0. plan[k] \in PlanRecords /\ plan \in [Installer!Plans -> PlanRecords]
  BY DEF InstallerInv, InstallerTyped
<1>1. plan' # plan
  BY <1>0 DEF Installer!Held
<1>2. ASSUME NEW p \in Processes PROVE ~Installer!Crash(p)
  BY DEF Installer!Crash
<1>3. ASSUME NEW p \in Processes, NEW profile \in BOOLEAN
      PROVE  ~Installer!Catalog(p) /\ ~Installer!Start(p, profile)
  BY <1>1 DEF Installer!Catalog, Installer!Start
<1>4. ASSUME NEW j \in Installer!Plans, NEW p, NEW kind, NEW q, NEW v, NEW s,
             Installer!Planned(j, p, kind, q, v, s)
      PROVE  FALSE
  BY <1>0, <1>4 DEF Installer!Planned, Installer!Held
<1>5. ASSUME NEW j \in Installer!Plans, NEW p \in Processes, NEW q \in Packages
      PROVE  /\ \A v \in Installer!Versions : ~Installer!Install(j, p, q, v) /\ ~Installer!Update(j, p, q, v)
             /\ ~Installer!Uninstall(j, p, q)
             /\ \A b \in BOOLEAN : ~Installer!SetEnabled(j, p, q, b)
  BY <1>4 DEF Installer!Install, Installer!Update, Installer!Uninstall, Installer!SetEnabled
<1>6. ASSUME NEW j \in Installer!Plans, NEW ph \in Installer!Held, Installer!To(j, ph)
      PROVE  FALSE
  <2>1. CASE j = k
    BY <1>6, <2>1, PhaseMoves DEF Installer!Held
  <2>2. CASE j # k
    BY <1>0, <1>6, <2>2 DEF Installer!To, Installer!Held
  <2>3. QED
    BY <2>1, <2>2
<1>7. ASSUME NEW j \in Installer!Plans
      PROVE  ~Installer!MoveAside(j) /\ ~Installer!Place(j) /\ ~Installer!Record(j) /\ ~Installer!Restore(j)
  BY <1>6 DEF Installer!MoveAside, Installer!Place, Installer!Record, Installer!Restore, Installer!Held
<1>8. ASSUME NEW j \in Installer!Plans
      PROVE  ~Installer!PrepareLocked(j) /\ ~Installer!PrepareRefused(j) /\ ~Installer!Abandon(j)
  BY <1>0 DEF Installer!PrepareLocked, Installer!PrepareRefused, Installer!Abandon, Installer!End,
    Installer!Held
<1>9. ASSUME NEW j \in Installer!Plans, Installer!Commit(j) \/ Installer!Unrecord(j)
      PROVE  j = k
  BY <1>0, <1>9 DEF Installer!Commit, Installer!Unrecord, Installer!End, Installer!Held
<1>10. QED
  BY <1>2, <1>3, <1>5, <1>7, <1>8, <1>9 DEF Installer!Next

(* A transaction ends with its own receipt and its release in place, or with      *)
(* everything as it was (raychat/plugin_manager.py _transaction).               *)
THEOREM TransactionsWhole == Spec => AllOrNothing
<1>1. ASSUME InstallerInv, Installer!Next, NEW k \in Installer!Plans,
             plan[k].phase \in Installer!Held, plan'[k].phase = "done", alive' = alive
      PROVE  LET q == plan[k].package IN
             \/ /\ receipt' = plan[k].state
                /\ plan[k].kind = "install" => tree'[q] = plan[k].version
             \/ receipt' = plan[k].before /\ tree'[q] = plan[k].source /\ cache' = cache
  <2>1. Underway(plan[k], backup[k]) /\ Planned(plan[k])
    BY <1>1 DEF InstallerInv, Transaction
  <2>2. CASE Installer!Commit(k)
    BY <2>1, <2>2 DEF Installer!Commit, Underway
  <2>3. CASE Installer!Unrecord(k)
    BY <2>1, <2>3 DEF Installer!Unrecord, Underway
  <2>4. QED
    BY <1>1, <2>2, <2>3, EndsByHook
<1>2. InstallerInv /\ Installer!Next => Installer!EndsWhole
  BY <1>1 DEF Installer!EndsWhole
<1>3. (service = "installer" => InstallerInv) /\ [Next]_vars
        => [service = "installer" => Installer!EndsWhole]_installerVars
  BY <1>2 DEF Next, Only, vars
<1>4. QED
  BY <1>3, InstallerInvariant, PTL DEF Spec, AllOrNothing
=============================================================================

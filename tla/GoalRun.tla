------------------------------- MODULE GoalRun -------------------------------
(***************************************************************************)
(* plugins/goals: one thread sends a message, has the transcript judged       *)
(* against the active goal and continues until the goal is reached, while      *)
(* /goal commands set and clear the goal on another.  Goals are numbered by    *)
(* their revision; the plugin state keeps a copy of the goal for the journal,  *)
(* which both threads write without a lock, and which the session puts back to  *)
(* what it was at the start of a turn when the turn is aborted.                *)
(***************************************************************************)
EXTENDS Naturals

CONSTANTS
  MaxRevision,     \* bound on /goal commands
  MaxMessages,     \* bound on messages, continuations included
  MaxRetries       \* bound on retries of one call

GoalAssumption == MaxRevision \in Nat /\ MaxMessages \in Nat /\ MaxRetries \in Nat

Revisions == 1..MaxRevision
NoGoal    == 0

VARIABLES
  goal,        \* _status: the revision of the active goal, or NoGoal
  revision,    \* _revision
  state,       \* the goal in the plugin's state
  turnStart,   \* _rollback_state of the turn: what an abort makes of state
  durable,     \* the goal in the last checkpoint
  pc, current, verdict, attempt,     \* the thread of the run and its locals
  held,        \* the "done" event of the last send is withheld
  messages,
  writer,      \* each thread inside save(): what it read, where it is, and (history)
               \* whether no other save, abort or lost end has come between
  doubtful,    \* history: the last save was not like that, or could not be made
  reached      \* history: the revision reviewed and the goal it ended

runVars  == <<pc, current, verdict, attempt, held, messages>>
saveVars == <<state, turnStart, durable, writer, doubtful>>
vars == <<goal, revision, saveVars, runVars, reached>>

Savers   == {"run", "command"}
Idle     == [at |-> "none", read |-> NoGoal, sound |-> TRUE]
Verdicts == {"none", "complete", "continue"}
Sites    == {"idle", "sending", "turnend", "resend", "review", "judging", "rejudge",
             "decided", "announced", "finish", "saving"}

TypeOK ==
  /\ goal \in {NoGoal} \cup Revisions /\ state \in {NoGoal} \cup Revisions
  /\ durable \in {NoGoal} \cup Revisions /\ current \in {NoGoal} \cup Revisions
  /\ turnStart \in {NoGoal} \cup Revisions /\ revision \in {NoGoal} \cup Revisions
  /\ pc \in Sites /\ verdict \in Verdicts
  /\ attempt \in 0..MaxRetries /\ messages \in 0..MaxMessages
  /\ held \in BOOLEAN /\ doubtful \in BOOLEAN
  /\ writer \in [Savers -> [at : {"none", "read", "written"}, read : {NoGoal} \cup Revisions,
                          sound : BOOLEAN]]
  /\ reached \subseteq Revisions \X Revisions

Init ==
  /\ goal = NoGoal /\ revision = 0
  /\ state = NoGoal /\ turnStart = NoGoal /\ durable = NoGoal
  /\ pc = "idle" /\ current = NoGoal /\ verdict = "none" /\ attempt = 0
  /\ held = FALSE /\ messages = 0
  /\ writer = [t \in Savers |-> Idle] /\ doubtful = FALSE
  /\ reached = {}

(***************************************************************************)
(* /goal OBJECTIVE, /goal clear: the controller first, then save() and        *)
(* checkpoint().                                                              *)
(***************************************************************************)
Saving(t) == writer[t].at # "none"

Apply(new) ==
  /\ ~Saving("command")
  /\ revision < MaxRevision
  /\ revision' = revision + 1
  /\ goal' = new

Configure == Apply(revision')
Clear     == Apply(NoGoal)

\* save() reads the goal under its lock ...
ReadGoal(t, g) ==
  /\ LET alone == \A u \in Savers \ {t} : ~Saving(u) IN
     writer' = [u \in Savers |->
       IF u = t THEN [at |-> "read", read |-> g, sound |-> alone]
       ELSE [writer[u] EXCEPT !.sound = @ /\ ~Saving(u)]]
  /\ UNCHANGED <<state, turnStart, durable, doubtful>>

Command == (Configure \/ Clear) /\ ReadGoal("command", goal') /\ UNCHANGED <<runVars, reached>>

\* ... and writes the state after it has released it.
WriteState(t) ==
  /\ writer[t].at = "read"
  /\ state' = writer[t].read
  /\ writer' = [writer EXCEPT ![t].at = "written"]
  /\ UNCHANGED <<goal, revision, turnStart, durable, doubtful, runVars, reached>>

\* ctx.checkpoint(), or the commit of the turn: an aborted turn keeps what a command
\* has checkpointed beside it.
InTurn == pc \in {"sending", "turnend"}

Checkpoint(t) ==
  /\ writer[t].at = "written"
  /\ durable' = state
  /\ turnStart' = IF t = "command" /\ InTurn THEN state ELSE NoGoal
  /\ doubtful' = ~writer[t].sound
  /\ writer' = [writer EXCEPT ![t] = Idle]
  /\ pc' = IF t = "command" THEN pc ELSE IF pc = "turnend" THEN "review" ELSE "idle"
  /\ held' = (held \/ (t = "run" /\ pc = "turnend"))
  /\ UNCHANGED <<goal, revision, state, current, verdict, attempt, messages, reached>>

\* AgentSession._finish_turn of a turn that has not committed: what a command has written
\* and not yet checkpointed is lost with the rest.
Abort ==
  /\ state' = turnStart /\ turnStart' = NoGoal
  /\ writer' = [t \in Savers |-> IF t = "run" THEN Idle ELSE
       [writer[t] EXCEPT !.sound = @ /\ ~(writer[t].at = "written" /\ state # turnStart)]]
  /\ UNCHANGED <<goal, revision, durable, doubtful, reached>>

(***************************************************************************)
(* _GoalRun.run.                                                             *)
(***************************************************************************)
Goto(site) == pc' = site /\ UNCHANGED <<goal, revision, saveVars, reached>>

\* session.send opens a turn, from whose start an abort restores the state.
OpenTurn ==
  /\ pc' = "sending" /\ turnStart' = state
  /\ UNCHANGED <<goal, revision, state, durable, writer, doubtful, reached>>

Message ==
  /\ pc = "idle" /\ messages < MaxMessages
  /\ messages' = messages + 1
  /\ attempt' = 0 /\ held' = FALSE
  /\ OpenTurn
  /\ UNCHANGED <<current, verdict>>

\* The turn is at its end, whose hooks save the goal; session.send returns after the
\* commit, and its "done" event waits for the verdict.
Sent ==
  /\ pc = "sending"
  /\ Goto("turnend")
  /\ UNCHANGED <<current, verdict, attempt, held, messages>>

\* It raises, also when a hook at the end of the turn does, and the turn is aborted: only
\* a run with a goal retries, and only some errors.
SendFails ==
  /\ InTurn /\ goal # NoGoal /\ attempt < MaxRetries
  /\ attempt' = attempt + 1
  /\ Abort /\ pc' = "resend"
  /\ UNCHANGED <<current, verdict, held, messages>>

\* wait_for_retry: any goal will do for the agent, the judge needs its own.
Resend ==
  /\ pc = "resend" /\ goal # NoGoal
  /\ OpenTurn
  /\ UNCHANGED <<current, verdict, attempt, held, messages>>

Rejudge ==
  /\ pc = "rejudge" /\ goal = current
  /\ Goto("judging")
  /\ UNCHANGED <<current, verdict, attempt, held, messages>>

\* The goal under review is gone, or another one, when the wait ends.
Obsolete ==
  /\ pc = "rejudge" /\ goal # current
  /\ Goto("review")
  /\ UNCHANGED <<current, verdict, attempt, held, messages>>

\* An error ends the operation, and nothing is saved: a cancellation, an error
\* that is not retried, or a retry whose goal was cleared.
Raise ==
  /\ pc \in {"resend", "judging", "rejudge"}
  /\ Goto("idle")
  /\ UNCHANGED <<current, verdict, attempt, held, messages>>

\* Out of session.send it aborts the turn too.
RaiseInTurn ==
  /\ InTurn /\ Abort /\ pc' = "idle"
  /\ UNCHANGED <<current, verdict, attempt, held, messages>>

Review ==
  /\ pc = "review"
  /\ current' = goal /\ attempt' = 0 /\ verdict' = "none"
  /\ Goto(IF goal = NoGoal THEN "finish" ELSE "judging")
  /\ UNCHANGED <<held, messages>>

Judged(v) ==
  /\ pc = "judging"
  /\ verdict' = v
  /\ Goto("decided")
  /\ UNCHANGED <<current, attempt, held, messages>>

\* The judge fails: a goal cleared meanwhile ends the run, another one is
\* reviewed instead.
JudgeFails ==
  /\ pc = "judging" /\ attempt < MaxRetries
  /\ attempt' = attempt + 1
  /\ Goto(IF goal = NoGoal THEN "finish" ELSE IF goal # current THEN "review" ELSE "rejudge")
  /\ UNCHANGED <<current, verdict, held, messages>>

\* accept() looks once before it announces the decision ...
Announce ==
  /\ pc = "decided"
  /\ Goto(IF goal = NoGoal THEN "finish" ELSE IF goal # current THEN "review" ELSE "announced")
  /\ UNCHANGED <<current, verdict, attempt, held, messages>>

\* Planted error: the second look is left out.
AcceptUnchecked ==
  /\ pc = "announced"
  /\ goal' = IF verdict = "complete" THEN NoGoal ELSE goal
  /\ reached' = IF verdict = "complete" /\ goal # NoGoal
                THEN reached \cup {<<current, goal>>} ELSE reached
  /\ pc' = IF verdict = "complete" THEN "finish" ELSE "saving"
  /\ UNCHANGED <<revision, saveVars, current, verdict, attempt, held, messages>>

\* ... and again under the lock, where a complete goal is removed.
AcceptDecision ==
  /\ pc = "announced"
  /\ LET accepted == goal = current /\ verdict = "complete" IN
     /\ goal' = IF accepted THEN NoGoal ELSE goal
     /\ reached' = IF accepted THEN reached \cup {<<current, goal>>} ELSE reached
     /\ pc' = IF goal = NoGoal \/ accepted THEN "finish"
              ELSE IF goal # current THEN "review" ELSE "saving"
  /\ UNCHANGED <<revision, saveVars, current, verdict, attempt, held, messages>>

\* The withheld "done" is published.
Finish ==
  /\ pc = "finish"
  /\ held' = FALSE
  /\ Goto("saving")
  /\ UNCHANGED <<current, verdict, attempt, messages>>

\* A cancelled job may not publish it; the middleware does not save then.
FinishRaises ==
  /\ pc = "finish"
  /\ pc' = "idle" /\ doubtful' = TRUE
  /\ writer' = [writer EXCEPT !["command"].sound = @ /\ ~Saving("command")]
  /\ UNCHANGED <<goal, revision, state, turnStart, durable, current, verdict, attempt, held,
                 messages, reached>>

\* Planted error: the command alone saves, the run does not.
SaveNothing ==
  /\ pc \in {"turnend", "saving"}
  /\ Goto(IF pc = "turnend" THEN "review" ELSE "idle")
  /\ UNCHANGED <<current, verdict, attempt, held, messages>>

\* The turn's end and the middleware, whatever the run returned, save the goal.
Save ==
  /\ pc \in {"turnend", "saving"} /\ ~Saving("run")
  /\ ReadGoal("run", goal)
  /\ UNCHANGED <<goal, revision, runVars, reached>>

Next ==
  \/ Command \/ Message \/ Sent \/ SendFails \/ Resend \/ Rejudge \/ Obsolete \/ Raise \/ RaiseInTurn
  \/ Review \/ JudgeFails \/ Announce \/ AcceptDecision \/ Finish \/ FinishRaises \/ Save
  \/ \E v \in {"complete", "continue"} : Judged(v)
  \/ \E t \in Savers : WriteState(t) \/ Checkpoint(t)

Spec == Init /\ [][Next]_vars

(***************************************************************************)
(* Properties.                                                              *)
(***************************************************************************)
\* A goal ends by a verdict on that goal: /goal may have replaced or cleared it
\* at any point of the review, and a verdict that comes back late ends nothing.
VerdictIsCurrent == \A end \in reached : end[1] = end[2]   \* reviewed, ended

\* Between runs and commands the last checkpoint holds the active goal, which is
\* what a resumed conversation starts from.  Three known limits, each of which makes the
\* save that meets it doubtful: one save that begins inside another, an abort that
\* restores the state between a command's save() and its checkpoint (so that the older
\* goal is checkpointed), and a "done" that a cancelled run cannot publish.
SavedGoalIsCurrent ==
  pc = "idle" /\ ~Saving("command") /\ ~doubtful => durable = goal
==============================================================================

------------------------- MODULE AgentWorkerProofs -------------------------
(***************************************************************************)
(* Theorems about AgentWorker for every number of clients, jobs,           *)
(* approvals, controls and steps, and every set of faults.                 *)
(***************************************************************************)
EXTENDS AgentWorker, FiniteSetTheorems, SequenceTheorems, TLAPS

(* What the thread's locals hold where they are used.                       *)
LocalsOK ==
    /\ thread \in InJob \cup {"retiring"} => cmd.kind = "job"
    /\ thread \in InApproval => asked # NoApproval
    /\ thread \in Settling => outcome # "none"

(* The job the thread has taken and not yet retired.                        *)
InHand ==
    thread \in InJob \cup {"retiring"} \/ (thread = "taken" /\ cmd.kind = "job")

IsJob(i) == jobs[i].kind = "job"

Queued(j) == \E i \in DOMAIN jobs : jobs[i] = Command("job", j)

(* Queued jobs stand in the order of their ids, untouched and accepted.     *)
QueuedJobs ==
    \A i \in DOMAIN jobs : IsJob(i) =>
        /\ jobs[i].job \in accepted
        /\ \A k \in DOMAIN jobs : i < k /\ IsJob(k) => jobs[i].job < jobs[k].job
        /\ InHand => cmd.job < jobs[i].job
        /\ jobs[i].job \notin begun /\ terminal[jobs[i].job] = <<>>

(* An accepted job is queued or in hand; a job no longer accepted has ended. *)
AcceptedJobs ==
    \A j \in Jobs :
        /\ j \in accepted =>
            /\ j < nextJob
            /\ Queued(j) \/ (InHand /\ cmd.job = j)
        /\ j < nextJob /\ j \notin accepted => Len(terminal[j]) = 1
        /\ j >= nextJob => terminal[j] = <<>> /\ j \notin begun
        /\ j \in begun => j < nextJob

(* Where the job in hand stands.                                            *)
JobInHand ==
    InHand =>
        /\ cmd.job \in accepted
        /\ thread \in {"taken", "activate", "precheck"} => cmd.job \notin begun
        /\ thread \in InTask \cup Settling => cmd.job \in begun
        /\ thread # "retiring" => terminal[cmd.job] = <<>>
        /\ thread = "retiring" => Len(terminal[cmd.job]) = 1
        /\ thread \in InTask \cup Settling \cup {"precheck", "retiring"} => active = cmd.job

(* A job is active only while the thread is at it, and cancellations are     *)
(* recorded for accepted jobs only.                                         *)
ActiveJob ==
    /\ active # NoJob => thread \in InJob \cup {"retiring"} /\ active = cmd.job
    /\ cancelled \subseteq accepted
    /\ cancelSeen \cap accepted \subseteq cancelled
    /\ \A j \in cancelSeen : j < nextJob
    /\ \A j \in begun \cap cancelSeen : j \in cancelled \cup suppressed

(* The one STOP, and the flag that precedes it.                             *)
StopCommand ==
    /\ StopIsLast
    /\ \A i \in DOMAIN jobs : jobs[i] = Stop => stopFlag
    /\ cmd = Stop /\ thread \in {"closing", "stopped"} => stopFlag
    /\ thread \in {"taken", "control", "retiring", "activity", "finally",
                  "unwinding"} => cmd # Stop

(* Answers on their way carry a granted approval or one whose job has been  *)
(* cancelled.                                                               *)
MayCarry(id) == id \in granted \/ owner[id] \in cancelSeen

Answers ==
    /\ \A a \in Approvals : a >= nextApproval =>
          a \notin granted /\ a # pending /\ a # asked
    /\ \A i \in DOMAIN answers :
          answers[i].approved => answers[i].id # NoApproval /\ MayCarry(answers[i].id)
    /\ \A i \in DOMAIN answers : answers[i].id < nextApproval
    /\ \A c \in Clients : reply[c].approved =>
          reply[c].id # NoApproval /\ MayCarry(reply[c].id)
    /\ \A c \in Clients : reply[c].id < nextApproval
    /\ thread \in InApproval => owner[asked] = cmd.job
    /\ thread = "deciding" /\ decision => MayCarry(asked)
    /\ thread = "granting" /\ decision => asked \in granted

JobsInv == QueuedJobs /\ AcceptedJobs /\ JobInHand /\ ActiveJob

(* What the thread is at while processing is set; a control is pending while *)
(* it waits in the queue and until the finally clause that follows it.       *)
AtCommand == {"control", "activity", "finally", "unwinding", "retiring"} \cup InJob

Waiting(commands) == {i \in DOMAIN commands : commands[i] \in Controls}

InControl == thread \in {"taken", "control", "finally", "unwinding"} /\ cmd \in Controls

CommandInHand ==
    /\ processing <=> thread \in AtCommand
    /\ pendingControls = Cardinality(Waiting(jobs)) + (IF InControl THEN 1 ELSE 0)
    /\ thread = "control" => cmd \in Controls
    /\ thread = "activity" => cmd \notin Controls

IInv ==
    /\ TypeOK /\ LocalsOK /\ StopCommand /\ CommandInHand /\ JobsInv
    /\ Answers /\ PendingIsLive /\ ResolvedOnce
    /\ ExecutedWereGranted /\ NoUiAfterCancel

-----------------------------------------------------------------------------
(* Type correctness.                                                        *)

LEMMA CommandFields ==
    /\ \A c \in Commands : c.kind \in {"job", "stop", "reset", "reconfigure"}
                           /\ c.job \in Jobs \cup {NoJob}
    /\ \A c \in Commands : c.kind = "job" => c = Command("job", c.job) /\ c.job \in Jobs
    /\ \A j \in Jobs : Command("job", j) \in Commands
    /\ Stop \in Commands /\ Controls \subseteq Commands
    /\ \A c \in Commands : c = Stop <=> c.kind = "stop"
    /\ \A c \in Commands : c \in Controls <=> c.kind \in {"reset", "reconfigure"}
<1>1. /\ Stop = [kind |-> "stop", job |-> NoJob]
      /\ Controls = {[kind |-> "reset", job |-> NoJob],
                     [kind |-> "reconfigure", job |-> NoJob]}
      /\ \A j : Command("job", j) = [kind |-> "job", job |-> j]
  BY DEF Stop, Controls, Command
<1>2. \A c \in Commands : \/ c = Stop \/ c \in Controls
                          \/ \E j \in Jobs : c = Command("job", j)
  BY DEF Commands, JobCommands
<1>3. \A j \in Jobs : Command("job", j) \in Commands
  BY DEF Commands, JobCommands
<1>4. Stop \in Commands /\ Controls \subseteq Commands
  BY DEF Commands
<1>5. \A c \in Commands :
        /\ c.kind \in {"job", "stop", "reset", "reconfigure"}
        /\ c.job \in Jobs \cup {NoJob}
        /\ c.kind = "job" => c = Command("job", c.job) /\ c.job \in Jobs
        /\ c = Stop <=> c.kind = "stop"
        /\ c \in Controls <=> c.kind \in {"reset", "reconfigure"}
  <2> SUFFICES ASSUME NEW c \in Commands
               PROVE  /\ c.kind \in {"job", "stop", "reset", "reconfigure"}
                      /\ c.job \in Jobs \cup {NoJob}
                      /\ c.kind = "job" => c = Command("job", c.job) /\ c.job \in Jobs
                      /\ c = Stop <=> c.kind = "stop"
                      /\ c \in Controls <=> c.kind \in {"reset", "reconfigure"}
    OBVIOUS
  <2>1. CASE c = Stop
    BY <1>1, <2>1
  <2>2. CASE c \in Controls
    BY <1>1, <2>2
  <2>3. CASE \E j \in Jobs : c = Command("job", j)
    BY <1>1, <2>3
  <2>4. QED
    BY <1>2, <2>1, <2>2, <2>3
<1>6. QED
  BY <1>3, <1>4, <1>5

LEMMA StateList ==
    /\ ThreadStates =
        {"unstarted", "boot", "get", "taken", "control", "retiring", "closing",
         "stopped", "activate", "precheck", "working", "stepping", "returned",
         "awaiting", "polling", "deciding", "granting", "cancelling",
         "publishing", "activity", "finally", "unwinding"}
    /\ InJob = {"activate", "precheck", "working", "stepping", "returned",
                "awaiting", "polling", "deciding", "granting", "cancelling",
                "publishing"}
    /\ InTask = {"working", "stepping", "returned", "awaiting", "polling",
                 "deciding", "granting"}
    /\ InApproval = {"awaiting", "polling", "deciding", "granting"}
    /\ Settling = {"cancelling", "publishing"}
BY DEF ThreadStates, InJob, InTask, InApproval, Settling, Leaving

LEMMA Identifiers ==
    /\ NoJob \notin Jobs /\ NoApproval \notin Approvals
    /\ \A n \in 1..(MaxJobs + 1) :
          n <= MaxJobs => n \in Jobs /\ n + 1 \in 1..(MaxJobs + 1)
    /\ \A n \in 1..(MaxApprovals + 1) :
          n <= MaxApprovals => n \in Approvals /\ n + 1 \in 1..(MaxApprovals + 1)
    /\ 1 \in 1..(MaxJobs + 1) /\ 1 \in 1..(MaxApprovals + 1)
BY BoundsAssumption DEF Jobs, Approvals, NoJob, NoApproval

LEMMA TypeInit == Init => TypeOK /\ LocalsOK
<1> SUFFICES ASSUME Init PROVE TypeOK /\ LocalsOK
  OBVIOUS
<1>1. jobs \in Seq(Commands) /\ cmd \in Commands
  BY CommandFields DEF Init
<1>2. /\ nextJob \in 1..(MaxJobs + 1) /\ nextApproval \in 1..(MaxApprovals + 1)
      /\ pendingControls \in Int /\ controls \in 0..MaxControls
      /\ steps \in 0..MaxSteps
  BY BoundsAssumption, Identifiers DEF Init
<1>3. thread \in ThreadStates /\ LocalsOK
  BY StateList DEF Init, LocalsOK
<1>4. /\ answers \in Seq([id : Approvals \cup {NoApproval}, approved : BOOLEAN])
      /\ terminal \in [Jobs -> Seq({"completed", "cancelled", "error"})]
      /\ reply \in [Clients -> [id : Approvals \cup {NoApproval}, approved : BOOLEAN]]
  BY DEF Init
<1>5. QED
  BY <1>1, <1>2, <1>3, <1>4 DEF Init, TypeOK

LEMMA TypeStep == TypeOK /\ LocalsOK /\ [Next]_vars => TypeOK'
<1> SUFFICES ASSUME TypeOK, LocalsOK, [Next]_vars
             PROVE  TypeOK'
  OBVIOUS
<1> USE BoundsAssumption
    DEF TypeOK, queueVars, cancelVars, approvalVars, answerVars, clientVars,
        localVars, publicVars, uiVars, clientUnchanged, threadUnchanged
<1>1. ASSUME NEW c \in Clients, NEW op \in {"submit", "reset"}, EnterCall(c, op)
      PROVE  TypeOK'
  BY <1>1, StateList DEF EnterCall
<1>2. ASSUME NEW c \in Clients, Submit(c)
      PROVE  TypeOK'
  <2>1. CASE stopFlag
    BY <1>2, <2>1 DEF Submit
  <2>2. CASE ~stopFlag
    <3>1. nextJob \in Jobs /\ nextJob' \in 1..(MaxJobs + 1)
      BY <1>2, <2>2, Identifiers DEF Submit, AcceptJob
    <3>2. jobs' \in Seq(Commands) /\ accepted' \subseteq Jobs
      <4>1. Command("job", nextJob) \in Commands
        BY <3>1, CommandFields
      <4>2. Append(jobs, Command("job", nextJob)) \in Seq(Commands)
        BY <4>1, AppendProperties
      <4>3. /\ jobs' = Append(jobs, Command("job", nextJob))
            /\ accepted' = accepted \cup {nextJob}
        BY <1>2, <2>2 DEF Submit, AcceptJob
      <4>4. QED
        BY <3>1, <4>2, <4>3
    <3>3. /\ UNCHANGED <<pendingControls, controls, stopFlag, reply, thread,
                     cancelVars, approvalVars, answerVars, clientUnchanged>>
          /\ call' \in [Clients -> {"idle", "submit", "reset", "answer"}]
      BY <1>2, <2>2 DEF Submit, AcceptJob
    <3>4. QED
      BY <3>1, <3>2, <3>3
  <2>3. QED
    BY <2>1, <2>2
<1>3. ASSUME NEW c \in Clients, Reset(c)
      PROVE  TypeOK'
  <2>1. CASE stopFlag
    BY <1>3, <2>1 DEF Reset
  <2>2. CASE ~stopFlag
    <3>1. /\ jobs' \in Seq(Commands)
          /\ pendingControls' \in Int /\ controls' \in 0..MaxControls
      <4>1. EnqueueControl(Command("reset", NoJob))
        BY <1>3, <2>2 DEF Reset
      <4>2. Command("reset", NoJob) \in Commands
        BY CommandFields DEF Controls
      <4>3. QED
        BY <4>1, <4>2, AppendProperties DEF EnqueueControl
    <3>2. /\ UNCHANGED <<accepted, nextJob, stopFlag, reply, thread, cancelVars,
                     approvalVars, answerVars, clientUnchanged>>
          /\ call' \in [Clients -> {"idle", "submit", "reset", "answer"}]
      BY <1>3, <2>2 DEF Reset, EnqueueControl
    <3>3. QED
      BY <3>1, <3>2
  <2>3. QED
    BY <2>1, <2>2
<1>4. ASSUME NEW c \in Clients, QueueAnswer(c)
      PROVE  TypeOK'
  BY <1>4 DEF QueueAnswer
<1>5. ASSUME NEW c \in Clients, NEW approved \in BOOLEAN, Respond(c, approved)
      PROVE  TypeOK'
  BY <1>5 DEF Respond
<1>6. ASSUME NEW j \in Jobs, Cancel(j)
      PROVE  TypeOK'
  BY <1>6 DEF Cancel
<1>7. ASSUME NEW j \in Jobs, SessionUi(j)
      PROVE  TypeOK'
  BY <1>7 DEF SessionUi
<1>8. ASSUME Reconfigure
      PROVE  TypeOK'
  <2>1. /\ jobs' \in Seq(Commands)
        /\ pendingControls' \in Int /\ controls' \in 0..MaxControls
    BY <1>8, CommandFields DEF Reconfigure, EnqueueControl, Controls
  <2>2. /\ UNCHANGED <<accepted, nextJob, stopFlag, reply, thread, cancelVars,
                   approvalVars, answerVars, clientUnchanged>>
        /\ call' \in [Clients -> {"idle", "submit", "reset", "answer"}]
    BY <1>8 DEF Reconfigure, EnqueueControl
  <2>3. QED
    BY <2>1, <2>2
<1>9. ASSUME StopWorker
      PROVE  TypeOK'
  BY <1>9, CommandFields DEF StopWorker
<1>10. ASSUME Boot
      PROVE  TypeOK'
  BY <1>10, StateList DEF Boot, Goto
<1>11. ASSUME TakeCommand
      PROVE  TypeOK'
  BY <1>11, CommandFields, StateList DEF TakeCommand
<1>12. ASSUME MarkProcessing
      PROVE  TypeOK'
  BY <1>12, StateList DEF MarkProcessing
<1>13. ASSUME RunControl
      PROVE  TypeOK'
  BY <1>13, StateList DEF RunControl
<1>14. ASSUME FinishCommand
      PROVE  TypeOK'
  <2>1. pendingControls' \in Int
    BY <1>14 DEF FinishCommand
  <2>2. thread' \in ThreadStates /\ processing' \in BOOLEAN
    BY <1>14, StateList DEF FinishCommand
  <2>3. UNCHANGED <<stopFlag, controls, clientVars, granted, active, executed,
                    accepted, jobs, nextJob, cancelVars, approvalVars, answers,
                    localVars, publicVars, uiVars>>
    BY <1>14 DEF FinishCommand
  <2>4. QED
    BY <2>1, <2>2, <2>3
<1>15. ASSUME CloseSession
      PROVE  TypeOK'
  BY <1>15, StateList DEF CloseSession, Goto
<1>16. ASSUME Activate
      PROVE  TypeOK'
  <2>1. job \in Jobs
    BY <1>16, StateList, CommandFields DEF Activate, Goto, job, LocalsOK
  <2>2. active' \in Jobs /\ thread' \in ThreadStates
    BY <1>16, <2>1, StateList DEF Activate, Goto
  <2>3. UNCHANGED <<stopFlag, controls, clientVars, granted, processing, jobs, nextJob,
                    pendingControls, executed, accepted, cancelVars, approvalVars,
                    answers, localVars, publicVars, uiVars>>
    BY <1>16 DEF Activate, Goto
  <2>4. QED
    BY <2>1, <2>2, <2>3
<1>17. ASSUME StartJob
      PROVE  TypeOK'
  <2>1. job \in Jobs
    BY <1>17, StateList, CommandFields DEF StartJob, Goto, job, LocalsOK
  <2>2. thread' \in ThreadStates /\ outcome' \in {"none", "completed", "cancelled", "error"}
    BY <1>17, <2>1, StateList DEF StartJob
  <2>3. begun' \subseteq Jobs
    BY <1>17, <2>1 DEF StartJob
  <2>4. \A e \in {"completed", "cancelled", "error"} :
          Append(terminal[job], e) \in Seq({"completed", "cancelled", "error"})
    BY <1>17, <2>1 DEF StartJob
  <2>5. terminal' \in [Jobs -> Seq({"completed", "cancelled", "error"})]
    BY <1>17, <2>1, <2>4 DEF StartJob, AppendEnding
  <2>6. completion' \in [Jobs -> {"pending", "result", "exception", "cancelled"}]
    BY <1>17, <2>1 DEF StartJob, FutureState
  <2>7. steps' \in 0..MaxSteps
    BY <1>17, <2>1 DEF StartJob
  <2>8. UNCHANGED <<stopFlag, controls, clientVars, granted, processing, jobs, nextJob,
                    pendingControls, active, executed, accepted, cancelVars,
                    approvalVars, answers, cmd, asked, decision, uiVars>>
    BY <1>17 DEF StartJob
  <2>9. QED
    BY <2>1, <2>2, <2>3, <2>4, <2>5, <2>6, <2>7, <2>8
<1>18. ASSUME CheckTask
      PROVE  TypeOK'
  BY <1>18, StateList DEF CheckTask, Interrupt, Interrupted, job
<1>19. ASSUME TaskEvent
      PROVE  TypeOK'
  BY <1>19, StateList DEF TaskEvent, Goto
<1>20. ASSUME TaskFails
      PROVE  TypeOK'
  BY <1>20, StateList DEF TaskFails, Goto
<1>21. ASSUME TaskReturns
      PROVE  TypeOK'
  BY <1>21, StateList DEF TaskReturns, Goto
<1>22. ASSUME AskApproval
      PROVE  TypeOK'
  <2>1. job \in Jobs
    BY <1>22, StateList, CommandFields DEF AskApproval, Goto, job, LocalsOK
  <2>2. thread' \in ThreadStates /\ answered' \in BOOLEAN
    BY <1>22, <2>1, StateList DEF AskApproval, Goto
  <2>3. /\ nextApproval \in Approvals
        /\ nextApproval' \in 1..(MaxApprovals + 1)
    BY <1>22, <2>1, Identifiers DEF AskApproval, Goto
  <2>4. /\ asked' \in Approvals \cup {NoApproval}
        /\ pending' \in Approvals \cup {NoApproval}
    BY <1>22, <2>1, Identifiers DEF AskApproval, Goto
  <2>5. owner' \in [Approvals -> Jobs \cup {NoJob}]
    BY <1>22, <2>1 DEF AskApproval, Goto
  <2>6. steps' \in 0..MaxSteps
    BY <1>22, <2>1 DEF AskApproval, Goto
  <2>7. UNCHANGED <<stopFlag, controls, clientVars, granted, processing, jobs, nextJob,
                    pendingControls, active, executed, accepted, cancelVars,
                    answers, cmd, decision, outcome, publicVars, uiVars>>
    BY <1>22 DEF AskApproval, Goto
  <2>8. QED
    BY <2>1, <2>2, <2>3, <2>4, <2>5, <2>6, <2>7
<1>23. ASSUME CheckApproval
      PROVE  TypeOK'
  BY <1>23, StateList DEF CheckApproval, Interrupt, Interrupted, WithdrawApproval, job
<1>24. ASSUME PollAnswer
      PROVE  TypeOK'
  <2>1. thread' \in ThreadStates
    BY <1>24, StateList DEF PollAnswer
  <2>2. answers # <<>> =>
          /\ Tail(answers) \in Seq([id : Approvals \cup {NoApproval}, approved : BOOLEAN])
          /\ Head(answers) \in [id : Approvals \cup {NoApproval}, approved : BOOLEAN]
    BY <1>24, HeadTailProperties DEF PollAnswer
  <2>3. answers' \in Seq([id : Approvals \cup {NoApproval}, approved : BOOLEAN])
    BY <1>24, <2>2 DEF PollAnswer
  <2>4. decision' \in BOOLEAN
    BY <1>24, <2>2 DEF PollAnswer
  <2>5. UNCHANGED <<stopFlag, controls, clientVars, granted, processing, jobs, nextJob,
                    pendingControls, active, executed, accepted, cancelVars,
                    approvalVars, cmd, steps, asked, outcome, publicVars, uiVars>>
    BY <1>24 DEF PollAnswer
  <2>6. QED
    BY <2>1, <2>2, <2>3, <2>4, <2>5
<1>25. ASSUME ApplyDecision
      PROVE  TypeOK'
  <2>1. thread' \in ThreadStates
    BY <1>25, StateList DEF ApplyDecision, Goto
  <2>2. asked \in Approvals
    BY <1>25, StateList DEF ApplyDecision, Goto, LocalsOK
  <2>3. executed' \subseteq Approvals
    BY <1>25, <2>2 DEF ApplyDecision, Goto
  <2>4. /\ pending' \in Approvals \cup {NoApproval}
        /\ answered' \in BOOLEAN /\ UNCHANGED <<nextApproval, owner>>
    BY <1>25 DEF ApplyDecision, Goto, WithdrawApproval
  <2>5. UNCHANGED <<stopFlag, controls, clientVars, granted, processing, jobs, nextJob,
                    pendingControls, active, accepted, cancelVars,
                    answers, localVars, publicVars, uiVars>>
    BY <1>25 DEF ApplyDecision, Goto
  <2>6. QED
    BY <2>1, <2>2, <2>3, <2>4, <2>5
<1>26. ASSUME MarkCancelled
      PROVE  TypeOK'
  <2>1. job \in Jobs
    BY <1>26, StateList, CommandFields DEF MarkCancelled, Goto, job, LocalsOK
  <2>2. thread' \in ThreadStates
    BY <1>26, <2>1, StateList DEF MarkCancelled, Goto
  <2>3. suppressed' \subseteq Jobs
    BY <1>26, <2>1 DEF MarkCancelled, Goto
  <2>4. UNCHANGED <<stopFlag, controls, clientVars, granted, processing, jobs, nextJob,
                    pendingControls, active, executed, accepted, cancelVars, approvalVars,
                    answers, localVars, publicVars, lateUi>>
    BY <1>26 DEF MarkCancelled, Goto
  <2>5. QED
    BY <2>1, <2>2, <2>3, <2>4
<1>27. ASSUME PublishEnding
      PROVE  TypeOK'
  <2>1. job \in Jobs
    BY <1>27, StateList, CommandFields DEF PublishEnding, Goto, job, LocalsOK
  <2>2. thread' \in ThreadStates
    BY <1>27, <2>1, StateList DEF PublishEnding, Goto
  <2>3. outcome \in {"completed", "cancelled", "error"}
    BY <1>27, <2>1, StateList DEF PublishEnding, Goto, LocalsOK
  <2>4. terminal' \in [Jobs -> Seq({"completed", "cancelled", "error"})]
    BY <1>27, <2>1, <2>3 DEF PublishEnding, Goto, AppendEnding
  <2>5. completion' \in [Jobs -> {"pending", "result", "exception", "cancelled"}]
    BY <1>27, <2>1, <2>3 DEF PublishEnding, Goto, FutureState
  <2>6. UNCHANGED <<stopFlag, controls, clientVars, granted, processing, jobs, nextJob,
                    pendingControls, active, executed, accepted, cancelVars, approvalVars,
                    answers, localVars, begun, uiVars>>
    BY <1>27 DEF PublishEnding, Goto
  <2>7. QED
    BY <2>1, <2>2, <2>3, <2>4, <2>5, <2>6
<1>28. ASSUME RetireJob
      PROVE  TypeOK'
  <2>1. job \in Jobs
    BY <1>28, StateList, CommandFields DEF RetireJob, Goto, job, LocalsOK
  <2>2. thread' \in ThreadStates
    BY <1>28, <2>1, StateList DEF RetireJob
  <2>3. suppressed' \subseteq Jobs
    BY <1>28, <2>1 DEF RetireJob
  <2>4. /\ accepted' \subseteq Jobs /\ cancelled' \subseteq Jobs
        /\ active' \in Jobs \cup {NoJob}
    BY <1>28, <2>1 DEF RetireJob
  <2>5. UNCHANGED <<stopFlag, controls, clientVars, granted, processing, jobs, nextJob,
                    pendingControls, executed, cancelSeen, approvalVars,
                    answers, localVars, publicVars, lateUi>>
    BY <1>28 DEF RetireJob
  <2>6. QED
    BY <2>1, <2>2, <2>3, <2>4, <2>5
<1>29. ASSUME FinishActivity
      PROVE  TypeOK'
  BY <1>29, StateList DEF FinishActivity
<1>30. CASE UNCHANGED vars
  BY <1>30 DEF vars
<1>31. QED
  BY <1>1, <1>2, <1>3, <1>4, <1>5, <1>6, <1>7, <1>8, <1>9, <1>10, <1>11,
     <1>12, <1>13, <1>14, <1>15, <1>16, <1>17, <1>18, <1>19, <1>20, <1>21,
     <1>22, <1>23, <1>24, <1>25, <1>26, <1>27, <1>28, <1>29, <1>30
     DEF Next, ClientStep, ThreadStep

LEMMA LocalsStep == TypeOK /\ LocalsOK /\ [Next]_vars => LocalsOK'
<1> SUFFICES ASSUME TypeOK, LocalsOK, [Next]_vars
             PROVE  LocalsOK'
  OBVIOUS
<1> USE StateList
    DEF LocalsOK, localVars, approvalVars, clientUnchanged, threadUnchanged
<1>1. ASSUME NEW c \in Clients, NEW op \in {"submit", "reset"}, EnterCall(c, op)
      PROVE  LocalsOK'
  BY <1>1 DEF EnterCall
<1>2. ASSUME NEW c \in Clients, Submit(c)
      PROVE  LocalsOK'
  BY <1>2 DEF Submit, AcceptJob
<1>3. ASSUME NEW c \in Clients, Reset(c)
      PROVE  LocalsOK'
  BY <1>3 DEF Reset, EnqueueControl
<1>4. ASSUME NEW c \in Clients, QueueAnswer(c)
      PROVE  LocalsOK'
  BY <1>4 DEF QueueAnswer
<1>5. ASSUME NEW c \in Clients, NEW approved \in BOOLEAN, Respond(c, approved)
      PROVE  LocalsOK'
  BY <1>5 DEF Respond
<1>6. ASSUME NEW j \in Jobs, Cancel(j)
      PROVE  LocalsOK'
  BY <1>6 DEF Cancel
<1>7. ASSUME NEW j \in Jobs, SessionUi(j)
      PROVE  LocalsOK'
  BY <1>7 DEF SessionUi
<1>8. ASSUME Reconfigure
      PROVE  LocalsOK'
  BY <1>8 DEF Reconfigure, EnqueueControl
<1>9. ASSUME StopWorker
      PROVE  LocalsOK'
  BY <1>9 DEF StopWorker
<1>10. ASSUME Boot
      PROVE  LocalsOK'
  BY <1>10 DEF Boot, Goto
<1>11. ASSUME TakeCommand
      PROVE  LocalsOK'
  BY <1>11 DEF TakeCommand
<1>12. ASSUME MarkProcessing
      PROVE  LocalsOK'
  BY <1>12 DEF MarkProcessing
<1>13. ASSUME RunControl
      PROVE  LocalsOK'
  BY <1>13 DEF RunControl
<1>14. ASSUME FinishCommand
      PROVE  LocalsOK'
  BY <1>14 DEF FinishCommand
<1>15. ASSUME CloseSession
      PROVE  LocalsOK'
  BY <1>15 DEF CloseSession, Goto
<1>16. ASSUME Activate
      PROVE  LocalsOK'
  BY <1>16 DEF Activate, Goto, job
<1>17. ASSUME StartJob
      PROVE  LocalsOK'
  BY <1>17 DEF StartJob, AppendEnding, FutureState, job
<1>18. ASSUME CheckTask
      PROVE  LocalsOK'
  BY <1>18 DEF CheckTask, Interrupt, Interrupted, job
<1>19. ASSUME TaskEvent
      PROVE  LocalsOK'
  BY <1>19 DEF TaskEvent, Goto
<1>20. ASSUME TaskFails
      PROVE  LocalsOK'
  BY <1>20 DEF TaskFails, Goto
<1>21. ASSUME TaskReturns
      PROVE  LocalsOK'
  BY <1>21 DEF TaskReturns, Goto
<1>22. ASSUME AskApproval
      PROVE  LocalsOK'
  <2>1. nextApproval # NoApproval
    BY <1>22, Identifiers DEF AskApproval, TypeOK
  <2>2. QED
    BY <1>22, <2>1 DEF AskApproval, Goto, job
<1>23. ASSUME CheckApproval
      PROVE  LocalsOK'
  BY <1>23 DEF CheckApproval, Interrupt, Interrupted, WithdrawApproval, job
<1>24. ASSUME PollAnswer
      PROVE  LocalsOK'
  BY <1>24 DEF PollAnswer
<1>25. ASSUME ApplyDecision
      PROVE  LocalsOK'
  BY <1>25 DEF ApplyDecision, Goto, WithdrawApproval
<1>26. ASSUME MarkCancelled
      PROVE  LocalsOK'
  BY <1>26 DEF MarkCancelled, Goto, job
<1>27. ASSUME PublishEnding
      PROVE  LocalsOK'
  BY <1>27 DEF PublishEnding, Goto, AppendEnding, FutureState, job
<1>28. ASSUME RetireJob
      PROVE  LocalsOK'
  BY <1>28 DEF RetireJob, job
<1>29. ASSUME FinishActivity
      PROVE  LocalsOK'
  BY <1>29 DEF FinishActivity
<1>30. CASE UNCHANGED vars
  BY <1>30 DEF vars
<1>31. QED
  BY <1>1, <1>2, <1>3, <1>4, <1>5, <1>6, <1>7, <1>8, <1>9, <1>10, <1>11,
     <1>12, <1>13, <1>14, <1>15, <1>16, <1>17, <1>18, <1>19, <1>20, <1>21,
     <1>22, <1>23, <1>24, <1>25, <1>26, <1>27, <1>28, <1>29, <1>30
     DEF Next, ClientStep, ThreadStep

(* Every variable keeps its type (all actions of AgentWorker).              *)
THEOREM TypeCorrect == Spec => []TypeOK
<1>1. TypeOK /\ LocalsOK /\ [Next]_vars => (TypeOK /\ LocalsOK)'
  BY TypeStep, LocalsStep
<1>2. QED
  BY TypeInit, <1>1, PTL DEF Spec

-----------------------------------------------------------------------------
(* Facts on the queues.                                                     *)

LEMMA AppendFacts ==
    ASSUME NEW S, NEW s \in Seq(S), NEW e \in S
    PROVE  /\ DOMAIN Append(s, e) = 1..(Len(s) + 1)
           /\ DOMAIN s = 1..Len(s) /\ Len(s) \in Nat
           /\ Append(s, e)[Len(s) + 1] = e
           /\ \A i \in DOMAIN s : i \in DOMAIN Append(s, e) /\ Append(s, e)[i] = s[i]
           /\ \A i \in DOMAIN Append(s, e) : i \in DOMAIN s \/ i = Len(s) + 1
OBVIOUS

LEMMA AppendElements ==
    ASSUME NEW S, NEW s \in Seq(S), NEW e \in S, NEW t, t = Append(s, e)
    PROVE  /\ \A i \in DOMAIN t : \/ i \in DOMAIN s /\ t[i] = s[i]
                                  \/ i = Len(s) + 1 /\ t[i] = e
           /\ DOMAIN s = 1..Len(s) /\ Len(s) \in Nat
           /\ \A i \in DOMAIN s : i \in DOMAIN t /\ t[i] = s[i]
           /\ Len(s) + 1 \in DOMAIN t /\ t[Len(s) + 1] = e
<1>1. /\ DOMAIN t = 1..(Len(s) + 1)
      /\ DOMAIN s = 1..Len(s) /\ Len(s) \in Nat
      /\ t[Len(s) + 1] = e
      /\ \A i \in DOMAIN s : i \in DOMAIN t /\ t[i] = s[i]
      /\ \A i \in DOMAIN t : i \in DOMAIN s \/ i = Len(s) + 1
  BY AppendFacts
<1>2. Len(s) + 1 \in 1..(Len(s) + 1)
  BY <1>1
<1>3. QED
  BY <1>1, <1>2

LEMMA TailFacts ==
    ASSUME NEW S, NEW s \in Seq(S), s # <<>>
    PROVE  /\ DOMAIN s = 1..Len(s) /\ Len(s) \in Nat \ {0}
           /\ DOMAIN Tail(s) = 1..(Len(s) - 1)
           /\ \A i \in DOMAIN Tail(s) : i + 1 \in DOMAIN s /\ Tail(s)[i] = s[i + 1]
           /\ \A i \in DOMAIN s : i # 1 => i - 1 \in DOMAIN Tail(s) /\ Tail(s)[i - 1] = s[i]
           /\ Head(s) = s[1] /\ 1 \in DOMAIN s
OBVIOUS

-----------------------------------------------------------------------------
(* STOP is the last command (stop, submit, reset, reconfigure, _run).       *)

LEMMA StopInit == Init => StopCommand
BY DEF Init, StopCommand, StopIsLast

LEMMA StopStep == TypeOK /\ LocalsOK /\ StopCommand /\ [Next]_vars => StopCommand'
<1> SUFFICES ASSUME TypeOK, LocalsOK, StopCommand, [Next]_vars
             PROVE  StopCommand'
  OBVIOUS
<1>0. /\ jobs \in Seq(Commands) /\ cmd \in Commands
      /\ \A j \in Jobs : Command("job", j) # Stop
      /\ \A k \in Controls : k # Stop
      /\ cmd.kind = "job" => cmd # Stop
  BY CommandFields DEF TypeOK, Stop, Controls, Command
<1> USE StateList
    DEF StopCommand, StopIsLast, LocalsOK, queueVars, localVars, approvalVars,
        clientUnchanged, threadUnchanged
<1>1. ASSUME NEW c \in Clients, NEW op \in {"submit", "reset"}, EnterCall(c, op)
      PROVE  StopCommand'
  BY <1>1, <1>0 DEF EnterCall
<1>2. ASSUME NEW c \in Clients, Submit(c)
      PROVE  StopCommand'
  <2>1. CASE stopFlag
    BY <1>0, <1>2, <2>1 DEF Submit
  <2>2. CASE ~stopFlag
    <3>1. Command("job", nextJob) \in Commands /\ Command("job", nextJob) # Stop
      BY CommandFields, Identifiers, <1>2, <2>2 DEF Submit, AcceptJob, Stop, Command, TypeOK
    <3>2. /\ jobs' = Append(jobs, Command("job", nextJob))
          /\ UNCHANGED <<stopFlag, cmd, thread>>
      BY <1>2, <2>2 DEF Submit, AcceptJob
    <3>3. \A i \in DOMAIN jobs' : jobs'[i] # Stop
      BY <1>0, <2>2, <3>1, <3>2, AppendFacts
    <3>4. QED
      BY <1>0, <2>2, <3>2, <3>3
  <2>3. QED
    BY <2>1, <2>2
<1>3. ASSUME NEW c \in Clients, Reset(c)
      PROVE  StopCommand'
  <2>1. CASE stopFlag
    BY <1>0, <1>3, <2>1 DEF Reset
  <2>2. CASE ~stopFlag
    <3>1. Command("reset", NoJob) \in Commands /\ Command("reset", NoJob) # Stop
      BY CommandFields, Identifiers, <1>3, <2>2 DEF Reset, EnqueueControl, Controls, Stop, Command, TypeOK
    <3>2. /\ jobs' = Append(jobs, Command("reset", NoJob))
          /\ UNCHANGED <<stopFlag, cmd, thread>>
      BY <1>3, <2>2 DEF Reset, EnqueueControl
    <3>3. \A i \in DOMAIN jobs' : jobs'[i] # Stop
      BY <1>0, <2>2, <3>1, <3>2, AppendFacts
    <3>4. QED
      BY <1>0, <2>2, <3>2, <3>3
  <2>3. QED
    BY <2>1, <2>2
<1>4. ASSUME NEW c \in Clients, QueueAnswer(c)
      PROVE  StopCommand'
  BY <1>4, <1>0 DEF QueueAnswer
<1>5. ASSUME NEW c \in Clients, NEW approved \in BOOLEAN, Respond(c, approved)
      PROVE  StopCommand'
  BY <1>5, <1>0 DEF Respond
<1>6. ASSUME NEW j \in Jobs, Cancel(j)
      PROVE  StopCommand'
  BY <1>6, <1>0 DEF Cancel
<1>7. ASSUME NEW j \in Jobs, SessionUi(j)
      PROVE  StopCommand'
  BY <1>7, <1>0 DEF SessionUi
<1>8. ASSUME Reconfigure
      PROVE  StopCommand'
  <2>1. Command("reconfigure", NoJob) \in Commands /\ Command("reconfigure", NoJob) # Stop
    BY CommandFields DEF Controls, Stop, Command
  <2>2. /\ jobs' = Append(jobs, Command("reconfigure", NoJob)) /\ ~stopFlag
        /\ UNCHANGED <<stopFlag, cmd, thread>>
    BY <1>8 DEF Reconfigure, EnqueueControl
  <2>3. \A i \in DOMAIN jobs' : jobs'[i] # Stop
    BY <1>0, <2>1, <2>2, AppendFacts
  <2>4. QED
    BY <1>0, <2>2, <2>3
<1>9. ASSUME StopWorker
      PROVE  StopCommand'
  <2>1. /\ jobs' = Append(jobs, Stop) /\ ~stopFlag /\ stopFlag'
        /\ UNCHANGED <<cmd, thread>>
    BY <1>9 DEF StopWorker
  <2>2. \A i \in DOMAIN jobs' : jobs'[i] = Stop => i = Len(jobs')
    BY <1>0, <2>1, CommandFields, AppendFacts
  <2>3. QED
    BY <1>0, <2>1, <2>2
<1>10. ASSUME Boot
      PROVE  StopCommand'
  BY <1>10, <1>0 DEF Boot, Goto
<1>11. ASSUME TakeCommand
      PROVE  StopCommand'
  <2>1. /\ jobs' = Tail(jobs) /\ cmd' = Head(jobs) /\ jobs # <<>>
        /\ UNCHANGED stopFlag
        /\ thread' = IF Head(jobs) = Stop THEN "closing" ELSE "taken"
    BY <1>11 DEF TakeCommand
  <2>2. \A i \in DOMAIN jobs' : jobs'[i] = Stop => i = Len(jobs') /\ stopFlag
    BY <1>0, <2>1, TailFacts
  <2>3. Head(jobs) = Stop => jobs' = <<>> /\ stopFlag
    BY <1>0, <2>1, TailFacts
  <2>4. QED
    BY <2>1, <2>2, <2>3
<1>12. ASSUME MarkProcessing
      PROVE  StopCommand'
  BY <1>12, <1>0 DEF MarkProcessing
<1>13. ASSUME RunControl
      PROVE  StopCommand'
  BY <1>13, <1>0 DEF RunControl
<1>14. ASSUME FinishCommand
      PROVE  StopCommand'
  BY <1>14, <1>0 DEF FinishCommand
<1>15. ASSUME CloseSession
      PROVE  StopCommand'
  BY <1>15, <1>0 DEF CloseSession, Goto
<1>16. ASSUME Activate
      PROVE  StopCommand'
  BY <1>16, <1>0 DEF Activate, Goto, job
<1>17. ASSUME StartJob
      PROVE  StopCommand'
  BY <1>17, <1>0 DEF StartJob, AppendEnding, FutureState, job
<1>18. ASSUME CheckTask
      PROVE  StopCommand'
  BY <1>18, <1>0 DEF CheckTask, Interrupt, Interrupted, job
<1>19. ASSUME TaskEvent
      PROVE  StopCommand'
  BY <1>19, <1>0 DEF TaskEvent, Goto
<1>20. ASSUME TaskFails
      PROVE  StopCommand'
  BY <1>20, <1>0 DEF TaskFails, Goto
<1>21. ASSUME TaskReturns
      PROVE  StopCommand'
  BY <1>21, <1>0 DEF TaskReturns, Goto
<1>22. ASSUME AskApproval
      PROVE  StopCommand'
  BY <1>22, <1>0 DEF AskApproval, Goto, job
<1>23. ASSUME CheckApproval
      PROVE  StopCommand'
  BY <1>23, <1>0 DEF CheckApproval, Interrupt, Interrupted, WithdrawApproval, job
<1>24. ASSUME PollAnswer
      PROVE  StopCommand'
  BY <1>24, <1>0 DEF PollAnswer
<1>25. ASSUME ApplyDecision
      PROVE  StopCommand'
  BY <1>25, <1>0 DEF ApplyDecision, Goto, WithdrawApproval
<1>26. ASSUME MarkCancelled
      PROVE  StopCommand'
  BY <1>26, <1>0 DEF MarkCancelled, Goto, job
<1>27. ASSUME PublishEnding
      PROVE  StopCommand'
  BY <1>27, <1>0 DEF PublishEnding, Goto, AppendEnding, FutureState, job
<1>28. ASSUME RetireJob
      PROVE  StopCommand'
  BY <1>28, <1>0 DEF RetireJob, job
<1>29. ASSUME FinishActivity
      PROVE  StopCommand'
  BY <1>29, <1>0 DEF FinishActivity
<1>30. CASE UNCHANGED vars
  BY <1>30 DEF vars
<1>31. QED
  BY <1>1, <1>2, <1>3, <1>4, <1>5, <1>6, <1>7, <1>8, <1>9, <1>10, <1>11,
     <1>12, <1>13, <1>14, <1>15, <1>16, <1>17, <1>18, <1>19, <1>20, <1>21,
     <1>22, <1>23, <1>24, <1>25, <1>26, <1>27, <1>28, <1>29, <1>30
     DEF Next, ClientStep, ThreadStep

-----------------------------------------------------------------------------
(* The jobs (submit, cancel_current, _run_job and what it calls).           *)

LEMMA JobsInit == Init => JobsInv
BY StateList, Identifiers, CommandFields
   DEF Init, JobsInv, QueuedJobs, AcceptedJobs, JobInHand, ActiveJob, InHand, Jobs, NoJob

LEMMA JobsStep ==
    TypeOK /\ LocalsOK /\ StopCommand /\ JobsInv /\ [Next]_vars => JobsInv'
<1> SUFFICES ASSUME TypeOK, LocalsOK, StopCommand, JobsInv, [Next]_vars
             PROVE  JobsInv'
  OBVIOUS
<1>0. /\ jobs \in Seq(Commands) /\ cmd \in Commands
      /\ cmd.kind = "job" => cmd.job \in Jobs
      /\ \A c \in Commands : c.kind = "job" => c = Command("job", c.job) /\ c.job \in Jobs
  BY CommandFields DEF TypeOK
<1>00. /\ Jobs \subseteq Int /\ nextJob \in Int /\ NoJob \notin Jobs
       /\ accepted \subseteq Jobs /\ cancelSeen \subseteq Jobs
  BY Identifiers DEF TypeOK, Jobs
<1> USE StateList
    DEF JobsInv, QueuedJobs, AcceptedJobs, JobInHand, ActiveJob, InHand, LocalsOK,
        IsJob, Queued, queueVars, cancelVars, localVars, publicVars, uiVars, approvalVars,
        clientUnchanged, threadUnchanged
<1>1. ASSUME NEW c \in Clients, NEW op \in {"submit", "reset"}, EnterCall(c, op)
      PROVE  JobsInv'
  BY <1>1, <1>0, <1>00 DEF EnterCall
<1>2. ASSUME NEW c \in Clients, Submit(c)
      PROVE  JobsInv'
  <2>1. CASE stopFlag
    BY <1>2, <2>1, <1>0, <1>00 DEF Submit
  <2>2. CASE ~stopFlag
    <3>1. /\ nextJob \in Jobs
          /\ Command("job", nextJob) \in Commands
          /\ Command("job", nextJob).job = nextJob
      BY <1>2, <2>2, Identifiers, CommandFields DEF Submit, AcceptJob, TypeOK, Command
    <3>2. /\ jobs' = Append(jobs, Command("job", nextJob))
          /\ accepted' = accepted \cup {nextJob} /\ nextJob' = nextJob + 1
          /\ UNCHANGED <<cancelled, cancelSeen, active, thread, cmd, outcome, begun,
                       terminal, suppressed>>
      BY <1>2, <2>2 DEF Submit, AcceptJob
    <3>3. /\ \A i \in DOMAIN jobs' : \/ i \in DOMAIN jobs /\ jobs'[i] = jobs[i]
                                     \/ i = Len(jobs) + 1 /\ jobs'[i] = Command("job", nextJob)
          /\ DOMAIN jobs = 1..Len(jobs) /\ Len(jobs) \in Nat
          /\ \A i \in DOMAIN jobs : i \in DOMAIN jobs' /\ jobs'[i] = jobs[i]
          /\ Len(jobs) + 1 \in DOMAIN jobs' /\ jobs'[Len(jobs) + 1] = Command("job", nextJob)
      <4> DEFINE new == Command("job", nextJob)
      <4>1. new \in Commands /\ jobs' = Append(jobs, new)
        BY <3>1, <3>2
      <4> HIDE DEF new
      <4>2. /\ \A i \in DOMAIN jobs' : \/ i \in DOMAIN jobs /\ jobs'[i] = jobs[i]
                                       \/ i = Len(jobs) + 1 /\ jobs'[i] = new
            /\ DOMAIN jobs = 1..Len(jobs) /\ Len(jobs) \in Nat
            /\ \A i \in DOMAIN jobs : i \in DOMAIN jobs' /\ jobs'[i] = jobs[i]
            /\ Len(jobs) + 1 \in DOMAIN jobs' /\ jobs'[Len(jobs) + 1] = new
        <5> HIDE DEF JobsInv, QueuedJobs, AcceptedJobs, JobInHand, ActiveJob, InHand,
                     LocalsOK, IsJob
        <5>1. jobs \in Seq(Commands) /\ new \in Commands /\ jobs' = Append(jobs, new)
          BY <1>0, <4>1
        <5>2. QED
          BY <5>1, AppendElements
      <4>3. QED
        BY <4>2 DEF new
    <3> HIDE DEF Queued
    <3>4. \A j : Queued(j) => Queued(j)'
      BY <3>3 DEF Queued
    <3>5. \A j : j = nextJob => Queued(j)'
      BY <3>3, <1>00 DEF Queued
    <3>6. \A i \in DOMAIN jobs : IsJob(i) => jobs[i].job < nextJob
      BY <1>0, ElementOfSeq, <3>3
    <3>7. InHand => cmd.job < nextJob
      BY <1>0
    <3>8. QueuedJobs'
      BY <1>00, <3>1, <3>2, <3>3, <3>6, <3>7
    <3>9. AcceptedJobs'
      BY <1>00, <3>1, <3>2, <3>4, <3>5
    <3>10. JobInHand' /\ ActiveJob'
      BY <1>00, <3>1, <3>2
    <3>11. QED
      BY <3>8, <3>9, <3>10
  <2>3. QED
    BY <2>1, <2>2
<1>3. ASSUME NEW c \in Clients, Reset(c)
      PROVE  JobsInv'
  <2>1. CASE stopFlag
    BY <1>3, <2>1, <1>0, <1>00 DEF Reset
  <2>2. CASE ~stopFlag
    <3>1. Command("reset", NoJob) \in Commands /\ Command("reset", NoJob).kind # "job"
      BY CommandFields DEF Controls, Command, Stop
    <3>2. /\ jobs' = Append(jobs, Command("reset", NoJob))
          /\ UNCHANGED <<accepted, nextJob, cancelled, cancelSeen, active, thread, cmd,
                       outcome, begun, terminal, suppressed>>
      BY <1>3, <2>2 DEF Reset, EnqueueControl
    <3>3. \A i \in DOMAIN jobs' : IsJob(i)' => i \in DOMAIN jobs /\ jobs'[i] = jobs[i]
      BY <1>0, <3>1, <3>2, AppendFacts
    <3>4. \A j : Queued(j) => Queued(j)'
      BY <1>0, <3>1, <3>2, AppendFacts
    <3>5. QueuedJobs'
      BY <1>00, <3>2, <3>3
    <3>6. AcceptedJobs'
      BY <3>2, <3>4
    <3>7. JobInHand' /\ ActiveJob'
      BY <3>2
    <3>8. QED
      BY <3>5, <3>6, <3>7
  <2>3. QED
    BY <2>1, <2>2
<1>4. ASSUME NEW c \in Clients, QueueAnswer(c)
      PROVE  JobsInv'
  BY <1>4, <1>0, <1>00 DEF QueueAnswer
<1>5. ASSUME NEW c \in Clients, NEW approved \in BOOLEAN, Respond(c, approved)
      PROVE  JobsInv'
  BY <1>5, <1>0, <1>00 DEF Respond
<1>6. ASSUME NEW j \in Jobs, Cancel(j)
      PROVE  JobsInv'
  BY <1>6, <1>0, <1>00 DEF Cancel
<1>7. ASSUME NEW j \in Jobs, SessionUi(j)
      PROVE  JobsInv'
  BY <1>7, <1>0, <1>00 DEF SessionUi
<1>8. ASSUME Reconfigure
      PROVE  JobsInv'
  <2>1. Command("reconfigure", NoJob) \in Commands /\ Command("reconfigure", NoJob).kind # "job"
    BY CommandFields DEF Controls, Command, Stop
  <2>2. /\ jobs' = Append(jobs, Command("reconfigure", NoJob))
        /\ UNCHANGED <<accepted, nextJob, cancelled, cancelSeen, active, thread, cmd,
                     outcome, begun, terminal, suppressed>>
    BY <1>8 DEF Reconfigure, EnqueueControl
  <2>3. \A i \in DOMAIN jobs' : IsJob(i)' => i \in DOMAIN jobs /\ jobs'[i] = jobs[i]
    BY <1>0, <2>1, <2>2, AppendFacts
  <2>4. \A j : Queued(j) => Queued(j)'
    BY <1>0, <2>1, <2>2, AppendFacts
  <2>5. QueuedJobs'
    BY <1>00, <2>2, <2>3
  <2>6. AcceptedJobs'
    BY <2>2, <2>4
  <2>7. JobInHand' /\ ActiveJob'
    BY <2>2
  <2>8. QED
    BY <2>5, <2>6, <2>7
<1>9. ASSUME StopWorker
      PROVE  JobsInv'
  <2>1. Stop \in Commands /\ Stop.kind # "job"
    BY CommandFields DEF Controls, Command, Stop
  <2>2. /\ jobs' = Append(jobs, Stop)
        /\ UNCHANGED <<accepted, nextJob, cancelled, cancelSeen, active, thread, cmd,
                     outcome, begun, terminal, suppressed>>
    BY <1>9 DEF StopWorker
  <2>3. \A i \in DOMAIN jobs' : IsJob(i)' => i \in DOMAIN jobs /\ jobs'[i] = jobs[i]
    BY <1>0, <2>1, <2>2, AppendFacts
  <2>4. \A j : Queued(j) => Queued(j)'
    BY <1>0, <2>1, <2>2, AppendFacts
  <2>5. QueuedJobs'
    BY <1>00, <2>2, <2>3
  <2>6. AcceptedJobs'
    BY <2>2, <2>4
  <2>7. JobInHand' /\ ActiveJob'
    BY <2>2
  <2>8. QED
    BY <2>5, <2>6, <2>7
<1>10. ASSUME Boot
      PROVE  JobsInv'
  BY <1>10, <1>0, <1>00 DEF Boot, Goto
<1>11. ASSUME TakeCommand
      PROVE  JobsInv'
  <2>1. /\ jobs # <<>> /\ jobs' = Tail(jobs) /\ cmd' = Head(jobs) /\ thread = "get"
        /\ thread' = IF Head(jobs) = Stop THEN "closing" ELSE "taken"
        /\ UNCHANGED <<accepted, nextJob, cancelled, cancelSeen, active, outcome,
                     begun, terminal, suppressed>>
    BY <1>11 DEF TakeCommand
  <2>2. /\ DOMAIN jobs = 1..Len(jobs) /\ Len(jobs) \in Nat
        /\ \A i \in DOMAIN jobs' : /\ i + 1 \in DOMAIN jobs /\ jobs'[i] = jobs[i + 1]
                                  /\ 1 < i + 1 /\ i \in Int
        /\ cmd' = jobs[1] /\ 1 \in DOMAIN jobs /\ cmd' \in Commands
    BY <1>0, <2>1, TailFacts
  <2>3. \A j : Queued(j) => Queued(j)' \/ cmd' = Command("job", j)
    BY <1>0, <2>1, TailFacts
  <2>4. InHand' <=> cmd'.kind = "job"
    BY <2>1, <2>2, CommandFields
  <2>5. QueuedJobs'
    BY <2>1, <2>2, <2>4
  <2>6. AcceptedJobs'
    <3>1. ~InHand
      BY <2>1
    <3>2. \A j : cmd' = Command("job", j) => cmd'.kind = "job" /\ cmd'.job = j
      BY DEF Command
    <3>3. QED
      BY <2>1, <2>3, <2>4, <3>1, <3>2
  <2>7. JobInHand'
    BY <2>1, <2>2, <2>4
  <2>8. ActiveJob'
    BY <2>1
  <2>9. QED
    BY <2>5, <2>6, <2>7, <2>8
<1>12. ASSUME MarkProcessing
      PROVE  JobsInv'
  BY <1>12, <1>0, <1>00 DEF MarkProcessing
<1>13. ASSUME RunControl
      PROVE  JobsInv'
  BY <1>13, <1>0, <1>00 DEF RunControl
<1>14. ASSUME FinishCommand
      PROVE  JobsInv'
  BY <1>14, <1>0, <1>00 DEF FinishCommand
<1>15. ASSUME CloseSession
      PROVE  JobsInv'
  BY <1>15, <1>0, <1>00 DEF CloseSession, Goto
<1>16. ASSUME Activate
      PROVE  JobsInv'
  BY <1>16, <1>0, <1>00 DEF Activate, Goto, job
<1>17. ASSUME StartJob
      PROVE  JobsInv'
  <2>1. /\ thread = "precheck" /\ job \in Jobs
        /\ UNCHANGED <<jobs, cmd, accepted, nextJob, cancelled, cancelSeen, active, suppressed>>
        /\ job \notin begun /\ job \in accepted /\ terminal[job] = <<>> /\ active = job
    BY <1>17, <1>0 DEF StartJob, job
  <2>2. CASE stopFlag
    <3>1. /\ thread' = "retiring" /\ begun' = begun
          /\ terminal' = [terminal EXCEPT ![job] = Append(@, "cancelled")]
      BY <1>17, <2>2 DEF StartJob, AppendEnding
    <3>2. Len(terminal'[job]) = 1 /\ \A j \in Jobs : j # job => terminal'[j] = terminal[j]
      BY <2>1, <3>1 DEF TypeOK
    <3>3. QueuedJobs'
      <4>1. \A i \in DOMAIN jobs : IsJob(i) => /\ jobs[i].job \in Jobs
                                               /\ cmd.job < jobs[i].job
                                               /\ jobs[i].job # job
        <5>1. InHand /\ cmd.job \in Int
          BY <1>00, <2>1 DEF job
        <5>2. \A i \in DOMAIN jobs : IsJob(i) => jobs[i].job \in Jobs /\ cmd.job < jobs[i].job
          BY <1>00, <5>1
        <5>3. QED
          BY <1>00, <5>1, <5>2 DEF job
      <4>2. \A i \in DOMAIN jobs : IsJob(i) => terminal'[jobs[i].job] = terminal[jobs[i].job]
        BY <3>2, <4>1
      <4>3. QED
        BY <1>0, <1>00, <2>1, <3>1, <4>1, <4>2 DEF job
    <3>4. AcceptedJobs'
      BY <1>0, <1>00, <2>1, <3>1, <3>2 DEF job
    <3>5. JobInHand'
      BY <1>0, <1>00, <2>1, <3>1, <3>2 DEF job
    <3>6. ActiveJob'
      BY <1>0, <1>00, <2>1, <3>1, <3>2 DEF job
    <3>7. QED
      BY <3>3, <3>4, <3>5, <3>6
  <2>3. CASE ~stopFlag
    <3>1. thread' = "working" /\ begun' = begun \cup {job} /\ terminal' = terminal
      BY <1>17, <2>3 DEF StartJob
    <3>3. QueuedJobs'
      <4>1. \A i \in DOMAIN jobs : IsJob(i) => /\ jobs[i].job \in Jobs
                                               /\ cmd.job < jobs[i].job
                                               /\ jobs[i].job # job
        <5>1. InHand /\ cmd.job \in Int
          BY <1>00, <2>1 DEF job
        <5>2. \A i \in DOMAIN jobs : IsJob(i) => jobs[i].job \in Jobs /\ cmd.job < jobs[i].job
          BY <1>00, <5>1
        <5>3. QED
          BY <1>00, <5>1, <5>2 DEF job
      <4>2. QED
        BY <1>0, <1>00, <2>1, <3>1, <4>1 DEF job
    <3>4. AcceptedJobs'
      BY <1>0, <1>00, <2>1, <3>1 DEF job
    <3>5. JobInHand'
      BY <1>0, <1>00, <2>1, <3>1 DEF job
    <3>6. ActiveJob'
      BY <1>0, <1>00, <2>1, <3>1 DEF job
    <3>7. QED
      BY <3>3, <3>4, <3>5, <3>6
  <2>4. QED
    BY <2>2, <2>3
<1>18. ASSUME CheckTask
      PROVE  JobsInv'
  BY <1>18, <1>0, <1>00 DEF CheckTask, Interrupt, Interrupted, job
<1>19. ASSUME TaskEvent
      PROVE  JobsInv'
  BY <1>19, <1>0, <1>00 DEF TaskEvent, Goto
<1>20. ASSUME TaskFails
      PROVE  JobsInv'
  BY <1>20, <1>0, <1>00 DEF TaskFails, Goto
<1>21. ASSUME TaskReturns
      PROVE  JobsInv'
  BY <1>21, <1>0, <1>00 DEF TaskReturns, Goto
<1>22. ASSUME AskApproval
      PROVE  JobsInv'
  BY <1>22, <1>0, <1>00 DEF AskApproval, Goto, job
<1>23. ASSUME CheckApproval
      PROVE  JobsInv'
  BY <1>23, <1>0, <1>00 DEF CheckApproval, Interrupt, Interrupted, WithdrawApproval, job
<1>24. ASSUME PollAnswer
      PROVE  JobsInv'
  BY <1>24, <1>0, <1>00 DEF PollAnswer
<1>25. ASSUME ApplyDecision
      PROVE  JobsInv'
  BY <1>25, <1>0, <1>00 DEF ApplyDecision, Goto, WithdrawApproval
<1>26. ASSUME MarkCancelled
      PROVE  JobsInv'
  BY <1>26, <1>0, <1>00 DEF MarkCancelled, Goto, job
<1>27. ASSUME PublishEnding
      PROVE  JobsInv'
  <2>1. /\ thread = "publishing" /\ job \in Jobs /\ terminal[job] = <<>>
        /\ thread' = "retiring"
        /\ UNCHANGED <<jobs, cmd, accepted, nextJob, cancelled, cancelSeen, active,
                     suppressed, begun>>
        /\ job \in begun /\ job \in accepted /\ active = job
        /\ terminal' = [terminal EXCEPT ![job] = Append(@, outcome)]
    BY <1>27, <1>0 DEF PublishEnding, Goto, AppendEnding, job
  <2>2. Len(terminal'[job]) = 1 /\ \A j \in Jobs : j # job => terminal'[j] = terminal[j]
    BY <2>1 DEF TypeOK
  <2>3. QED
    BY <1>0, <1>00, <2>1, <2>2 DEF job
<1>28. ASSUME RetireJob
      PROVE  JobsInv'
  <2>1. /\ thread = "retiring" /\ job \in Jobs /\ job \in accepted
        /\ thread' = IF job \in begun THEN "activity" ELSE "finally"
        /\ UNCHANGED <<jobs, cmd, nextJob, cancelSeen, begun, terminal>>
        /\ accepted' = accepted \ {job} /\ cancelled' = cancelled \ {job}
        /\ suppressed' = IF job \in begun /\ job \in cancelled
                          THEN suppressed \cup {job} ELSE suppressed
        /\ active' = NoJob /\ Len(terminal[job]) = 1
    BY <1>28, <1>0 DEF RetireJob, job
  <2>2. ~InHand'
    BY <2>1
  <2>3. QueuedJobs'
    BY <1>0, <1>00, <2>1, <2>2 DEF job
  <2>4. AcceptedJobs'
    BY <1>0, <1>00, <2>1, <2>2 DEF job
  <2>5. JobInHand'
    BY <1>0, <1>00, <2>1, <2>2 DEF job
  <2>6. ActiveJob'
    BY <1>0, <1>00, <2>1, <2>2 DEF job
  <2>7. QED
    BY <2>3, <2>4, <2>5, <2>6
<1>29. ASSUME FinishActivity
      PROVE  JobsInv'
  BY <1>29, <1>0, <1>00 DEF FinishActivity
<1>30. CASE UNCHANGED vars
  BY <1>30 DEF vars
<1>31. QED
  BY <1>1, <1>2, <1>3, <1>4, <1>5, <1>6, <1>7, <1>8, <1>9, <1>10, <1>11,
     <1>12, <1>13, <1>14, <1>15, <1>16, <1>17, <1>18, <1>19, <1>20, <1>21,
     <1>22, <1>23, <1>24, <1>25, <1>26, <1>27, <1>28, <1>29, <1>30
     DEF Next, ClientStep, ThreadStep

-----------------------------------------------------------------------------
(* Endings and futures (_complete_job, the early return of _run_job), and   *)
(* the "ui" events of a cancelled job (_event_callback).                    *)

LEMMA ResolvedInit == Init => ResolvedOnce /\ NoUiAfterCancel
BY DEF Init, ResolvedOnce, NoUiAfterCancel

LEMMA ResolvedStep ==
    TypeOK /\ LocalsOK /\ JobsInv /\ ResolvedOnce /\ [Next]_vars => ResolvedOnce'
<1> SUFFICES ASSUME TypeOK, LocalsOK, JobsInv, ResolvedOnce, [Next]_vars
             PROVE  ResolvedOnce'
  OBVIOUS
<1>0. cmd \in Commands /\ (cmd.kind = "job" => cmd.job \in Jobs)
  BY CommandFields DEF TypeOK
<1>1. ASSUME NEW ending \in {"completed", "cancelled", "error"},
             job \in Jobs, terminal[job] = <<>>,
             AppendEnding(ending), completion' = [completion EXCEPT ![job] = FutureState(ending)]
      PROVE  ResolvedOnce'
  <2>1. terminal' = [terminal EXCEPT ![job] = <<ending>>]
    BY <1>1 DEF AppendEnding, TypeOK
  <2>2. terminal'[job] = <<ending>> /\ completion'[job] = FutureState(ending)
    BY <1>1, <2>1 DEF TypeOK
  <2>3. \A j \in Jobs : j # job => terminal'[j] = terminal[j] /\ completion'[j] = completion[j]
    BY <1>1, <2>1 DEF TypeOK
  <2>4. Len(<<ending>>) = 1 /\ <<ending>>[1] = ending /\ <<ending>> # <<>>
    OBVIOUS
  <2>5. /\ Len(terminal'[job]) <= 1 /\ terminal'[job] # <<>>
        /\ completion'[job] = FutureState(terminal'[job][1])
    BY <2>2, <2>4
  <2>6. QED
    BY <2>3, <2>5 DEF ResolvedOnce
<1>2. ASSUME StartJob
      PROVE  ResolvedOnce'
  <2>1. job \in Jobs /\ terminal[job] = <<>>
    BY <1>0, <1>2, StateList DEF StartJob, LocalsOK, JobsInv, JobInHand, InHand, job
  <2>2. CASE stopFlag
    BY <1>1, <1>2, <2>1, <2>2 DEF StartJob
  <2>3. CASE ~stopFlag
    BY <1>2, <2>3 DEF StartJob, ResolvedOnce, FutureState
  <2>4. QED
    BY <2>2, <2>3
<1>3. ASSUME PublishEnding
      PROVE  ResolvedOnce'
  <2>1. job \in Jobs /\ terminal[job] = <<>>
    BY <1>0, <1>3, StateList DEF PublishEnding, Goto, LocalsOK, JobsInv, JobInHand, InHand, job
  <2>2. outcome \in {"completed", "cancelled", "error"}
    BY <1>3, StateList DEF PublishEnding, Goto, LocalsOK, TypeOK
  <2>3. QED
    BY <1>1, <1>3, <2>1, <2>2 DEF PublishEnding
<1>4. ASSUME ~StartJob, ~PublishEnding
      PROVE  UNCHANGED <<terminal, completion>>
  BY <1>4
     DEF EnterCall, Submit, AcceptJob, Reset, EnqueueControl, QueueAnswer,
         Respond, Cancel, SessionUi, Reconfigure, StopWorker, Boot,
         TakeCommand, MarkProcessing, RunControl, FinishCommand, CloseSession,
         Activate, CheckTask, TaskEvent, TaskFails, TaskReturns, AskApproval,
         CheckApproval, Interrupt, PollAnswer, ApplyDecision, WithdrawApproval,
         MarkCancelled, RetireJob, FinishActivity, Goto, vars, queueVars,
         cancelVars, approvalVars, answerVars, clientVars, localVars,
         publicVars, uiVars, clientUnchanged, threadUnchanged, Next,
         ClientStep, ThreadStep
<1>5. QED
  BY <1>2, <1>3, <1>4 DEF ResolvedOnce, FutureState

LEMMA NoUiStep ==
    JobsInv /\ NoUiAfterCancel /\ [Next]_vars => NoUiAfterCancel'
<1> SUFFICES ASSUME JobsInv, NoUiAfterCancel, [Next]_vars
             PROVE  NoUiAfterCancel'
  OBVIOUS
<1>1. ASSUME NEW j \in Jobs, SessionUi(j)
      PROVE  NoUiAfterCancel'
  BY <1>1 DEF SessionUi, JobsInv, ActiveJob, NoUiAfterCancel
<1>2. ASSUME ~(\E j \in Jobs : SessionUi(j))
      PROVE  lateUi' = lateUi
  BY <1>2
     DEF EnterCall, Submit, AcceptJob, Reset, EnqueueControl, QueueAnswer,
         Respond, Cancel, Reconfigure, StopWorker, Boot, TakeCommand,
         MarkProcessing, RunControl, FinishCommand, CloseSession, Activate,
         StartJob, CheckTask, TaskEvent, TaskFails, TaskReturns, AskApproval,
         CheckApproval, Interrupt, PollAnswer, ApplyDecision, WithdrawApproval,
         MarkCancelled, PublishEnding, RetireJob, FinishActivity, Goto, vars,
         queueVars, cancelVars, approvalVars, answerVars, clientVars,
         localVars, publicVars, uiVars, clientUnchanged, threadUnchanged, Next,
         ClientStep, ThreadStep
<1>3. QED
  BY <1>1, <1>2 DEF NoUiAfterCancel

-----------------------------------------------------------------------------
(* Approvals (respond_approval, _approval_callback, cancel_current).        *)

ApprovalsInv == Answers /\ PendingIsLive /\ ExecutedWereGranted

LEMMA AnswerIds ==
    ASSUME TypeOK
    PROVE  /\ \A i \in DOMAIN answers : answers[i].id \in Approvals \cup {NoApproval}
           /\ \A c \in Clients : reply[c].id \in Approvals \cup {NoApproval}
<1> DEFINE Answer == [id : Approvals \cup {NoApproval}, approved : BOOLEAN]
<1>1. answers \in Seq(Answer) /\ reply \in [Clients -> Answer]
  BY DEF TypeOK
<1>2. \A answer \in Answer : answer.id \in Approvals \cup {NoApproval}
  OBVIOUS
<1> HIDE DEF Answer
<1>3. \A i \in DOMAIN answers : answers[i] \in Answer
  BY <1>1, ElementOfSeq
<1>4. QED
  BY <1>1, <1>2, <1>3

LEMMA ApprovalsInit == Init => ApprovalsInv
BY StateList, Identifiers
   DEF Init, ApprovalsInv, Answers, PendingIsLive, ExecutedWereGranted, Approvals, NoApproval

LEMMA ApprovalsStep ==
    TypeOK /\ LocalsOK /\ JobsInv /\ ApprovalsInv /\ [Next]_vars => ApprovalsInv'
<1> SUFFICES ASSUME TypeOK, LocalsOK, JobsInv, ApprovalsInv, [Next]_vars
             PROVE  ApprovalsInv'
  OBVIOUS
<1>0. /\ Approvals \subseteq Int /\ NoApproval \notin Approvals
      /\ nextApproval \in Int /\ \A a \in Approvals \cup {NoApproval} : a \in Int
      /\ answers \in Seq([id : Approvals \cup {NoApproval}, approved : BOOLEAN])
      /\ reply \in [Clients -> [id : Approvals \cup {NoApproval}, approved : BOOLEAN]]
      /\ granted \subseteq Approvals /\ executed \subseteq Approvals
      /\ pending \in Approvals \cup {NoApproval} /\ asked \in Approvals \cup {NoApproval}
      /\ owner \in [Approvals -> Jobs \cup {NoJob}]
      /\ decision \in BOOLEAN
  BY Identifiers DEF TypeOK, Approvals, NoApproval
<1> USE StateList
    DEF ApprovalsInv, Answers, PendingIsLive, ExecutedWereGranted, MayCarry, queueVars,
        cancelVars, localVars, publicVars, uiVars, approvalVars, answerVars, clientVars,
        clientUnchanged, threadUnchanged
<1>1. ASSUME NEW c \in Clients, QueueAnswer(c)
      PROVE  ApprovalsInv'
  <2>1. /\ answers' = Append(answers, reply[c])
        /\ UNCHANGED <<pending, answered, nextApproval, owner, granted, reply, thread, cmd,
                       asked, decision, active, executed, cancelSeen>>
    BY <1>1 DEF QueueAnswer
  <2>2. \A i \in DOMAIN answers' : \/ i \in DOMAIN answers /\ answers'[i] = answers[i]
                                  \/ answers'[i] = reply[c]
    BY <1>0, <2>1, AppendElements
  <2>3. QED
    BY <1>0, <2>1, <2>2
<1>2. ASSUME NEW c \in Clients, NEW approved \in BOOLEAN, Respond(c, approved)
      PROVE  ApprovalsInv'
  <2>1. /\ pending # NoApproval
        /\ reply' = [reply EXCEPT ![c] = [id |-> pending, approved |-> approved]]
        /\ granted' = IF approved /\ owner[pending] \notin cancelSeen
                      THEN granted \cup {pending} ELSE granted
        /\ UNCHANGED <<pending, nextApproval, owner, answers, thread, cmd,
                       asked, decision, active, executed, cancelSeen>>
    BY <1>2 DEF Respond
  <2>2. pending \in Approvals /\ pending < nextApproval
    <3>1. pending \in Approvals /\ ~(pending >= nextApproval)
      BY <1>0, <2>1
    <3>2. pending \in Int /\ nextApproval \in Int
      BY <1>0
    <3>3. QED
      BY <3>1, <3>2
  <2>3. \A d \in Clients : \/ reply'[d] = reply[d]
                           \/ /\ reply'[d].id = pending
                              /\ reply'[d].approved = approved
    BY <1>0, <2>1
  <2>4. QED
    BY <1>0, <2>1, <2>2, <2>3
<1>3. ASSUME NEW j \in Jobs, Cancel(j)
      PROVE  ApprovalsInv'
  <2>1. /\ cancelSeen' = cancelSeen \cup {j}
        /\ pending' = pending \/ pending' = NoApproval
        /\ UNCHANGED <<nextApproval, owner, granted, answers, reply, thread, cmd,
                       asked, decision, active, executed>>
    BY <1>3 DEF Cancel
  <2>2. QED
    BY <1>0, <2>1
<1>4. ASSUME AskApproval
      PROVE  ApprovalsInv'
  <2>1. /\ thread = "stepping" /\ thread' = "awaiting" /\ nextApproval \in Approvals
        /\ asked' = nextApproval /\ pending' = nextApproval
        /\ nextApproval' = nextApproval + 1 /\ owner' = [owner EXCEPT ![nextApproval] = cmd.job]
        /\ UNCHANGED <<granted, answers, reply, cmd, decision, active, executed, cancelSeen>>
    BY <1>0, <1>4 DEF AskApproval, Goto, job, Approvals, TypeOK
  <2>2. active = cmd.job /\ active # NoJob
    BY <2>1, CommandFields, Identifiers DEF JobsInv, JobInHand, InHand, LocalsOK, TypeOK
  <2>3. /\ owner'[nextApproval] = cmd.job
        /\ \A a \in Approvals : a # nextApproval => owner'[a] = owner[a]
    BY <1>0, <2>1
  <2>4. PendingIsLive'
    BY <1>0, <2>1, <2>2, <2>3
  <2>5. Answers'
    <3>1. /\ \A i \in DOMAIN answers : answers[i].id \in Approvals \cup {NoApproval}
          /\ \A d \in Clients : reply[d].id \in Approvals \cup {NoApproval}
      BY <1>0, AnswerIds
    <3>2. \A a \in Approvals \cup {NoApproval} : a < nextApproval => a < nextApproval' /\ a # nextApproval
      BY <1>0, <2>1
    <3>3. \A a \in Approvals : a >= nextApproval' => a >= nextApproval /\ a # nextApproval
      BY <1>0, <2>1
    <3>4. \A i \in DOMAIN answers :
            /\ answers[i].id < nextApproval'
            /\ answers[i].approved =>
                  /\ answers[i].id # NoApproval
                  /\ answers[i].id \in granted' \/ owner'[answers[i].id] \in cancelSeen'
      BY <2>1, <2>3, <3>1, <3>2
    <3>5. \A d \in Clients :
            /\ reply[d].id < nextApproval'
            /\ reply[d].approved =>
                  /\ reply[d].id # NoApproval
                  /\ reply[d].id \in granted' \/ owner'[reply[d].id] \in cancelSeen'
      BY <2>1, <2>3, <3>1, <3>2
    <3>6. \A a \in Approvals : a >= nextApproval' => a \notin granted' /\ a # pending' /\ a # asked'
      BY <2>1, <3>3
    <3>7. QED
      BY <2>1, <2>3, <3>4, <3>5, <3>6
  <2>6. QED
    BY <2>1, <2>4, <2>5
<1>5. ASSUME CheckApproval
      PROVE  ApprovalsInv'
  <2>1. /\ thread \in {"awaiting", "deciding"}
        /\ UNCHANGED <<nextApproval, owner, granted, answers, reply, cmd, asked, decision,
                       active, executed, cancelSeen>>
    BY <1>5 DEF CheckApproval, WithdrawApproval
  <2>2. CASE Interrupted
    <3>1. thread' = "cancelling" /\ pending' = NoApproval
      BY <1>5, <2>1, <2>2 DEF CheckApproval, Interrupt, WithdrawApproval
    <3>2. QED
      BY <1>0, <2>1, <3>1
  <2>3. CASE ~Interrupted
    <3>1. /\ thread' = IF thread = "awaiting" THEN "polling" ELSE "granting"
          /\ UNCHANGED pending
      BY <1>5, <2>3 DEF CheckApproval
    <3>2. cmd.job \notin cancelSeen
      BY <2>1, <2>3 DEF Interrupted, JobsInv, ActiveJob, job
    <3>3. QED
      BY <1>0, <2>1, <3>1, <3>2
  <2>4. QED
    BY <2>2, <2>3
<1>6. ASSUME PollAnswer
      PROVE  ApprovalsInv'
  <2>1. /\ thread = "polling"
        /\ UNCHANGED <<pending, nextApproval, owner, granted, reply, cmd, asked,
                       active, executed, cancelSeen>>
    BY <1>6 DEF PollAnswer
  <2>2. CASE answers = <<>>
    BY <1>0, <1>6, <2>1, <2>2 DEF PollAnswer
  <2>3. CASE answers # <<>>
    <3>1. /\ answers' = Tail(answers)
          /\ \/ thread' = "awaiting" /\ UNCHANGED decision
             \/ /\ thread' = "deciding" /\ decision' = Head(answers).approved
                /\ Head(answers).id = asked
      BY <1>6, <2>3 DEF PollAnswer
    <3>2. /\ \A i \in DOMAIN answers' : i + 1 \in DOMAIN answers /\ answers'[i] = answers[i + 1]
          /\ 1 \in DOMAIN answers /\ Head(answers) = answers[1]
      BY <1>0, <2>3, <3>1, TailFacts
    <3>3. QED
      BY <1>0, <2>1, <3>1, <3>2
  <2>4. QED
    BY <2>2, <2>3
<1>7. ASSUME ApplyDecision
      PROVE  ApprovalsInv'
  <2>1. /\ thread = "granting" /\ thread' = "working" /\ pending' = NoApproval
        /\ executed' = IF decision THEN executed \cup {asked} ELSE executed
        /\ UNCHANGED <<nextApproval, owner, granted, answers, reply, cmd, asked, decision,
                       active, cancelSeen>>
    BY <1>7 DEF ApplyDecision, Goto, WithdrawApproval
  <2>2. QED
    BY <1>0, <2>1
<1>8. ASSUME ClientStep, ~(\E c \in Clients : QueueAnswer(c)),
             ~(\E c \in Clients, approved \in BOOLEAN : Respond(c, approved)),
             ~(\E j \in Jobs : Cancel(j))
      PROVE  ApprovalsInv'
  <2>1. /\ UNCHANGED <<pending, nextApproval, owner, granted, answers, reply, cmd,
                       asked, decision, active, executed, cancelSeen>>
        /\ \/ thread' = thread
           \/ thread = "unstarted" /\ thread' = "boot"
    <3>1. CASE \E c \in Clients, op \in {"submit", "reset"} : EnterCall(c, op)
      BY <3>1 DEF EnterCall
    <3>2. CASE \E c \in Clients : Submit(c)
      BY <3>2 DEF Submit, AcceptJob
    <3>3. CASE \E c \in Clients : Reset(c)
      BY <3>3 DEF Reset, EnqueueControl
    <3>4. CASE \E j \in Jobs : SessionUi(j)
      BY <3>4 DEF SessionUi
    <3>5. CASE Reconfigure
      BY <3>5 DEF Reconfigure, EnqueueControl
    <3>6. CASE StopWorker
      BY <3>6 DEF StopWorker
    <3>7. QED
      BY <1>8, <3>1, <3>2, <3>3, <3>4, <3>5, <3>6 DEF ClientStep
  <2>2. QED
    BY <2>1
<1>9. ASSUME ThreadStep, ~AskApproval, ~CheckApproval, ~PollAnswer, ~ApplyDecision
      PROVE  ApprovalsInv'
  <2>1. /\ UNCHANGED <<pending, nextApproval, owner, granted, answers, reply,
                       asked, decision, executed, cancelSeen>>
        /\ thread \notin InApproval /\ thread' \notin InApproval
    BY <1>9 DEF ThreadStep, Boot, TakeCommand, MarkProcessing, RunControl, FinishCommand,
                CloseSession, Activate, StartJob, CheckTask, Interrupt, TaskEvent, TaskFails,
                TaskReturns, MarkCancelled, PublishEnding, RetireJob, FinishActivity, Goto
  <2>2. QED
    BY <2>1
<1>10. CASE UNCHANGED vars
  BY <1>10 DEF vars
<1>11. QED
  BY <1>1, <1>2, <1>3, <1>4, <1>5, <1>6, <1>7, <1>8, <1>9, <1>10
     DEF Next, ClientStep

-----------------------------------------------------------------------------
(* What the thread has in hand while it processes (_run, submit, reset).    *)

LEMMA WaitingFinite ==
    ASSUME NEW S, NEW s \in Seq(S)
    PROVE  IsFiniteSet(Waiting(s)) /\ Cardinality(Waiting(s)) \in Nat
<1>1. IsFiniteSet(1..Len(s))
  BY FS_Interval
<1>2. Waiting(s) \in SUBSET (1..Len(s))
  BY DEF Waiting
<1>3. IsFiniteSet(Waiting(s))
  BY <1>1, <1>2, FS_Subset
<1>4. QED
  BY <1>3, FS_CardinalityType

LEMMA WaitingAppended ==
    ASSUME NEW S, NEW s \in Seq(S), NEW c \in S
    PROVE  Cardinality(Waiting(Append(s, c))) =
               Cardinality(Waiting(s)) + (IF c \in Controls THEN 1 ELSE 0)
<1>1. /\ Len(s) \in Nat /\ DOMAIN s = 1..Len(s) /\ DOMAIN Append(s, c) = 1..(Len(s) + 1)
      /\ \A i \in 1..Len(s) : Append(s, c)[i] = s[i]
      /\ Append(s, c)[Len(s) + 1] = c
  OBVIOUS
<1>2. Len(s) + 1 \notin Waiting(s)
  BY <1>1 DEF Waiting
<1>3. CASE c \in Controls
  <2>1. Waiting(Append(s, c)) = Waiting(s) \cup {Len(s) + 1}
    BY <1>1, <1>3 DEF Waiting
  <2>2. QED
    BY <1>2, <1>3, <2>1, WaitingFinite, FS_AddElement
<1>4. CASE c \notin Controls
  <2>1. Waiting(Append(s, c)) = Waiting(s)
    BY <1>1, <1>4 DEF Waiting
  <2>2. Cardinality(Waiting(s)) \in Nat
    BY WaitingFinite
  <2>3. QED
    BY <1>4, <2>1, <2>2
<1>5. QED
  BY <1>3, <1>4

LEMMA WaitingTaken ==
    ASSUME NEW S, NEW s \in Seq(S), s # <<>>
    PROVE  Cardinality(Waiting(s)) =
               Cardinality(Waiting(Tail(s))) + (IF Head(s) \in Controls THEN 1 ELSE 0)
<1>1. /\ Len(s) \in Nat \ {0} /\ DOMAIN s = 1..Len(s) /\ Head(s) = s[1]
      /\ Tail(s) \in Seq(S) /\ DOMAIN Tail(s) = 1..(Len(s) - 1)
      /\ \A i \in 1..(Len(s) - 1) : Tail(s)[i] = s[i + 1]
  OBVIOUS
<1> DEFINE rest == Waiting(s) \ {1}
           f == [i \in Waiting(Tail(s)) |-> i + 1]
<1>2. /\ Waiting(Tail(s)) \subseteq 1..(Len(s) - 1)
      /\ \A i \in 1..(Len(s) - 1) : i \in Waiting(Tail(s)) <=> i + 1 \in rest
      /\ rest \subseteq 2..Len(s)
  BY <1>1 DEF Waiting
<1>3. f \in Bijection(Waiting(Tail(s)), rest)
  <2>1. f \in [Waiting(Tail(s)) -> rest]
    BY <1>2
  <2>2. \A i, j \in Waiting(Tail(s)) : f[i] = f[j] => i = j
    BY <1>1, <1>2
  <2>3. \A k \in rest : \E i \in Waiting(Tail(s)) : f[i] = k
    <3>1. SUFFICES ASSUME NEW k \in rest
                   PROVE  \E i \in Waiting(Tail(s)) : f[i] = k
      OBVIOUS
    <3>2. k - 1 \in 1..(Len(s) - 1) /\ (k - 1) + 1 = k
      BY <1>1, <1>2
    <3>3. k - 1 \in Waiting(Tail(s)) /\ f[k - 1] = k
      BY <1>2, <3>2
    <3>4. QED
      BY <3>3
  <2>4. QED
    BY <2>1, <2>2, <2>3 DEF Bijection, Injection, Surjection, IsInjective
<1>4. IsFiniteSet(Waiting(Tail(s))) /\ IsFiniteSet(Waiting(s))
      /\ Cardinality(Waiting(Tail(s))) \in Nat /\ Cardinality(Waiting(s)) \in Nat
  BY <1>1, WaitingFinite
<1>5. Cardinality(rest) = Cardinality(Waiting(Tail(s)))
  <2>1. ExistsBijection(Waiting(Tail(s)), rest)
    BY <1>3 DEF ExistsBijection
  <2>2. QED
    BY <1>4, <2>1, FS_Bijection
<1>6. 1 \in Waiting(s) <=> Head(s) \in Controls
  BY <1>1 DEF Waiting
<1>7. Cardinality(rest) = IF 1 \in Waiting(s) THEN Cardinality(Waiting(s)) - 1
                          ELSE Cardinality(Waiting(s))
  BY <1>4, FS_RemoveElement
<1>8. QED
  BY <1>4, <1>5, <1>6, <1>7

LEMMA CommandInit == Init => CommandInHand
<1> SUFFICES ASSUME Init PROVE CommandInHand
  OBVIOUS
<1>1. Waiting(jobs) = {}
  BY DEF Init, Waiting
<1>2. ~InControl /\ thread = "unstarted" /\ ~processing /\ pendingControls = 0
  BY DEF Init, InControl
<1>3. QED
  BY <1>1, <1>2, StateList, FS_EmptySet DEF CommandInHand, AtCommand

LEMMA CommandStep ==
    TypeOK /\ LocalsOK /\ StopCommand /\ CommandInHand /\ [Next]_vars => CommandInHand'
<1> SUFFICES ASSUME TypeOK, LocalsOK, StopCommand, CommandInHand, [Next]_vars
             PROVE  CommandInHand'
  OBVIOUS
<1>1. /\ jobs \in Seq(Commands) /\ cmd \in Commands /\ processing \in BOOLEAN
      /\ thread = "taken" => cmd # Stop
      /\ pendingControls = Cardinality(Waiting(jobs)) + (IF InControl THEN 1 ELSE 0)
      /\ Cardinality(Waiting(jobs)) \in Nat
  <2>1. jobs \in Seq(Commands) /\ cmd \in Commands /\ processing \in BOOLEAN
    BY DEF TypeOK
  <2>2. QED
    BY <2>1, WaitingFinite DEF StopCommand, CommandInHand
(* An action that neither queues nor takes a command.                       *)
<1>2. ASSUME UNCHANGED <<jobs, pendingControls, cmd>>, processing' <=> thread' \in AtCommand,
             InControl' <=> InControl, thread' = "control" => cmd \in Controls,
             thread' = "activity" => cmd \notin Controls
      PROVE  CommandInHand'
  BY <1>1, <1>2 DEF CommandInHand
(* An action of a client, which may queue one.                              *)
<1>3. ASSUME UNCHANGED <<processing, cmd>>, thread' = thread \/ (thread = "unstarted" /\ thread' = "boot"),
             \/ UNCHANGED <<jobs, pendingControls>>
             \/ \E c \in Commands :
                  /\ jobs' = Append(jobs, c)
                  /\ pendingControls' = pendingControls + (IF c \in Controls THEN 1 ELSE 0)
      PROVE  CommandInHand'
  <2>1. /\ processing' <=> thread' \in AtCommand
        /\ InControl' <=> InControl
        /\ thread' = "control" => cmd' \in Controls
        /\ thread' = "activity" => cmd' \notin Controls
    BY <1>3, StateList DEF CommandInHand, AtCommand, InControl
  <2>2. pendingControls' = Cardinality(Waiting(jobs')) + (IF InControl' THEN 1 ELSE 0)
    <3>1. CASE UNCHANGED <<jobs, pendingControls>>
      BY <1>1, <2>1, <3>1
    <3>2. ASSUME NEW c \in Commands, jobs' = Append(jobs, c),
                 pendingControls' = pendingControls + (IF c \in Controls THEN 1 ELSE 0)
          PROVE  pendingControls' = Cardinality(Waiting(jobs')) + (IF InControl' THEN 1 ELSE 0)
      <4>1. Cardinality(Waiting(jobs')) =
              Cardinality(Waiting(jobs)) + (IF c \in Controls THEN 1 ELSE 0)
        BY <1>1, <3>2, WaitingAppended
      <4>2. QED
        BY <1>1, <2>1, <3>2, <4>1
    <3>3. QED
      BY <1>3, <3>1, <3>2
  <2>3. QED
    BY <2>1, <2>2 DEF CommandInHand
<1>4. CASE ClientStep
  <2> USE DEF clientUnchanged, localVars, queueVars
  <2>1. ASSUME NEW c \in Clients, NEW op \in {"submit", "reset"}, EnterCall(c, op)
        PROVE  CommandInHand'
    BY <1>3, <2>1 DEF EnterCall
  <2>2. ASSUME NEW c \in Clients, Submit(c) PROVE CommandInHand'
    <3>1. CASE stopFlag
      BY <1>3, <2>2, <3>1 DEF Submit
    <3>2. CASE ~stopFlag
      <4>1. Command("job", nextJob) \in Commands /\ Command("job", nextJob) \notin Controls
        <5>1. nextJob \in Jobs
          BY <2>2, <3>2, Identifiers DEF Submit, AcceptJob, TypeOK
        <5>2. QED
          BY <5>1, CommandFields DEF Command
      <4>2. /\ jobs' = Append(jobs, Command("job", nextJob)) /\ pendingControls' = pendingControls
            /\ UNCHANGED <<processing, cmd, thread>>
        BY <2>2, <3>2 DEF Submit, AcceptJob
      <4>3. pendingControls' = pendingControls + 0
        BY <4>2 DEF TypeOK
      <4>4. QED
        BY <1>3, <4>1, <4>2, <4>3
    <3>3. QED
      BY <3>1, <3>2
  <2>3. ASSUME NEW c \in Clients, Reset(c) PROVE CommandInHand'
    <3>1. CASE stopFlag
      BY <1>3, <2>3, <3>1 DEF Reset
    <3>2. CASE ~stopFlag
      <4>1. Command("reset", NoJob) \in Controls /\ Command("reset", NoJob) \in Commands
        BY CommandFields DEF Controls
      <4>2. /\ jobs' = Append(jobs, Command("reset", NoJob))
            /\ pendingControls' = pendingControls + 1
            /\ UNCHANGED <<processing, cmd, thread>>
        BY <2>3, <3>2 DEF Reset, EnqueueControl
      <4>3. QED
        BY <1>3, <4>1, <4>2
    <3>3. QED
      BY <3>1, <3>2
  <2>4. CASE Reconfigure
    <3>1. Command("reconfigure", NoJob) \in Controls /\ Command("reconfigure", NoJob) \in Commands
      BY CommandFields DEF Controls
    <3>2. /\ jobs' = Append(jobs, Command("reconfigure", NoJob))
          /\ pendingControls' = pendingControls + 1
          /\ UNCHANGED <<processing, cmd, thread>>
      BY <2>4 DEF Reconfigure, EnqueueControl
    <3>3. QED
      BY <1>3, <3>1, <3>2
  <2>5. CASE StopWorker
    <3>1. Stop \in Commands /\ Stop \notin Controls
      BY CommandFields DEF Stop, Command
    <3>2. /\ jobs' = Append(jobs, Stop) /\ pendingControls' = pendingControls + 0
          /\ UNCHANGED <<processing, cmd, thread>>
      BY <2>5 DEF StopWorker, TypeOK
    <3>3. QED
      BY <1>3, <3>1, <3>2
  <2>6. ASSUME NEW c \in Clients, NEW approved \in BOOLEAN,
               QueueAnswer(c) \/ Respond(c, approved)
        PROVE  CommandInHand'
    BY <1>3, <2>6 DEF QueueAnswer, Respond
  <2>7. ASSUME NEW c \in Clients, QueueAnswer(c) PROVE CommandInHand'
    BY <1>3, <2>7 DEF QueueAnswer
  <2>8. ASSUME NEW j \in Jobs, Cancel(j) \/ SessionUi(j) PROVE CommandInHand'
    BY <1>3, <2>8 DEF Cancel, SessionUi
  <2>9. QED
    BY <1>4, <2>1, <2>2, <2>3, <2>4, <2>5, <2>6, <2>7, <2>8 DEF ClientStep
<1>5. CASE TakeCommand
  <2>1. /\ thread = "get" /\ jobs # <<>> /\ cmd' = Head(jobs) /\ jobs' = Tail(jobs)
        /\ thread' = IF Head(jobs) = Stop THEN "closing" ELSE "taken"
        /\ UNCHANGED <<processing, pendingControls>>
    BY <1>5 DEF TakeCommand
  <2>2. Stop \notin Controls
    BY CommandFields DEF Stop, Command
  <2>3. ~InControl /\ (InControl' <=> Head(jobs) \in Controls)
    BY <2>1, <2>2 DEF InControl
  <2>4. Cardinality(Waiting(jobs)) =
          Cardinality(Waiting(jobs')) + (IF Head(jobs) \in Controls THEN 1 ELSE 0)
    BY <1>1, <2>1, WaitingTaken
  <2>5. pendingControls' = Cardinality(Waiting(jobs')) + (IF InControl' THEN 1 ELSE 0)
    BY <1>1, <2>1, <2>3, <2>4
  <2>6. /\ processing' <=> thread' \in AtCommand
        /\ thread' # "control" /\ thread' # "activity"
    BY <2>1, StateList DEF CommandInHand, AtCommand
  <2>7. QED
    BY <2>5, <2>6 DEF CommandInHand
<1>6. CASE FinishCommand
  <2>1. /\ ~processing' /\ thread' \in {"get", "closing"} /\ UNCHANGED <<jobs, cmd>>
        /\ thread \in {"finally", "unwinding"}
        /\ pendingControls' = IF cmd \in Controls THEN pendingControls - 1 ELSE pendingControls
    BY <1>6 DEF FinishCommand, localVars
  <2>2. ~InControl' /\ (InControl <=> cmd \in Controls)
    BY <2>1 DEF InControl
  <2>3. pendingControls' = Cardinality(Waiting(jobs'))
    BY <1>1, <2>1, <2>2
  <2>4. processing' <=> thread' \in AtCommand
    BY <2>1, StateList DEF AtCommand
  <2>5. QED
    BY <1>1, <2>1, <2>2, <2>3, <2>4 DEF CommandInHand
<1>7. CASE MarkProcessing \/ RunControl \/ FinishActivity \/ RetireJob
  <2> USE StateList, CommandFields DEF CommandInHand, AtCommand, InControl, LocalsOK, localVars
  <2>1. CASE MarkProcessing
    BY <1>1, <1>2, <2>1 DEF MarkProcessing
  <2>2. CASE RunControl
    BY <1>1, <1>2, <2>2 DEF RunControl
  <2>3. CASE FinishActivity
    BY <1>1, <1>2, <2>3 DEF FinishActivity
  <2>4. CASE RetireJob
    BY <1>1, <1>2, <2>4 DEF RetireJob
  <2>5. QED
    BY <1>7, <2>1, <2>2, <2>3, <2>4
<1>8. CASE \/ Boot \/ CloseSession \/ Activate \/ StartJob \/ CheckTask \/ TaskEvent \/ TaskFails
           \/ TaskReturns \/ AskApproval \/ CheckApproval \/ PollAnswer \/ ApplyDecision
           \/ MarkCancelled \/ PublishEnding
  <2> DEFINE Outside == {"unstarted", "boot", "get", "closing", "stopped"}
             Inside  == InJob \cup {"retiring"}
  <2>1. /\ UNCHANGED <<jobs, pendingControls, cmd, processing>>
        /\ \/ thread \in Outside /\ thread' \in Outside
           \/ thread \in Inside /\ thread' \in Inside
    <3> USE StateList DEF localVars, Goto, Interrupt
    <3>1. CASE Boot \/ CloseSession \/ Activate \/ StartJob
      BY <3>1 DEF Boot, CloseSession, Activate, StartJob
    <3>2. CASE CheckTask \/ TaskEvent \/ TaskFails \/ TaskReturns
      BY <3>2 DEF CheckTask, TaskEvent, TaskFails, TaskReturns
    <3>3. CASE AskApproval \/ CheckApproval \/ PollAnswer \/ ApplyDecision
      BY <3>3 DEF AskApproval, CheckApproval, PollAnswer, ApplyDecision
    <3>4. CASE MarkCancelled \/ PublishEnding
      BY <3>4 DEF MarkCancelled, PublishEnding
    <3>5. QED
      BY <1>8, <3>1, <3>2, <3>3, <3>4
  <2>2. /\ processing' <=> thread' \in AtCommand
        /\ ~InControl /\ ~InControl' /\ thread' \notin {"control", "activity"}
    BY <2>1, StateList DEF CommandInHand, AtCommand, InControl
  <2>3. QED
    BY <1>2, <2>1, <2>2
<1>9. CASE UNCHANGED vars
  BY <1>1, <1>2, <1>9 DEF vars, queueVars, localVars, CommandInHand, InControl, AtCommand
<1>10. QED
  BY <1>4, <1>5, <1>6, <1>7, <1>8, <1>9 DEF Next, ThreadStep

-----------------------------------------------------------------------------
(* The inductive invariant and what follows from it.                        *)

LEMMA IInvInit == Init => IInv
BY TypeInit, StopInit, CommandInit, JobsInit, ApprovalsInit, ResolvedInit DEF IInv, ApprovalsInv

LEMMA IInvStep == IInv /\ [Next]_vars => IInv'
BY TypeStep, LocalsStep, StopStep, CommandStep, JobsStep, ApprovalsStep, ResolvedStep, NoUiStep
   DEF IInv, ApprovalsInv

LEMMA Inductive == Spec => []IInv
BY IInvInit, IInvStep, PTL DEF Spec

(* stop() queues one STOP behind everything that was accepted, and nothing  *)
(* is ever queued behind it (submit, reset, reconfigure, stop).             *)
THEOREM StopCorrect == Spec => []StopIsLast
<1>1. IInv => StopIsLast
  BY DEF IInv, StopCommand
<1>2. QED
  BY Inductive, <1>1, PTL

(* Every job is resolved at most once and its future by the same decision   *)
(* (_complete_job and the early return of _run_job).                        *)
THEOREM ResolvedCorrect == Spec => []ResolvedOnce
<1>1. IInv => ResolvedOnce
  BY DEF IInv
<1>2. QED
  BY Inductive, <1>1, PTL

(* Only actions the user granted, under their own identifier and before any *)
(* cancellation of their job, are carried out (respond_approval against     *)
(* _approval_callback and cancel_current).                                  *)
THEOREM ApprovalCorrect == Spec => []ExecutedWereGranted
<1>1. IInv => ExecutedWereGranted
  BY DEF IInv
<1>2. QED
  BY Inductive, <1>1, PTL

(* A request that can be answered belongs to the active job, whose thread   *)
(* waits for it (_approval_callback's finally clause, cancel_current).      *)
THEOREM PendingCorrect == Spec => []PendingIsLive
<1>1. IInv => PendingIsLive
  BY DEF IInv
<1>2. QED
  BY Inductive, <1>1, PTL

(* After cancel_current() returned True, no "ui" event of the job passes    *)
(* _event_callback, also after the job retired.                             *)
THEOREM NoUiCorrect == Spec => []NoUiAfterCancel
<1>1. IInv => NoUiAfterCancel
  BY DEF IInv
<1>2. QED
  BY Inductive, <1>1, PTL

(* When quiescent reads true every job ever accepted has published its ending *)
(* and the thread is between commands, so the session can be handed over      *)
(* (quiescent, _run's finally clauses, _run_job).                             *)
THEOREM QuiescentCorrect == Spec => []QuiescentMeansResolved
<1>1. IInv => QuiescentMeansResolved
  <2> SUFFICES ASSUME IInv, Quiescent PROVE QuiescentMeansResolved
    BY DEF QuiescentMeansResolved
  <2>1. \A j \in Jobs : j < nextJob => terminal[j] # <<>>
    <3> SUFFICES ASSUME NEW j \in Jobs, j < nextJob PROVE terminal[j] # <<>>
      OBVIOUS
    <3>1. accepted = {} /\ AcceptedJobs
      BY DEF IInv, JobsInv, Quiescent
    <3>2. Len(terminal[j]) = 1
      BY <3>1 DEF AcceptedJobs
    <3>3. QED
      BY <3>2
  <2>2. thread \notin AtCommand
    BY DEF IInv, CommandInHand, Quiescent
  <2>3. ASSUME thread = "taken" PROVE FALSE
    <3>1. cmd \in Commands /\ cmd # Stop
      BY <2>3 DEF IInv, TypeOK, StopCommand
    <3>2. CASE cmd.kind = "job"
      <4>1. cmd.job \in accepted
        BY <2>3, <3>2 DEF IInv, JobsInv, JobInHand, InHand
      <4>2. QED
        BY <4>1 DEF Quiescent
    <3>3. CASE cmd \in Controls
      <4>1. pendingControls = Cardinality(Waiting(jobs)) + 1
        BY <2>3, <3>3 DEF IInv, CommandInHand, InControl
      <4>2. Cardinality(Waiting(jobs)) \in Nat
        BY WaitingFinite DEF IInv, TypeOK
      <4>3. QED
        BY <4>1, <4>2 DEF Quiescent
    <3>4. QED
      BY <3>1, <3>2, <3>3, CommandFields
  <2>4. thread \in ThreadStates
    BY DEF IInv, TypeOK
  <2>5. QED
    BY <2>1, <2>2, <2>3, <2>4, StateList DEF QuiescentMeansResolved, AtCommand
<1>2. QED
  BY Inductive, <1>1, PTL

-----------------------------------------------------------------------------
(* The worker implements JobService.                                        *)

LEMMA RefineInit == Init => Service!Init
<1> SUFFICES ASSUME Init PROVE Service!Init
  OBVIOUS
<1>1. \A j \in Jobs : j >= nextJob
  BY DEF Init, Jobs
<1>2. stopFlag = FALSE /\ Jobs = Service!Jobs
  BY DEF Init, Jobs, Service!Jobs
<1>3. QED
  BY <1>1, <1>2 DEF Service!Init, Status

(* A job that has published an ending changes its status and no other does. *)
LEMMA EndingStep ==
    ASSUME TypeOK, nextJob' = nextJob, begun' = begun,
           NEW j \in Jobs, NEW ending \in {"completed", "cancelled", "error"},
           j < nextJob, terminal[j] = <<>>,
           terminal' = [terminal EXCEPT ![j] = Append(@, ending)]
    PROVE  Status' = [Status EXCEPT ![j] = ending]
<1>1. terminal'[j] = <<ending>> /\ \A i \in Jobs : i # j => terminal'[i] = terminal[i]
  BY DEF TypeOK
<1>2. <<ending>> # <<>> /\ Len(<<ending>>) = 1 /\ <<ending>>[1] = ending
  OBVIOUS
<1>3. ~(j >= nextJob)
  BY Identifiers DEF TypeOK, Jobs
<1>4. Status'[j] = ending /\ \A i \in Jobs : i # j => Status'[i] = Status[i]
  BY <1>1, <1>2, <1>3 DEF Status
<1>5. QED
  BY <1>4 DEF Status

LEMMA BeforeJobInHand ==
    ASSUME TypeOK, LocalsOK, JobsInv, InHand, job \in Jobs
    PROVE  /\ job < nextJob
           /\ \A i \in Jobs : i < job => i < nextJob /\ Len(terminal[i]) = 1
<1>1. job < nextJob
  BY DEF JobsInv, JobInHand, AcceptedJobs, job
<1>2. ASSUME NEW i \in Jobs, i < job
      PROVE  i < nextJob /\ Len(terminal[i]) = 1
  <2>1. Jobs \subseteq Int /\ nextJob \in Int
    BY Identifiers DEF Jobs, TypeOK
  <2>2. i < nextJob
    BY <1>1, <1>2, <2>1
  <2>3. ~Queued(i)
    <3>1. ASSUME NEW k \in DOMAIN jobs, jobs[k] = Command("job", i)
          PROVE  FALSE
      <4>1. IsJob(k) /\ jobs[k].job = i
        BY <3>1 DEF IsJob, Command
      <4>2. job < i
        BY <4>1 DEF JobsInv, QueuedJobs, job
      <4>3. QED
        BY <1>2, <2>1, <4>2
    <3>2. QED
      BY <3>1 DEF Queued
  <2>4. cmd.job # i
    BY <1>2, <2>1 DEF job
  <2>5. QED
    BY <2>2, <2>3, <2>4 DEF JobsInv, AcceptedJobs
<1>3. QED
  BY <1>1, <1>2

LEMMA RefineStep == IInv /\ [Next]_vars => [Service!Next]_(Service!vars)
<1> SUFFICES ASSUME IInv, [Next]_vars
             PROVE  [Service!Next]_(Service!vars)
  OBVIOUS
<1>0. /\ TypeOK /\ LocalsOK /\ JobsInv
      /\ cmd.kind = "job" => cmd.job \in Jobs
      /\ Jobs \subseteq Int /\ nextJob \in Int /\ Jobs = Service!Jobs
  BY CommandFields, Identifiers DEF IInv, TypeOK, Jobs, Service!Jobs
<1>1. ASSUME NEW c \in Clients, Submit(c), ~stopFlag
      PROVE  Service!Next
  <2>1. /\ nextJob \in Jobs /\ nextJob' = nextJob + 1
        /\ UNCHANGED <<terminal, begun, stopFlag>>
    BY <1>0, <1>1 DEF Submit, AcceptJob, clientUnchanged, publicVars, Jobs, TypeOK
  <2>2. terminal[nextJob] = <<>> /\ nextJob \notin begun
    BY <1>0, <2>1 DEF JobsInv, AcceptedJobs
  <2>3. Status[nextJob] = "new"
    BY <1>0, <2>1 DEF Status
  <2>4. \A i \in Jobs : i < nextJob => Status[i] # "new"
    <3>1. ASSUME NEW i \in Jobs, i < nextJob
          PROVE  Status[i] # "new"
      <4>1. ~(i >= nextJob)
        BY <1>0, <3>1
      <4>2. CASE terminal[i] # <<>>
        <5>1. terminal[i] \in Seq({"completed", "cancelled", "error"})
          BY <1>0 DEF TypeOK
        <5>2. terminal[i][Len(terminal[i])] \in {"completed", "cancelled", "error"}
          BY <4>2, <5>1
        <5>3. QED
          BY <4>1, <4>2, <5>2 DEF Status
      <4>3. CASE terminal[i] = <<>>
        BY <4>1, <4>3 DEF Status
      <4>4. QED
        BY <4>2, <4>3
    <3>2. QED
      BY <3>1
  <2>5. Status' = [Status EXCEPT ![nextJob] = "queued"]
    <3>1. \A i \in Jobs : i >= nextJob' <=> i >= nextJob /\ i # nextJob
      BY <1>0, <2>1
    <3>2. \A i \in Jobs : i # nextJob => Status'[i] = Status[i]
      BY <2>1, <3>1 DEF Status
    <3>3. Status'[nextJob] = "queued"
      BY <2>1, <2>2, <3>1 DEF Status
    <3>4. QED
      BY <3>2, <3>3 DEF Status
  <2>6. Service!Accept(nextJob)
    BY <1>0, <1>1, <2>1, <2>3, <2>4, <2>5 DEF Service!Accept
  <2>7. QED
    BY <1>0, <2>1, <2>6 DEF Service!Next
<1>2. ASSUME StartJob
      PROVE  Service!Next
  <2>1. thread = "precheck" /\ UNCHANGED <<stopFlag, nextJob>>
    BY <1>2 DEF StartJob, threadUnchanged
  <2>2. job \in Jobs /\ InHand /\ terminal[job] = <<>> /\ job \notin begun
    BY <1>0, <2>1, StateList DEF LocalsOK, JobsInv, JobInHand, InHand, job
  <2>3. job < nextJob /\ \A i \in Jobs : i < job => i < nextJob /\ Len(terminal[i]) = 1
    BY <1>0, <2>2, BeforeJobInHand
  <2>4. Status[job] = "queued"
    BY <1>0, <2>2, <2>3 DEF Status
  <2>5. Service!AllBeforeEnded(job)
    <3>1. ASSUME NEW i \in Jobs, i < job
          PROVE  Status[i] \in Service!Endings
      <4>1. ~(i >= nextJob) /\ Len(terminal[i]) = 1
        BY <1>0, <2>3, <3>1
      <4>2. /\ terminal[i] # <<>>
            /\ terminal[i][Len(terminal[i])] \in {"completed", "cancelled", "error"}
        <5>1. terminal[i] \in Seq({"completed", "cancelled", "error"})
          BY <1>0 DEF TypeOK
        <5>2. QED
          BY <4>1, <5>1
      <4>3. QED
        BY <4>1, <4>2 DEF Status, Service!Endings
    <3>2. QED
      BY <1>0, <3>1 DEF Service!AllBeforeEnded
  <2>6. CASE stopFlag
    <3>1. begun' = begun /\ terminal' = [terminal EXCEPT ![job] = Append(@, "cancelled")]
      BY <1>2, <2>6 DEF StartJob, AppendEnding
    <3>2. Status' = [Status EXCEPT ![job] = "cancelled"]
      BY <1>0, <2>1, <2>2, <2>3, <3>1, EndingStep
    <3>3. Service!Drop(job)
      BY <2>1, <2>4, <2>5, <2>6, <3>2 DEF Service!Drop
    <3>4. QED
      BY <1>0, <2>2, <3>3 DEF Service!Next
  <2>7. CASE ~stopFlag
    <3>1. begun' = begun \cup {job} /\ terminal' = terminal
      BY <1>2, <2>7 DEF StartJob
    <3>2. Status'[job] = "running"
      BY <1>0, <2>1, <2>2, <2>3, <3>1 DEF Status
    <3>3. \A i \in Jobs : i # job => Status'[i] = Status[i]
      BY <2>1, <3>1 DEF Status
    <3>4. Status' = [Status EXCEPT ![job] = "running"]
      BY <3>2, <3>3 DEF Status
    <3>5. Service!Begin(job)
      BY <2>1, <2>4, <2>5, <2>7, <3>4 DEF Service!Begin
    <3>6. QED
      BY <1>0, <2>2, <3>5 DEF Service!Next
  <2>8. QED
    BY <2>6, <2>7
<1>3. ASSUME PublishEnding
      PROVE  Service!Next
  <2>1. /\ thread = "publishing" /\ UNCHANGED <<stopFlag, nextJob, begun>>
        /\ terminal' = [terminal EXCEPT ![job] = Append(@, outcome)]
    BY <1>3 DEF PublishEnding, Goto, AppendEnding, threadUnchanged
  <2>2. job \in Jobs /\ InHand /\ terminal[job] = <<>> /\ job \in begun
    BY <1>0, <2>1, StateList DEF LocalsOK, JobsInv, JobInHand, InHand, job
  <2>3. outcome \in {"completed", "cancelled", "error"}
    BY <1>0, <2>1, StateList DEF LocalsOK, TypeOK
  <2>4. job < nextJob
    BY <1>0, <2>2, BeforeJobInHand
  <2>5. Status[job] = "running"
    BY <1>0, <2>2, <2>4 DEF Status
  <2>6. Status' = [Status EXCEPT ![job] = outcome]
    BY <1>0, <2>1, <2>2, <2>3, <2>4, EndingStep
  <2>7. Service!End(job, outcome)
    BY <2>1, <2>5, <2>6 DEF Service!End
  <2>8. QED
    BY <1>0, <2>2, <2>3, <2>7 DEF Service!Next, Service!Endings
<1>4. ASSUME StopWorker
      PROVE  Service!Next
  <2>1. ~stopFlag /\ stopFlag' = TRUE /\ UNCHANGED <<nextJob, terminal, begun>>
    BY <1>4 DEF StopWorker, clientUnchanged, publicVars
  <2>2. Status' = Status
    BY <2>1 DEF Status
  <2>3. QED
    BY <2>1, <2>2 DEF Service!Next, Service!Close
<1>5. ASSUME ~(\E c \in Clients : Submit(c) /\ ~stopFlag), ~StartJob, ~PublishEnding, ~StopWorker
      PROVE  UNCHANGED Service!vars
  <2>1. UNCHANGED <<stopFlag, nextJob, terminal, begun>>
    BY <1>5
       DEF EnterCall, Submit, AcceptJob, Reset, EnqueueControl, QueueAnswer,
         Respond, Cancel, SessionUi, Reconfigure, Boot, TakeCommand,
         MarkProcessing, RunControl, FinishCommand, CloseSession, Activate,
         CheckTask, TaskEvent, TaskFails, TaskReturns, AskApproval,
         CheckApproval, Interrupt, PollAnswer, ApplyDecision, WithdrawApproval,
         MarkCancelled, RetireJob, FinishActivity, Goto, vars, queueVars,
         cancelVars, approvalVars, answerVars, clientVars, localVars,
         publicVars, uiVars, clientUnchanged, threadUnchanged, Next,
         ClientStep, ThreadStep
  <2>2. QED
    BY <2>1 DEF Service!vars, Status
<1>6. QED
  BY <1>1, <1>2, <1>3, <1>4, <1>5

(* Jobs begin one at a time in the order of acceptance, each ends once, and *)
(* nothing is accepted or begun after stop() (submit, _run, _run_job).      *)
THEOREM Implements == Spec => ImplementsJobService
BY Inductive, RefineInit, RefineStep, PTL DEF Spec, ImplementsJobService, Service!Spec

=============================================================================

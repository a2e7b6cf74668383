---------------------------- MODULE AgentWorker ----------------------------
(***************************************************************************)
(* raychat/workers.py, class AgentWorker: one owning thread runs the jobs  *)
(* of a conversation, any number of client threads submit jobs, cancel     *)
(* them, answer their approval requests, reset or reconfigure the          *)
(* conversation, and stop the worker.  One action is one region the code   *)
(* executes under _state_lock or one effect it has between two such        *)
(* regions, so every interleaving of the threads is a behaviour.           *)
(*                                                                         *)
(* The conversation itself (session.run, a command, a standalone task) is  *)
(* seen through the callbacks the worker hands it: it publishes an event,  *)
(* asks for an approval, fails or returns, at most MaxSteps times.         *)
(***************************************************************************)
EXTENDS Integers, Sequences

CONSTANTS
    Clients,        \* threads that call the worker
    MaxJobs,        \* bound on submit(): job ids are 1..MaxJobs
    MaxApprovals,   \* bound on approvals: approval ids are 1..MaxApprovals
    MaxControls,    \* bound on reset() and reconfigure() together
    MaxSteps,       \* run_options["max_steps"]: steps of one conversation
    Faults          \* which user callbacks may end the thread, see below

(* "reset": the conversation's reset() raises (a journal that cannot be     *)
(* created, a strict plugin handler).  "exit": a reconfiguration callback   *)
(* or the activity observer raises outside Exception (SystemExit).          *)
ASSUME BoundsAssumption ==
    /\ MaxJobs \in Nat /\ MaxApprovals \in Nat
    /\ MaxControls \in Nat /\ MaxSteps \in Nat
    /\ Faults \subseteq {"reset", "exit"}

Jobs       == 1..MaxJobs
Approvals  == 1..MaxApprovals
NoJob      == 0
NoApproval == 0

Command(kind, job) == [kind |-> kind, job |-> job]
Stop        == Command("stop", NoJob)
Controls    == {Command("reset", NoJob), Command("reconfigure", NoJob)}
JobCommands == {Command("job", j) : j \in Jobs}
Commands    == {Stop} \cup Controls \cup JobCommands

(* The states of the owning thread, in the order _run and _run_job visit.   *)
InApproval == {"awaiting", "polling", "deciding", "granting"}
InTask     == {"working", "stepping", "returned"} \cup InApproval
Settling   == {"cancelling", "publishing"}
InJob      == {"activate", "precheck"} \cup InTask \cup Settling
Leaving    == {"activity", "finally", "unwinding"}
ThreadStates == {"unstarted", "boot", "get", "taken", "control", "retiring",
                 "closing", "stopped"} \cup InJob \cup Leaving

VARIABLES
    \* shared, guarded by _state_lock (jobs and answers are queue.Queue)
    stopFlag, jobs, accepted, cancelled, active, processing,
    pendingControls, pending, answered, answers, nextJob, nextApproval,
    \* clients inside a call: call[c] names the call, reply[c] the answer in hand
    call, reply, controls,
    \* the owning thread and its locals
    thread, cmd, steps, asked, decision, outcome,
    \* what it has told the outside
    begun, terminal, completion, suppressed,
    \* history, read by no guard
    owner, granted, executed, cancelSeen, lateUi

queueVars    == <<jobs, accepted, nextJob, pendingControls, controls>>
cancelVars   == <<cancelled, cancelSeen>>
approvalVars == <<pending, answered, nextApproval, owner>>
answerVars   == <<answers, granted>>
clientVars   == <<call, reply>>
localVars    == <<cmd, steps, asked, decision, outcome>>
publicVars   == <<begun, terminal, completion>>
uiVars       == <<suppressed, lateUi>>

vars == <<stopFlag, active, processing, thread, executed, queueVars, cancelVars,
          approvalVars, answerVars, clientVars, localVars, publicVars, uiVars>>

clientUnchanged == <<active, processing, executed, localVars, publicVars, uiVars>>
threadUnchanged == <<stopFlag, controls, clientVars, granted>>

Init ==
    /\ stopFlag = FALSE /\ jobs = <<>> /\ accepted = {} /\ cancelled = {}
    /\ active = NoJob /\ processing = FALSE /\ pendingControls = 0
    /\ pending = NoApproval /\ answered = FALSE /\ answers = <<>>
    /\ nextJob = 1 /\ nextApproval = 1
    /\ call = [c \in Clients |-> "idle"]
    /\ reply = [c \in Clients |-> [id |-> NoApproval, approved |-> FALSE]]
    /\ controls = 0
    /\ thread = "unstarted" /\ cmd = Stop /\ steps = 0 /\ asked = NoApproval
    /\ decision = FALSE /\ outcome = "none"
    /\ begun = {} /\ terminal = [j \in Jobs |-> <<>>]
    /\ completion = [j \in Jobs |-> "pending"]
    /\ suppressed = {}
    /\ owner = [a \in Approvals |-> NoJob] /\ granted = {} /\ executed = {}
    /\ cancelSeen = {} /\ lateUi = {}

-----------------------------------------------------------------------------
(* Client calls.                                                            *)

(* submit() and reset(): the early check and start(), which reads the same  *)
(* flag under the same lock and starts the thread once.                     *)
EnterCall(c, op) ==
    /\ call[c] = "idle"
    /\ op \in {"submit", "reset"}
    /\ ~stopFlag
    /\ call' = [call EXCEPT ![c] = op]
    /\ thread' = IF thread = "unstarted" THEN "boot" ELSE thread
    /\ UNCHANGED <<stopFlag, reply, queueVars, cancelVars, approvalVars,
                   answerVars, clientUnchanged>>

(* Planted error: submit() numbers the job before it takes the lock, so two *)
(* clients may enqueue in the other order (here: behind the newest job).    *)
AcceptJobOutOfOrder ==
    /\ nextJob <= MaxJobs
    /\ accepted' = accepted \cup {nextJob}
    /\ jobs' = IF jobs # <<>> /\ jobs[Len(jobs)].kind = "job"
               THEN Append(SubSeq(jobs, 1, Len(jobs) - 1), Command("job", nextJob))
                        \o <<jobs[Len(jobs)]>>
               ELSE Append(jobs, Command("job", nextJob))
    /\ nextJob' = nextJob + 1
    /\ UNCHANGED <<pendingControls, controls>>

AcceptJob ==
    /\ nextJob <= MaxJobs
    /\ accepted' = accepted \cup {nextJob}
    /\ jobs' = Append(jobs, Command("job", nextJob))
    /\ nextJob' = nextJob + 1
    /\ UNCHANGED <<pendingControls, controls>>

(* Planted error: the second check of the flag is dropped.                  *)
SubmitUnchecked(c) ==
    /\ call[c] = "submit"
    /\ call' = [call EXCEPT ![c] = "idle"]
    /\ AcceptJob
    /\ UNCHANGED <<stopFlag, reply, thread, cancelVars, approvalVars,
                   answerVars, clientUnchanged>>

(* The second check and the enqueue, in one region; a client that finds the *)
(* flag set raises and leaves nothing behind.                               *)
Submit(c) ==
    /\ call[c] = "submit"
    /\ call' = [call EXCEPT ![c] = "idle"]
    /\ IF stopFlag THEN UNCHANGED queueVars ELSE AcceptJob
    /\ UNCHANGED <<stopFlag, reply, thread, cancelVars, approvalVars,
                   answerVars, clientUnchanged>>

(* Planted error: a control is queued without being counted as pending.     *)
EnqueueUncounted(command) ==
    /\ controls < MaxControls
    /\ controls' = controls + 1
    /\ jobs' = Append(jobs, command)
    /\ UNCHANGED <<accepted, nextJob, pendingControls>>

EnqueueControl(command) ==
    /\ controls < MaxControls
    /\ controls' = controls + 1
    /\ pendingControls' = pendingControls + 1
    /\ jobs' = Append(jobs, command)
    /\ UNCHANGED <<accepted, nextJob>>

Reset(c) ==
    /\ call[c] = "reset"
    /\ call' = [call EXCEPT ![c] = "idle"]
    /\ IF stopFlag THEN UNCHANGED queueVars
       ELSE EnqueueControl(Command("reset", NoJob))
    /\ UNCHANGED <<stopFlag, reply, thread, cancelVars, approvalVars,
                   answerVars, clientUnchanged>>

(* reconfigure() does not start the thread.                                 *)
Reconfigure ==
    /\ ~stopFlag
    /\ EnqueueControl(Command("reconfigure", NoJob))
    /\ UNCHANGED <<stopFlag, thread, cancelVars, approvalVars, answerVars,
                   clientVars, clientUnchanged>>

(* cancel_current(): only an accepted job can be cancelled, and cancelling  *)
(* the active one withdraws its approval request.                           *)
Cancel(j) ==
    /\ j \in accepted
    /\ cancelled' = cancelled \cup {j}
    /\ cancelSeen' = cancelSeen \cup {j}
    /\ pending' = IF j = active THEN NoApproval ELSE pending
    /\ answered' = IF j = active THEN FALSE ELSE answered
    /\ UNCHANGED <<stopFlag, nextApproval, owner, thread, queueVars, answerVars,
                   clientVars, clientUnchanged>>

(* respond_approval(): the decision is taken under the lock, the answer is  *)
(* queued after it is released.  granted remembers the approvals the user   *)
(* said yes to while their job was not cancelled.                           *)
Respond(c, approved) ==
    /\ call[c] = "idle"
    /\ pending # NoApproval
    /\ ~answered
    /\ answered' = TRUE
    /\ call' = [call EXCEPT ![c] = "answer"]
    /\ reply' = [reply EXCEPT ![c] = [id |-> pending, approved |-> approved]]
    /\ granted' = IF approved /\ owner[pending] \notin cancelSeen
                  THEN granted \cup {pending} ELSE granted
    /\ UNCHANGED <<stopFlag, pending, nextApproval, owner, answers, thread,
                   queueVars, cancelVars, clientUnchanged>>

QueueAnswer(c) ==
    /\ call[c] = "answer"
    /\ answers' = Append(answers, reply[c])
    /\ call' = [call EXCEPT ![c] = "idle"]
    /\ UNCHANGED <<stopFlag, reply, granted, thread, queueVars, cancelVars,
                   approvalVars, clientUnchanged>>

StopWorker ==
    /\ ~stopFlag
    /\ stopFlag' = TRUE
    /\ jobs' = Append(jobs, Stop)
    /\ UNCHANGED <<accepted, nextJob, pendingControls, controls, thread,
                   cancelVars, approvalVars, answerVars, clientVars,
                   clientUnchanged>>

(* A "ui" event of the session, published under the lock by any thread that *)
(* still holds the sink of job j, also long after that job has ended.       *)
SessionUi(j) ==
    /\ j \in begun
    /\ ~stopFlag
    /\ j \notin suppressed \cup cancelled
    /\ lateUi' = lateUi \cup ({j} \cap cancelSeen)
    /\ UNCHANGED <<stopFlag, active, processing, thread, executed, queueVars,
                   cancelVars, approvalVars, answerVars, clientVars, localVars,
                   publicVars, suppressed>>

ClientStep ==
    \/ \E c \in Clients, op \in {"submit", "reset"} : EnterCall(c, op)
    \/ \E c \in Clients : Submit(c) \/ Reset(c) \/ QueueAnswer(c)
    \/ \E c \in Clients, approved \in BOOLEAN : Respond(c, approved)
    \/ \E j \in Jobs : Cancel(j)
    \/ \E j \in Jobs : SessionUi(j)
    \/ Reconfigure
    \/ StopWorker

-----------------------------------------------------------------------------
(* The owning thread: _run.                                                 *)

Goto(from, to) == thread = from /\ thread' = to

Boot ==
    /\ Goto("boot", "get")
    /\ UNCHANGED <<active, processing, executed, accepted, jobs, nextJob,
                   pendingControls, cancelVars, approvalVars, answers, localVars,
                   publicVars, uiVars, threadUnchanged>>

TakeCommand ==
    /\ thread = "get"
    /\ jobs # <<>>
    /\ cmd' = Head(jobs)
    /\ jobs' = Tail(jobs)
    /\ thread' = IF Head(jobs) = Stop THEN "closing" ELSE "taken"
    /\ UNCHANGED <<active, processing, executed, accepted, nextJob,
                   pendingControls, cancelVars, approvalVars, answers, steps,
                   asked, decision, outcome, publicVars, uiVars, threadUnchanged>>

MarkProcessing ==
    /\ thread = "taken"
    /\ processing' = TRUE
    /\ thread' = IF cmd.kind = "job" THEN "activate" ELSE "control"
    /\ UNCHANGED <<active, executed, accepted, jobs, nextJob, pendingControls,
                   cancelVars, approvalVars, answers, localVars, publicVars, uiVars,
                   threadUnchanged>>

(* _reconfigure reports an Exception of the callback and goes on; what is   *)
(* not an Exception it raises again.  _reset_session catches nothing, and   *)
(* touches the session only while the worker is not stopping.               *)
RunControl ==
    /\ thread = "control"
    /\ \/ thread' = "finally"
       \/ /\ \/ cmd.kind = "reconfigure" /\ "exit" \in Faults
             \/ cmd.kind = "reset" /\ ~stopFlag /\ "reset" \in Faults
          /\ thread' = "unwinding"
    /\ UNCHANGED <<active, processing, executed, accepted, jobs, nextJob,
                   pendingControls, cancelVars, approvalVars, answers, localVars,
                   publicVars, uiVars, threadUnchanged>>

(* The inner finally of _run, reached normally or by an exception.          *)
FinishCommand ==
    /\ thread \in {"finally", "unwinding"}
    /\ processing' = FALSE
    /\ pendingControls' = IF cmd \in Controls THEN pendingControls - 1
                          ELSE pendingControls
    /\ thread' = IF thread = "finally" THEN "get" ELSE "closing"
    /\ UNCHANGED <<active, executed, accepted, jobs, nextJob, cancelVars,
                   approvalVars, answers, localVars, publicVars, uiVars,
                   threadUnchanged>>

CloseSession ==
    /\ Goto("closing", "stopped")
    /\ UNCHANGED <<active, processing, executed, accepted, jobs, nextJob,
                   pendingControls, cancelVars, approvalVars, answers, localVars,
                   publicVars, uiVars, threadUnchanged>>

-----------------------------------------------------------------------------
(* The owning thread: _run_job and what it calls.                           *)

job == cmd.job

AppendEnding(ending) == terminal' = [terminal EXCEPT ![job] = Append(@, ending)]

FutureState(ending) ==
    CASE ending = "completed" -> "result"
      [] ending = "error"     -> "exception"
      [] ending = "cancelled" -> "cancelled"

Activate ==
    /\ Goto("activate", "precheck")
    /\ active' = job
    /\ UNCHANGED <<processing, executed, accepted, jobs, nextJob,
                   pendingControls, cancelVars, approvalVars, answers, localVars,
                   publicVars, uiVars, threadUnchanged>>

(* Planted error: the early return for a stopping worker is missing.        *)
StartJobNoReturn ==
    /\ thread = "precheck"
    /\ IF stopFlag
       THEN /\ AppendEnding("cancelled")
            /\ completion' = [completion EXCEPT ![job] = FutureState("cancelled")]
       ELSE UNCHANGED <<terminal, completion>>
    /\ outcome' = "none"
    /\ begun' = begun \cup {job}
    /\ thread' = "working"
    /\ steps' = 0
    /\ UNCHANGED <<active, processing, executed, accepted, jobs, nextJob,
                   pendingControls, cancelVars, approvalVars, answers, cmd, asked,
                   decision, uiVars, threadUnchanged>>

(* Planted error: the early return forgets to publish the cancellation.     *)
StartJobSilent ==
    /\ thread = "precheck"
    /\ IF stopFlag
       THEN thread' = "retiring" /\ UNCHANGED begun
       ELSE thread' = "working" /\ begun' = begun \cup {job}
    /\ outcome' = "none"
    /\ steps' = 0
    /\ UNCHANGED <<active, processing, executed, accepted, jobs, nextJob,
                   pendingControls, cancelVars, approvalVars, answers, cmd, asked,
                   decision, terminal, completion, uiVars, threadUnchanged>>

(* A job that comes up after stop() is cancelled without being started.     *)
StartJob ==
    /\ thread = "precheck"
    /\ IF stopFlag
       THEN /\ outcome' = "cancelled"
            /\ AppendEnding("cancelled")
            /\ completion' = [completion EXCEPT ![job] = FutureState("cancelled")]
            /\ thread' = "retiring"
            /\ UNCHANGED begun
       ELSE /\ outcome' = "none"
            /\ begun' = begun \cup {job}
            /\ thread' = "working"
            /\ UNCHANGED <<terminal, completion>>
    /\ steps' = 0
    /\ UNCHANGED <<active, processing, executed, accepted, jobs, nextJob,
                   pendingControls, cancelVars, approvalVars, answers, cmd, asked,
                   decision, uiVars, threadUnchanged>>

(* Planted error: the check looks at the stop flag alone.                   *)
InterruptedByStopOnly == stopFlag

(* Planted error: the check looks at the cancelled jobs alone.              *)
InterruptedByCancelOnly == job \in cancelled \/ job \notin accepted

(* _check_stopped.                                                          *)
Interrupted == stopFlag \/ job \in cancelled \/ job \notin accepted

Interrupt == outcome' = "cancelled" /\ thread' = "cancelling"

(* cancel_check() before a step and after the return of the conversation.   *)
CheckTask ==
    /\ thread \in {"working", "returned"}
    /\ IF Interrupted THEN Interrupt
       ELSE IF thread = "working" THEN thread' = "stepping" /\ UNCHANGED outcome
       ELSE thread' = "publishing" /\ outcome' = "completed"
    /\ UNCHANGED <<active, processing, executed, accepted, jobs, nextJob,
                   pendingControls, cancelVars, approvalVars, answers, cmd, steps,
                   asked, decision, publicVars, uiVars, threadUnchanged>>

(* Planted error: the step limit is not looked at.                          *)
TaskEventUnlimited ==
    /\ Goto("stepping", "working")
    /\ steps' = steps + 1
    /\ UNCHANGED <<active, processing, executed, accepted, jobs, nextJob,
                   pendingControls, cancelVars, approvalVars, answers, cmd, asked,
                   decision, outcome, publicVars, uiVars, threadUnchanged>>

(* A step of the conversation that publishes an event of the job.           *)
TaskEvent ==
    /\ Goto("stepping", "working")
    /\ steps < MaxSteps
    /\ steps' = steps + 1
    /\ UNCHANGED <<active, processing, executed, accepted, jobs, nextJob,
                   pendingControls, cancelVars, approvalVars, answers, cmd, asked,
                   decision, outcome, publicVars, uiVars, threadUnchanged>>

(* The conversation, its factory or the activity observer raises.           *)
TaskFails ==
    /\ Goto("stepping", "publishing")
    /\ outcome' = "error"
    /\ UNCHANGED <<active, processing, executed, accepted, jobs, nextJob,
                   pendingControls, cancelVars, approvalVars, answers, cmd, steps,
                   asked, decision, publicVars, uiVars, threadUnchanged>>

TaskReturns ==
    /\ Goto("stepping", "returned")
    /\ UNCHANGED <<active, processing, executed, accepted, jobs, nextJob,
                   pendingControls, cancelVars, approvalVars, answers, localVars,
                   publicVars, uiVars, threadUnchanged>>

(* _approval_callback: a fresh identifier becomes the pending approval.     *)
AskApproval ==
    /\ Goto("stepping", "awaiting")
    /\ steps < MaxSteps /\ nextApproval <= MaxApprovals
    /\ steps' = steps + 1
    /\ asked' = nextApproval
    /\ pending' = nextApproval
    /\ answered' = FALSE
    /\ nextApproval' = nextApproval + 1
    /\ owner' = [owner EXCEPT ![nextApproval] = job]
    /\ UNCHANGED <<active, processing, executed, accepted, jobs, nextJob,
                   pendingControls, cancelVars, answers, cmd, decision, outcome,
                   publicVars, uiVars, threadUnchanged>>

(* Planted error: the callback returns without its finally clause.          *)
WithdrawNothing == UNCHANGED approvalVars

(* The finally clause: withdraw the request unless someone else replaced it. *)
WithdrawApproval ==
    /\ pending' = IF pending = asked THEN NoApproval ELSE pending
    /\ answered' = IF pending = asked THEN FALSE ELSE answered
    /\ UNCHANGED <<nextApproval, owner>>

(* Both checks of the callback: at each turn of its loop, and again once    *)
(* the answer has been taken off the queue.                                 *)
CheckApproval ==
    /\ thread \in {"awaiting", "deciding"}
    /\ IF Interrupted THEN Interrupt /\ WithdrawApproval
       ELSE /\ thread' = IF thread = "awaiting" THEN "polling" ELSE "granting"
            /\ UNCHANGED <<outcome, approvalVars>>
    /\ UNCHANGED <<active, processing, executed, accepted, jobs, nextJob,
                   pendingControls, cancelVars, answers, cmd, steps, asked,
                   decision, publicVars, uiVars, threadUnchanged>>

(* Planted error: the identifier of the answer is not compared.             *)
PollAnyAnswer ==
    /\ thread = "polling"
    /\ IF answers = <<>>
       THEN thread' = "awaiting" /\ UNCHANGED <<answers, decision>>
       ELSE /\ answers' = Tail(answers)
            /\ thread' = "deciding" /\ decision' = Head(answers).approved
    /\ UNCHANGED <<active, processing, executed, accepted, jobs, nextJob,
                   pendingControls, cancelVars, approvalVars, cmd, steps, asked,
                   outcome, publicVars, uiVars, threadUnchanged>>

(* Wait for an answer until the poll times out; an answer to another        *)
(* request is dropped.                                                      *)
PollAnswer ==
    /\ thread = "polling"
    /\ IF answers = <<>>
       THEN thread' = "awaiting" /\ UNCHANGED <<answers, decision>>
       ELSE /\ answers' = Tail(answers)
            /\ IF Head(answers).id = asked
               THEN thread' = "deciding" /\ decision' = Head(answers).approved
               ELSE thread' = "awaiting" /\ UNCHANGED decision
    /\ UNCHANGED <<active, processing, executed, accepted, jobs, nextJob,
                   pendingControls, cancelVars, approvalVars, cmd, steps, asked,
                   outcome, publicVars, uiVars, threadUnchanged>>

(* The callback returns the decision; an approved action is carried out.    *)
ApplyDecision ==
    /\ Goto("granting", "working")
    /\ WithdrawApproval
    /\ executed' = IF decision THEN executed \cup {asked} ELSE executed
    /\ UNCHANGED <<active, processing, accepted, jobs, nextJob, pendingControls,
                   cancelVars, answers, localVars, publicVars, uiVars,
                   threadUnchanged>>

(* _complete_job on a cancellation: the outcome is marked under the lock    *)
(* before the event is published.                                           *)
MarkCancelled ==
    /\ Goto("cancelling", "publishing")
    /\ suppressed' = suppressed \cup {job}
    /\ UNCHANGED <<active, processing, executed, accepted, jobs, nextJob,
                   pendingControls, cancelVars, approvalVars, answers, localVars,
                   publicVars, lateUi, threadUnchanged>>

PublishEnding ==
    /\ Goto("publishing", "retiring")
    /\ AppendEnding(outcome)
    /\ completion' = [completion EXCEPT ![job] = FutureState(outcome)]
    /\ UNCHANGED <<active, processing, executed, accepted, jobs, nextJob,
                   pendingControls, cancelVars, approvalVars, answers, localVars,
                   begun, uiVars, threadUnchanged>>

(* Planted error: a job forgets, as it retires, that its cancellation had   *)
(* been accepted.                                                           *)
RetireForgetting ==
    /\ thread = "retiring"
    /\ accepted' = accepted \ {job}
    /\ cancelled' = cancelled \ {job}
    /\ active' = NoJob
    /\ thread' = IF job \in begun THEN "activity" ELSE "finally"
    /\ UNCHANGED <<processing, executed, jobs, nextJob, pendingControls,
                   cancelSeen, approvalVars, answers, localVars, publicVars,
                   uiVars, threadUnchanged>>

(* The finally clause of _run_job.                                          *)
RetireJob ==
    /\ thread = "retiring"
    /\ suppressed' = IF job \in begun /\ job \in cancelled
                     THEN suppressed \cup {job} ELSE suppressed
    /\ accepted' = accepted \ {job}
    /\ cancelled' = cancelled \ {job}
    /\ active' = NoJob
    /\ thread' = IF job \in begun THEN "activity" ELSE "finally"
    /\ UNCHANGED <<processing, executed, jobs, nextJob, pendingControls,
                   cancelSeen, approvalVars, answers, localVars, publicVars,
                   lateUi, threadUnchanged>>

(* _finish_activity: an Exception of the observer is reported, anything     *)
(* else is raised again.                                                    *)
FinishActivity ==
    /\ thread = "activity"
    /\ \/ thread' = "finally"
       \/ "exit" \in Faults /\ thread' = "unwinding"
    /\ UNCHANGED <<active, processing, executed, accepted, jobs, nextJob,
                   pendingControls, cancelVars, approvalVars, answers, localVars,
                   publicVars, uiVars, threadUnchanged>>

ThreadStep ==
    \/ Boot \/ TakeCommand \/ MarkProcessing \/ RunControl \/ FinishCommand
    \/ CloseSession
    \/ Activate \/ StartJob \/ CheckTask \/ TaskEvent \/ TaskFails \/ TaskReturns
    \/ AskApproval \/ CheckApproval \/ PollAnswer \/ ApplyDecision
    \/ MarkCancelled \/ PublishEnding \/ RetireJob \/ FinishActivity

Next == ClientStep \/ ThreadStep

Spec == Init /\ [][Next]_vars

(* The thread runs, and a client inside a call finishes it.  Nobody has to  *)
(* call, to answer an approval or to stop the worker.                       *)
Fairness ==
    /\ WF_vars(ThreadStep)
    /\ \A c \in Clients : WF_vars(Submit(c)) /\ WF_vars(Reset(c))
                          /\ WF_vars(QueueAnswer(c))

FairSpec == Spec /\ Fairness

-----------------------------------------------------------------------------
(* Properties.                                                              *)

(* The types of all variables, the queues' contents included.               *)
TypeOK ==
    /\ stopFlag \in BOOLEAN /\ processing \in BOOLEAN /\ answered \in BOOLEAN
    /\ decision \in BOOLEAN
    /\ jobs \in Seq(Commands) /\ cmd \in Commands
    /\ accepted \subseteq Jobs /\ cancelled \subseteq Jobs /\ cancelSeen \subseteq Jobs
    /\ begun \subseteq Jobs /\ suppressed \subseteq Jobs /\ lateUi \subseteq Jobs
    /\ active \in Jobs \cup {NoJob}
    /\ pendingControls \in Int /\ controls \in 0..MaxControls
    /\ steps \in 0..MaxSteps
    /\ pending \in Approvals \cup {NoApproval} /\ asked \in Approvals \cup {NoApproval}
    /\ nextJob \in 1..(MaxJobs + 1) /\ nextApproval \in 1..(MaxApprovals + 1)
    /\ answers \in Seq([id : Approvals \cup {NoApproval}, approved : BOOLEAN])
    /\ call \in [Clients -> {"idle", "submit", "reset", "answer"}]
    /\ reply \in [Clients -> [id : Approvals \cup {NoApproval}, approved : BOOLEAN]]
    /\ thread \in ThreadStates
    /\ outcome \in {"none", "completed", "cancelled", "error"}
    /\ terminal \in [Jobs -> Seq({"completed", "cancelled", "error"})]
    /\ completion \in [Jobs -> {"pending", "result", "exception", "cancelled"}]
    /\ owner \in [Approvals -> Jobs \cup {NoJob}]
    /\ granted \subseteq Approvals /\ executed \subseteq Approvals

(* AgentWorker.quiescent, read under the lock.                              *)
Quiescent ==
    /\ accepted = {} /\ ~processing /\ pendingControls = 0 /\ jobs = <<>>

(* Every job gets at most one of completed/cancelled/error, and the future  *)
(* handed to submit() is resolved by the same decision (_complete_job and   *)
(* the early return of _run_job, workers.py).                               *)
ResolvedOnce ==
    \A j \in Jobs :
        /\ Len(terminal[j]) <= 1
        /\ completion[j] = IF terminal[j] = <<>> THEN "pending"
                           ELSE FutureState(terminal[j][1])

(* The quiescent property licenses a handoff: when a client reads it as     *)
(* true, every job ever accepted has already published its ending and the   *)
(* thread is between commands.                                              *)
QuiescentMeansResolved ==
    Quiescent =>
        /\ \A j \in Jobs : j < nextJob => terminal[j] # <<>>
        /\ thread \in {"unstarted", "boot", "get", "closing", "stopped"}

(* stop() queues one STOP and nothing is ever queued behind it, so no       *)
(* accepted command can be left unread when the thread leaves its loop.     *)
StopIsLast ==
    /\ \A i \in DOMAIN jobs : jobs[i] = Stop => i = Len(jobs)
    /\ cmd = Stop /\ thread \in {"closing", "stopped"} => jobs = <<>>

(* An action is carried out only for an approval the user granted, under    *)
(* its own identifier, while its job was not cancelled: neither a stale     *)
(* answer nor one racing with cancel_current() ever authorises a tool.      *)
ExecutedWereGranted == executed \subseteq granted

(* A request that can still be answered belongs to the active job, whose    *)
(* thread is waiting for it.                                                *)
PendingIsLive ==
    pending # NoApproval =>
        /\ active # NoJob /\ owner[pending] = active
        /\ pending = asked /\ thread \in InApproval

(* Once cancel_current() has returned True for a job, no session "ui" event *)
(* of that job is published, also after the job has retired and its sink is *)
(* used by another thread (_event_callback).                                *)
NoUiAfterCancel == lateUi = {}

(* Where a client that sees every event takes a job to be.                  *)
Status == [j \in Jobs |->
              IF j >= nextJob             THEN "new"
              ELSE IF terminal[j] # <<>>  THEN terminal[j][Len(terminal[j])]
              ELSE IF j \in begun         THEN "running"
              ELSE "queued"]

Service == INSTANCE JobService WITH closing <- stopFlag, status <- Status

(* The worker implements JobService: jobs begin one at a time in order of   *)
(* acceptance and none is accepted or begun after stop().                   *)
ImplementsJobService == Service!Spec

(* After stop() a started thread leaves its loop, whatever the jobs before  *)
(* STOP are doing, an unanswered approval included.                         *)
StopTerminates == stopFlag /\ thread # "unstarted" ~> thread = "stopped"

(* A cancelled active job ends without any answer from the user.            *)
CancelledJobEnds ==
    \A j \in Jobs : active = j /\ j \in cancelled ~> terminal[j] # <<>>

(* The thread has left its loop by an exception, not by STOP.               *)
Died == cmd # Stop /\ thread \in {"unwinding", "closing", "stopped"}

(* An accepted job ends, if no approval stays open for ever and the thread  *)
(* is not killed by a callback.                                             *)
AcceptedJobsEnd ==
    []<>(pending = NoApproval) =>
        \A j \in Jobs : j \in accepted ~> terminal[j] # <<>> \/ Died

(* What is owed to a caller: stop() ends the thread, a cancelled job and an  *)
(* accepted one end.                                                        *)
WorkEnds == StopTerminates /\ CancelledJobEnds /\ AcceptedJobsEnd

(* The same without the escape: submit() "optionally resolve[s] a           *)
(* completion future", reset() queues "before subsequent jobs".             *)
SubmittedJobsEnd ==
    []<>(pending = NoApproval) =>
        \A j \in Jobs : j \in accepted ~> terminal[j] # <<>>
=============================================================================

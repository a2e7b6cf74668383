----------------------------- MODULE ChatFrontend -----------------------------
(***************************************************************************)
(* One chat of the terminal interface (raychat/ui/controller.py, state.py,     *)
(* message_queue.py): what it shows and queues while two workers run for it,   *)
(* one for the conversation and one for commands beside it.                    *)
(*                                                                         *)
(* A frame handles the events of the first worker, then those of the second,   *)
(* then looks at the queue of messages, then reads keys.  The workers run      *)
(* beside it (AgentWorker has them in full): here a job publishes a request,   *)
(* may ask for an approval, and ends.                                        *)
(***************************************************************************)
EXTENDS Naturals, Sequences, FiniteSets

CONSTANTS
  MaxWork,       \* bound on messages, background commands and results of core updates
  MaxAsks        \* bound on approvals

FrontendAssumption == {MaxWork, MaxAsks} \subseteq Nat

VARIABLES
  turn,          \* the frame handles "events" or "keys"
  ended,         \* "no", "left", "raised": an exception left the loop; "late": see ChooseLate
  quitting,
  paused,        \* live.paused
  results,       \* live.update_results, their number
  phase, activeJob, commandJob, startedIdle, approval,
  escape,        \* DoubleEscape: the jobs in hand when the first Escape came, or Unarmed
  failed,        \* history: one of them has ended with an error since
  items, selected, edits, editor,             \* the message queue and the text being edited
  picker,        \* the list of saved sessions is open
  queue, running, stage, cancelled, submitted, events,   \* of both workers
  asked, answer, asks,                        \* _pending_approval and its answer
  entered,       \* history: messages the user has handed over
  sent,          \* history: those a worker accepted, in order
  dropped        \* history: those a cancellation removed from the queue

workerVars == <<queue, running, stage, cancelled, submitted, events, asked, answer, asks>>
editVars   == <<selected, edits, editor>>
viewVars   == <<phase, activeJob, commandJob, startedIdle, approval>>
escapeVars == <<escape, failed>>
textVars   == <<entered, sent, dropped>>
liveVars   == <<paused, results>>
vars == <<turn, ended, quitting, liveVars, viewVars, escapeVars, items, editVars, picker,
          workerVars, textVars>>

Agent   == "agent"
Command == "command"
Workers == {Agent, Command}
NoJob   == 0
Reset   == 0      \* the control command in a worker's queue
Unarmed == [w \in Workers |-> NoJob]
Busy    == {"running", "approval", "stopping"}
Ends    == {"completed", "error", "cancelled"}

Init ==
  /\ turn = "events" /\ ended = "no" /\ quitting = FALSE /\ paused = FALSE /\ results = 0
  /\ phase = "idle" /\ activeJob = NoJob /\ commandJob = NoJob /\ startedIdle = FALSE
  /\ approval = 0 /\ escape = Unarmed /\ failed = FALSE
  /\ items = <<>> /\ selected = 0 /\ edits = <<>> /\ editor = "" /\ picker = FALSE
  /\ queue = [w \in Workers |-> <<>>] /\ running = [w \in Workers |-> NoJob]
  /\ stage = [w \in Workers |-> "idle"] /\ cancelled = [w \in Workers |-> {}]
  /\ submitted = [w \in Workers |-> 0] /\ events = [w \in Workers |-> <<>>]
  /\ asked = 0 /\ answer = "none" /\ asks = 0
  /\ entered = 0 /\ sent = <<>> /\ dropped = {}

Elements(s) == {s[i] : i \in DOMAIN s}

(***************************************************************************)
(* The workers (raychat/workers.py), as far as the interface sees them.        *)
(***************************************************************************)
Accepted(w) == (Elements(queue[w]) \cup {running[w]}) \ {NoJob}
Quiescent   == queue[Agent] = <<>> /\ running[Agent] = NoJob
Alive(w)    == ~ (quitting /\ queue[w] = <<>> /\ running[w] = NoJob)
Interrupted(w) == quitting \/ running[w] \in cancelled[w]

Publish(w, kind) ==
  events' = [events EXCEPT ![w] = Append(@, [kind |-> kind, job |-> running[w], id |-> asked'])]
To(w, s) == stage' = [stage EXCEPT ![w] = s]

\* A step of a running job; only a job of the conversation asks for approvals.
WorkerStep(w) ==
  /\ ended = "no"
  /\ UNCHANGED <<turn, ended, quitting, liveVars, viewVars, escapeVars, items, editVars,
                 picker, textVars, submitted>>

Take(w) ==
  /\ WorkerStep(w) /\ running[w] = NoJob /\ queue[w] # <<>>
  /\ queue' = [queue EXCEPT ![w] = Tail(@)]
  /\ IF Head(queue[w]) = Reset THEN UNCHANGED <<running, stage>>
     ELSE running' = [running EXCEPT ![w] = Head(queue[w])] /\ To(w, "working")
  /\ UNCHANGED <<cancelled, events, asked, answer, asks>>

Interrupt(w) ==
  /\ WorkerStep(w) /\ stage[w] \notin {"idle", "ended"} /\ Interrupted(w)
  /\ IF w = Agent THEN asked' = 0 /\ answer' = "none" ELSE UNCHANGED <<asked, answer>>
  /\ Publish(w, "cancelled") /\ To(w, "ended")
  /\ UNCHANGED <<queue, running, cancelled, asks>>

Proceed(w, from, kind, to) ==
  /\ WorkerStep(w) /\ stage[w] = from /\ ~ Interrupted(w)
  /\ UNCHANGED <<queue, running, cancelled, asked, answer, asks>>
  /\ Publish(w, kind) /\ To(w, to)

\* A request event changes nothing while a task is shown as running.
Restored == Proceed(Agent, "working", "session_restored", "replied")
Result   == Proceed(Agent, "acting", "result", "replied")
Done(w)  == \E s \in {"working", "replied"} : Proceed(w, s, "done", "finishing")
Complete(w) == Proceed(w, "finishing", "completed", "ended")
Fail(w)  == \E s \in {"working", "acting", "replied"} : Proceed(w, s, "error", "ended")

Ask ==
  /\ WorkerStep(Agent) /\ stage[Agent] = "working" /\ ~ Interrupted(Agent) /\ asks < MaxAsks
  /\ asks' = asks + 1 /\ asked' = asks' /\ answer' = "none"
  /\ Publish(Agent, "approval_required") /\ To(Agent, "asking")
  /\ UNCHANGED <<queue, running, cancelled>>

Answered ==
  /\ WorkerStep(Agent) /\ stage[Agent] = "asking" /\ ~ Interrupted(Agent) /\ answer # "none"
  /\ asked' = 0 /\ answer' = "none" /\ To(Agent, "acting")
  /\ UNCHANGED <<queue, running, cancelled, events, asks>>

\* The end is published while the job is still accepted.
Retire(w) ==
  /\ WorkerStep(w) /\ stage[w] = "ended"
  /\ running' = [running EXCEPT ![w] = NoJob] /\ To(w, "idle")
  /\ cancelled' = [cancelled EXCEPT ![w] = @ \ {running[w]}]
  /\ UNCHANGED <<queue, events, asked, answer, asks>>

WorkersNext ==
  \/ \E w \in Workers : Take(w) \/ Interrupt(w) \/ Done(w) \/ Complete(w) \/ Fail(w) \/ Retire(w)
  \/ Restored \/ Result \/ Ask \/ Answered

(***************************************************************************)
(* Calls from the interface into a worker.                                   *)
(***************************************************************************)
Submit(w) ==
  /\ submitted' = [submitted EXCEPT ![w] = @ + 1]
  /\ queue' = [queue EXCEPT ![w] = Append(@, submitted'[w])]
  /\ UNCHANGED <<running, stage, cancelled, events, asked, answer, asks>>

Cancels(w, job) == job \in Accepted(w)
Cancel(w, job) ==
  /\ cancelled' = [cancelled EXCEPT ![w] = @ \cup {job}]
  /\ asked' = IF w = Agent /\ job = running[w] THEN 0 ELSE asked
  /\ UNCHANGED <<queue, running, stage, submitted, events, answer, asks>>

Answers(id) == id # 0 /\ id = asked /\ answer = "none"
Respond(id, decision) ==
  /\ answer' = IF Answers(id) THEN decision ELSE answer
  /\ UNCHANGED <<queue, running, stage, cancelled, submitted, events, asked, asks>>

(***************************************************************************)
(* Events of the conversation's worker.                                      *)
(***************************************************************************)
\* Planted error: an event of an earlier job counts for the present one.
CurrentAny(e, job) == job # NoJob
Current(e, job) == e.job = job
\* Planted error: a stopping chat still shows what its job publishes.
AcceptsEventStopping(e) == Current(e, activeJob)
AcceptsEvent(e) ==
  /\ Current(e, activeJob)
  /\ phase = "stopping" => e.kind \in Ends

Consume(w) == events' = [events EXCEPT ![w] = Tail(@)]
Handling(w) ==
  /\ ended = "no" /\ turn = "events" /\ events[w] # <<>>
  /\ UNCHANGED <<turn, quitting, liveVars, items, editVars, picker, textVars,
                 queue, running, stage, cancelled, submitted, asked, asks>>

IgnoreEvent ==
  /\ Handling(Agent) /\ ~ AcceptsEvent(Head(events[Agent]))
  /\ Consume(Agent) /\ UNCHANGED <<ended, viewVars, escapeVars, answer>>

ShowProgress ==
  LET e == Head(events[Agent]) IN
  /\ Handling(Agent) /\ AcceptsEvent(e) /\ Consume(Agent)
  /\ \/ /\ e.kind = "session_restored" /\ phase' = "idle" /\ UNCHANGED approval
     \/ /\ e.kind = "result" /\ approval' = 0
        /\ phase' = IF phase \in {"stopping", "error", "done"} THEN phase ELSE "running"
     \/ /\ e.kind = "done" /\ phase' = "done" /\ approval' = 0
  /\ UNCHANGED <<ended, activeJob, commandJob, startedIdle, escapeVars, answer>>

\* begin_approval raises outside of a running task.
ShowApproval ==
  LET e == Head(events[Agent]) IN
  /\ Handling(Agent) /\ AcceptsEvent(e) /\ e.kind = "approval_required" /\ Consume(Agent)
  /\ UNCHANGED <<activeJob, commandJob, startedIdle, escapeVars>>
  /\ \/ /\ quitting /\ UNCHANGED <<ended, phase, approval>>
        /\ answer' = IF Answers(e.id) THEN "no" ELSE answer
     \/ /\ ~ quitting /\ phase \in {"running", "approval"}
        /\ phase' = "approval" /\ approval' = e.id /\ UNCHANGED <<ended, answer>>
     \/ /\ ~ quitting /\ phase \notin {"running", "approval"}
        /\ ended' = "raised" /\ UNCHANGED <<phase, approval, answer>>

Disarm == escape' = Unarmed /\ failed' = FALSE
\* Planted error: the first Escape outlives a job that completed.
EndsGestureKept(kind) == kind = "cancelled"
\* An error leaves the first Escape of a gesture armed.
EndsGesture(kind) == kind \in {"completed", "cancelled"}
FinishJob ==
  LET e == Head(events[Agent]) IN
  /\ Handling(Agent) /\ AcceptsEvent(e) /\ e.kind \in Ends /\ Consume(Agent)
  /\ activeJob' = NoJob
  /\ \/ e.kind = "cancelled" /\ phase' = "idle" /\ approval' = 0
     \/ /\ e.kind = "completed" /\ UNCHANGED approval
        /\ phase' = IF phase = "stopping" /\ ~ quitting THEN "idle" ELSE phase
     \/ e.kind = "error" /\ phase' = "error" /\ approval' = 0
  /\ IF EndsGesture(e.kind) THEN Disarm
     ELSE failed' = (escape # Unarmed /\ e.kind = "error") /\ UNCHANGED escape
  /\ UNCHANGED <<ended, commandJob, startedIdle, answer>>

(***************************************************************************)
(* Events of the command's worker.                                           *)
(***************************************************************************)
Outcome(kind) ==
  CASE kind = "done" -> "done" [] kind = "error" -> "error" [] kind = "cancelled" -> "idle"

HandleCommandEvent ==
  LET e == Head(events[Command])
      shown == e.kind # "completed" /\ startedIdle /\ activeJob = NoJob IN
  /\ Handling(Command) /\ events[Agent] = <<>> /\ Consume(Command)
  /\ IF ~ Current(e, commandJob) THEN UNCHANGED <<viewVars, escapeVars>>
     ELSE /\ phase' = IF shown THEN Outcome(e.kind) ELSE phase
          /\ approval' = IF shown THEN 0 ELSE approval
          /\ IF e.kind \in Ends THEN commandJob' = NoJob /\ startedIdle' = FALSE /\ Disarm
             ELSE UNCHANGED <<commandJob, startedIdle, escapeVars>>
          /\ UNCHANGED activeJob
  /\ UNCHANGED <<ended, answer>>

(***************************************************************************)
(* Starting work.  authorize_dispatch() polls the bridge, which may pause the  *)
(* queue; state.start() and submit() raise when a task runs or the worker is   *)
(* told to stop.                                                             *)
(***************************************************************************)
Authorized == ~ paused /\ UNCHANGED paused
Denied     == paused' = TRUE
Startable  == phase \notin Busy /\ ~ quitting

Begin ==
  IF Startable THEN /\ phase' = "running" /\ Submit(Agent) /\ activeJob' = submitted'[Agent]
                    /\ UNCHANGED ended
  ELSE ended' = "raised" /\ UNCHANGED <<phase, activeJob, workerVars>>

Work == entered + results + (submitted[Agent] - Len(sent)) + submitted[Command]
Enqueue ==
  /\ items' = Append(items, [entry |-> entered + 1, text |-> "text"])
  /\ entered' = entered + 1

\* _submit_task: the worker takes the text, or it waits in the queue.
SubmitTask ==
  /\ Work < MaxWork
  /\ \/ /\ Authorized /\ Begin /\ entered' = entered + 1 /\ sent' = Append(sent, entered')
        /\ UNCHANGED items
     \/ /\ Denied /\ Enqueue /\ activeJob' = NoJob
        /\ UNCHANGED <<ended, phase, workerVars, sent>>

Idle == ~ quitting /\ activeJob = NoJob /\ commandJob = NoJob
\* Planted error: the refused message stays at the end, where it was appended.
RefusedLast(taken) == Append(Tail(items), taken)
\* A refused message has been appended again: the queue as it was comes back.
Refused(taken) == items

FrameKeys ==
  /\ ended = "no" /\ turn = "events" /\ events = [w \in Workers |-> <<>>] /\ turn' = "keys"
  /\ UNCHANGED <<quitting, commandJob, startedIdle, approval, escapeVars, editVars, picker,
                 dropped, entered>>

ReviewDue  == ~ paused /\ results > 0
MessageDue == ~ paused /\ results = 0 /\ selected = 0 /\ items # <<>> /\ Idle /\ phase # "approval"

DrainNothing ==
  /\ FrameKeys /\ ~ (ReviewDue /\ Idle /\ Quiescent) /\ ~ MessageDue
  /\ UNCHANGED <<ended, liveVars, phase, activeJob, items, sent, workerVars>>

DrainRefused ==
  /\ FrameKeys /\ Denied
  /\ \/ ReviewDue /\ Idle /\ Quiescent /\ UNCHANGED items
     \/ MessageDue /\ items' = Refused(Head(items))
  /\ UNCHANGED <<ended, results, phase, activeJob, sent, workerVars>>

DrainReview ==
  /\ FrameKeys /\ ReviewDue /\ Idle /\ Quiescent /\ Authorized
  /\ results' = results - 1 /\ Begin
  /\ UNCHANGED <<items, sent>>

DrainMessage ==
  /\ FrameKeys /\ MessageDue /\ Authorized
  /\ items' = Tail(items) /\ sent' = Append(sent, Head(items).entry) /\ Begin
  /\ UNCHANGED results

\* The next frame polls the bridge before it looks at events.
NextFrame ==
  /\ ended = "no" /\ turn = "keys" /\ turn' = "events"
  /\ IF quitting /\ ~ Alive(Agent) /\ ~ Alive(Command) THEN ended' = "left" /\ UNCHANGED liveVars
     ELSE /\ UNCHANGED ended /\ paused' \in BOOLEAN
          /\ results' \in {results} \cup {n \in {results + 1} : Work < MaxWork}
  /\ UNCHANGED <<quitting, viewVars, escapeVars, items, editVars, picker, workerVars, textVars>>

(***************************************************************************)
(* The message queue and its edit transaction.                               *)
(***************************************************************************)
Editing == selected # 0
Remembered == IF ~ Editing THEN edits
              ELSE [n \in DOMAIN edits \cup {items[selected].entry} |->
                      IF n = items[selected].entry THEN editor ELSE edits[n]]
Text(n, edited) == IF items[n].entry \in DOMAIN edited THEN edited[items[n].entry] ELSE items[n].text
Committed == [i \in DOMAIN items |-> [items[i] EXCEPT !.text = Text(i, Remembered)]]
Opened(i) == edits' = Remembered /\ selected' = i /\ editor' = Text(i, edits')
Closed == selected' = 0 /\ edits' = <<>> /\ editor' = ""

(***************************************************************************)
(* Keys.  A text is typed and handed over in one step; while a message of the  *)
(* queue is edited, the composer holds its text and the draft is put aside.    *)
(***************************************************************************)
KeyPress  == ended = "no" /\ turn = "keys" /\ UNCHANGED <<turn, results>>
Active    == (activeJob # NoJob \/ commandJob # NoJob) /\ ~ quitting
InSession == ~ picker /\ phase # "approval" /\ ~ quitting
BusyInput == phase \in {"running", "stopping"} \/ activeJob # NoJob \/ commandJob # NoJob \/ items # <<>>
Untouched == UNCHANGED <<viewVars, workerVars, sent, dropped, ended, quitting, picker>>

EditText ==
  /\ KeyPress /\ InSession /\ Disarm /\ Editing
  /\ editor' \in {"", "edited"} \ {editor}
  /\ Untouched /\ UNCHANGED <<items, selected, edits, paused, entered>>

OpenMessage ==
  /\ KeyPress /\ InSession /\ Disarm
  /\ \E i \in DOMAIN items : Opened(i)
  /\ Untouched /\ UNCHANGED <<items, paused, entered>>

\* An edit to nothing keeps the transaction open.
SaveEdits ==
  /\ KeyPress /\ InSession /\ Disarm /\ Editing
  /\ \/ /\ \E n \in DOMAIN Remembered : Remembered[n] = ""
        /\ edits' = Remembered /\ UNCHANGED <<items, selected, editor>>
     \/ /\ \A n \in DOMAIN Remembered : Remembered[n] # ""
        /\ items' = Committed /\ Closed
  /\ Untouched /\ UNCHANGED <<paused, entered>>

\* While the queue is paused, Enter adds a text to it.
EnterPaused ==
  /\ KeyPress /\ InSession /\ paused /\ ~ Editing /\ Work < MaxWork
  /\ Enqueue /\ Untouched /\ UNCHANGED <<escapeVars, editVars, paused>>

Enter == KeyPress /\ ~ Editing /\ Disarm /\ UNCHANGED <<editVars, dropped, quitting>>

EnterQueued ==
  /\ Enter /\ InSession /\ ~ paused /\ BusyInput /\ Work < MaxWork
  /\ Enqueue
  /\ UNCHANGED <<viewVars, workerVars, sent, ended, picker, paused>>

EnterTask ==
  /\ Enter /\ InSession /\ ~ paused /\ ~ BusyInput
  /\ SubmitTask /\ UNCHANGED <<commandJob, startedIdle, approval, picker>>

OpenPicker ==
  /\ Enter /\ InSession /\ ~ paused /\ ~ BusyInput /\ picker' = TRUE
  /\ UNCHANGED <<viewVars, workerVars, entered, sent, ended, items, paused>>

\* One reset that waits is as good as two.
EnterClear ==
  /\ Enter /\ InSession /\ ~ paused /\ ~ BusyInput /\ Reset \notin Elements(queue[Agent])
  /\ phase' = "idle" /\ queue' = [queue EXCEPT ![Agent] = Append(@, Reset)]
  /\ UNCHANGED <<activeJob, commandJob, startedIdle, approval, running, stage, cancelled, submitted,
                 events, asked, answer, asks, entered, sent, ended, picker, items, paused>>

Choose ==
  /\ Enter /\ picker /\ Idle /\ phase \notin Busy /\ picker' = FALSE
  /\ SubmitTask /\ UNCHANGED <<commandJob, startedIdle, approval>>

\* A choice is submitted whatever has begun since the list was opened: start()
\* or submit() raises, or a paused queue makes the chat forget its running job.
\* The model stops there.
ChooseLate ==
  /\ Enter /\ picker /\ (~ Idle \/ phase \in Busy) /\ ended' = "late"
  /\ UNCHANGED <<viewVars, workerVars, entered, sent, picker, items, paused>>

\* Commands of the application run beside everything, those of the session while
\* it is busy and not stopping.  A second one is refused with a notice.
EnterCommand ==
  /\ Enter /\ ~ picker /\ ~ quitting /\ ~ paused /\ commandJob = NoJob /\ Work < MaxWork
  /\ \/ /\ Authorized
        /\ startedIdle' = (activeJob = NoJob)
        /\ IF startedIdle' /\ phase \in Busy
           THEN ended' = "raised" /\ UNCHANGED <<phase, commandJob, workerVars>>
           ELSE /\ phase' = IF startedIdle' THEN "running" ELSE phase
                /\ Submit(Command) /\ commandJob' = submitted'[Command] /\ UNCHANGED ended
        /\ UNCHANGED <<items, entered>>
     \/ /\ Denied /\ Enqueue
        /\ UNCHANGED <<phase, commandJob, startedIdle, workerVars, ended>>
  /\ UNCHANGED <<activeJob, approval, sent, picker>>

\* An approval can be given once it was reviewed to its end (ApprovalReview).
Approve ==
  /\ Enter /\ ~ picker /\ phase = "approval" /\ Answers(approval)
  /\ Respond(approval, "yes") /\ phase' = "running" /\ approval' = 0
  /\ UNCHANGED <<activeJob, commandJob, startedIdle, entered, sent, ended, picker, items, paused>>

FirstEscape ==
  escape' = IF Active THEN [w \in Workers |-> IF w = Agent THEN activeJob ELSE commandJob] ELSE Unarmed

Escape ==
  /\ KeyPress /\ FirstEscape /\ failed' = FALSE /\ picker' = FALSE
  /\ IF Editing /\ ~ picker /\ phase # "approval" THEN Closed ELSE UNCHANGED editVars
  /\ IF ~ picker /\ phase = "approval" /\ Answers(approval)
     THEN Respond(approval, "no") /\ phase' = "running" /\ approval' = 0
     ELSE UNCHANGED <<phase, approval, workerVars>>
  /\ UNCHANGED <<paused, items, textVars, ended, quitting, activeJob, commandJob, startedIdle>>

Stopping(p) == IF p \in {"running", "approval", "done"} THEN "stopping" ELSE p
Emptied ==
  /\ Closed /\ items' = <<>>
  /\ dropped' = dropped \cup {items[i].entry : i \in DOMAIN items}

DoubleEscape ==
  /\ KeyPress /\ ~ picker /\ escape # Unarmed /\ Active /\ Disarm
  /\ UNCHANGED <<paused, entered, sent, ended, quitting, picker>>

CancelCommand ==
  /\ DoubleEscape /\ commandJob # NoJob /\ Emptied
  /\ IF Cancels(Command, commandJob) THEN Cancel(Command, commandJob) ELSE UNCHANGED workerVars
  /\ commandJob' = NoJob /\ startedIdle' = FALSE
  /\ IF startedIdle /\ activeJob = NoJob THEN phase' = "idle" /\ approval' = 0
     ELSE UNCHANGED <<phase, approval>>
  /\ UNCHANGED activeJob

CancelJob ==
  /\ DoubleEscape /\ commandJob = NoJob /\ phase # "stopping" /\ Cancels(Agent, activeJob)
  /\ Emptied /\ Cancel(Agent, activeJob)
  /\ phase' = Stopping(phase) /\ approval' = 0
  /\ UNCHANGED <<activeJob, commandJob, startedIdle>>

CancelNothing ==
  /\ DoubleEscape /\ commandJob = NoJob /\ (phase = "stopping" \/ ~ Cancels(Agent, activeJob))
  /\ UNCHANGED <<viewVars, workerVars, items, editVars, dropped>>

RequestQuit ==
  /\ KeyPress /\ ~ quitting /\ quitting' = TRUE
  /\ IF approval # 0 THEN Respond(approval, "no") ELSE UNCHANGED workerVars
  /\ phase' = Stopping(phase)
  /\ UNCHANGED <<activeJob, commandJob, startedIdle, approval, escapeVars, items, editVars, picker,
                 paused, textVars, ended>>

KeysNext ==
  \/ EditText \/ OpenMessage \/ SaveEdits \/ EnterPaused \/ EnterQueued \/ EnterTask
  \/ OpenPicker \/ EnterClear \/ Choose \/ ChooseLate \/ EnterCommand \/ Approve \/ Escape
  \/ CancelCommand \/ CancelJob \/ CancelNothing \/ RequestQuit

Next ==
  \/ WorkersNext \/ KeysNext
  \/ IgnoreEvent \/ ShowProgress \/ ShowApproval \/ FinishJob \/ HandleCommandEvent
  \/ DrainNothing \/ DrainRefused \/ DrainReview \/ DrainMessage \/ NextFrame

Spec == Init /\ [][Next]_vars

(***************************************************************************)
(* Properties                                                                *)
(***************************************************************************)
Jobs(w) == 0..submitted[w]
TypeOK ==
  /\ turn \in {"events", "keys"} /\ ended \in {"no", "left", "raised", "late"}
  /\ {quitting, paused, startedIdle, picker, failed} \subseteq BOOLEAN
  /\ results \in 0..MaxWork
  /\ phase \in {"idle", "running", "approval", "stopping", "done", "error"}
  /\ activeJob \in Jobs(Agent) /\ commandJob \in Jobs(Command) /\ approval \in 0..MaxAsks
  /\ editor \in {"", "text", "edited"}
  /\ \A i \in DOMAIN items : items[i].entry \in 1..entered
  /\ \A w \in Workers :
       /\ Elements(queue[w]) \subseteq Jobs(w) /\ running[w] \in Jobs(w)
       /\ cancelled[w] \subseteq Jobs(w)
  /\ asked \in 0..asks /\ asks \in 0..MaxAsks /\ answer \in {"none", "yes", "no"}
  /\ entered \in 0..MaxWork

\* No key, event or queued message makes the interface raise: it never starts a
\* task while one runs, and shows no approval outside of one (controller.py
\* _drain_queue, _accept_worker_event; state.py start, begin_approval).
NeverRaises == ended # "raised"

\* The end of a job is still to be seen: it is accepted and not ended, or its end
\* is among the events.
EndDue(w, job) ==
  \/ job \in Elements(queue[w])
  \/ running[w] = job /\ stage[w] # "ended"
  \/ \E i \in DOMAIN events[w] : events[w][i].job = job /\ events[w][i].kind \in Ends

\* What the chat shows is what its workers do: a job it waits for will be seen to
\* end, a busy phase has such a job, and a worker that waits for an answer is shown
\* (or about to be) with that approval and no other (controller.py
\* worker_event_is_current, _finish_worker_job, _process_cancel_key).
PhaseMatchesWork ==
  ended = "no" =>
    /\ activeJob # NoJob => EndDue(Agent, activeJob)
    /\ commandJob # NoJob => EndDue(Command, commandJob)
    /\ ~ quitting =>
         /\ phase \in Busy => activeJob # NoJob \/ (commandJob # NoJob /\ startedIdle)
         /\ (phase = "approval") = (approval # 0)
         /\ phase = "stopping" => activeJob \in cancelled[Agent] \/ activeJob \notin Accepted(Agent)
         /\ stage[Agent] = "asking" /\ ~ Interrupted(Agent) /\ answer = "none" =>
              \/ approval = asked /\ activeJob = running[Agent]
              \/ \E i \in DOMAIN events[Agent] : events[Agent][i].id = asked
                   /\ events[Agent][i].kind = "approval_required" /\ events[Agent][i].job = activeJob

\* Every message is in exactly one of the queue, a worker's hands and the messages
\* a cancellation removed; workers get them in the order they were entered, and an
\* edit is complete or absent (message_queue.py; controller.py _drain_queue,
\* _submit_task).
Waiting == {items[i].entry : i \in DOMAIN items}
QueueHonest ==
  ended = "no" =>
    /\ Waiting \cup Elements(sent) \cup dropped = 1..entered
    /\ Len(items) + Len(sent) + Cardinality(dropped) = entered
    /\ \A i, j \in DOMAIN items : i < j => items[i].entry < items[j].entry
    /\ \A i, j \in DOMAIN sent : i < j => sent[i] < sent[j]
    /\ \A i \in DOMAIN items : items[i].text # "" /\ \A n \in Elements(sent) : n < items[i].entry
    /\ selected \in 0..Len(items) /\ DOMAIN edits \subseteq Waiting

\* A double Escape cancels a job that was in hand at the first of the two
\* (terminal.py DoubleEscape; controller.py _finish_worker_job resets it).
CancelsItsJob ==
  ~ failed => \A w \in Workers : cancelled'[w] \ cancelled[w] \subseteq {escape[w]}
EscapeHitsItsJob == [][CancelsItsJob]_vars
=============================================================================

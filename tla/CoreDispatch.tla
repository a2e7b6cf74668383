---------------------------- MODULE CoreDispatch ----------------------------
(***************************************************************************)
(* The protocol between the supervisor (raychat_bootstrap/supervisor.py,   *)
(* class Supervisor) and the core it runs (raychat/core_bridge.py, class   *)
(* CoreBridge; raychat/ui/controller.py): who may start queued work, what  *)
(* is durable before it starts, and what comes back when the core, or the  *)
(* supervisor with it, dies.  Two ordered streams connect them; either     *)
(* side acts between any two messages.                                     *)
(*                                                                         *)
(* A core that replaces another is a new incarnation, ready at once: how   *)
(* the supervisor launches, probes and stops processes is left out here.   *)
(* Of a state document the model keeps the message queue.                  *)
(***************************************************************************)
EXTENDS Integers, Sequences, FiniteSets, SequencesExt

CONSTANTS
    MaxPrompts,     \* bound on prompts the user enters
    MaxResults,     \* bound on update results
    MaxCores,       \* bound on incarnations of the core
    MaxUpdates,     \* bound on requested updates
    MaxResumes,     \* bound on /resume-queue
    MaxClaims,      \* bound on claims of an update result
    MaxFailures     \* bound on failing writes of the manifest

BoundsAssumption ==
    {MaxPrompts, MaxResults, MaxCores, MaxUpdates, MaxResumes, MaxClaims,
     MaxFailures} \subseteq Nat

Prompts == 1..MaxPrompts
Results == 1..MaxResults

VARIABLES
    \* the supervisor: last_state, update_results, claimed_results, the
    \* transition task, its idle and captured events, crash already noticed
    last, results, claimed, transition, idle, captured, noticed,
    manifest,                  \* recovery.json
    toCore, toSup,             \* the control streams
    \* the core: CoreBridge.active, draining, frozen; the frontend's
    \* handoff_idle_sent, handoff_saved, message queue, update_results
    core, alive, active, draining, frozen, idleSent, handoffSaved, queue, inbox,
    ui,                        \* the frontend: free, or waiting in authorize_dispatch
    job,                       \* the job of the worker
    typed, made, updates, resumes, claims, failures,   \* bounded counters
    \* history, read by no guard
    ran, calls, callers, granted, lost

supVars    == <<last, results, claimed, transition, idle, captured, noticed>>
streamVars == <<toCore, toSup>>
bridgeVars == <<core, alive, active, draining, frozen, idleSent, handoffSaved>>
workVars   == <<queue, inbox, ui, job>>
countVars  == <<typed, made, updates, resumes, claims, failures>>
histVars   == <<ran, calls, callers, granted, lost>>
vars == <<supVars, manifest, streamVars, bridgeVars, workVars, countVars, histVars>>

NoUi  == [kind |-> "free", item |-> 0, queued |-> <<>>, acked |-> FALSE]
NoJob == [kind |-> "none", item |-> 0, stage |-> "none", token |-> 0]

Message(kind, item, token, q) == [kind |-> kind, item |-> item, token |-> token,
                                  queue |-> q]
Signal(kind)  == Message(kind, 0, 0, <<>>)
Elements(seq) == {seq[i] : i \in DOMAIN seq}

Init ==
    /\ last = <<>> /\ results = {} /\ claimed = {} /\ transition = "none"
    /\ idle = FALSE /\ captured = FALSE /\ noticed = FALSE
    /\ manifest = [queue |-> <<>>, results |-> {}, claimed |-> {}]
    /\ toCore = <<>> /\ toSup = <<>>
    /\ core = 1 /\ alive = TRUE /\ active = TRUE /\ draining = FALSE
    /\ frozen = FALSE /\ idleSent = FALSE /\ handoffSaved = FALSE
    /\ queue = <<>> /\ inbox = {} /\ ui = NoUi /\ job = NoJob
    /\ typed = 0 /\ made = 0 /\ updates = 0 /\ resumes = 0 /\ claims = 0
    /\ failures = 0
    /\ ran = [p \in Prompts |-> 0] /\ calls = [r \in Results |-> 0]
    /\ callers = [r \in Results |-> {}] /\ granted = TRUE /\ lost = FALSE

-----------------------------------------------------------------------------
(* The core's frontend thread.                                              *)

Paused    == ~active \/ draining \/ frozen
Reads     == alive /\ active /\ ~frozen /\ ui.kind = "free"
Quiescent == ui.kind = "free" /\ job = NoJob

SendToSup(m) == toSup' = Append(toSup, m)

(* A prompt entered while the core is paused or busy is queued.             *)
Enter ==
    /\ Reads /\ typed < MaxPrompts
    /\ Paused \/ ~Quiescent
    /\ typed' = typed + 1
    /\ queue' = Append(queue, typed + 1)
    /\ UNCHANGED <<supVars, manifest, streamVars, bridgeVars, inbox, ui, job, made,
                   updates, resumes, claims, failures, histVars>>

RequestUpdate ==
    /\ Reads /\ updates < MaxUpdates
    /\ updates' = updates + 1
    /\ SendToSup(Signal("update"))
    /\ UNCHANGED <<supVars, manifest, toCore, bridgeVars, workVars, typed, made,
                   resumes, claims, failures, histVars>>

RequestResume ==
    /\ Reads /\ resumes < MaxResumes
    /\ resumes' = resumes + 1
    /\ SendToSup(Signal("resume_queue"))
    /\ UNCHANGED <<supVars, manifest, toCore, bridgeVars, workVars, typed, made,
                   updates, claims, failures, histVars>>

(* _drain_queue, _continue_update and authorize_dispatch: the intent, a     *)
(* view of the queue without the prompt, is sent, and the frontend waits    *)
(* for the acknowledgement.                                                 *)
AskDispatch(kind, item, rest, back) ==
    /\ alive /\ ~Paused /\ Quiescent
    /\ ui' = [kind |-> kind, item |-> item, queued |-> back, acked |-> FALSE]
    /\ queue' = rest
    /\ SendToSup(Message("dispatch", item, 0, rest))
    /\ UNCHANGED <<supVars, manifest, toCore, bridgeVars, inbox, job, made, updates,
                   resumes, claims, failures, histVars>>

(* Planted error: the view is captured before the prompt is taken off.      *)
TakePromptLate ==
    /\ inbox = {} /\ queue # <<>>
    /\ alive /\ ~Paused /\ Quiescent
    /\ ui' = [kind |-> "prompt", item |-> Head(queue), queued |-> queue,
              acked |-> FALSE]
    /\ queue' = Tail(queue)
    /\ SendToSup(Message("dispatch", Head(queue), 0, queue))
    /\ UNCHANGED <<supVars, manifest, toCore, bridgeVars, inbox, job, typed, made,
                   updates, resumes, claims, failures, histVars>>

(* _drain_queue: a pending update result goes first.                        *)
TakePrompt ==
    /\ inbox = {} /\ queue # <<>>
    /\ AskDispatch("prompt", Head(queue), Tail(queue), queue)
    /\ UNCHANGED typed

(* A prompt entered while the core is idle does not pass through the queue. *)
Submit ==
    /\ Reads /\ typed < MaxPrompts
    /\ typed' = typed + 1
    /\ AskDispatch("prompt", typed + 1, queue, Append(queue, typed + 1))

TakeReview ==
    /\ \E r \in inbox : AskDispatch("review", r, queue, queue)
    /\ UNCHANGED typed

(* Planted error: the acknowledgement is not waited for.                    *)
StartWorkUnacked ==
    /\ alive /\ ~Paused
    /\ ui' = NoUi
    /\ job' = [NoJob EXCEPT !.kind = ui.kind, !.item = ui.item, !.stage = "started"]
    /\ inbox' = inbox \ {ui.item}
    /\ UNCHANGED <<supVars, manifest, streamVars, bridgeVars, queue, countVars,
                   histVars>>

(* Planted error: a prompt that may not start any more is not put back.     *)
StartWorkDropped ==
    /\ alive /\ ui.acked
    /\ ui' = NoUi
    /\ IF Paused
       THEN UNCHANGED <<queue, inbox, job, ran>>
       ELSE /\ job' = [NoJob EXCEPT !.kind = ui.kind, !.item = ui.item,
                                    !.stage = "started"]
            /\ inbox' = IF ui.kind = "review" THEN inbox \ {ui.item} ELSE inbox
            /\ ran' = IF ui.kind = "prompt" THEN [ran EXCEPT ![ui.item] = @ + 1]
                      ELSE ran
            /\ UNCHANGED queue
    /\ UNCHANGED <<supVars, manifest, streamVars, bridgeVars, countVars, calls,
                   callers, granted, lost>>

(* The frontend wakes with the acknowledgement; if the core has been paused *)
(* meanwhile the queue is put back and the result stays where it is.        *)
StartWork ==
    /\ alive /\ ui.acked
    /\ ui' = NoUi
    /\ IF Paused
       THEN queue' = ui.queued /\ UNCHANGED <<inbox, job, ran>>
       ELSE /\ job' = [NoJob EXCEPT !.kind = ui.kind, !.item = ui.item,
                                    !.stage = "started"]
            /\ inbox' = IF ui.kind = "review" THEN inbox \ {ui.item} ELSE inbox
            /\ ran' = IF ui.kind = "prompt" THEN [ran EXCEPT ![ui.item] = @ + 1]
                      ELSE ran
            /\ UNCHANGED queue
    /\ UNCHANGED <<supVars, manifest, streamVars, bridgeVars, countVars, calls,
                   callers, granted, lost>>

(* CoreBridge.poll, one message; continue and activate are one handler.     *)
Poll ==
    /\ alive /\ toCore # <<>>
    /\ toCore' = Tail(toCore)
    /\ LET m == Head(toCore) IN
        /\ active' = (active \/ m.kind \in {"activate", "continue"})
        /\ draining' = CASE m.kind = "drain" -> TRUE
                         [] m.kind \in {"activate", "continue"} -> FALSE
                         [] OTHER -> draining
        /\ frozen' = CASE m.kind = "capture" -> TRUE
                       [] m.kind \in {"activate", "continue"} -> FALSE
                       [] OTHER -> frozen
        /\ inbox' = IF m.kind = "update_result" THEN inbox \cup {m.item} ELSE inbox
        /\ ui' = IF m.kind = "dispatch_ack" THEN [ui EXCEPT !.acked = TRUE] ELSE ui
        /\ LET receipt == m.kind = "claim_ack" /\ job.stage = "claiming"
                              /\ job.token = m.token
               accepted == receipt /\ m.item # 0
           IN  /\ job' = IF accepted THEN [job EXCEPT !.stage = "calling"]
                         ELSE IF receipt THEN NoJob ELSE job
               /\ calls' = IF accepted THEN [calls EXCEPT ![m.item] = @ + 1]
                           ELSE calls
               /\ callers' = IF accepted THEN [callers EXCEPT ![m.item] = @ \cup {core}]
                             ELSE callers
    /\ UNCHANGED <<supVars, manifest, toSup, core, alive, idleSent, handoffSaved,
                   queue, countVars, ran, granted, lost>>

(* _process_handoff, part by part.                                          *)
Undrained ==
    /\ alive /\ ui.kind = "free" /\ ~draining /\ (idleSent \/ handoffSaved)
    /\ idleSent' = FALSE /\ handoffSaved' = FALSE
    /\ UNCHANGED <<supVars, manifest, streamVars, core, alive, active, draining,
                   frozen, workVars, countVars, histVars>>

(* At most one a second: none is sent while one is on its way.              *)
Checkpoint ==
    /\ alive /\ active /\ ~draining /\ Quiescent
    /\ ~\E m \in Elements(toSup) : m.kind = "checkpoint"
    /\ SendToSup(Message("checkpoint", 0, 0, queue))
    /\ UNCHANGED <<supVars, manifest, toCore, bridgeVars, workVars, countVars,
                   histVars>>

SendIdle ==
    /\ alive /\ draining /\ ~idleSent /\ Quiescent
    /\ idleSent' = TRUE
    /\ SendToSup(Signal("idle"))
    /\ UNCHANGED <<supVars, manifest, toCore, core, alive, active, draining, frozen,
                   handoffSaved, workVars, countVars, histVars>>

SendHandoff ==
    /\ alive /\ frozen /\ ~handoffSaved /\ ui.kind = "free"
    /\ handoffSaved' = TRUE
    /\ SendToSup(Message("handoff", 0, 0, queue))
    /\ UNCHANGED <<supVars, manifest, toCore, core, alive, active, draining, frozen,
                   idleSent, workVars, countVars, histVars>>

-----------------------------------------------------------------------------
(* The core's worker.                                                       *)

FinishPrompt ==
    /\ alive /\ job.kind = "prompt"
    /\ job' = NoJob
    /\ UNCHANGED <<supVars, manifest, streamVars, bridgeVars, queue, inbox, ui,
                   countVars, histVars>>

(* _claim_core_result, immediately before the first provider request.       *)
Claim ==
    /\ alive /\ job.kind = "review" /\ job.stage = "started"
    /\ claims < MaxClaims
    /\ claims' = claims + 1
    /\ job' = [job EXCEPT !.stage = "claiming", !.token = claims + 1]
    /\ SendToSup(Message("claim", job.item, claims + 1, <<>>))
    /\ UNCHANGED <<supVars, manifest, toCore, bridgeVars, queue, inbox, ui, typed,
                   made, updates, resumes, failures, histVars>>

(* The review fails or is cancelled, before, during or after its claim.     *)
FailReview ==
    /\ alive /\ job.kind = "review"
    /\ job' = NoJob
    /\ UNCHANGED <<supVars, manifest, streamVars, bridgeVars, queue, inbox, ui,
                   countVars, histVars>>

(* finish_result, once the response has been committed to the journal.      *)
FinishReview ==
    /\ alive /\ job.stage = "calling"
    /\ SendToSup(Message("finished", job.item, 0, <<>>))
    /\ job' = NoJob
    /\ UNCHANGED <<supVars, manifest, toCore, bridgeVars, queue, inbox, ui,
                   countVars, histVars>>

-----------------------------------------------------------------------------
(* The supervisor: its record, and messages of the current core.            *)

(* _record: the manifest is replaced as a whole, or a write fails and it    *)
(* stays as it was.                                                         *)
Recorded(l, r, c) ==
    /\ manifest' = [queue |-> l, results |-> r, claimed |-> c]
    /\ UNCHANGED failures

RecordFails ==
    /\ failures < MaxFailures
    /\ failures' = failures + 1
    /\ UNCHANGED manifest

SendToCore(mail) == toCore' = toCore \o mail

Receive(kind) ==
    /\ toSup # <<>> /\ Head(toSup).kind = kind
    /\ toSup' = Tail(toSup)

OnState ==
    /\ Receive("checkpoint") \/ Receive("handoff")
    /\ last' = Head(toSup).queue
    /\ captured' = (captured \/ Head(toSup).kind = "handoff")
    /\ Recorded(last', results, claimed) \/ RecordFails
    /\ UNCHANGED <<results, claimed, transition, idle, noticed, toCore, bridgeVars,
                   workVars, typed, made, updates, resumes, claims, histVars>>

(* _dispatch: no acknowledgement unless the intent is durable.              *)
OnDispatch ==
    /\ Receive("dispatch")
    /\ last' = Head(toSup).queue
    /\ \/ Recorded(last', results, claimed) /\ SendToCore(<<Signal("dispatch_ack")>>)
       \/ RecordFails /\ UNCHANGED toCore
    /\ UNCHANGED <<results, claimed, transition, idle, captured, noticed, bridgeVars,
                   workVars, typed, made, updates, resumes, claims, histVars>>

ClaimAck(m, accepted) ==
    Message("claim_ack", IF accepted THEN m.item ELSE 0, m.token, <<>>)

(* Planted error: a claimed result stays among those that are delivered.    *)
OnClaimKept ==
    /\ Receive("claim")
    /\ LET m == Head(toSup) IN
        /\ claimed' = IF m.item \in results THEN claimed \cup {m.item} ELSE claimed
        /\ Recorded(last, results, claimed')
        /\ SendToCore(<<ClaimAck(m, m.item \in claimed')>>)
    /\ UNCHANGED <<last, results, transition, idle, captured, noticed, bridgeVars,
                   workVars, typed, made, updates, resumes, claims, histVars>>

(* _claim_update_result: a result that is still pending is moved, durably   *)
(* or not at all; one that is claimed already is accepted as it is.         *)
OnClaim ==
    /\ Receive("claim")
    /\ LET m == Head(toSup) IN
        \/ /\ m.item \in results
           /\ results' = results \ {m.item}
           /\ claimed' = claimed \cup {m.item}
           /\ Recorded(last, results', claimed')
           /\ SendToCore(<<ClaimAck(m, TRUE)>>)
        \/ /\ m.item \in results
           /\ RecordFails
           /\ SendToCore(<<ClaimAck(m, FALSE)>>)
           /\ UNCHANGED <<results, claimed>>
        \/ /\ m.item \notin results
           /\ SendToCore(<<ClaimAck(m, m.item \in claimed)>>)
           /\ UNCHANGED <<results, claimed, manifest, failures>>
    /\ UNCHANGED <<last, transition, idle, captured, noticed, bridgeVars, workVars,
                   typed, made, updates, resumes, claims, histVars>>

(* _finish_update_result.                                                   *)
OnFinished ==
    /\ Receive("finished")
    /\ LET r == Head(toSup).item IN
        \/ /\ r \in claimed
           /\ claimed' = claimed \ {r}
           /\ Recorded(last, results, claimed')
        \/ r \in claimed /\ RecordFails /\ UNCHANGED claimed
        \/ r \notin claimed /\ UNCHANGED <<claimed, manifest, failures>>
    /\ UNCHANGED <<last, results, transition, idle, captured, noticed, toCore,
                   bridgeVars, workVars, typed, made, updates, resumes, claims,
                   histVars>>

OnIdle ==
    /\ Receive("idle")
    /\ idle' = TRUE
    /\ UNCHANGED <<last, results, claimed, transition, captured, noticed, manifest,
                   toCore, bridgeVars, workVars, countVars, histVars>>

(* What _resume sends to a core that is alive.                              *)
ResultMail  == [i \in 1..Cardinality(results) |->
                   Message("update_result", SetToSeq(results)[i], 0, <<>>)]
ResumeMail  == <<Signal("continue")>> \o ResultMail
Resume ==
    /\ toCore' = IF alive THEN toCore \o ResumeMail ELSE toCore
    /\ granted' = (granted \/ alive)

OnResumeQueue ==
    /\ Receive("resume_queue")
    /\ IF transition = "none" THEN Resume ELSE UNCHANGED <<toCore, granted>>
    /\ UNCHANGED <<supVars, manifest, bridgeVars, workVars, countVars, ran, calls,
                   callers, lost>>

(* _update_result, for a request that came with an identifier.              *)
AddResult ==
    /\ made < MaxResults
    /\ made' = made + 1
    /\ results' = results \cup {made + 1}
    /\ Recorded(last, results', claimed) \/ RecordFails
    /\ SendToCore(<<Message("update_result", made + 1, 0, <<>>)>>)

AddNoResult == UNCHANGED <<made, results, manifest, failures, toCore>>

(* A request while another is pending is answered "busy".                   *)
OnUpdate ==
    /\ Receive("update")
    /\ IF transition = "none"
       THEN transition' = "validating" /\ AddNoResult
       ELSE UNCHANGED transition /\ (AddResult \/ AddNoResult)
    /\ UNCHANGED <<last, claimed, idle, captured, noticed, bridgeVars, workVars,
                   typed, updates, resumes, claims, histVars>>

-----------------------------------------------------------------------------
(* The supervisor: the transition task, _candidate and _drain.              *)

taskUnchanged == <<last, results, claimed, noticed, toSup, bridgeVars, workVars,
                   typed, made, updates, resumes, claims, ran, calls, callers, lost>>

(* Validation failed, or the activation of the candidate did while the old  *)
(* core was still there: it is told to go on.                               *)
Reject ==
    /\ transition \in {"validating", "capturing", "activating"}
    /\ transition' = "reporting"
    /\ Resume
    /\ UNCHANGED <<idle, captured, manifest, failures, taskUnchanged>>

(* A capture that was given up after thirty seconds may still be answered,  *)
(* and the supervisor takes that for the answer to the next one: what was   *)
(* entered in between may be lost.                                          *)
Unanswered ==
    \/ \E m \in Elements(toCore) : m.kind = "capture"
    \/ frozen /\ ~handoffSaved
    \/ \E m \in Elements(toSup) : m.kind = "handoff"

StartDrain ==
    /\ transition = "validating"
    /\ transition' = "draining"
    /\ idle' = FALSE /\ captured' = FALSE
    /\ lost' = (lost \/ Unanswered)
    /\ SendToCore(<<Signal("drain")>>)
    /\ UNCHANGED <<last, results, claimed, noticed, manifest, toSup, bridgeVars, workVars,
                   countVars, ran, calls, callers, granted>>

(* idle is set by the core's message and by the end of its output.  Once    *)
(* the process has been reaped the drain fails; until then a dead core is   *)
(* asked for its state like a live one.                                     *)
CoreIdle ==
    /\ transition = "draining" /\ idle
    /\ transition' = "capturing"
    /\ SendToCore(<<Signal("capture")>>)
    /\ UNCHANGED <<idle, captured, manifest, failures, granted, taskUnchanged>>

DrainFails ==
    /\ transition = "draining" /\ idle /\ ~alive
    /\ transition' = "reporting"
    /\ UNCHANGED <<idle, captured, manifest, failures, toCore, granted,
                   taskUnchanged>>

(* The state is recorded before anything is launched from it.               *)
RecordCapture ==
    /\ transition = "capturing" /\ captured
    /\ \/ /\ Recorded(last, results, claimed)
          /\ transition' = "activating"
          /\ UNCHANGED <<toCore, granted>>
       \/ RecordFails /\ transition' = "reporting" /\ Resume
    /\ UNCHANGED <<idle, captured, taskUnchanged>>

Report ==
    /\ transition = "reporting"
    /\ transition' = "none"
    /\ AddResult \/ AddNoResult
    /\ UNCHANGED <<last, claimed, idle, captured, noticed, toSup, bridgeVars,
                   workVars, typed, updates, resumes, claims, histVars>>

(* A new incarnation restored with queue q; what the old one still had to   *)
(* say is not listened to.                                                  *)
NewCore(q) ==
    /\ core < MaxCores
    /\ core' = core + 1
    /\ alive' = TRUE /\ active' = FALSE /\ draining' = FALSE /\ frozen' = FALSE
    /\ idleSent' = FALSE /\ handoffSaved' = FALSE
    /\ queue' = q /\ inbox' = {} /\ ui' = NoUi /\ job' = NoJob
    /\ toSup' = <<>>
    /\ last' = q
    /\ idle' = FALSE /\ captured' = FALSE /\ noticed' = FALSE

(* The old core retires and exits, the candidate reports readiness; or the  *)
(* previous release is started again from the same state.                   *)
Activate ==
    /\ transition = "activating"
    /\ NewCore(last)
    /\ transition' = "reporting"
    /\ toCore' = ResumeMail
    /\ granted' = TRUE
    /\ Recorded(last, results, claimed) \/ RecordFails
    /\ UNCHANGED <<results, claimed, typed, made, updates, resumes, claims, ran,
                   calls, callers, lost>>

-----------------------------------------------------------------------------
(* Crashes and forced recovery.                                             *)

(* The core dies: an error, a hung process that is killed, a dispatch that  *)
(* is not acknowledged for ten seconds.  What it has sent is still read,    *)
(* and the end of its output sets its events.                               *)
Crash ==
    /\ alive
    /\ alive' = FALSE /\ lost' = TRUE
    /\ idle' = TRUE /\ captured' = TRUE
    /\ UNCHANGED <<last, results, claimed, transition, noticed, manifest, streamVars,
                   core, active, draining, frozen, idleSent, handoffSaved, workVars,
                   countVars, ran, calls, callers, granted>>

(* _loop notices a crash once.                                              *)
NoticeCrash ==
    /\ ~alive /\ ~noticed /\ transition # "none"
    /\ noticed' = TRUE
    /\ UNCHANGED <<last, results, claimed, transition, idle, captured, manifest,
                   streamVars, bridgeVars, workVars, countVars, histVars>>

(* _restore_recovery: the latest state, else the retained checkpoint or the *)
(* safe core, both with an empty queue.  The core is activated and drained. *)
RestoreCore(q) ==
    /\ NewCore(q) \/ NewCore(<<>>)
    /\ toCore' = <<Signal("activate"), Signal("drain")>>
    /\ granted' = FALSE /\ lost' = TRUE
    /\ transition' = "none"
    /\ UNCHANGED <<ran, calls, callers>>

RecoverCrash ==
    /\ ~alive /\ ~noticed /\ transition = "none"
    /\ RestoreCore(last)
    /\ Recorded(last', results, claimed) \/ RecordFails
    /\ UNCHANGED <<results, claimed, typed, made, updates, resumes, claims>>

(* Ctrl+R, then p or g; a pending update is answered "interrupted".         *)
ForceRecovery ==
    /\ RestoreCore(last)
    /\ \/ UNCHANGED <<results, made>>
       \/ /\ transition # "none" /\ made < MaxResults
          /\ made' = made + 1 /\ results' = results \cup {made + 1}
    /\ Recorded(last', results', claimed) \/ RecordFails
    /\ UNCHANGED <<claimed, typed, updates, resumes, claims>>

(* The supervisor dies, and the core with it; a new supervisor starts from  *)
(* the manifest (--recover-core).                                           *)
Restart ==
    /\ RestoreCore(manifest.queue)
    /\ results' = manifest.results /\ claimed' = manifest.claimed
    /\ Recorded(last', results', claimed') \/ RecordFails
    /\ UNCHANGED <<typed, made, updates, resumes, claims>>

CoreStep ==
    \/ TakePrompt \/ TakeReview \/ StartWork \/ Poll \/ Undrained \/ Checkpoint
    \/ SendIdle \/ SendHandoff
    \/ FinishPrompt \/ Claim \/ FailReview \/ FinishReview

LoopStep ==
    \/ OnState \/ OnDispatch \/ OnClaim \/ OnFinished \/ OnIdle \/ OnResumeQueue
    \/ OnUpdate \/ NoticeCrash \/ RecoverCrash

TaskStep ==
    \/ Reject \/ StartDrain \/ CoreIdle \/ DrainFails \/ RecordCapture \/ Report
    \/ Activate

Next ==
    \/ Enter \/ Submit \/ RequestUpdate \/ RequestResume
    \/ CoreStep \/ LoopStep \/ TaskStep
    \/ Crash \/ ForceRecovery \/ Restart

Spec == Init /\ [][Next]_vars

(* Each thread and task runs, and a job ends.  Nobody has to type, and no   *)
(* checkpoint has to be sent.                                               *)
Fairness ==
    /\ WF_vars(LoopStep) /\ WF_vars(TaskStep)
    /\ WF_vars(Poll) /\ WF_vars(StartWork) /\ WF_vars(Undrained)
    /\ WF_vars(SendIdle) /\ WF_vars(SendHandoff)
    /\ WF_vars(FinishPrompt) /\ WF_vars(FailReview)

FairSpec == Spec /\ Fairness

-----------------------------------------------------------------------------
(* Properties.                                                              *)

ToSupKinds  == {"checkpoint", "handoff", "dispatch", "claim", "finished", "idle",
                "resume_queue", "update"}
ToCoreKinds == {"activate", "continue", "drain", "capture", "update_result",
                "dispatch_ack", "claim_ack"}
Transitions == {"none", "validating", "draining", "capturing", "activating",
                "reporting"}
Mail(kinds) == [kind : kinds, item : Nat, token : 0..MaxClaims, queue : Seq(Prompts)]

(* The types of all variables.                                              *)
TypeOK ==
    /\ last \in Seq(Prompts) /\ queue \in Seq(Prompts)
    /\ results \subseteq Results /\ claimed \subseteq Results /\ inbox \subseteq Results
    /\ transition \in Transitions
    /\ \A b \in {idle, captured, noticed, alive, active, draining, frozen, idleSent,
                 handoffSaved, granted, lost} : b \in BOOLEAN
    /\ manifest \in [queue : Seq(Prompts), results : SUBSET Results,
                     claimed : SUBSET Results]
    /\ toCore \in Seq(Mail(ToCoreKinds)) /\ toSup \in Seq(Mail(ToSupKinds))
    /\ core \in 1..MaxCores
    /\ ui \in [kind : {"free", "prompt", "review"}, item : Nat, queued : Seq(Prompts),
               acked : BOOLEAN]
    /\ job \in [kind : {"none", "prompt", "review"}, item : Nat,
                stage : {"none", "started", "claiming", "calling"},
                token : 0..MaxClaims]
    /\ typed \in 0..MaxPrompts /\ made \in 0..MaxResults
    /\ ran \in [Prompts -> Nat] /\ calls \in [Results -> Nat]
    /\ callers \in [Results -> SUBSET (1..MaxCores)]

(* Interrupted work is not replayed: whatever crashes, recoveries, updates  *)
(* and restarts of the supervisor happen, a prompt is handed to a worker at *)
(* most once.  "A durable dequeue intent prevents an uncertain command from *)
(* being silently returned to the queue": from the moment it runs, no       *)
(* recovery, from memory or from the manifest, has it in its queue.         *)
RunAtMostOnce ==
    \A p \in Prompts :
        /\ ran[p] <= 1
        /\ ran[p] > 0 => p \notin Elements(last) \cup Elements(manifest.queue)

(* After a result has reached the provider, no later core delivers it; and  *)
(* while the provider may be working on it, the manifest says so and does   *)
(* not offer it for delivery.                                               *)
ReviewNotReplayed ==
    /\ \A r \in Results : Cardinality(callers[r]) <= 1
    /\ job.stage = "calling" =>
          job.item \in manifest.claimed /\ job.item \notin manifest.results

(* A core that was restored by a recovery starts nothing until it has been  *)
(* told to continue, although it is activated before it is drained.         *)
PausedAfterRecovery == job.kind # "none" => granted

(* As long as nothing crashes and no capture is given up and answered late, *)
(* no entered prompt is lost, updates included: it is queued, or being      *)
(* handed over, or has run.                                                 *)
QueueKept ==
    ~lost => \A p \in 1..typed :
                ran[p] > 0 \/ p \in Elements(queue) \cup Elements(ui.queued)

(* The claim is to "durably stop replay immediately before feedback reaches *)
(* a provider": at most one provider request per result.                    *)
ReviewedOnce == \A r \in Results : calls[r] <= 1

(* Work is finite here, so a drained core that lives becomes idle and the   *)
(* update goes on.                                                          *)
UpdateEnds ==
    transition = "draining" /\ alive ~> transition # "draining" \/ ~alive
=============================================================================

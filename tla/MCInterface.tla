----------------------------- MODULE MCInterface -----------------------------
(***************************************************************************)
(* The terminal's side of a session, each part on a small instance: the core   *)
(* with its supervisor, one chat with its workers, the review of an approval.  *)
(* A behaviour exercises one of them while the others rest; they share no      *)
(* state, and one run of TLC checks them all.                                *)
(***************************************************************************)
EXTENDS Naturals

CONSTANTS
  MaxPrompts, MaxResults, MaxCores, MaxUpdates, MaxResumes, MaxClaims, MaxFailures,
  MaxWork, MaxAsks,
  Units, Layouts, Distances, MaxApprovals, MaxTyped

VARIABLES
  part,       \* the part this behaviour exercises
  last, results, claimed, transition, idle, captured, noticed, manifest, toCore, toSup,
  core, alive, active, draining, frozen, idleSent, handoffSaved, queue, inbox, ui, job,
  typed, made, updates, resumes, claims, failures, ran, calls, callers, granted, lost,
  chatTurn, left, quitting, paused, due, phase, activeJob, commandJob, startedIdle,
  approval, escape, failed, items, selected, edits, editor, chatPicker, commands, running,
  stage, cancelled, submitted, events, asked, answer, asks, entered, sent, dropped,
  reviewTurn, layout, focused, reviewPicker, pending, scroll, maximum, rendered, reviewed, until,
  valid, confirmed, unlock, drained, ready, input, approvals, shown, mixed, blind

\* A row of the wide layout shows two pieces of an approval, of another one.
TwoWide == [l \in Layouts |-> IF l = "wide" THEN 2 ELSE 1]

Dispatch == INSTANCE CoreDispatch
Chat == INSTANCE ChatFrontend WITH
  turn <- chatTurn, ended <- left, results <- due, picker <- chatPicker, queue <- commands
Review == INSTANCE ApprovalReview WITH
  turn <- reviewTurn, picker <- reviewPicker, asks <- approvals, Pieces <- TwoWide

ASSUME DispatchAssumed == Dispatch!BoundsAssumption
ASSUME ChatAssumed == Chat!FrontendAssumption
ASSUME ReviewAssumed == Review!ReviewAssumption

dispatchVars == <<last, results, claimed, transition, idle, captured, noticed, manifest, toCore, toSup,
    core, alive, active, draining, frozen, idleSent, handoffSaved, queue, inbox, ui, job,
    typed, made, updates, resumes, claims, failures, ran, calls, callers, granted, lost>>
chatVars == <<chatTurn, left, quitting, paused, due, phase, activeJob, commandJob, startedIdle,
    approval, escape, failed, items, selected, edits, editor, chatPicker, commands, running,
    stage, cancelled, submitted, events, asked, answer, asks, entered, sent, dropped>>
reviewVars == <<reviewTurn, layout, focused, reviewPicker, pending, scroll, maximum, rendered,
    reviewed, until, valid, confirmed, unlock, drained, ready, input, approvals, shown, mixed, blind>>

Init ==
  /\ part \in {"dispatch", "chat", "review"}
  /\ Dispatch!Init /\ Chat!Init /\ Review!Init
  /\ part # "review" => layout = "wide"

Only(p) ==
  /\ part = p /\ UNCHANGED part
  /\ p # "dispatch" => UNCHANGED dispatchVars
  /\ p # "chat" => UNCHANGED chatVars
  /\ p # "review" => UNCHANGED reviewVars

Next ==
  \/ Only("dispatch") /\ Dispatch!Next
  \/ Only("chat") /\ Chat!Next
  \/ Only("review") /\ Review!Next

vars == <<part, dispatchVars, chatVars, reviewVars>>

Spec == Init /\ [][Next]_vars

(***************************************************************************)
(* The type invariants of the parts.                                         *)
(***************************************************************************)
TypesOK ==
  /\ part = "dispatch" => Dispatch!TypeOK
  /\ part = "chat" => Chat!TypeOK
  /\ part = "review" => Review!TypeOK

\* A queued prompt runs at most once and the feedback of an update result is
\* delivered by one core only, each on a durable record, over crashes, recoveries and
\* restarts (raychat_bootstrap/supervisor.py _dispatch, _claim_update_result,
\* _write_record).
NothingReplayed == part = "dispatch" => Dispatch!RunAtMostOnce /\ Dispatch!ReviewNotReplayed

\* No prompt is lost by an update, and a recovered core starts none before it is told to
\* (raychat/ui/controller.py _drain_queue, export of the handoff; raychat/core_bridge.py
\* paused, authorize_dispatch; raychat_bootstrap/supervisor.py _drain).
QueueKept == part = "dispatch" => Dispatch!QueueKept /\ Dispatch!PausedAfterRecovery

\* The interface never raises, and what a chat shows is what its workers do
\* (raychat/ui/controller.py _accept_worker_event, _drain_queue, _process_cancel_key).
ChatMatchesWork == part = "chat" => Chat!NeverRaises /\ Chat!PhaseMatchesWork

\* Every message is queued, handed to a worker or removed by a cancellation, once and
\* in order (raychat/ui/message_queue.py, controller.py _drain_queue).
QueueHonest == part = "chat" => Chat!QueueHonest

\* A double Escape cancels the job that was in hand at the first of the two
\* (raychat/ui/terminal.py DoubleEscape).
EscapeHitsItsJob == [][part = "chat" => Chat!CancelsItsJob]_chatVars

\* An approval is given by someone who has seen all of it (raychat/ui/controller.py
\* approval_can_accept, _update_approval_review).
ApprovedWasSeen == part = "review" => Review!ApprovedWasSeen
=============================================================================

----------------------------- MODULE IsolatedChild -----------------------------
(***************************************************************************)
(* raychat/transport.py, raychat/worker_entry.py and the ProcessConversation  *)
(* of plugins/subagents: one task of a conversation runs in a process of its  *)
(* own.  The parent writes the request, polls the process, its cancel check    *)
(* and the reader of its frames, stops the process whatever happened, and       *)
(* commits the snapshot only if everything ended well.  A command the child     *)
(* started may outlive it and hold its output pipe; either side may die.        *)
(***************************************************************************)
EXTENDS Naturals, Sequences, SequencesExt

CONSTANT
  MaxFrames       \* bound on the frames on their way while the child works

VARIABLES
  parent,     \* where run_child is
  cancelled,  \* the caller's cancel check raises
  primary, cleanup,    \* captured failures: BOOLEAN each
  writer,     \* "none", "writing", "written", "broken" (counts as written), "failed"
  reader,     \* "none", "reading", "ended", "failed"
  snapshots,  \* snapshot frames consumed: pending of ProcessConversation
  final,      \* a final frame was consumed
  lingering,  \* the process has exited and the poll has killed its group
  child,      \* what the process does
  pipe,       \* frames on their way
  code,       \* its exit status: "none", "ok", "bad"
  signalled,  \* SIGTERM or SIGINT is on its way to the child
  reaped,     \* returncode is known to the parent
  helper,     \* a command started by the child: "none", "group", "escaped"
  finished,   \* history: the child completed the task of this call
  commits,    \* history: snapshots committed in this call
  outcome     \* history: what the last call ended with

procVars == <<child, pipe, code, signalled, helper, finished>>
runVars  == <<parent, cancelled, primary, cleanup, writer, reader, snapshots, final,
              lingering, reaped, commits, outcome>>
vars == <<procVars, runVars>>

Frames   == {"event", "snapshot", "final", "error", "garbage"}
Alive    == child \notin {"none", "exited"}
Sites    == {"idle", "exchange", "terminate", "kill", "reap", "drain", "commit", "dead"}

TypeOK ==
  /\ parent \in Sites
  /\ {cancelled, primary, cleanup, final, lingering, signalled, reaped, finished} \subseteq BOOLEAN
  /\ writer \in {"none", "writing", "written", "broken", "failed"}
  /\ reader \in {"none", "reading", "ended", "failed"}
  /\ snapshots \in 0..2 /\ commits \in 0..1
  /\ child \in {"none", "starting", "reading", "working", "saved", "closed", "done", "exiting", "exited"}
  /\ pipe \in Seq(Frames)
  /\ code \in {"none", "ok", "bad"}
  /\ helper \in {"none", "group", "escaped"}
  /\ outcome \in {"none", "returned", "raised"}

Init ==
  /\ parent = "idle" /\ cancelled = FALSE /\ primary = FALSE /\ cleanup = FALSE
  /\ writer = "none" /\ reader = "none" /\ snapshots = 0 /\ final = FALSE
  /\ lingering = FALSE /\ reaped = FALSE /\ commits = 0 /\ outcome = "none"
  /\ child = "none" /\ pipe = <<>> /\ code = "none" /\ signalled = FALSE
  /\ helper = "none" /\ finished = FALSE

(***************************************************************************)
(* The child: worker_entry.main.                                            *)
(***************************************************************************)
Step(from, to) ==
  /\ child = from
  /\ child' = to
  /\ UNCHANGED runVars

Emit(frame) == pipe' = Append(pipe, frame)
Quiet       == UNCHANGED pipe
KeepHelper  == UNCHANGED helper
Undisturbed == ~signalled /\ UNCHANGED <<code, signalled>>

\* The whole request is read, to the end of the input, before any work.
ReadRequest ==
  /\ Step("starting", "reading") /\ Undisturbed /\ Quiet /\ KeepHelper
  /\ UNCHANGED finished

Begin ==
  /\ writer \in {"written", "failed"} \/ parent = "dead"
  /\ Step("reading", "working") /\ Undisturbed /\ Quiet /\ KeepHelper
  /\ UNCHANGED finished

Event ==
  /\ Step("working", "working") /\ Undisturbed /\ KeepHelper
  /\ Len(pipe) < MaxFrames
  /\ Emit("event")
  /\ UNCHANGED finished

\* Tools run commands; one may leave the process group and stay behind.
StartCommand ==
  /\ Step("working", "working") /\ Undisturbed /\ Quiet
  /\ helper = "none" /\ helper' \in {"group", "escaped"}
  /\ UNCHANGED finished

\* _conversation: the turn has committed in the child, and its snapshot is sent;
\* then its session closes, and only then _run sends the message.  A request
\* cut short is no request.
Snapshot ==
  /\ writer # "failed"
  /\ Step("working", "saved") /\ Undisturbed /\ KeepHelper
  /\ Emit("snapshot")
  /\ UNCHANGED finished

CloseSession ==
  /\ Step("saved", "closed") /\ Undisturbed /\ Quiet /\ KeepHelper
  /\ UNCHANGED finished

Final ==
  /\ Step("closed", "done") /\ Undisturbed /\ KeepHelper
  /\ Emit("final")
  /\ finished' = TRUE

\* The provider's runtime closes last; that may fail after "final" was sent.
ExitOk ==
  /\ Step("done", "exiting") /\ KeepHelper /\ Quiet
  /\ ~signalled
  /\ code' \in {"ok", "bad"}
  /\ UNCHANGED <<signalled, finished>>

\* Any error before that is reported; one while the session closes as well.
Fails ==
  /\ child \in {"reading", "working", "saved"}
  /\ Step(child, "exiting") /\ KeepHelper
  /\ ~signalled
  /\ pipe' = Append(pipe, "error") /\ code' = "bad"
  /\ UNCHANGED <<signalled, finished>>

\* A plugin in the child prints a line of its own on stdout.
Babble ==
  /\ Step("working", "working") /\ Undisturbed /\ KeepHelper
  /\ Len(pipe) < MaxFrames
  /\ Emit("garbage")
  /\ UNCHANGED finished

\* _WorkerCancelled unwinds the cleanup and exits with 130.
Unwind ==
  /\ child \in {"starting", "reading", "working", "saved", "closed", "done"}
  /\ signalled
  /\ Step(child, "exiting") /\ KeepHelper /\ Quiet
  /\ code' = "bad"
  /\ UNCHANGED <<signalled, finished>>

Exit ==
  /\ Step("exiting", "exited") /\ KeepHelper /\ Quiet
  /\ UNCHANGED <<code, signalled, finished>>

\* Killed, or out of memory; what is written stays in the pipe, perhaps with the
\* beginning of a frame.
Crash ==
  /\ Alive
  /\ Step(child, "exited") /\ KeepHelper
  /\ Quiet \/ Emit("garbage")
  /\ code' = "bad"
  /\ UNCHANGED <<signalled, finished>>

HelperEnds ==
  /\ helper # "none"
  /\ helper' = "none"
  /\ UNCHANGED <<child, pipe, code, signalled, finished, runVars>>

\* _watch_parent: the child notices that its parent is gone, and if it has not
\* unwound within a bound it exits at once.
ParentDies ==
  /\ parent \notin {"idle", "dead"}
  /\ parent' = "dead"
  /\ writer' = "none" /\ reader' = "none"
  /\ UNCHANGED <<procVars, cancelled, primary, cleanup, snapshots, final, lingering, reaped,
                 commits, outcome>>

ParentSeen ==
  /\ parent = "dead" /\ Alive /\ ~signalled
  /\ signalled' = TRUE
  /\ UNCHANGED <<child, pipe, code, helper, finished, runVars>>

(***************************************************************************)
(* The parent.                                                              *)
(***************************************************************************)
Cancel ==
  /\ parent \notin {"idle", "dead"} /\ ~cancelled
  /\ cancelled' = TRUE
  /\ UNCHANGED <<procVars, parent, primary, cleanup, writer, reader, snapshots, final, lingering,
                 reaped, commits, outcome>>

\* run_child and _run_process up to the two tasks.
Spawn ==
  /\ parent = "idle" /\ ~Alive
  /\ parent' = "exchange" /\ child' = "starting"
  /\ writer' = "writing" /\ reader' = "reading"
  /\ cancelled' = FALSE /\ primary' = FALSE /\ cleanup' = FALSE
  /\ snapshots' = 0 /\ final' = FALSE /\ lingering' = FALSE /\ reaped' = FALSE
  /\ commits' = 0 /\ outcome' = "none"
  /\ pipe' = <<>> /\ code' = "none" /\ signalled' = FALSE /\ helper' = "none"
  /\ finished' = FALSE

runningVars == <<procVars, parent, cancelled, lingering, reaped, commits, outcome>>

\* _write_input: an early close of the input is left to the child to explain.
Write(w) ==
  /\ parent = "exchange" /\ writer = "writing"
  /\ w = "written" => child \in {"starting", "reading"}
  /\ w = "broken" => child \in {"exiting", "exited"}
  /\ writer' = w
  /\ UNCHANGED <<runningVars, primary, cleanup, reader, snapshots, final>>

\* _Frames.consume: anything but one sequence of known frames is a failure, and
\* a failure ends the reading.
ReadFrame ==
  /\ parent = "exchange" /\ reader = "reading" /\ pipe # <<>>
  /\ pipe' = Tail(pipe)
  /\ LET f == Head(pipe) IN
     /\ reader' = IF f \in {"error", "garbage"} \/ (f = "final" /\ final) THEN "failed"
                  ELSE "reading"
     /\ snapshots' = IF f = "snapshot" THEN snapshots + 1 ELSE snapshots
     /\ final' = (final \/ f = "final")
  /\ UNCHANGED <<child, code, signalled, helper, finished, parent, cancelled, primary, cleanup,
                 writer, lingering, reaped, commits, outcome>>

\* The event callback of a cancelled job raises out of the reader.
CallbackRaises ==
  /\ parent = "exchange" /\ reader = "reading" /\ pipe # <<>> /\ Head(pipe) = "event"
  /\ cancelled
  /\ pipe' = Tail(pipe) /\ reader' = "failed"
  /\ UNCHANGED <<child, code, signalled, helper, finished, parent, cancelled, primary, cleanup,
                 writer, snapshots, final, lingering, reaped, commits, outcome>>

\* The end of the output: nobody holds the pipe any more.
ReadEnd ==
  /\ parent = "exchange" /\ reader = "reading"
  /\ pipe = <<>> /\ child = "exited" /\ helper = "none"
  /\ reader' = "ended"
  /\ UNCHANGED <<runningVars, primary, cleanup, writer, snapshots, final>>

Reap ==
  /\ parent # "dead" /\ child = "exited" /\ ~reaped
  /\ reaped' = TRUE
  /\ UNCHANGED <<procVars, parent, cancelled, primary, cleanup, writer, reader, snapshots, final,
                 lingering, commits, outcome>>

KillGroup == helper' = IF helper = "group" THEN "none" ELSE helper

ExchangeEnds(failed) ==
  /\ parent' = "terminate" /\ primary' = failed
  /\ UNCHANGED <<procVars, cancelled, cleanup, writer, reader, snapshots, final, lingering,
                 reaped, commits, outcome>>

\* One look of _exchange: the cancel check first, then the reader, ...
ExchangeRaises ==
  /\ parent = "exchange"
  /\ cancelled \/ reader = "failed"
  /\ ExchangeEnds(TRUE)

\* ... then the process: what it left behind in its group is killed ...
Linger ==
  /\ parent = "exchange" /\ ~cancelled /\ reader # "failed"
  /\ reaped /\ ~lingering
  /\ reader = "reading" \/ writer = "writing"
  /\ lingering' = TRUE
  /\ KillGroup
  /\ UNCHANGED <<child, pipe, code, signalled, finished, parent, cancelled, primary, cleanup,
                 writer, reader, snapshots, final, reaped, commits, outcome>>

\* ... and a pipe that does not close soon after ends the call.
PipesHeld ==
  /\ parent = "exchange" /\ lingering
  /\ reader = "reading" \/ writer = "writing"
  /\ ExchangeEnds(TRUE)

\* The loop ends when writer, reader and process have; an error frame and a
\* failed input come first, then the status, then the missing message.
ExchangeDone ==
  /\ parent = "exchange"
  /\ reader \in {"ended", "failed"} /\ writer # "writing" /\ reaped
  /\ ExchangeEnds(reader = "failed" \/ writer = "failed" \/ code # "ok" \/ ~final)

\* _stop: terminate and wait, kill the group, kill, wait.  Only the last wait
\* may fail.
Terminate ==
  /\ parent = "terminate"
  /\ parent' = "kill"
  /\ signalled' = (signalled \/ ~reaped)
  /\ UNCHANGED <<child, pipe, code, helper, finished, cancelled, primary, cleanup, writer, reader,
                 snapshots, final, lingering, reaped, commits, outcome>>

\* Planted error: the process is killed and its group is not.
KillLeader ==
  /\ parent = "kill"
  /\ parent' = "reap"
  /\ IF reaped THEN UNCHANGED <<child, code>> ELSE child' = "exited" /\ code' = IF child = "exited" THEN code ELSE "bad"
  /\ UNCHANGED <<pipe, signalled, helper, finished, cancelled, primary, cleanup, writer, reader,
                 snapshots, final, lingering, reaped, commits, outcome>>

Kill ==
  /\ parent = "kill"
  /\ parent' = "reap"
  /\ KillGroup
  /\ child' = "exited"
  /\ code' = IF child = "exited" THEN code ELSE "bad"
  /\ UNCHANGED <<pipe, signalled, finished, cancelled, primary, cleanup, writer, reader,
                 snapshots, final, lingering, reaped, commits, outcome>>

Reaped ==
  /\ parent = "reap" /\ reaped
  /\ parent' = "drain"
  /\ UNCHANGED <<procVars, cancelled, primary, cleanup, writer, reader, snapshots, final,
                 lingering, reaped, commits, outcome>>

\* The kernel is late: the call reports a process it has not reaped.
ReapFails ==
  /\ parent = "reap" /\ ~reaped
  /\ cleanup' = TRUE
  /\ parent' = "drain"
  /\ UNCHANGED <<procVars, cancelled, primary, writer, reader, snapshots, final, lingering,
                 reaped, commits, outcome>>

\* The tasks are cancelled and awaited; run_child returns or raises.
Drain ==
  /\ parent = "drain"
  /\ writer' = "none" /\ reader' = "none"
  /\ IF primary \/ cleanup THEN parent' = "idle" /\ outcome' = "raised"
                           ELSE parent' = "commit" /\ UNCHANGED outcome
  /\ UNCHANGED <<procVars, cancelled, primary, cleanup, snapshots, final, lingering, reaped,
                 commits>>

\* Planted error: ProcessConversation.run takes a snapshot when it sees one.
CommitAny ==
  /\ parent \in {"drain", "commit"}
  /\ IF snapshots > 0 THEN commits' = 1 /\ outcome' = "returned"
                      ELSE outcome' = "raised" /\ UNCHANGED commits
  /\ parent' = "idle"
  /\ UNCHANGED <<procVars, cancelled, primary, cleanup, writer, reader, snapshots, final,
                 lingering, reaped>>

\* ProcessConversation.run: exactly one snapshot, the cancel check, the commit.
Commit ==
  /\ parent = "commit"
  /\ IF snapshots = 1 /\ ~cancelled THEN commits' = 1 /\ outcome' = "returned"
                                    ELSE outcome' = "raised" /\ UNCHANGED commits
  /\ parent' = "idle"
  /\ UNCHANGED <<procVars, cancelled, primary, cleanup, writer, reader, snapshots, final,
                 lingering, reaped>>

Next ==
  \/ ReadRequest \/ Begin \/ Event \/ StartCommand \/ Snapshot \/ CloseSession \/ Final
  \/ ExitOk \/ Fails \/ Babble \/ Unwind \/ Exit \/ Crash \/ HelperEnds
  \/ ParentDies \/ ParentSeen
  \/ Cancel \/ Spawn \/ ReadFrame \/ CallbackRaises \/ ReadEnd \/ Reap
  \/ \E w \in {"written", "broken", "failed"} : Write(w)
  \/ ExchangeRaises \/ Linger \/ PipesHeld \/ ExchangeDone
  \/ Terminate \/ Kill \/ Reaped \/ ReapFails \/ Drain \/ Commit

Spec == Init /\ [][Next]_vars

(***************************************************************************)
(* Properties.                                                              *)
(***************************************************************************)
\* A snapshot becomes the history of the conversation only if the child had
\* completed the task, closed everything and exited well, and the user had not
\* cancelled by then; a call that raises leaves the history as it was, and what
\* arrived of a failed child is never used.
SnapshotIsResult ==
  /\ commits = 1 => outcome = "returned" /\ finished /\ code = "ok" /\ ~cancelled
  /\ outcome = "returned" => commits = 1
  /\ outcome = "raised" => commits = 0

\* When the call is over, its process and whatever the process started in its
\* group are gone, unless the call raised the failure to reap it.
NothingLeftRunning ==
  outcome # "none" => ~Alive /\ helper # "group" /\ (reaped \/ cleanup)
==============================================================================

------------------------------ MODULE CommandRun ------------------------------
(***************************************************************************)
(* plugins/process/runner.py and windows.py: run_command starts one command, *)
(* polls it, the deadline and the caller's cancel check, and then ends       *)
(* everything the command started, whatever happened.  On POSIX the command    *)
(* leads a process group of its own; on Windows a helper is assigned to a Job   *)
(* Object before it is told what to run.                                       *)
(***************************************************************************)
EXTENDS Naturals

VARIABLES
  system,       \* "posix" or "windows"
  call,         \* where run_command is
  leader,       \* the process: "none", "gated", "running", "exited"
  code,         \* its exit status: "none", "ok", "bad"
  reaped,       \* returncode is known
  child,        \* a process the command started: "inside" its group or job, the same
                \* and "silent" (it closed the pipes), "outside", "gone" or "none"
  job,          \* the Job Object: "none", "open", "closed"
  member,       \* the helper is in it
  readers,      \* both output pipes: "none", "reading", "ended"
  cancelled, timedOut,
  primary, cleanup,     \* captured failures
  started,      \* history: the command itself has begun
  outcome       \* what the last call ended with: "none", "ok", "notok", "raised"

procVars == <<leader, code, child, started>>
jobVars  == <<job, member>>
failVars == <<cancelled, timedOut, primary, cleanup>>
vars == <<system, call, procVars, reaped, jobVars, readers, failVars, outcome>>

Sites == {"idle", "create", "assign", "gate", "poll", "terminate", "reap", "collect"}

TypeOK ==
  /\ system \in {"posix", "windows"} /\ call \in Sites
  /\ leader \in {"none", "gated", "running", "exited"}
  /\ code \in {"none", "ok", "bad"} /\ child \in {"none", "inside", "silent", "outside", "gone"}
  /\ job \in {"none", "open", "closed"} /\ readers \in {"none", "reading", "ended"}
  /\ {reaped, member, cancelled, timedOut, primary, cleanup, started} \subseteq BOOLEAN
  /\ outcome \in {"none", "ok", "notok", "raised"}

Init ==
  /\ system \in {"posix", "windows"} /\ call = "idle"
  /\ leader = "none" /\ code = "none" /\ child = "none" /\ started = FALSE
  /\ reaped = FALSE /\ job = "none" /\ member = FALSE /\ readers = "none"
  /\ cancelled = FALSE /\ timedOut = FALSE /\ primary = FALSE /\ cleanup = FALSE
  /\ outcome = "none"

Goto(site) == call' = site /\ UNCHANGED system

(***************************************************************************)
(* The processes.                                                           *)
(***************************************************************************)
Alone == UNCHANGED <<system, call, reaped, jobVars, readers, failVars, outcome>>

\* A process started by a member of a job is a member; one of a POSIX group may
\* leave it.
StartChild ==
  /\ leader = "running" /\ child = "none"
  /\ child' \in {"inside", "silent"} \cup (IF system = "posix" THEN {"outside"} ELSE {})
  /\ UNCHANGED <<leader, code, started>> /\ Alone

ChildEnds ==
  /\ child \in {"inside", "silent", "outside"}
  /\ child' = "gone"
  /\ UNCHANGED <<leader, code, started>> /\ Alone

Exit ==
  /\ leader = "running"
  /\ leader' = "exited" /\ code' \in {"ok", "bad"}
  /\ UNCHANGED <<child, started>> /\ Alone

Reap ==
  /\ leader = "exited" /\ ~reaped
  /\ reaped' = TRUE
  /\ UNCHANGED <<system, call, procVars, jobVars, readers, failVars, outcome>>

Cancel ==
  /\ call # "idle" /\ ~cancelled
  /\ cancelled' = TRUE
  /\ UNCHANGED <<system, call, procVars, reaped, jobVars, readers, timedOut, primary, cleanup, outcome>>

(***************************************************************************)
(* Starting: run_command, spawn_command, spawn_windows_command.             *)
(***************************************************************************)
Call ==
  /\ call = "idle"
  /\ Goto("create")
  /\ leader' = "none" /\ code' = "none" /\ child' = "none" /\ started' = FALSE
  /\ reaped' = FALSE /\ job' = "none" /\ member' = FALSE /\ readers' = "none"
  /\ cancelled' = FALSE /\ timedOut' = FALSE /\ primary' = FALSE /\ cleanup' = FALSE
  /\ outcome' = "none"

Spawn ==
  /\ call = "create"
  /\ \/ /\ system = "posix"
        /\ leader' = "running" /\ started' = TRUE /\ readers' = "reading"
        /\ Goto("poll") /\ UNCHANGED job
     \/ /\ system = "windows"
        /\ leader' = "gated" /\ job' = "open"
        /\ Goto("assign") /\ UNCHANGED <<started, readers>>
  /\ UNCHANGED <<code, child, reaped, member, failVars, outcome>>

\* No process: an unknown program, or no Job Object, which is closed again.
SpawnFails ==
  /\ call = "create"
  /\ primary' = TRUE
  /\ job' \in {"none"} \cup (IF system = "windows" THEN {"closed"} ELSE {})
  /\ Goto("collect")
  /\ UNCHANGED <<procVars, reaped, member, readers, cancelled, timedOut, cleanup, outcome>>

Assign ==
  /\ call = "assign"
  /\ member' = TRUE
  /\ Goto("gate")
  /\ UNCHANGED <<procVars, reaped, job, readers, failVars, outcome>>

\* The specification is written and the input closed: the helper goes ahead.
ReleaseGate ==
  /\ call = "gate" /\ ~cancelled
  /\ leader' = "running" /\ started' = TRUE /\ readers' = "reading"
  /\ Goto("poll")
  /\ UNCHANGED <<code, child, reaped, jobVars, failVars, outcome>>

\* The job refuses the helper, the caller has cancelled, or the input breaks.
StartFails ==
  /\ call \in {"assign", "gate"}
  /\ primary' = TRUE
  /\ Goto("terminate")
  /\ UNCHANGED <<procVars, reaped, jobVars, readers, cancelled, timedOut, cleanup, outcome>>

(***************************************************************************)
(* _poll_command.                                                           *)
(***************************************************************************)
PollEnds(failed, late) ==
  /\ call = "poll"
  /\ primary' = failed /\ timedOut' = late
  /\ Goto("terminate")
  /\ UNCHANGED <<procVars, reaped, jobVars, readers, cancelled, cleanup, outcome>>

PollRaises  == cancelled /\ PollEnds(TRUE, FALSE)
PollExited  == ~cancelled /\ reaped /\ PollEnds(FALSE, FALSE)
PollExpired == ~cancelled /\ ~reaped /\ PollEnds(FALSE, TRUE)

(***************************************************************************)
(* _terminate_owned, _collect_readers and the result.                       *)
(***************************************************************************)
Inside == child \in {"inside", "silent"}

KillTree(reach) ==
  /\ leader' = IF leader = "none" THEN leader ELSE "exited"
  /\ code' = IF leader \in {"gated", "running"} THEN "bad" ELSE code
  /\ child' = IF reach /\ Inside THEN "gone" ELSE child

\* Planted error: only a leader that still runs is ended.
TerminateLeader ==
  /\ call = "terminate"
  /\ IF reaped THEN UNCHANGED <<leader, code, child>> ELSE KillTree(TRUE)
  /\ job' = IF job = "open" THEN "closed" ELSE job
  /\ Goto("reap")
  /\ UNCHANGED <<started, reaped, member, readers, failVars, outcome>>

\* The group, or the job and all its members; the leader may be gone already.
\* A helper that is in no job is killed by itself.
Terminate ==
  /\ call = "terminate"
  /\ KillTree(system = "posix" \/ member)
  /\ job' = IF job = "open" THEN "closed" ELSE job
  /\ Goto("reap")
  /\ UNCHANGED <<started, reaped, member, readers, failVars, outcome>>

\* The group, or the job with its last handle, cannot be ended: the failure is
\* kept, and the leader at least is killed.
TerminateFails ==
  /\ call = "terminate"
  /\ KillTree(FALSE)
  /\ cleanup' = TRUE
  /\ job' = IF job = "open" THEN "closed" ELSE job
  /\ Goto("reap")
  /\ UNCHANGED <<started, reaped, member, readers, cancelled, timedOut, primary, outcome>>

\* _wait_after_termination waits until the leader is reaped, interrupted or not.
Reaped ==
  /\ call = "reap" /\ reaped
  /\ Goto("collect")
  /\ UNCHANGED <<procVars, reaped, jobVars, readers, failVars, outcome>>

\* The readers end when no process holds the pipes: one that has left the group
\* keeps run_command waiting for as long as it likes.
ReadersEnd ==
  /\ readers = "reading"
  /\ leader = "exited" /\ child \notin {"inside", "outside"}
  /\ readers' = "ended"
  /\ UNCHANGED <<system, call, procVars, reaped, jobVars, failVars, outcome>>

Collect ==
  /\ call = "collect" /\ readers # "reading"
  /\ outcome' = IF primary \/ cleanup THEN "raised"
                ELSE IF code = "ok" /\ ~timedOut THEN "ok" ELSE "notok"
  /\ Goto("idle")
  /\ UNCHANGED <<procVars, reaped, jobVars, readers, failVars>>

Next ==
  \/ StartChild \/ ChildEnds \/ Exit \/ Reap \/ Cancel
  \/ Call \/ Spawn \/ SpawnFails \/ Assign \/ ReleaseGate \/ StartFails
  \/ PollRaises \/ PollExited \/ PollExpired
  \/ Terminate \/ TerminateFails \/ Reaped \/ ReadersEnd \/ Collect

Spec == Init /\ [][Next]_vars

(***************************************************************************)
(* Properties.                                                              *)
(***************************************************************************)
\* When run_command is over nothing of the command is left in its group or job,
\* or a failure to end it was raised; all its output has been read; on Windows
\* it never ran outside the job; and "ok" means that it ended well by itself.
NothingLeftRunning ==
  /\ outcome # "none" =>
       /\ leader \in {"none", "exited"} /\ (leader = "exited" => reaped)
       /\ Inside => outcome = "raised"
       /\ readers # "reading" /\ job # "open"
  /\ system = "windows" /\ started => member
  /\ outcome = "ok" => started /\ code = "ok" /\ ~timedOut
==============================================================================

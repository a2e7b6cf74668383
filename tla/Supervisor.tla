----------------------------- MODULE Supervisor -----------------------------
(***************************************************************************)
(* The supervisor's processes and tasks (raychat_bootstrap/supervisor.py,  *)
(* class Supervisor): how it starts a core, replaces it by a validated     *)
(* candidate, falls back, and recovers by force.  One event loop runs the  *)
(* main loop _loop, the startup task _start and the transition task; they  *)
(* interleave at every await, and Ctrl+R cancels the transition at the     *)
(* await it has reached.                                                   *)
(*                                                                         *)
(* Controls take effect when they are sent and a killed process is gone at *)
(* once (it is reaped later); what a core says is read in order, later.    *)
(* CoreDispatch has the delays of the controls and what they mean to work. *)
(* A core's state is a version number; 0 is no state.                      *)
(***************************************************************************)
EXTENDS Integers, Sequences, FiniteSets

CONSTANTS
    MaxCores,           \* bound on processes that exist at a time
    MaxVersion,         \* bound on changes of a core's state
    MaxUpdates,         \* bound on requested updates
    MaxResumes,         \* bound on /resume-queue
    MaxCrashes,         \* bound on crashes, failing launches and /quit
    MaxPresses,         \* bound on Ctrl+R with p or g
    RecoverDuringStart  \* whether Ctrl+R is used before the first core is ready

ASSUME BoundsAssumption ==
    /\ {MaxCores, MaxVersion} \subseteq Nat \ {0}
    /\ {MaxUpdates, MaxResumes, MaxCrashes, MaxPresses} \subseteq Nat
    /\ RecoverDuringStart \in BOOLEAN

Cores == 1..MaxCores
Tasks == {"start", "transition"}

VARIABLES
    proc,       \* the processes themselves, with CoreBridge's flags
    out,        \* what each has said and _loop has not read yet
    seen,       \* the Core objects of the supervisor
    current, last, routing, menu, exit,    \* exit: exit_code
    loop,       \* _loop: running, awaiting a cancelled transition, or left
    task,       \* the two tasks, at the await each has reached
    updates, resumes, crashes, presses     \* bounded counters

coreVars  == <<proc, out, seen>>
loopVars  == <<current, last, routing, menu, exit, loop>>
countVars == <<updates, resumes, crashes, presses>>
vars == <<coreVars, loopVars, task, countVars>>

NoProc == [life |-> "none", probe |-> FALSE, version |-> 0, granted |-> FALSE,
           draining |-> FALSE, frozen |-> FALSE, idleSent |-> FALSE,
           saved |-> FALSE, retiring |-> FALSE, left |-> FALSE]
NoSeen == [ready |-> FALSE, idle |-> FALSE, captured |-> FALSE, state |-> 0,
           error |-> FALSE, expected |-> FALSE, eof |-> FALSE, reaped |-> FALSE]
Done   == [pc |-> "done", old |-> 0, new |-> 0, state |-> 0, stage |-> 0]

At(pc) == [Done EXCEPT !.pc = pc]
Alive(c) == proc[c].life \in {"starting", "ready"}
Pending  == task["transition"].pc # "done"

Init ==
    /\ proc = [c \in Cores |-> NoProc]
    /\ out = [c \in Cores |-> <<>>] /\ seen = [c \in Cores |-> NoSeen]
    /\ current = 0 /\ last \in {0, 1} /\ routing = FALSE /\ menu = FALSE
    /\ exit = "none" /\ loop = "run"
    /\ task = [t \in Tasks |-> IF t = "start"
                               THEN At(IF last = 0 THEN "launch" ELSE "killing")
                               ELSE Done]
    /\ updates = 0 /\ resumes = 0 /\ crashes = 0 /\ presses = 0

-----------------------------------------------------------------------------
(* The processes.                                                           *)

Said(kind, v) == [kind |-> kind, version |-> v]
Say(c, kind)  == out' = [out EXCEPT ![c] = Append(@, Said(kind, proc[c].version))]
ProcOnly == UNCHANGED <<seen, loopVars, task>>

Locked(c) == \E d \in Cores \ {c} : proc[d].life = "ready" /\ ~proc[d].probe

(* A core is ready once it has restored its state and, unless it is a       *)
(* probe, has the journal.                                                  *)
Restored(c) ==
    /\ proc[c].life = "starting" /\ (proc[c].probe \/ ~Locked(c))
    /\ proc' = [proc EXCEPT ![c].life = "ready"]
    /\ Say(c, "ready")
    /\ ProcOnly /\ UNCHANGED countVars

StartFails(c) ==
    /\ proc[c].life = "starting" /\ crashes < MaxCrashes /\ crashes' = crashes + 1
    /\ proc' = [proc EXCEPT ![c].life = "gone", ![c].left = TRUE]
    /\ Say(c, "failed")
    /\ UNCHANGED <<updates, resumes, presses>> /\ ProcOnly

(* Work, typing and editing change the state until it is captured.          *)
Change(c) ==
    /\ proc[c].life = "ready" /\ proc[c].granted /\ ~proc[c].frozen
    /\ proc[c].version < MaxVersion
    /\ proc' = [proc EXCEPT ![c].version = @ + 1]
    /\ UNCHANGED out /\ ProcOnly /\ UNCHANGED countVars

Idle(c) ==
    /\ proc[c].life = "ready" /\ proc[c].draining /\ ~proc[c].idleSent
    /\ proc' = [proc EXCEPT ![c].idleSent = TRUE]
    /\ Say(c, "idle")
    /\ ProcOnly /\ UNCHANGED countVars

(* A capture may fail, for a plugin without a handoff contract for example. *)
Capture(c) ==
    /\ proc[c].life = "ready" /\ proc[c].frozen /\ ~proc[c].saved
    /\ proc' = [proc EXCEPT ![c].saved = TRUE]
    /\ Say(c, "handoff") \/ Say(c, "capture_failed")
    /\ ProcOnly /\ UNCHANGED countVars

Retire(c) ==
    /\ proc[c].life = "ready" /\ proc[c].retiring
    /\ proc' = [proc EXCEPT ![c].life = "gone"]
    /\ UNCHANGED out /\ ProcOnly /\ UNCHANGED countVars

Owner(c) == proc[c].life = "ready" /\ proc[c].granted /\ ~proc[c].frozen

AskUpdate(c) ==
    /\ Owner(c) /\ updates < MaxUpdates /\ updates' = updates + 1
    /\ Say(c, "update")
    /\ UNCHANGED <<proc, resumes, crashes, presses>> /\ ProcOnly

AskResume(c) ==
    /\ Owner(c) /\ resumes < MaxResumes /\ resumes' = resumes + 1
    /\ Say(c, "resume_queue")
    /\ UNCHANGED <<proc, updates, crashes, presses>> /\ ProcOnly

(* /quit, or the startup picker is left.                                    *)
Quit(c) ==
    /\ Owner(c) \/ (proc[c].life = "starting" /\ task["start"].pc = "booting")
    /\ crashes < MaxCrashes /\ crashes' = crashes + 1
    /\ proc' = [proc EXCEPT ![c].life = "gone", ![c].left = TRUE]
    /\ Say(c, "finished")
    /\ UNCHANGED <<updates, resumes, presses>> /\ ProcOnly

Crash(c) ==
    /\ Alive(c) /\ crashes < MaxCrashes /\ crashes' = crashes + 1
    /\ proc' = [proc EXCEPT ![c].life = "gone", ![c].left = TRUE]
    /\ UNCHANGED <<out, updates, resumes, presses>> /\ ProcOnly

(* _reader sees the end of the output, once, and sets every event; the      *)
(* process is reaped before or after.  Of a process that has been reaped    *)
(* and is not the current core nothing is read any more; the model may use  *)
(* its number again.                                                        *)
Ended == [NoSeen EXCEPT !.ready = TRUE, !.idle = TRUE, !.captured = TRUE,
                        !.expected = TRUE, !.eof = TRUE, !.reaped = TRUE]

Eof(c) ==
    /\ proc[c].life = "gone" /\ ~seen[c].eof
    /\ seen' = [seen EXCEPT ![c].eof = TRUE, ![c].ready = TRUE, ![c].idle = TRUE,
                            ![c].captured = TRUE]
    /\ UNCHANGED <<proc, out, loopVars, task, countVars>>

Reap(c) ==
    /\ proc[c].life = "gone" /\ ~seen[c].reaped
    /\ IF c = current
       THEN seen' = [seen EXCEPT ![c].reaped = TRUE] /\ UNCHANGED <<proc, out>>
       ELSE /\ seen' = [seen EXCEPT ![c] = Ended]
            /\ proc' = [proc EXCEPT ![c] = [NoProc EXCEPT !.life = "gone"]]
            /\ out' = [out EXCEPT ![c] = <<>>]
    /\ UNCHANGED <<loopVars, task, countVars>>

(* A new current core.                                                      *)
Become(new, p) ==
    LET old == {current} \cap {c \in Cores : seen[c].reaped} IN
    /\ current' = new
    /\ seen' = [c \in Cores |-> IF c \in old THEN Ended ELSE seen[c]]
    /\ out' = [c \in Cores |-> IF c \in old THEN <<>> ELSE out[c]]
    /\ proc' = [c \in Cores |-> IF c \in old THEN [NoProc EXCEPT !.life = "gone"]
                                ELSE IF c = new /\ Alive(c) THEN p ELSE proc[c]]

-----------------------------------------------------------------------------
(* What the tasks and the loop do to a core.                                *)

Told(c, p) == IF Alive(c) THEN [proc EXCEPT ![c] = p] ELSE proc

Granted(p)  == [p EXCEPT !.granted = TRUE, !.draining = FALSE, !.frozen = FALSE,
                         !.idleSent = FALSE, !.saved = FALSE]
Draining(p) == [p EXCEPT !.draining = TRUE]

(* _resume.                                                                 *)
ResumeCore(c) ==
    IF c # 0 /\ ~seen[c].reaped
    THEN proc' = Told(c, Granted(proc[c])) /\ routing' = TRUE
    ELSE UNCHANGED <<proc, routing>>

(* _launch: a process starts from state v, or launching it raises.          *)
Free == {c \in Cores : /\ c # current
                       /\ proc[c].life = "none" \/ seen[c].reaped
                       /\ \A t \in Tasks : task[t].new # c}
NextFree == CHOOSE c \in Free : TRUE

(* Planted error: a restored core does not wait to be activated.            *)
LaunchCoreActive(v, probe) ==
    /\ Free # {}
    /\ proc' = [proc EXCEPT ![NextFree] =
                    [NoProc EXCEPT !.life = "starting", !.probe = probe, !.granted = TRUE,
                                   !.version = IF v = 0 THEN 1 ELSE v]]
    /\ seen' = [seen EXCEPT ![NextFree] = NoSeen]
    /\ UNCHANGED crashes

LaunchCore(v, probe) ==
    /\ Free # {}
    /\ proc' = [proc EXCEPT ![NextFree] =
                    [NoProc EXCEPT !.life = "starting", !.probe = probe,
                                   !.version = IF v = 0 THEN 1 ELSE v]]
    /\ seen' = [seen EXCEPT ![NextFree] = NoSeen]
    /\ UNCHANGED crashes
LaunchRaises == crashes < MaxCrashes /\ crashes' = crashes + 1

(* _await_ready: the event is set, or thirty seconds are over.              *)
ReadyOk(c)  == seen[c].ready /\ ~seen[c].error /\ ~seen[c].reaped /\ seen[c].state # 0

(* Planted error: there is no timeout.                                      *)
ReadyBadUntimed(c) == seen[c].ready /\ ~ReadyOk(c)

ReadyBad(c) == IF seen[c].ready THEN ~ReadyOk(c) ELSE TRUE

(* _stop: the core is asked to retire or killed.                            *)
StopAsked(c, force) ==
    /\ seen' = [seen EXCEPT ![c].expected = TRUE]
    /\ proc' = IF ~Alive(c) THEN proc
               ELSE IF force THEN [proc EXCEPT ![c].life = "gone"]
               ELSE [proc EXCEPT ![c].retiring = TRUE]

(* _stop_live_children: one child after the other is killed and waited for, *)
(* here in any order; the first is killed in the step that calls it.        *)
Clearing == {"undoing", "giving_up", "clearing", "cancel_clearing"}
Unreaped == {c \in Cores : proc[c].life # "none" /\ ~seen[c].reaped}
KillFirst == IF Unreaped = {} THEN UNCHANGED <<proc, seen>>
             ELSE \E c \in Unreaped : StopAsked(c, TRUE)

Go(t, pc) == task' = [task EXCEPT ![t].pc = pc]
End(t)    == task' = [task EXCEPT ![t] = Done]
New(t)    == task[t].new

(* _candidate or _recover reports the failure and resumes the current core. *)
Rejected(t) == End(t) /\ ResumeCore(current)

-----------------------------------------------------------------------------
(* The transition task: _validate_candidate and _drain.                     *)

CandidateFails(t) ==
    /\ task[t].pc = "validating"
    /\ Rejected(t)
    /\ UNCHANGED <<out, seen, current, last, menu, exit, loop, countVars>>

(* idle and captured are cleared, whatever has set them.                    *)
StartDrain(t) ==
    /\ task[t].pc = "validating"
    /\ task' = [task EXCEPT ![t] = [At("draining") EXCEPT !.old = current]]
    /\ seen' = [seen EXCEPT ![current].idle = FALSE, ![current].captured = FALSE,
                            ![current].error = FALSE]
    /\ proc' = Told(current, Draining(proc[current]))
    /\ UNCHANGED <<out, loopVars, countVars>>

(* The input barrier: nothing more is routed, the core is frozen.           *)
Drained(t) ==
    LET old == task[t].old IN
    /\ task[t].pc = "draining" /\ seen[old].idle
    /\ IF seen[old].reaped THEN Rejected(t)
       ELSE /\ Go(t, "capturing")
            /\ routing' = FALSE
            /\ proc' = Told(old, [proc[old] EXCEPT !.frozen = TRUE])
    /\ UNCHANGED <<out, seen, current, last, menu, exit, loop, countVars>>

(* The state is recorded, or it cannot be; then the probe is launched.      *)
Captured(t) ==
    LET old == task[t].old IN
    /\ task[t].pc = "capturing" /\ seen[old].captured
    /\ ~seen[old].error /\ seen[old].state # 0
    /\ last' = seen[old].state
    /\ \/ /\ LaunchCore(last', TRUE)
          /\ task' = [task EXCEPT ![t].pc = "probing", ![t].new = NextFree,
                                  ![t].state = last']
          /\ UNCHANGED routing
       \/ LaunchRaises /\ Rejected(t) /\ UNCHANGED seen
    /\ UNCHANGED <<out, current, menu, exit, loop, updates, resumes, presses>>

(* It fails, or thirty seconds are over: all that the core said before its  *)
(* answer has been read by then, _loop looks a hundred times in a second.   *)
CaptureFails(t) ==
    LET old == task[t].old IN
    /\ task[t].pc = "capturing"
    /\ IF seen[old].captured THEN seen[old].error \/ seen[old].state = 0
       ELSE \A i \in 1..Len(out[old]) : out[old][i].kind \in {"handoff", "capture_failed"}
    /\ Rejected(t)
    /\ seen' = [seen EXCEPT ![old].error = FALSE]
    /\ UNCHANGED <<out, current, last, menu, exit, loop, countVars>>

(* The probe is stopped whatever has come of it.                            *)
Probed(t) ==
    /\ task[t].pc = "probing"
    /\ \/ ReadyOk(New(t)) /\ Go(t, "passed")
       \/ ReadyBad(New(t)) /\ Go(t, "failed")
    /\ StopAsked(New(t), FALSE)
    /\ UNCHANGED <<out, loopVars, countVars>>

ProbeRejected(t) ==
    /\ task[t].pc = "failed" /\ seen[New(t)].reaped
    /\ Rejected(t)
    /\ UNCHANGED <<out, seen, current, last, menu, exit, loop, countVars>>

RetireOld(t) ==
    /\ task[t].pc = "passed" /\ seen[New(t)].reaped
    /\ StopAsked(task[t].old, FALSE)
    /\ Go(t, "retiring")
    /\ UNCHANGED <<out, loopVars, countVars>>

(* Planted error: only the old core is waited for with a timeout.           *)
RetireTimeoutOld(t) ==
    /\ task[t].pc = "retiring" /\ Alive(task[t].old)
    /\ proc' = [proc EXCEPT ![task[t].old].life = "gone"]
    /\ UNCHANGED <<out, seen, loopVars, task, countVars>>

(* A core that does not retire is killed after ten seconds.                 *)
RetireTimeout(t) ==
    /\ \/ /\ task[t].pc \in {"passed", "failed", "cancel_stopping"} /\ Alive(New(t))
          /\ proc' = [proc EXCEPT ![New(t)].life = "gone"]
       \/ /\ task[t].pc = "retiring" /\ Alive(task[t].old)
          /\ proc' = [proc EXCEPT ![task[t].old].life = "gone"]
    /\ UNCHANGED <<out, seen, loopVars, task, countVars>>

(* Only after its process exits is the replacement launched.                *)
Replace(t) ==
    /\ task[t].pc = "retiring" /\ seen[task[t].old].reaped
    /\ \/ /\ LaunchCore(task[t].state, FALSE)
          /\ task' = [task EXCEPT ![t].pc = "awaiting", ![t].new = NextFree]
       \/ LaunchRaises /\ Go(t, "undoing") /\ KillFirst
    /\ UNCHANGED <<out, loopVars, updates, resumes, presses>>

(* The replacement, or the previous release once more, is ready.            *)
Activated(t) ==
    LET new == New(t) IN
    /\ task[t].pc \in {"awaiting", "restarting"} /\ ReadyOk(new)
    /\ Become(new, Granted(proc[new])) /\ routing' = TRUE
    /\ last' = IF task[t].pc = "awaiting" THEN seen[new].state ELSE last
    /\ End(t)
    /\ UNCHANGED <<menu, exit, loop, countVars>>

NotActivated(t) ==
    /\ task[t].pc \in {"awaiting", "restarting"} /\ ReadyBad(New(t))
    /\ \/ task[t].pc = "awaiting" /\ Go(t, "undoing")
       \/ task[t].pc = "restarting" /\ Go(t, "giving_up")
    /\ KillFirst
    /\ UNCHANGED <<out, loopVars, countVars>>

-----------------------------------------------------------------------------
(* _stop_live_children and _restart_previous.                               *)

(* The next child, once the one before has been reaped.                     *)
KillChild(t) ==
    /\ task[t].pc \in Clearing
    /\ Unreaped # {} /\ \A c \in Unreaped : Alive(c)
    /\ KillFirst
    /\ UNCHANGED <<out, loopVars, task, countVars>>

RestartPrevious(t) ==
    /\ task[t].pc = "undoing" /\ Unreaped = {}
    /\ \/ /\ LaunchCore(task[t].state, FALSE)
          /\ task' = [task EXCEPT ![t].pc = "restarting", ![t].new = NextFree]
       \/ LaunchRaises /\ Go(t, "giving_up") /\ UNCHANGED <<proc, seen>>
    /\ UNCHANGED <<out, loopVars, updates, resumes, presses>>

GiveUp(t) ==
    /\ task[t].pc = "giving_up" /\ Unreaped = {}
    /\ Rejected(t)
    /\ UNCHANGED <<out, seen, current, last, menu, exit, loop, countVars>>

-----------------------------------------------------------------------------
(* _recover by force, in either task.                                       *)

(* Planted error: the old core is not stopped.                              *)
RecoveryUnstopped(t) ==
    /\ task' = [task EXCEPT ![t] = At("killing")]
    /\ routing' = FALSE
    /\ UNCHANGED <<seen, proc>>

(* Its first step, up to the end of the old core.                           *)
Recovery(t) ==
    /\ task' = [task EXCEPT ![t] = [At("killing") EXCEPT !.old = current]]
    /\ routing' = FALSE
    /\ IF current = 0 THEN UNCHANGED <<seen, proc>> ELSE StopAsked(current, TRUE)

(* _restore_state: the latest state, the retained one, or none (the safe    *)
(* core); a stage whose state cannot even be read is passed over.           *)
Stage(t, stage, v) ==
    \/ /\ LaunchCore(v, FALSE)
       /\ task' = [task EXCEPT ![t].pc = "restoring", ![t].new = NextFree,
                               ![t].stage = stage]
    \/ /\ LaunchRaises
       /\ task' = [task EXCEPT ![t].pc = "clearing", ![t].stage = stage]
       /\ KillFirst

RestoreLatest(t) ==
    /\ task[t].pc = "killing" /\ (\A c \in {task[t].old} \ {0} : seen[c].reaped)
    /\ Stage(t, 1, last)
    /\ UNCHANGED <<out, loopVars, updates, resumes, presses>>

(* Planted error: there is no last stage.                                   *)
RestoreNextAgain(t) ==
    /\ task[t].pc = "clearing" /\ Unreaped = {}
    /\ \/ task[t].stage = 1 /\ Stage(t, 2, 1)
       \/ task[t].stage > 1 /\ Stage(t, task[t].stage + 1, 0)
    /\ UNCHANGED <<out, current, last, routing, menu, exit, loop, updates, resumes,
                   presses>>

RestoreNext(t) ==
    /\ task[t].pc = "clearing" /\ Unreaped = {}
    /\ \/ task[t].stage = 1 /\ Stage(t, 2, 1) /\ UNCHANGED menu
       \/ task[t].stage \in {1, 2} /\ Stage(t, 3, 0) /\ UNCHANGED menu
       \/ task[t].stage = 3 /\ menu' = TRUE /\ End(t) /\ UNCHANGED <<proc, seen, crashes>>
    /\ UNCHANGED <<out, current, last, routing, exit, loop, updates, resumes, presses>>

(* The restored core is activated and drained: its queue stays paused.      *)
Recovered(t) ==
    LET new == New(t) IN
    /\ task[t].pc = "restoring" /\ ReadyOk(new)
    /\ Become(new, Draining(Granted(proc[new])))
    /\ last' = seen[new].state /\ routing' = TRUE
    /\ End(t)
    /\ UNCHANGED <<menu, exit, loop, countVars>>

NotRestored(t) ==
    /\ task[t].pc = "restoring" /\ ReadyBad(New(t))
    /\ Go(t, "clearing")
    /\ KillFirst
    /\ UNCHANGED <<out, loopVars, countVars>>

-----------------------------------------------------------------------------
(* _start.                                                                  *)

Launch ==
    /\ task["start"].pc = "launch"
    /\ \/ /\ LaunchCore(last, FALSE)
          /\ task' = [task EXCEPT !["start"] = [At("booting") EXCEPT !.new = NextFree]]
          /\ current' = NextFree
          /\ out' = [out EXCEPT ![NextFree] = <<Said("startup", 0)>>]
          /\ UNCHANGED exit
       \/ /\ LaunchRaises /\ End("start") /\ exit' = "failed"
          /\ UNCHANGED <<proc, seen, out, current>>
    /\ UNCHANGED <<last, routing, menu, loop, updates, resumes, presses>>

(* _startup_ready reads the core's messages itself first.                   *)
Started ==
    LET new == New("start") IN
    /\ task["start"].pc = "booting" /\ seen[new].ready /\ out[new] = <<>>
    /\ End("start")
    /\ \/ seen[new].expected /\ exit = "ok" /\ UNCHANGED <<proc, seen, last, routing, exit>>
       \/ /\ ~(seen[new].expected /\ exit = "ok") /\ ReadyOk(new)
          /\ last' = seen[current].state
          /\ ResumeCore(current)
          /\ UNCHANGED <<seen, exit>>
       \/ /\ ~(seen[new].expected /\ exit = "ok") /\ ~ReadyOk(new)
          /\ seen' = [seen EXCEPT ![current].expected = TRUE]
          /\ exit' = "failed"
          /\ UNCHANGED <<proc, last, routing>>
    /\ UNCHANGED <<out, current, menu, loop, countVars>>

-----------------------------------------------------------------------------
(* _loop.                                                                   *)

Running == loop = "run" /\ exit = "none"

(* _input sends the terminal's input to the current core.                   *)
Routed == routing /\ current # 0 /\ ~seen[current].reaped

(* Planted error: the queue is resumed whatever is pending.                 *)
ResumeQueueAlways == ResumeCore(current)

(* _resume_queue: nothing while a transition is pending.                    *)
ResumeQueue == IF Pending THEN UNCHANGED <<proc, routing>> ELSE ResumeCore(current)

(* _event.                                                                  *)
Event(c) ==
    LET m == Head(out[c])
        Note(s) == seen' = [seen EXCEPT ![c] = s]
    IN
    /\ Running /\ out[c] # <<>>
    /\ out' = [out EXCEPT ![c] = Tail(@)]
    /\ \/ /\ m.kind = "ready"
          /\ Note([seen[c] EXCEPT !.state = m.version, !.ready = TRUE])
          /\ UNCHANGED <<proc, last, routing, task, exit>>
       \/ /\ m.kind = "failed"
          /\ Note([seen[c] EXCEPT !.error = TRUE, !.ready = TRUE])
          /\ UNCHANGED <<proc, last, routing, task, exit>>
       \/ /\ m.kind = "startup"         \* the startup picker reads the terminal
          /\ routing' = (routing \/ c = current)
          /\ UNCHANGED <<proc, seen, last, task, exit>>
       \/ /\ m.kind = "idle"
          /\ Note([seen[c] EXCEPT !.idle = @ \/ c = current])
          /\ UNCHANGED <<proc, last, routing, task, exit>>
       \/ /\ m.kind = "handoff"
          /\ Note([seen[c] EXCEPT !.state = m.version, !.captured = TRUE])
          /\ last' = IF c = current THEN m.version ELSE last
          /\ UNCHANGED <<proc, routing, task, exit>>
       \/ /\ m.kind = "capture_failed"
          /\ Note([seen[c] EXCEPT !.error = TRUE, !.captured = TRUE])
          /\ UNCHANGED <<proc, last, routing, task, exit>>
       \/ /\ m.kind = "update"          \* one that comes too late is "busy"
          /\ task' = IF c = current /\ ~Pending
                     THEN [task EXCEPT !["transition"] = At("validating")] ELSE task
          /\ UNCHANGED <<proc, seen, last, routing, exit>>
       \/ /\ m.kind = "resume_queue"
          /\ IF c = current THEN ResumeQueue ELSE UNCHANGED <<proc, routing>>
          /\ UNCHANGED <<seen, last, task, exit>>
       \/ /\ m.kind = "finished"
          /\ IF c = current
             THEN exit' = "ok" /\ Note([seen[c] EXCEPT !.expected = TRUE])
             ELSE UNCHANGED <<exit, seen>>
          /\ UNCHANGED <<proc, last, routing, task>>
    /\ UNCHANGED <<current, menu, loop, countVars>>

(* A core that has gone unexpectedly is recovered, unless a transition is   *)
(* pending; it is noticed only once, after what has been read of it.        *)
NoticeExit ==
    /\ Running /\ current # 0
    /\ seen[current].reaped /\ ~seen[current].expected
    /\ ~seen[current].eof \/ out[current] = <<>>
    /\ IF Pending
       THEN /\ seen' = [seen EXCEPT ![current].expected = TRUE]
            /\ UNCHANGED <<proc, task, routing>>
       ELSE Recovery("transition")
    /\ UNCHANGED <<out, current, last, menu, exit, loop, countVars>>

(* Where a cancelled task goes from the await it has reached: what it has   *)
(* launched is stopped, by the handlers of _drain and _restore_state; a     *)
(* wait for the end of a process is abandoned.                              *)
CancelledTo(pc) ==
    CASE pc = "probing"  -> "cancel_stopping"
      [] pc \in {"awaiting", "restoring"} -> "cancel_clearing"
      [] pc = "restarting" -> "giving_up"
      [] OTHER -> "done"

(* Ctrl+R, then p or g.                                                     *)
Press ==
    /\ Running /\ presses < MaxPresses
    /\ RecoverDuringStart \/ task["start"].pc = "done"
    /\ presses' = presses + 1
    /\ menu' = FALSE
    /\ IF Pending
       THEN LET pc == task["transition"].pc IN
            /\ loop' = "cancel"
            /\ IF CancelledTo(pc) = "done" THEN End("transition")
               ELSE Go("transition", CancelledTo(pc))
            /\ CASE pc = "probing" -> StopAsked(New("transition"), FALSE)
                 [] CancelledTo(pc) \in Clearing -> KillFirst
                 [] OTHER -> UNCHANGED <<proc, seen>>
            /\ UNCHANGED routing
       ELSE Recovery("transition") /\ UNCHANGED loop
    /\ UNCHANGED <<out, current, last, exit, updates, resumes, crashes>>

Cancelled(t) ==
    /\ \/ task[t].pc = "cancel_clearing" /\ Unreaped = {}
       \/ task[t].pc = "cancel_stopping" /\ seen[New(t)].reaped
    /\ End(t)
    /\ UNCHANGED <<coreVars, loopVars, countVars>>

(* The loop wakes when the cancelled transition has ended.                  *)
AfterCancel ==
    /\ loop = "cancel" /\ ~Pending
    /\ loop' = "run"
    /\ Recovery("transition")
    /\ UNCHANGED <<out, current, last, menu, exit, countVars>>

(* The end: everything is cancelled and stopped.                            *)
Leave ==
    /\ loop = "run" /\ exit # "none"
    /\ loop' = "left"
    /\ task' = [t \in Tasks |-> Done]
    /\ proc' = [c \in Cores |-> IF Alive(c) THEN [proc[c] EXCEPT !.life = "gone"]
                                ELSE proc[c]]
    /\ UNCHANGED <<out, seen, current, last, routing, menu, exit, countVars>>

ProcessStep(c) ==
    \/ Restored(c) \/ StartFails(c) \/ Change(c) \/ Idle(c) \/ Capture(c) \/ Retire(c)
    \/ AskUpdate(c) \/ AskResume(c) \/ Quit(c) \/ Crash(c)

TaskStep(t) ==
    \/ CandidateFails(t) \/ StartDrain(t) \/ Drained(t) \/ Captured(t)
    \/ CaptureFails(t) \/ Probed(t) \/ ProbeRejected(t) \/ RetireOld(t)
    \/ RetireTimeout(t) \/ Replace(t) \/ Activated(t) \/ NotActivated(t)
    \/ KillChild(t) \/ RestartPrevious(t) \/ GiveUp(t) \/ Cancelled(t)
    \/ RestoreLatest(t) \/ RestoreNext(t) \/ Recovered(t) \/ NotRestored(t)

StartStep == Launch \/ Started
LoopStep  == (\E c \in Cores : Event(c)) \/ NoticeExit \/ AfterCancel \/ Leave

Next ==
    \/ \E c \in Cores : ProcessStep(c) \/ Eof(c) \/ Reap(c)
    \/ \E t \in Tasks : TaskStep(t)
    \/ StartStep \/ LoopStep \/ Press

Spec == Init /\ [][Next]_vars

(* The loop and the tasks run, a wait that has a timeout ends, and what has *)
(* exited is seen and reaped.  A process itself may hang.                   *)
Fairness ==
    /\ \A c \in Cores : WF_vars(Eof(c)) /\ WF_vars(Reap(c)) /\ WF_vars(Event(c))
    /\ \A t \in Tasks : WF_vars(TaskStep(t))
    /\ WF_vars(StartStep) /\ WF_vars(NoticeExit) /\ WF_vars(AfterCancel)
    /\ WF_vars(Leave)

FairSpec == Spec /\ Fairness

-----------------------------------------------------------------------------
(* Properties.                                                              *)

Messages == {"startup", "ready", "failed", "idle", "handoff", "capture_failed",
             "update", "resume_queue", "finished"}
Versions == 0..MaxVersion
Exchanging == {"capturing", "probing", "passed", "failed", "retiring", "awaiting",
               "undoing", "restarting"}
Recovering == {"killing", "restoring", "clearing"}
Places == Exchanging \cup Recovering \cup
          {"done", "launch", "booting", "validating", "draining", "giving_up",
           "cancel_stopping", "cancel_clearing"}

(* The types of all variables.                                              *)
TypeOK ==
    /\ proc \in [Cores -> [life : {"none", "starting", "ready", "gone"},
                          version : Versions, probe : BOOLEAN, granted : BOOLEAN,
                          draining : BOOLEAN, frozen : BOOLEAN, idleSent : BOOLEAN,
                          saved : BOOLEAN, retiring : BOOLEAN, left : BOOLEAN]]
    /\ out \in [Cores -> Seq([kind : Messages, version : Versions])]
    /\ seen \in [Cores -> [state : Versions, ready : BOOLEAN, idle : BOOLEAN,
                          captured : BOOLEAN, error : BOOLEAN, expected : BOOLEAN,
                          eof : BOOLEAN, reaped : BOOLEAN]]
    /\ current \in 0..MaxCores /\ last \in Versions
    /\ routing \in BOOLEAN /\ menu \in BOOLEAN
    /\ exit \in {"none", "ok", "failed"} /\ loop \in {"run", "cancel", "left"}
    /\ task \in [Tasks -> [pc : Places, old : 0..MaxCores, new : 0..MaxCores,
                           state : Versions, stage : 0..3]]

(* Dispatch ownership is never shared: a live core that has been told to    *)
(* activate or to continue is the current one.                              *)
OneOwner == \A c \in Cores : Alive(c) /\ proc[c].granted => c = current

(* "Only after its process exits can the replacement acquire the journal's  *)
(* exclusive writer lock": of two live processes one is a probe, so no core *)
(* is turned away from a journal that another one still holds.              *)
OneWriter ==
    \A c, d \in Cores : Alive(c) /\ Alive(d) /\ c # d => proc[c].probe \/ proc[d].probe

(* Whatever dies or is cancelled, dispatch and journal are one core's; but a *)
(* second Ctrl+R can cancel _stop_live_children before its last child.       *)
OneCoreInCharge == OneOwner /\ (presses < 2 => OneWriter)

(* What is restored into the replacement is the last state of the old core, *)
(* which has not changed since the barrier, unless it has left by itself;   *)
(* and terminal input is held back while cores are exchanged, so that none  *)
(* goes to a core whose state is already captured.                          *)
CapturedIsFinal ==
    \A t \in Tasks :
        /\ task[t].pc \in Exchanging \ {"capturing"} =>
              \/ task[t].state = proc[task[t].old].version
              \/ proc[task[t].old].left
        /\ task[t].pc \in Exchanging \cup Recovering => ~Routed

(* A forced recovery ends, whatever hangs.                                  *)
RecoveryEnds == \A t \in Tasks : task[t].pc \in Recovering ~> task[t].pc = "done"

(* The loop, which waits for the transition it has cancelled, gets on.      *)
CancelEnds == loop = "cancel" ~> loop # "cancel"

(* Neither a recovery nor the cancellation before it waits for a hung       *)
(* process.                                                                 *)
NothingHangs == RecoveryEnds /\ CancelEnds

(* "Keep the terminal usable through validation, activation and core        *)
(* failures": a current core that is gone is replaced, or the recovery      *)
(* screen is shown, or the program ends.                                    *)
TerminalUsable ==
    current # 0 /\ proc[current].life = "gone" ~>
        (current # 0 /\ Alive(current)) \/ menu \/ loop = "left"

(* Ctrl+R recovers "even when the core has crashed or stopped responding":  *)
(* the program does not end with a startup failure after it.                *)
RecoveryKeepsRunning == presses > 0 /\ current # 0 => exit # "failed"
=============================================================================

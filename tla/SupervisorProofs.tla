-------------------------- MODULE SupervisorProofs --------------------------
(***************************************************************************)
(* What the proof system shows of the supervisor, for any number of cores,  *)
(* updates, crashes and presses of Ctrl+R: one core owns dispatch, and what *)
(* a replacement starts from is what the old core last had.                 *)
(***************************************************************************)
EXTENDS Supervisor, SequenceTheorems, TLAPS

st == task["start"]
tr == task["transition"]

Answers   == {"handoff", "capture_failed"}
Launched  == {"awaiting", "restarting", "restoring"}    \* waiting for a new core
Killing   == {"clearing", "undoing", "giving_up", "cancel_clearing"}
Probing   == {"probing", "passed", "failed"}
Unfrozen  == {"done", "validating", "draining"}
Keeping   == Unfrozen \cup {"capturing", "probing", "passed", "failed", "retiring",
                            "cancel_stopping"}           \* the old core is kept

Procs == [life : {"none", "starting", "ready", "gone"}, version : Versions,
          probe : BOOLEAN, granted : BOOLEAN, draining : BOOLEAN, frozen : BOOLEAN,
          idleSent : BOOLEAN, saved : BOOLEAN, retiring : BOOLEAN, left : BOOLEAN]
Sights == [state : Versions, ready : BOOLEAN, idle : BOOLEAN, captured : BOOLEAN,
           error : BOOLEAN, expected : BOOLEAN, eof : BOOLEAN, reaped : BOOLEAN]
Sent == [kind : Messages, version : Versions]
Stations == [pc : Places, old : 0..MaxCores, new : 0..MaxCores, state : Versions, stage : 0..3]

ProcTyped == proc \in [Cores -> Procs]
OutTyped  == out \in [Cores -> Seq(Sent)]
SeenTyped == seen \in [Cores -> Sights]
TaskTyped == task \in [Tasks -> Stations]
LoopTyped ==
    /\ current \in 0..MaxCores /\ last \in Versions /\ routing \in BOOLEAN
    /\ menu \in BOOLEAN /\ exit \in {"none", "ok", "failed"}
    /\ loop \in {"run", "cancel", "left"}
    /\ {updates, resumes, crashes, presses} \subseteq Nat
Typed == ProcTyped /\ OutTyped /\ SeenTyped /\ TaskTyped /\ LoopTyped

Writers(S)  == \A c \in Cores : Alive(c) /\ ~proc[c].probe => c \in S
Silent(c)   == \A i \in 1..Len(out[c]) : out[c][i].kind \notin Answers

(* Where the two tasks are.  The first core is launched or recovered before *)
(* there is a transition; one that dies while it boots may be recovered by  *)
(* a transition before the startup task has noticed.                        *)
Positions ==
    /\ st.pc \in {"launch", "booting", "done"} \cup Recovering
    /\ tr.pc \notin {"launch", "booting"}
    /\ st.pc \in {"launch"} \cup Recovering => current = 0 /\ tr.pc = "done"
    /\ st.pc = "booting" =>
          /\ st.new \in Cores
          /\ \/ seen[st.new].reaped
             \/ st.new = current /\ tr.pc = "done" /\ ~proc[current].granted
    /\ st.pc # "done" => presses = 0 /\ loop = "run"
    /\ tr.pc \in {"validating", "draining"} \cup Exchanging => current \in Cores
    /\ tr.pc \in {"draining"} \cup Exchanging => tr.old = current
    /\ \A t \in Tasks : task[t].pc = "killing" => task[t].old = current
    /\ current \in Cores => proc[current].life # "none"
    /\ tr.pc \in {"validating", "draining", "capturing", "probing", "failed"} =>
          proc[current].granted
    /\ \A t \in Tasks : task[t].pc \in Launched \cup Probing \cup {"cancel_stopping"} =>
          task[t].new \in Cores \ {current} /\ proc[task[t].new].life # "none"
    /\ loop = "cancel" =>
          presses > 0 /\ tr.pc \in {"done", "giving_up", "cancel_stopping", "cancel_clearing"}
    /\ tr.pc \in {"cancel_stopping", "cancel_clearing"} => loop = "cancel"
    /\ loop = "left" => tr.pc = "done"

(* What is left of a process that has been reaped.                          *)
Remains ==
    \A c \in Cores :
        /\ seen[c].reaped => proc[c].life = "gone"
        /\ proc[c].life = "none" => out[c] = <<>>
        /\ seen[c].reaped /\ c # current => out[c] = <<>>

(* The old core is dead before another one can get dispatch.                *)
Ownership ==
    /\ OneOwner
    /\ \A t \in Tasks :
          task[t].pc \in {"awaiting", "undoing", "restarting"} \cup Recovering =>
              \A c \in Cores : Alive(c) => c # current

(* The processes that have not been reaped, and those of them that need the *)
(* journal: before the first press of Ctrl+R, and before the second.        *)
OneProcess ==
    presses = 0 /\ loop = "run" =>
        /\ \A t \in Tasks :
              /\ task[t].pc \in Launched \cup Killing => Unreaped \subseteq {task[t].new}
              /\ task[t].pc = "launch" => Unreaped = {}
        /\ st.pc = "killing" => Unreaped = {}
        /\ st.pc \in {"booting", "done"} =>
              /\ tr.pc \in (Keeping \ Probing) \cup {"killing"} => Unreaped \subseteq {current}
              /\ tr.pc \in Probing => Unreaped \subseteq {current, tr.new}

OneJournal ==
    presses < 2 =>
        /\ \A t \in Tasks :
              /\ task[t].pc \in Launched => Writers({task[t].new})
              /\ task[t].pc \in {"launch", "killing"} => Writers({})
              /\ task[t].pc \in Killing =>
                    Writers(IF presses = 0 THEN {} ELSE {task[t].new})
        /\ st.pc \in {"booting", "done"} /\ tr.pc \in Keeping => Writers({current})

(* What a core may have said.                                               *)
FrozenGranted == \A c \in Cores : proc[c].frozen => proc[c].granted

GrantedSay ==
    \A c \in Cores : \A i \in 1..Len(out[c]) :
        out[c][i].kind \in {"update", "resume_queue"} \cup Answers => proc[c].granted

StartupSays ==
    \A c \in Cores : \A i \in 1..Len(out[c]) :
        out[c][i].kind = "startup" /\ loop # "left" => st.pc = "booting" /\ st.new = c

ReadySays ==
    \A c \in Cores : \A i \in 1..Len(out[c]) :
        out[c][i].kind = "ready" =>
            /\ seen[c].state = 0 /\ ~proc[c].granted
            /\ \A j \in 1..(i - 1) : out[c][j].kind = "startup"

StartingSays ==
    \A c \in Cores : proc[c].life = "starting" =>
        /\ ~proc[c].granted /\ seen[c].state = 0
        /\ \A i \in 1..Len(out[c]) : out[c][i].kind = "startup"

Sayings == FrozenGranted /\ GrantedSay /\ StartupSays /\ ReadySays /\ StartingSays

(* A core that nobody has told to leave has left by itself.                 *)
Undisturbed(c) ==
    /\ proc[c].life = "gone" => proc[c].left \/ seen[c].reaped
    /\ Alive(c) => ~proc[c].retiring

CurrentUndisturbed ==
    loop = "run" /\ current \in Cores /\ tr.pc \in Keeping \ {"retiring", "cancel_stopping"} =>
        Undisturbed(current)
NewUndisturbed ==
    \A t \in Tasks : task[t].pc \in Launched => Undisturbed(task[t].new)
CaptureUndisturbed ==
    tr.pc = "capturing" /\ proc[current].life = "gone" => proc[current].left

Undisturbing == CurrentUndisturbed /\ NewUndisturbed /\ CaptureUndisturbed

(* From the barrier on the core is frozen, and its one answer is the state  *)
(* it has; before, no late answer to an earlier capture can come.           *)
Owning == current \in Cores /\ Alive(current)

FrozenInExchange ==
    Owning =>
        /\ loop = "run" /\ tr.pc \in Unfrozen => ~proc[current].frozen
        /\ tr.pc \in Exchanging => proc[current].frozen

AnswersPrecede ==
    Owning /\ loop = "run" /\ tr.pc = "done" =>
        \A j \in 1..Len(out[current]) : \A i \in 1..(j - 1) :
            out[current][i].kind = "update" => out[current][j].kind \notin Answers

AnswersRead ==
    Owning =>
        /\ tr.pc \in {"validating", "draining"} \cup Probing => Silent(current)
        /\ tr.pc \in Probing => proc[current].saved
        /\ tr.pc = "draining" => ~seen[current].captured

CaptureRead ==
    Owning /\ tr.pc = "capturing" /\ seen[current].captured =>
        /\ proc[current].saved /\ Silent(current)
        /\ seen[current].error \/ seen[current].state = proc[current].version

CaptureComes ==
    Owning /\ tr.pc = "capturing" /\ ~seen[current].captured =>
        \A i \in 1..Len(out[current]) : out[current][i].kind \in Answers =>
            /\ proc[current].saved
            /\ out[current][i].kind = "handoff" =>
                  out[current][i].version = proc[current].version
            /\ \A j \in 1..Len(out[current]) : out[current][j].kind \in Answers => j = i

Barrier ==
    /\ FrozenInExchange /\ AnswersPrecede /\ AnswersRead
    /\ CaptureRead /\ CaptureComes /\ CapturedIsFinal

SupervisorInv ==
    /\ Typed /\ Positions /\ Remains /\ Ownership /\ OneProcess /\ OneJournal
    /\ Sayings /\ Undisturbing /\ Barrier

-----------------------------------------------------------------------------
(* What a step may do to a process, in the fields that the invariants read. *)
Lives(p, q)   == q.life = p.life /\ q.version = p.version
Flags(p, q)   == (q.probe <=> p.probe) /\ (q.left <=> p.left)
Rights(p, q)  == (q.granted <=> p.granted) /\ (q.frozen <=> p.frozen) /\ (q.saved <=> p.saved)
Freezes(p, q) == /\ Lives(p, q) /\ Flags(p, q) /\ (q.retiring <=> p.retiring)
                 /\ q.frozen /\ (q.granted <=> p.granted) /\ (q.saved <=> p.saved)
Grants(p, q)  == /\ Lives(p, q) /\ Flags(p, q) /\ (q.retiring <=> p.retiring)
                 /\ q.granted /\ ~q.frozen /\ ~q.saved
Drains(p, q)  == Lives(p, q) /\ Flags(p, q) /\ Rights(p, q) /\ (q.retiring <=> p.retiring)
Retires(p, q) == Lives(p, q) /\ Flags(p, q) /\ Rights(p, q) /\ q.retiring
Dies(p, q)    == /\ q.life = "gone" /\ q.version = p.version
                 /\ Flags(p, q) /\ Rights(p, q) /\ (q.retiring <=> p.retiring)

LEMMA Changed ==
  ASSUME NEW p \in Procs
  PROVE  /\ LET q == [p EXCEPT !.frozen = TRUE] IN q \in Procs /\ Freezes(p, q)
         /\ LET q == Granted(p) IN q \in Procs /\ Grants(p, q)
         /\ LET q == Draining(p) IN q \in Procs /\ Drains(p, q)
         /\ LET q == Draining(Granted(p)) IN q \in Procs /\ Grants(p, q)
         /\ LET q == [p EXCEPT !.retiring = TRUE] IN q \in Procs /\ Retires(p, q)
         /\ LET q == [p EXCEPT !.life = "gone"] IN q \in Procs /\ Dies(p, q)
<1> USE DEF Lives, Flags, Rights
<1>1. LET q == [p EXCEPT !.frozen = TRUE] IN q \in Procs /\ Freezes(p, q)
  BY DEF Procs, Freezes
<1>2. LET q == Granted(p) IN q \in Procs /\ Grants(p, q)
  BY DEF Procs, Granted, Grants
<1>3. LET q == Draining(p) IN q \in Procs /\ Drains(p, q)
  BY DEF Procs, Draining, Drains
<1>4. LET q == Draining(Granted(p)) IN q \in Procs /\ Grants(p, q)
  BY DEF Procs, Draining, Granted, Grants
<1>5. LET q == [p EXCEPT !.retiring = TRUE] IN q \in Procs /\ Retires(p, q)
  BY DEF Procs, Retires
<1>6. LET q == [p EXCEPT !.life = "gone"] IN q \in Procs /\ Dies(p, q)
  BY DEF Procs, Dies
<1>7. QED
  BY <1>1, <1>2, <1>3, <1>4, <1>5, <1>6

LEMMA ToldFacts ==
  ASSUME ProcTyped, NEW c \in Cores, NEW p \in Procs, proc' = Told(c, p)
  PROVE  /\ ProcTyped'
         /\ \A d \in Cores : proc'[d] = IF d = c /\ Alive(d) THEN p ELSE proc[d]
BY DEF ProcTyped, Told

LEMMA ResumeFacts ==
  ASSUME Typed, NEW c \in 0..MaxCores, ResumeCore(c)
  PROVE  /\ ProcTyped' /\ routing' \in BOOLEAN
         /\ IF c = 0 \/ seen[c].reaped THEN UNCHANGED <<proc, routing>>
            ELSE \A d \in Cores : IF d = c /\ Alive(d) THEN Grants(proc[d], proc'[d])
                                  ELSE proc'[d] = proc[d]
<1>1. CASE c = 0 \/ seen[c].reaped
  BY <1>1 DEF ResumeCore, Typed, ProcTyped, LoopTyped
<1>2. CASE ~(c = 0 \/ seen[c].reaped)
  <2>1. c \in Cores /\ proc[c] \in Procs
    BY <1>2, BoundsAssumption DEF Cores, Typed, ProcTyped
  <2>2. /\ Granted(proc[c]) \in Procs /\ Grants(proc[c], Granted(proc[c]))
        /\ proc' = Told(c, Granted(proc[c])) /\ routing' = TRUE
    BY <1>2, <2>1, Changed DEF ResumeCore
  <2>3. ProcTyped' /\ \A d \in Cores : proc'[d] = IF d = c /\ Alive(d) THEN Granted(proc[c]) ELSE proc[d]
    BY <2>1, <2>2, ToldFacts DEF Typed
  <2>4. QED
    BY <2>2, <2>3, <1>2
<1>3. QED
  BY <1>1, <1>2

LEMMA EndFacts ==
  ASSUME TaskTyped, NEW t \in Tasks, End(t)
  PROVE  TaskTyped' /\ (\A u \in Tasks \ {t} : task'[u] = task[u])
         /\ task'[t].pc = "done" /\ task'[t].new = 0
BY BoundsAssumption DEF TaskTyped, End, Done, Tasks, Stations, Places, Versions, Exchanging,
      Recovering

LEMMA GoFacts ==
  ASSUME TaskTyped, NEW t \in Tasks, NEW pc \in Places, Go(t, pc)
  PROVE  TaskTyped' /\ (\A u \in Tasks \ {t} : task'[u] = task[u])
         /\ task'[t].pc = pc /\ task'[t].new = task[t].new /\ task'[t].old = task[t].old
         /\ task'[t].state = task[t].state /\ task'[t].stage = task[t].stage
BY DEF TaskTyped, Go, Stations

SameSight(s, r) ==
    r.state = s.state /\ (r.captured <=> s.captured) /\ (r.error <=> s.error)
    /\ (r.reaped <=> s.reaped)
Fresh(s) == s.state = 0 /\ ~s.captured /\ ~s.error /\ ~s.reaped
Starts(q, probe) ==
    /\ q.life = "starting" /\ (q.probe <=> probe)
    /\ ~q.granted /\ ~q.frozen /\ ~q.saved /\ ~q.retiring /\ ~q.left

LEMMA Bounds == /\ 0 \in Versions /\ 1 \in Versions
                /\ 0 \in 0..MaxCores /\ Cores = (0..MaxCores) \ {0}
BY BoundsAssumption DEF Versions, Cores

LEMMA Noticed ==
  ASSUME NEW s \in Sights
  PROVE  LET r == [s EXCEPT !.expected = TRUE] IN r \in Sights /\ SameSight(s, r)
BY DEF Sights, SameSight

LEMMA StopFacts ==
  ASSUME Typed, NEW c \in Cores, NEW force \in BOOLEAN, StopAsked(c, force)
  PROVE  /\ ProcTyped' /\ SeenTyped'
         /\ \A d \in Cores : SameSight(seen[d], seen'[d])
         /\ \A d \in Cores : IF d = c /\ Alive(d)
                             THEN IF force THEN Dies(proc[d], proc'[d])
                                  ELSE Retires(proc[d], proc'[d])
                             ELSE proc'[d] = proc[d]
<1>1. SeenTyped' /\ \A d \in Cores : SameSight(seen[d], seen'[d])
  <2>1. \A d \in Cores : seen[d] \in Sights /\ SameSight(seen[d], seen[d])
    BY DEF Typed, SeenTyped, SameSight
  <2>2. seen' = [seen EXCEPT ![c] = [seen[c] EXCEPT !.expected = TRUE]]
    BY DEF StopAsked
  <2>3. QED
    BY <2>1, <2>2, Noticed DEF Typed, SeenTyped
<1>2. proc[c] \in Procs
  BY DEF Typed, ProcTyped
<1>3. /\ ProcTyped'
      /\ \A d \in Cores : IF d = c /\ Alive(d)
                          THEN IF force THEN Dies(proc[d], proc'[d])
                               ELSE Retires(proc[d], proc'[d])
                          ELSE proc'[d] = proc[d]
  <2>1. CASE ~Alive(c)
    BY <2>1 DEF StopAsked, Typed, ProcTyped
  <2>2. CASE Alive(c) /\ force
    <3>1. proc' = [proc EXCEPT ![c] = [proc[c] EXCEPT !.life = "gone"]]
      BY <2>2 DEF StopAsked
    <3>2. QED
      BY <1>2, <2>2, <3>1, Changed DEF Typed, ProcTyped
  <2>3. CASE Alive(c) /\ ~force
    <3>1. proc' = [proc EXCEPT ![c] = [proc[c] EXCEPT !.retiring = TRUE]]
      BY <2>3 DEF StopAsked
    <3>2. QED
      BY <1>2, <2>3, <3>1, Changed DEF Typed, ProcTyped
  <2>4. QED
    BY <2>1, <2>2, <2>3
<1>4. QED
  BY <1>1, <1>3

LEMMA KillFacts ==
  ASSUME Typed, KillFirst
  PROVE  /\ ProcTyped' /\ SeenTyped'
         /\ \A d \in Cores : SameSight(seen[d], seen'[d])
         /\ \A d \in Cores : proc'[d] = proc[d] \/ (Alive(d) /\ Dies(proc[d], proc'[d]))
         /\ Unreaped = {} \/ \E c \in Unreaped : proc'[c].life = "gone"
<1>1. CASE Unreaped = {}
  <2>1. proc' = proc /\ seen' = seen
    BY <1>1 DEF KillFirst
  <2>2. ProcTyped' /\ SeenTyped'
    BY <2>1 DEF Typed, ProcTyped, SeenTyped
  <2>3. \A d \in Cores : SameSight(seen[d], seen'[d])
    BY <2>1 DEF SameSight
  <2>4. QED
    BY <1>1, <2>1, <2>2, <2>3
<1>2. CASE Unreaped # {}
  <2>1. PICK c \in Unreaped : StopAsked(c, TRUE)
    BY <1>2 DEF KillFirst
  <2>2. c \in Cores /\ proc[c] \in Procs /\ proc[c].life # "none"
    BY DEF Unreaped, Typed, ProcTyped
  <2>3. Alive(c) \/ proc[c].life = "gone"
    BY <2>2 DEF Procs, Alive
  <2>4. /\ ProcTyped' /\ SeenTyped'
        /\ \A d \in Cores : SameSight(seen[d], seen'[d])
        /\ \A d \in Cores : IF d = c /\ Alive(d) THEN Dies(proc[d], proc'[d])
                            ELSE proc'[d] = proc[d]
    BY <2>1, <2>2, StopFacts
  <2>5. proc'[c].life = "gone"
    BY <2>2, <2>3, <2>4 DEF Dies
  <2>6. QED
    BY <2>4, <2>5 DEF Unreaped
<1>3. QED
  BY <1>1, <1>2

LEMMA LaunchFacts ==
  ASSUME Typed, NEW v \in Versions, NEW probe \in BOOLEAN, LaunchCore(v, probe)
  PROVE  /\ ProcTyped' /\ SeenTyped'
         /\ NextFree \in Cores \ {current} /\ \A t \in Tasks : task[t].new # NextFree
         /\ proc[NextFree].life = "none" \/ seen[NextFree].reaped
         /\ \A d \in Cores \ {NextFree} : proc'[d] = proc[d] /\ seen'[d] = seen[d]
         /\ Starts(proc'[NextFree], probe) /\ Fresh(seen'[NextFree])
<1> DEFINE n == NextFree
           p == [NoProc EXCEPT !.life = "starting", !.probe = probe,
                               !.version = IF v = 0 THEN 1 ELSE v]
<1>1. n \in Free
  BY DEF LaunchCore, NextFree
<1>2. (IF v = 0 THEN 1 ELSE v) \in Versions
  BY BoundsAssumption DEF Versions
<1>3. p \in Procs
  BY <1>2, BoundsAssumption DEF Procs, NoProc, Versions
<1>4. Starts(p, probe)
  BY <1>2 DEF Starts, NoProc
<1>5. NoSeen \in Sights
  BY BoundsAssumption DEF NoSeen, Sights, Versions
<1>6. Fresh(NoSeen)
  BY DEF Fresh, NoSeen
<1>7. proc' = [proc EXCEPT ![n] = p] /\ seen' = [seen EXCEPT ![n] = NoSeen]
  BY DEF LaunchCore
<1> HIDE DEF n, p
<1>8. /\ n \in Cores \ {current} /\ \A t \in Tasks : task[t].new # n
      /\ proc[n].life = "none" \/ seen[n].reaped
  BY <1>1 DEF Free
<1>9. /\ ProcTyped' /\ SeenTyped' /\ proc'[n] = p /\ seen'[n] = NoSeen
      /\ \A d \in Cores \ {n} : proc'[d] = proc[d] /\ seen'[d] = seen[d]
  BY <1>3, <1>5, <1>7, <1>8 DEF Typed, ProcTyped, SeenTyped
<1>10. QED
  BY <1>4, <1>6, <1>8, <1>9 DEF n

LEMMA BecomeFacts ==
  ASSUME Typed, NEW c \in Cores, NEW p \in Procs, Become(c, p), Remains
  PROVE  /\ ProcTyped' /\ SeenTyped' /\ OutTyped' /\ current' = c
         /\ \A d \in Cores :
               IF d = current /\ seen[d].reaped
               THEN /\ proc'[d].life = "gone" /\ seen'[d].reaped /\ out'[d] = <<>>
                    /\ ~proc'[d].frozen
               ELSE /\ seen'[d] = seen[d] /\ out'[d] = out[d]
                    /\ proc'[d] = IF d = c /\ Alive(d) THEN p ELSE proc[d]
<1> DEFINE old == {current} \cap {d \in Cores : seen[d].reaped}
           g == [NoProc EXCEPT !.life = "gone"]
<1>1. g \in Procs /\ g.life = "gone" /\ ~g.frozen
  BY Bounds DEF Procs, NoProc
<1>2. Ended \in Sights /\ Ended.reaped
  BY Bounds DEF Ended, NoSeen, Sights
<1>3. /\ current' = c
      /\ seen' = [d \in Cores |-> IF d \in old THEN Ended ELSE seen[d]]
      /\ out' = [d \in Cores |-> IF d \in old THEN <<>> ELSE out[d]]
      /\ proc' = [d \in Cores |-> IF d \in old THEN g
                                  ELSE IF d = c /\ Alive(d) THEN p ELSE proc[d]]
  BY DEF Become, Alive
<1>4. \A d \in Cores : d \in old <=> d = current /\ seen[d].reaped
  OBVIOUS
<1>5. <<>> \in Seq(Sent)
  OBVIOUS
<1> HIDE DEF old, g
<1>6. ProcTyped' /\ SeenTyped' /\ OutTyped'
  BY <1>1, <1>2, <1>3, <1>5 DEF Typed, ProcTyped, SeenTyped, OutTyped
<1>7. \A d \in Cores : /\ proc'[d] = IF d \in old THEN g
                                     ELSE IF d = c /\ Alive(d) THEN p ELSE proc[d]
                       /\ seen'[d] = IF d \in old THEN Ended ELSE seen[d]
                       /\ out'[d] = IF d \in old THEN <<>> ELSE out[d]
  BY <1>3
<1>8. QED
  BY <1>1, <1>2, <1>3, <1>4, <1>6, <1>7

LEMMA StationFacts ==
  ASSUME TaskTyped, NEW t \in Tasks, NEW s \in Stations, task' = [task EXCEPT ![t] = s]
  PROVE  TaskTyped' /\ task'[t] = s /\ \A u \in Tasks \ {t} : task'[u] = task[u]
BY DEF TaskTyped

LEMMA Exchanger ==
  ASSUME Positions, NEW t \in Tasks, task[t].pc \in Exchanging
  PROVE  t = "transition" /\ current \in Cores /\ task[t].old = current
BY DEF Positions, Tasks, st, tr, Exchanging, Recovering

-----------------------------------------------------------------------------
(* The invariant is kept: first the kinds of steps of the tasks.            *)

(* The transition is given up and the current core goes on (_resume).       *)
LEMMA RejectedKeeps ==
  ASSUME SupervisorInv, Rejected("transition"), SeenTyped', last' \in Versions,
         {updates', resumes', crashes'} \subseteq Nat,
         UNCHANGED <<out, current, menu, exit, loop, presses>>,
         \A d \in Cores : /\ seen'[d].state = seen[d].state
                          /\ (seen'[d].reaped <=> seen[d].reaped)
                          /\ (seen'[d].captured <=> seen[d].captured),
         tr.pc \notin {"done", "killing", "launch"},
         current \in Cores /\ loop = "run" => Undisturbed(current),
         Owning => proc[current].granted,
         Owning => \/ Silent(current)
                   \/ \A i \in 1..Len(out[current]) : out[current][i].kind # "update",
         presses = 0 /\ loop = "run" => Unreaped \subseteq {current},
         presses < 2 => Writers({current})
  PROVE  SupervisorInv'
<1>1. /\ TaskTyped' /\ st' = st /\ tr'.pc = "done" /\ tr'.new = 0
  BY EndFacts DEF SupervisorInv, Typed, Rejected, st, tr, Tasks
<1>2. /\ ProcTyped' /\ routing' \in BOOLEAN
      /\ IF current = 0 \/ seen[current].reaped THEN UNCHANGED <<proc, routing>>
         ELSE \A d \in Cores : IF d = current /\ Alive(d) THEN Grants(proc[d], proc'[d])
                               ELSE proc'[d] = proc[d]
  BY ResumeFacts DEF SupervisorInv, Typed, LoopTyped, Rejected
<1>3. \A d \in Cores : IF d = current /\ Alive(d) THEN Grants(proc[d], proc'[d])
                       ELSE proc'[d] = proc[d]
  BY <1>2, Bounds DEF SupervisorInv, Remains, Alive
<1>4. Typed'
  BY <1>1, <1>2 DEF SupervisorInv, Typed, OutTyped, LoopTyped
<1>5. Positions'
  BY <1>1, <1>3 DEF SupervisorInv, Grants, Lives, Flags, Rights, Positions, Tasks, st, tr,
    Recovering, Exchanging, Launched, Probing
<1>6. Remains'
  BY <1>1, <1>3 DEF SupervisorInv, Grants, Lives, Flags, Rights, Remains
<1>7. Ownership'
  BY <1>1, <1>3 DEF SupervisorInv, Grants, Lives, Flags, Rights, Ownership, OneOwner, Alive,
    Tasks, st, tr, Recovering, Owning
<1>8. OneProcess'
  BY <1>1, <1>3 DEF SupervisorInv, Grants, Lives, Flags, Rights, OneProcess, Unreaped, Tasks,
    st, tr, Launched, Killing, Probing, Keeping, Unfrozen
<1>9. OneJournal'
  BY <1>1, <1>3 DEF SupervisorInv, Grants, Lives, Flags, Rights, OneJournal, Writers, Alive,
    Tasks, st, tr, Launched, Killing, Keeping, Unfrozen
<1>10. Sayings'
  BY <1>1, <1>3 DEF SupervisorInv, Grants, Lives, Flags, Rights, Sayings, FrozenGranted,
    GrantedSay, StartupSays, ReadySays, StartingSays, st, Owning, Alive
<1>11. CurrentUndisturbed'
  BY <1>1, <1>3 DEF SupervisorInv, Grants, Lives, Flags, Rights, Undisturbing,
    CurrentUndisturbed, Undisturbed, Alive, tr, Keeping, Unfrozen, Positions, LoopTyped, Typed
<1>12. NewUndisturbed'
  BY <1>1, <1>3 DEF SupervisorInv, Grants, Lives, Flags, Rights, Undisturbing, NewUndisturbed,
    Undisturbed, Alive, Tasks, st, tr, Launched, Positions
<1>13. CaptureUndisturbed'
  BY <1>1, <1>3 DEF SupervisorInv, Grants, Lives, Flags, Rights, Undisturbing,
    CaptureUndisturbed, tr
<1>14. FrozenInExchange'
  BY <1>1, <1>3 DEF SupervisorInv, Grants, Lives, Flags, Rights, Barrier, FrozenInExchange,
    Owning, Alive, tr, Unfrozen, Exchanging
<1>15. AnswersPrecede'
  BY <1>1, <1>3 DEF SupervisorInv, Grants, Lives, Flags, Rights, Barrier, AnswersPrecede,
    Owning, Alive, tr, Silent
<1>16. AnswersRead'
  BY <1>1, <1>3 DEF SupervisorInv, Grants, Lives, Flags, Rights, Barrier, AnswersRead, Owning,
    Silent, Alive, tr, Probing
<1>17. CaptureRead'
  BY <1>1, <1>3 DEF SupervisorInv, Grants, Lives, Flags, Rights, Barrier, CaptureRead, Owning,
    Silent, Alive, tr
<1>18. CaptureComes'
  BY <1>1, <1>3 DEF SupervisorInv, Grants, Lives, Flags, Rights, Barrier, CaptureComes,
    Owning, Alive, tr
<1>19. CapturedIsFinal'
  BY <1>1, <1>3, <1>2 DEF SupervisorInv, Grants, Lives, Flags, Rights, Barrier,
    CapturedIsFinal, Routed, Tasks, st, tr, Exchanging, Recovering, Positions
<1>20. QED
  BY <1>4, <1>5, <1>6, <1>7, <1>8, <1>9, <1>10, <1>11, <1>12, <1>13, <1>14, <1>15, <1>16, <1>17,
      <1>18, <1>19 DEF SupervisorInv, Sayings, Undisturbing, Barrier

(* A core is killed that no task waits for, or a record changes that no     *)
(* part of the invariant reads.                                             *)
LEMMA KillKeeps ==
  ASSUME SupervisorInv, ProcTyped', SeenTyped',
         \A d \in Cores : SameSight(seen[d], seen'[d]),
         \A d \in Cores : \/ proc'[d] = proc[d]
                         \/ /\ Alive(d) /\ Dies(proc[d], proc'[d])
                            /\ d = current /\ loop = "run" =>
                                  tr.pc \notin Keeping \ {"retiring", "cancel_stopping"}
                            /\ \A t \in Tasks : task[t].pc \in Launched => d # task[t].new,
         UNCHANGED <<out, loopVars, task, countVars>>
  PROVE  SupervisorInv'
<1>1. Typed'
  BY DEF SupervisorInv, Typed, OutTyped, TaskTyped, LoopTyped, loopVars, countVars
<1>2. Unreaped' = Unreaped
  BY DEF Unreaped, Alive, Dies, SameSight
<1>3. \A d \in Cores : /\ proc'[d].version = proc[d].version /\ (proc'[d].left <=> proc[d].left)
                       /\ (seen'[d].reaped <=> seen[d].reaped)
  BY DEF Dies, Flags, SameSight
<1>4. Positions'
  BY DEF SupervisorInv, Dies, Flags, Rights, SameSight, loopVars, countVars, Positions,
    Tasks, st, tr, Recovering, Exchanging, Launched, Probing
<1>5. Remains'
  BY DEF SupervisorInv, Dies, Flags, Rights, SameSight, loopVars, countVars, Remains
<1>6. Ownership'
  BY DEF SupervisorInv, Dies, Flags, Rights, SameSight, loopVars, countVars, Ownership,
    OneOwner, Alive, Tasks, st, tr, Recovering
<1>7. OneProcess'
  BY <1>2 DEF SupervisorInv, Dies, Flags, Rights, SameSight, loopVars, countVars, OneProcess,
    Unreaped, Tasks, st, tr, Launched, Killing, Probing, Keeping, Unfrozen
<1>8. OneJournal'
  BY DEF SupervisorInv, Dies, Flags, Rights, SameSight, loopVars, countVars, OneJournal,
    Writers, Alive, Tasks, st, tr, Launched, Killing, Keeping, Unfrozen
<1>9. Sayings'
  BY DEF SupervisorInv, Dies, Flags, Rights, SameSight, loopVars, countVars, Sayings,
    FrozenGranted, GrantedSay, StartupSays, ReadySays, StartingSays, st
<1>10. CurrentUndisturbed'
  BY DEF SupervisorInv, Dies, Flags, Rights, SameSight, loopVars, countVars, Undisturbing,
    CurrentUndisturbed, Undisturbed, Alive, tr, Keeping, Unfrozen
<1>11. NewUndisturbed'
  BY DEF SupervisorInv, Dies, Flags, Rights, SameSight, loopVars, countVars, Undisturbing,
    NewUndisturbed, Undisturbed, Alive, Tasks, st, tr, Launched, Positions
<1>12. CaptureUndisturbed'
  BY DEF SupervisorInv, Dies, Flags, Rights, SameSight, loopVars, countVars, Undisturbing,
    CaptureUndisturbed, tr, Positions, Keeping, Exchanging, LoopTyped, Typed
<1>13. FrozenInExchange'
  BY DEF SupervisorInv, Dies, Flags, Rights, SameSight, loopVars, countVars, Barrier,
    FrozenInExchange, Owning, Alive, tr, Unfrozen, Exchanging
<1>14. AnswersPrecede'
  BY DEF SupervisorInv, Dies, Flags, Rights, SameSight, loopVars, countVars, Barrier,
    AnswersPrecede, Owning, Alive, tr
<1>15. AnswersRead'
  BY DEF SupervisorInv, Dies, Flags, Rights, SameSight, loopVars, countVars, Barrier,
    AnswersRead, Owning, Silent, Alive, tr, Probing
<1>16. CaptureRead'
  BY DEF SupervisorInv, Dies, Flags, Rights, SameSight, loopVars, countVars, Barrier,
    CaptureRead, Owning, Silent, Alive, tr
<1>17. CaptureComes'
  BY DEF SupervisorInv, Dies, Flags, Rights, SameSight, loopVars, countVars, Barrier,
    CaptureComes, Owning, Alive, tr
<1>18. CapturedIsFinal'
  BY <1>3, Exchanger, Bounds DEF SupervisorInv, Typed, LoopTyped, Barrier, CapturedIsFinal,
    Routed, Exchanging, Recovering, loopVars
<1>19. QED
  BY <1>1, <1>4, <1>5, <1>6, <1>7, <1>8, <1>9, <1>10, <1>11, <1>12, <1>13, <1>14, <1>15, <1>16,
      <1>17, <1>18 DEF SupervisorInv, Sayings, Undisturbing, Barrier

(* _stop_live_children begins: the first child is killed.                   *)
LEMMA ClearKeeps ==
  ASSUME SupervisorInv, NEW t \in Tasks, TaskTyped', KillFirst,
         \A u \in Tasks \ {t} : task'[u] = task[u],
         task'[t].new = task[t].new, task'[t].old = task[t].old, task'[t].state = task[t].state,
         task[t].pc \in {"retiring", "awaiting", "undoing", "restarting"} \cup Recovering,
         \/ task'[t].pc = "undoing" /\ task[t].pc \in {"retiring", "awaiting"}
         \/ task'[t].pc = "giving_up" /\ task[t].pc \in {"undoing", "restarting"}
         \/ task'[t].pc = "clearing" /\ task[t].pc \in Recovering,
         \A c \in Cores : Alive(c) => c # current,
         presses = 0 /\ loop = "run" => Unreaped \subseteq {task[t].new},
         presses < 2 => Writers({task[t].new}),
         {updates', resumes', crashes'} \subseteq Nat,
         UNCHANGED <<out, loopVars, presses>>
  PROVE  SupervisorInv'
<1>0. /\ ProcTyped' /\ SeenTyped'
      /\ \A d \in Cores : SameSight(seen[d], seen'[d])
      /\ \A d \in Cores : proc'[d] = proc[d] \/ (Alive(d) /\ Dies(proc[d], proc'[d]))
      /\ Unreaped = {} \/ \E c \in Unreaped : proc'[c].life = "gone"
  BY KillFacts DEF SupervisorInv
<1>1. Typed'
  BY <1>0 DEF SupervisorInv, Typed, OutTyped, LoopTyped, loopVars
<1>2. (presses = 0 /\ loop = "run" => Writers({})') /\ Unreaped' \subseteq Unreaped
  BY <1>0 DEF Writers, Unreaped, SupervisorInv, Remains, Alive, Typed, Dies, SameSight
<1>3. \A c \in Cores : Alive(c)' => Alive(c) /\ proc'[c] = proc[c]
  BY <1>0 DEF Alive, Dies
<1>4. \A d \in Cores : /\ proc'[d].version = proc[d].version /\ (proc'[d].left <=> proc[d].left)
                       /\ (seen'[d].reaped <=> seen[d].reaped)
  BY <1>0 DEF Dies, Flags, SameSight
<1>5. Positions'
  BY <1>0, <1>3 DEF SupervisorInv, Dies, Flags, Rights, SameSight, loopVars, Positions, Tasks, st,
    tr, Recovering, Exchanging, Launched, Probing
<1>6. Remains'
  BY <1>0, <1>3 DEF SupervisorInv, Dies, Flags, Rights, SameSight, loopVars, Remains
<1>7. Ownership'
  BY <1>0, <1>3 DEF SupervisorInv, Dies, Flags, Rights, SameSight, loopVars, Ownership, OneOwner,
    Alive, Tasks, st, tr, Recovering
<1>8. OneProcess'
  BY <1>0, <1>3, <1>2 DEF SupervisorInv, Dies, Flags, Rights, SameSight, loopVars, OneProcess,
    Unreaped, Tasks, st, tr, Launched, Killing, Probing, Keeping, Unfrozen
<1>9. OneJournal'
  BY <1>0, <1>3, <1>2 DEF SupervisorInv, Dies, Flags, Rights, SameSight, loopVars, OneJournal,
    Writers, Alive, Tasks, st, tr, Launched, Killing, Keeping, Unfrozen, Positions, LoopTyped,
    Typed
<1>10. Sayings'
  BY <1>0, <1>3 DEF SupervisorInv, Dies, Flags, Rights, SameSight, loopVars, Sayings,
        FrozenGranted,
    GrantedSay, StartupSays, ReadySays, StartingSays, st, Positions, Tasks, tr, Recovering
<1>11. CurrentUndisturbed'
  BY <1>0, <1>3, Bounds DEF SupervisorInv, Dies, Flags, Rights, SameSight, loopVars, Undisturbing,
    CurrentUndisturbed, Undisturbed, Alive, tr, Keeping, Unfrozen, Positions, Tasks, st,
    Recovering
<1>12. NewUndisturbed'
  BY <1>0, <1>3 DEF SupervisorInv, Dies, Flags, Rights, SameSight, loopVars, Undisturbing,
    NewUndisturbed, Undisturbed, Alive, Tasks, st, tr, Launched, Positions, Recovering
<1>13. CaptureUndisturbed'
  BY <1>0, <1>3 DEF SupervisorInv, Dies, Flags, Rights, SameSight, loopVars, Undisturbing,
    CaptureUndisturbed, tr, Positions, Tasks, st, Recovering
<1>14. FrozenInExchange'
  BY <1>0, <1>3 DEF SupervisorInv, Dies, Flags, Rights, SameSight, loopVars, Barrier,
    FrozenInExchange, Owning, Alive, tr, Unfrozen, Exchanging
<1>15. AnswersPrecede'
  BY <1>0, <1>3 DEF SupervisorInv, Dies, Flags, Rights, SameSight, loopVars, Barrier,
    AnswersPrecede, Owning, Alive, tr
<1>16. AnswersRead'
  BY <1>0, <1>3 DEF SupervisorInv, Dies, Flags, Rights, SameSight, loopVars, Barrier, AnswersRead,
    Owning, Silent, Alive, tr, Probing
<1>17. CaptureRead'
  BY <1>0, <1>3 DEF SupervisorInv, Dies, Flags, Rights, SameSight, loopVars, Barrier, CaptureRead,
    Owning, Silent, Alive, tr
<1>18. CaptureComes'
  BY <1>0, <1>3 DEF SupervisorInv, Dies, Flags, Rights, SameSight, loopVars, Barrier,
        CaptureComes,
    Owning, Alive, tr
<1>19. CapturedIsFinal'
  BY <1>0, <1>3, <1>4, Exchanger, Bounds DEF SupervisorInv, Typed, LoopTyped, Barrier,
    CapturedIsFinal, Routed, Exchanging, Recovering, loopVars
<1>20. QED
  BY <1>1, <1>5, <1>6, <1>7, <1>8, <1>9, <1>10, <1>11, <1>12, <1>13, <1>14, <1>15, <1>16, <1>17,
      <1>18, <1>19 DEF SupervisorInv, Sayings, Undisturbing, Barrier

(* A core is launched, as a probe or as the one to come.                    *)
LEMMA LaunchKeeps ==
  ASSUME SupervisorInv, NEW t \in Tasks, TaskTyped', NEW v \in Versions,
         NEW probe \in BOOLEAN, LaunchCore(v, probe),
         \A u \in Tasks \ {t} : task'[u] = task[u],
         task'[t].new = NextFree, task'[t].old = task[t].old,
         task'[t].pc # "probing" => task'[t].state = task[t].state,
         \/ /\ task[t].pc = "capturing" /\ task'[t].pc = "probing" /\ probe
            /\ seen[current].captured /\ ~seen[current].error
            /\ task'[t].state = seen[current].state
         \/ /\ \/ /\ task[t].pc = "retiring" /\ seen[current].reaped
                  /\ task'[t].pc = "awaiting"
               \/ task[t].pc = "undoing" /\ task'[t].pc = "restarting"
               \/ task[t].pc \in {"killing", "clearing"} /\ task'[t].pc = "restoring"
            /\ presses = 0 /\ loop = "run" => Unreaped = {}
            /\ presses < 2 => Writers({}),
         last' \in Versions,
         UNCHANGED <<out, current, routing, menu, exit, loop, updates, resumes, presses>>
  PROVE  SupervisorInv'
<1> DEFINE n == NextFree
<1>1. /\ ProcTyped' /\ SeenTyped' /\ crashes' = crashes
      /\ n \in Cores \ {current} /\ \A u \in Tasks : task[u].new # n
      /\ proc[n].life = "none" \/ seen[n].reaped
      /\ \A d \in Cores \ {n} : proc'[d] = proc[d] /\ seen'[d] = seen[d]
      /\ Starts(proc'[n], probe) /\ Fresh(seen'[n])
  BY LaunchFacts DEF SupervisorInv, LaunchCore
<1> HIDE DEF n
<1>2. task'[t].new = n
  BY DEF n
<1>3. Typed'
  BY <1>1 DEF SupervisorInv, Typed, OutTyped, LoopTyped
<1>4. out[n] = <<>> /\ ~Alive(n) /\ \A i \in 1..Len(out[n]) : FALSE
  BY <1>1 DEF SupervisorInv, Remains, Alive
<1>5. Unreaped' = Unreaped \cup {n} /\ \A d \in Cores : Alive(d)' => Alive(d) \/ d = n
  BY <1>1 DEF Unreaped, Starts, Fresh, Alive
<1>6. \/ /\ t = "start" /\ st.pc \in {"killing", "clearing"} /\ tr.pc = "done" /\ tr' = tr
         /\ st'.pc = "restoring" /\ st'.new = n
      \/ /\ t = "transition" /\ st.pc \in {"booting", "done"} /\ st' = st /\ tr'.new = n
         /\ tr'.old = tr.old /\ tr'.pc \in Launched \cup {"probing"}
  BY <1>2 DEF SupervisorInv, Positions, Tasks, st, tr, Recovering, Exchanging, Launched
<1>7. task'[t].pc # "probing" => \A c \in Cores : Alive(c) => c # current
  BY DEF SupervisorInv, Ownership, Remains, Alive, Recovering
<1>8. Positions'
  BY <1>1, <1>2 DEF SupervisorInv, Starts, Fresh, Positions, Tasks, st, tr, Recovering,
    Exchanging, Launched, Probing
<1>9. Remains'
  BY <1>1, <1>2, <1>4 DEF SupervisorInv, Starts, Fresh, Remains
<1>10. Ownership'
  BY <1>1, <1>2, <1>5, <1>7 DEF SupervisorInv, Starts, Fresh, Ownership, OneOwner, Alive,
    Tasks, st, tr, Recovering
<1>11. OneProcess'
  BY <1>1, <1>2, <1>5, <1>6 DEF SupervisorInv, Starts, Fresh, OneProcess, Unreaped, Tasks, st,
    tr, Launched, Killing, Probing, Keeping, Unfrozen
<1>12. OneJournal'
  BY <1>1, <1>2, <1>5, <1>6 DEF SupervisorInv, Starts, Fresh, OneJournal, Writers, Alive,
    Tasks, st, tr, Launched, Killing, Keeping, Unfrozen
<1>13. Sayings'
  BY <1>1, <1>2, <1>4 DEF SupervisorInv, Starts, Fresh, Sayings, FrozenGranted, GrantedSay,
    StartupSays, ReadySays, StartingSays, st, Positions, tr, Tasks, Recovering
<1>14. CurrentUndisturbed'
  BY <1>1, <1>2, Bounds DEF SupervisorInv, Starts, Fresh, Undisturbing, CurrentUndisturbed,
    Undisturbed, Alive, tr, Keeping, Unfrozen, Positions, Tasks, st, Recovering
<1>15. NewUndisturbed'
  BY <1>1, <1>2 DEF SupervisorInv, Starts, Fresh, Undisturbing, NewUndisturbed, Undisturbed,
    Alive, Tasks, st, tr, Launched, Positions
<1>16. CaptureUndisturbed'
  BY <1>1, <1>2 DEF SupervisorInv, Starts, Fresh, Undisturbing, CaptureUndisturbed, tr,
    Positions, Tasks, st, Recovering
<1>17. FrozenInExchange'
  BY <1>1, <1>2 DEF SupervisorInv, Starts, Fresh, Barrier, FrozenInExchange, Owning, Alive,
    tr, Unfrozen, Exchanging, Positions, Ownership, Tasks, st, Recovering
<1>18. AnswersPrecede'
  BY <1>1, <1>2 DEF SupervisorInv, Starts, Fresh, Barrier, AnswersPrecede, Owning, Alive, tr,
    Positions, Tasks, st, Recovering
<1>19. AnswersRead'
  BY <1>1, <1>2 DEF SupervisorInv, Starts, Fresh, Barrier, AnswersRead, Owning, Silent, Alive,
    tr, Probing, Positions, CaptureRead, Tasks, st
<1>20. CaptureRead'
  BY <1>1, <1>2 DEF SupervisorInv, Starts, Fresh, Barrier, CaptureRead, Owning, Silent, Alive,
    tr, Positions, Tasks, st, Recovering
<1>21. CaptureComes'
  BY <1>1, <1>2 DEF SupervisorInv, Starts, Fresh, Barrier, CaptureComes, Owning, Alive, tr,
    Positions, Tasks, st, Recovering
<1>22. CapturedIsFinal'
  BY <1>1, <1>2, Exchanger, Bounds, <1>6 DEF SupervisorInv, Typed, LoopTyped, Positions,
    Barrier, CaptureRead, Undisturbing, CaptureUndisturbed, Owning, Alive, CapturedIsFinal,
    Routed, Exchanging, Recovering, ProcTyped, Procs, Tasks, st, tr, Launched
<1>23. QED
  BY <1>3, <1>8, <1>9, <1>10, <1>11, <1>12, <1>13, <1>14, <1>15, <1>16, <1>17, <1>18, <1>19,
      <1>20, <1>21, <1>22 DEF SupervisorInv, Sayings, Undisturbing, Barrier

(* A core that has been launched becomes the current one.                   *)
LEMMA BecomeKeeps ==
  ASSUME SupervisorInv, NEW t \in Tasks, TaskTyped', task[t].pc \in Launched,
         NEW c \in Cores, c = task[t].new, NEW p \in Procs, Become(c, p), Grants(proc[c], p),
         ReadyOk(c), \A u \in Tasks \ {t} : task'[u] = task[u], task'[t].pc = "done",
         last' \in Versions, routing' \in BOOLEAN,
         UNCHANGED <<menu, exit, loop, updates, resumes, crashes, presses>>
  PROVE  SupervisorInv'
<1>1. /\ ProcTyped' /\ SeenTyped' /\ OutTyped' /\ current' = c
      /\ \A d \in Cores :
            IF d = current /\ seen[d].reaped
            THEN /\ proc'[d].life = "gone" /\ seen'[d].reaped /\ out'[d] = <<>>
                 /\ ~proc'[d].frozen
            ELSE /\ seen'[d] = seen[d] /\ out'[d] = out[d]
                 /\ IF d = c /\ Alive(d) THEN Grants(proc[d], proc'[d]) ELSE proc'[d] = proc[d]
  BY BecomeFacts DEF SupervisorInv
<1>2. Typed'
  BY <1>1, Bounds DEF SupervisorInv, Typed, LoopTyped
<1>3. \A d \in Cores : (Alive(d)' <=> Alive(d)) /\ (seen'[d].reaped <=> seen[d].reaped)
                       /\ (Alive(d) => proc'[d].life = proc[d].life /\ (proc'[d].probe <=> proc[d].probe))
  BY <1>1 DEF Alive, Grants, Lives, Flags, SupervisorInv, Remains
<1>4. Unreaped' = Unreaped
  BY <1>1, <1>3 DEF Unreaped, Alive, SupervisorInv, Remains, Grants, Lives
<1>5. \A d \in Cores : out'[d] = out[d] \/ (out'[d] = <<>> /\ \A i \in 1..Len(out'[d]) : FALSE)
  BY <1>1
<1>6. c # current /\ c \in Cores /\ ~seen[c].reaped /\ seen[c].state # 0
  BY DEF SupervisorInv, Positions, Launched, ReadyOk
<1>7. /\ tr'.pc = "done" /\ st'.pc \in {"booting", "done"}
      /\ st'.pc = "booting" => /\ st' = st /\ st.pc = "booting"
                               /\ st.new \in Cores /\ seen[st.new].reaped
      /\ st.pc = "booting" => st'.pc = "booting"
      /\ loop = "run"
  BY DEF SupervisorInv, Positions, Tasks, Launched, Recovering, st, tr, Typed, LoopTyped
<1>8. \A d \in Cores : Alive(d) => d # current /\ ~proc[d].granted
  BY <1>7 DEF SupervisorInv, Ownership, OneOwner, Launched, Recovering
<1>9. proc[c].life # "starting" /\ \A i \in 1..Len(out[c]) : out[c][i].kind # "ready"
  BY <1>6 DEF SupervisorInv, Sayings, StartingSays, ReadySays
<1>10. \A u \in Tasks : task'[u].pc \in {"booting", "done"}
  BY <1>7 DEF Tasks, st, tr
<1>11. Positions'
  BY <1>1, <1>3, <1>6, <1>7, <1>10, Bounds DEF SupervisorInv, Grants, Lives, Flags, Positions,
    Tasks, st, tr, Recovering, Exchanging, Launched, Probing
<1>12. Remains'
  BY <1>1, <1>3, <1>6, <1>7 DEF SupervisorInv, Grants, Lives, Flags, Remains
<1>13. Ownership'
  BY <1>1, <1>3, <1>6, <1>7, <1>8, <1>10 DEF SupervisorInv, Grants, Lives, Flags, Ownership,
    OneOwner, Alive, Tasks, st, tr, Recovering
<1>14. OneProcess'
  BY <1>1, <1>3, <1>6, <1>7, <1>4, <1>10 DEF SupervisorInv, Grants, Lives, Flags, OneProcess,
    Unreaped, Tasks, st, tr, Launched, Killing, Probing, Keeping, Unfrozen
<1>15. OneJournal'
  BY <1>1, <1>3, <1>6, <1>7, <1>10 DEF SupervisorInv, Grants, Lives, Flags, OneJournal,
    Writers, Alive, Tasks, st, tr, Launched, Killing, Keeping, Unfrozen
<1>16. FrozenGranted'
  BY <1>1, <1>3, <1>6, <1>7 DEF SupervisorInv, Grants, Lives, Flags, Sayings, FrozenGranted
<1>17. GrantedSay'
  BY <1>1, <1>3, <1>6, <1>7, <1>5 DEF SupervisorInv, Grants, Lives, Flags, Sayings, GrantedSay
<1>18. StartupSays'
  BY <1>1, <1>3, <1>6, <1>7, <1>5 DEF SupervisorInv, Grants, Lives, Flags, Sayings,
    StartupSays, st
<1>19. ReadySays'
  BY <1>1, <1>3, <1>6, <1>7, <1>5, <1>9 DEF SupervisorInv, Grants, Lives, Flags, Sayings,
    ReadySays
<1>20. StartingSays'
  BY <1>1, <1>3, <1>6, <1>7, <1>5, <1>9 DEF SupervisorInv, Grants, Lives, Flags, Sayings,
    StartingSays
<1>21. CurrentUndisturbed'
  BY <1>1, <1>3, <1>6, <1>7 DEF SupervisorInv, Grants, Lives, Flags, Undisturbing,
    CurrentUndisturbed, Undisturbed, Alive, tr, Keeping, Unfrozen, NewUndisturbed
<1>22. NewUndisturbed'
  BY <1>1, <1>3, <1>6, <1>7, <1>10 DEF SupervisorInv, Grants, Lives, Flags, Undisturbing,
    NewUndisturbed, Undisturbed, Alive, Tasks, st, tr, Launched
<1>23. CaptureUndisturbed'
  BY <1>1, <1>3, <1>6, <1>7 DEF SupervisorInv, Grants, Lives, Flags, Undisturbing,
    CaptureUndisturbed, tr
<1>24. FrozenInExchange'
  BY <1>1, <1>3, <1>6, <1>7 DEF SupervisorInv, Grants, Lives, Flags, Barrier,
    FrozenInExchange, Owning, Alive, tr, Unfrozen, Exchanging
<1>25. AnswersPrecede'
  BY <1>1, <1>3, <1>6, <1>7, <1>8 DEF SupervisorInv, Grants, Lives, Flags, Barrier,
    AnswersPrecede, Owning, Alive, tr, Sayings, GrantedSay, Typed, OutTyped
<1>26. AnswersRead'
  BY <1>1, <1>3, <1>6, <1>7 DEF SupervisorInv, Grants, Lives, Flags, Barrier, AnswersRead,
    Owning, Silent, Alive, tr, Probing
<1>27. CaptureRead'
  BY <1>1, <1>3, <1>6, <1>7 DEF SupervisorInv, Grants, Lives, Flags, Barrier, CaptureRead,
    Owning, Silent, Alive, tr
<1>28. CaptureComes'
  BY <1>1, <1>3, <1>6, <1>7 DEF SupervisorInv, Grants, Lives, Flags, Barrier, CaptureComes,
    Owning, Alive, tr
<1>29. CapturedIsFinal'
  BY <1>1, <1>3, <1>6, <1>7, <1>10 DEF SupervisorInv, CapturedIsFinal, Exchanging, Recovering
<1>30. QED
  BY <1>2, <1>11, <1>12, <1>13, <1>14, <1>15, <1>16, <1>17, <1>18, <1>19, <1>20, <1>21, <1>22,
      <1>23, <1>24, <1>25, <1>26, <1>27, <1>28, <1>29 DEF SupervisorInv, Sayings, Undisturbing,
      Barrier

(* A task ends that has stopped all it launched.                            *)
LEMMA EndedKeeps ==
  ASSUME SupervisorInv, NEW t \in Tasks, TaskTyped', task'[t].pc = "done",
         \A u \in Tasks \ {t} : task'[u] = task[u],
         \/ task[t].pc \in {"launch", "clearing", "cancel_clearing"} /\ Unreaped = {}
         \/ task[t].pc = "cancel_stopping" /\ seen[task[t].new].reaped,
         menu' \in BOOLEAN, exit' \in {"none", "ok", "failed"},
         {updates', resumes', crashes'} \subseteq Nat,
         UNCHANGED <<proc, out, seen, current, last, routing, loop, presses>>
  PROVE  SupervisorInv'
<1>1. Typed'
  BY DEF SupervisorInv, Typed, OutTyped, ProcTyped, SeenTyped, LoopTyped
<1>2. \A d \in Cores : Alive(d)' <=> Alive(d)
  BY DEF Alive
<1>3. Unreaped' = Unreaped /\ \A d \in Cores : Alive(d) => d \in Unreaped
  BY DEF Unreaped, Alive, SupervisorInv, Remains
<1>4. \/ /\ t = "start" /\ st.pc \in {"launch", "clearing"} /\ tr.pc = "done" /\ tr' = tr
         /\ st'.pc = "done"
      \/ /\ t = "transition" /\ st.pc \in {"booting", "done"} /\ st' = st /\ tr'.pc = "done"
         /\ tr.pc \in {"clearing", "cancel_clearing", "cancel_stopping"}
  BY DEF SupervisorInv, Positions, Tasks, st, tr, Recovering
<1>5. Positions'
  BY <1>2, <1>4 DEF SupervisorInv, Positions, Tasks, st, tr, Recovering, Exchanging, Launched,
    Probing
<1>6. Remains'
  BY <1>2, <1>4 DEF SupervisorInv, Remains
<1>7. Ownership'
  BY <1>2, <1>4 DEF SupervisorInv, Ownership, OneOwner, Alive, Tasks, st, tr, Recovering
<1>8. OneProcess'
  BY <1>2, <1>4, <1>3 DEF SupervisorInv, OneProcess, Unreaped, Tasks, st, tr, Launched,
    Killing, Probing, Keeping, Unfrozen
<1>9. OneJournal'
  BY <1>2, <1>4, <1>3 DEF SupervisorInv, OneJournal, Writers, Alive, Tasks, st, tr, Launched,
    Killing, Keeping, Unfrozen
<1>10. FrozenGranted'
  BY <1>2, <1>4 DEF SupervisorInv, Sayings, FrozenGranted
<1>11. GrantedSay'
  BY <1>2, <1>4 DEF SupervisorInv, Sayings, GrantedSay
<1>12. StartupSays'
  BY <1>2, <1>4 DEF SupervisorInv, Sayings, StartupSays, st
<1>13. ReadySays'
  BY <1>2, <1>4 DEF SupervisorInv, Sayings, ReadySays
<1>14. StartingSays'
  BY <1>2, <1>4 DEF SupervisorInv, Sayings, StartingSays
<1>15. CurrentUndisturbed'
  BY <1>2, <1>4, <1>3 DEF SupervisorInv, Undisturbing, CurrentUndisturbed, Undisturbed, Alive,
    tr, Keeping, Unfrozen, Positions, Remains, Unreaped
<1>16. NewUndisturbed'
  BY <1>2, <1>4 DEF SupervisorInv, Undisturbing, NewUndisturbed, Undisturbed, Alive, Tasks,
    st, tr, Launched
<1>17. CaptureUndisturbed'
  BY <1>2, <1>4 DEF SupervisorInv, Undisturbing, CaptureUndisturbed, tr
<1>18. FrozenInExchange'
  BY <1>2, <1>4, <1>3 DEF SupervisorInv, Barrier, FrozenInExchange, Owning, Alive, tr,
    Unfrozen, Exchanging, Positions
<1>19. AnswersPrecede'
  BY <1>2, <1>4, <1>3 DEF SupervisorInv, Barrier, AnswersPrecede, Owning, Alive, tr, Positions
<1>20. AnswersRead'
  BY <1>2, <1>4 DEF SupervisorInv, Barrier, AnswersRead, Owning, Silent, Alive, tr, Probing
<1>21. CaptureRead'
  BY <1>2, <1>4 DEF SupervisorInv, Barrier, CaptureRead, Owning, Silent, Alive, tr
<1>22. CaptureComes'
  BY <1>2, <1>4 DEF SupervisorInv, Barrier, CaptureComes, Owning, Alive, tr
<1>23. CapturedIsFinal'
  BY <1>2, <1>4 DEF SupervisorInv, Barrier, CapturedIsFinal, Routed, Tasks, st, tr,
    Exchanging, Recovering
<1>24. QED
  BY <1>1, <1>5, <1>6, <1>7, <1>8, <1>9, <1>10, <1>11, <1>12, <1>13, <1>14, <1>15, <1>16, <1>17,
      <1>18, <1>19, <1>20, <1>21, <1>22, <1>23 DEF SupervisorInv, Sayings, Undisturbing, Barrier

(* The probe, and then the old core, is asked to retire.                    *)
LEMMA RetiredKeeps ==
  ASSUME SupervisorInv, NEW t \in Tasks, TaskTyped', ProcTyped', SeenTyped',
         \A d \in Cores : SameSight(seen[d], seen'[d]),
         \A u \in Tasks \ {t} : task'[u] = task[u],
         task'[t].new = task[t].new, task'[t].old = task[t].old, task'[t].state = task[t].state,
         \/ /\ task[t].pc = "probing" /\ task'[t].pc \in {"passed", "failed"}
            /\ \A d \in Cores : \/ proc'[d] = proc[d]
                                \/ d = task[t].new /\ Retires(proc[d], proc'[d])
         \/ /\ task[t].pc = "passed" /\ task'[t].pc = "retiring" /\ seen[task[t].new].reaped
            /\ \A d \in Cores : \/ proc'[d] = proc[d]
                                \/ d = current /\ Retires(proc[d], proc'[d]),
         UNCHANGED <<out, loopVars, countVars>>
  PROVE  SupervisorInv'
<1>1. Typed'
  BY DEF SupervisorInv, Typed, OutTyped, LoopTyped, loopVars, countVars
<1>2. Unreaped' = Unreaped
  BY DEF Unreaped, Retires, Lives, SameSight
<1>3. \A d \in Cores : /\ Alive(d)' <=> Alive(d)
                       /\ (proc'[d].life = proc[d].life) /\ proc'[d].version = proc[d].version
                       /\ seen'[d].state = seen[d].state
                       /\ (seen'[d].captured <=> seen[d].captured)
                       /\ (seen'[d].error <=> seen[d].error)
                       /\ (seen'[d].reaped <=> seen[d].reaped)
                       /\ (proc'[d].granted <=> proc[d].granted)
                       /\ (proc'[d].frozen <=> proc[d].frozen)
                       /\ (proc'[d].saved <=> proc[d].saved)
                       /\ (proc'[d].probe <=> proc[d].probe)
                       /\ (proc'[d].left <=> proc[d].left)
  BY DEF Alive, Retires, Lives, Flags, Rights, SameSight
<1>4. /\ t = "transition" /\ current \in Cores /\ tr.old = current
      /\ st.pc \in {"booting", "done"} /\ st' = st
      /\ tr'.pc = task'[t].pc /\ tr'.new = tr.new /\ tr'.old = tr.old /\ tr'.state = tr.state
      /\ tr.pc \in {"probing", "passed"}
  BY Exchanger DEF SupervisorInv, Positions, Exchanging, Tasks, st, tr, Recovering
<1>5. UNCHANGED <<out, current, last, routing, menu, exit, loop, updates, resumes, crashes,
                  presses>>
  BY DEF loopVars, countVars
<1>6. Positions'
  BY <1>3, <1>4, <1>5 DEF SupervisorInv, Positions, Tasks, st, tr, Recovering, Exchanging,
    Launched, Probing
<1>7. Remains'
  BY <1>3, <1>4, <1>5 DEF SupervisorInv, Remains
<1>8. Ownership'
  BY <1>3, <1>4, <1>5 DEF SupervisorInv, Ownership, OneOwner, Alive, Tasks, st, tr, Recovering
<1>9. OneProcess'
  BY <1>3, <1>4, <1>5, <1>2 DEF SupervisorInv, OneProcess, Unreaped, Tasks, st, tr, Launched,
    Killing, Probing, Keeping, Unfrozen
<1>10. OneJournal'
  BY <1>3, <1>4, <1>5 DEF SupervisorInv, OneJournal, Writers, Alive, Tasks, st, tr, Launched,
    Killing, Keeping, Unfrozen
<1>11. FrozenGranted'
  BY <1>3, <1>4, <1>5 DEF SupervisorInv, Sayings, FrozenGranted
<1>12. GrantedSay'
  BY <1>3, <1>4, <1>5 DEF SupervisorInv, Sayings, GrantedSay
<1>13. StartupSays'
  BY <1>3, <1>4, <1>5 DEF SupervisorInv, Sayings, StartupSays, st
<1>14. ReadySays'
  BY <1>3, <1>4, <1>5 DEF SupervisorInv, Sayings, ReadySays
<1>15. StartingSays'
  BY <1>3, <1>4, <1>5 DEF SupervisorInv, Sayings, StartingSays
<1>16. CurrentUndisturbed'
  BY <1>3, <1>4, <1>5 DEF SupervisorInv, Undisturbing, CurrentUndisturbed, Undisturbed, Alive,
    tr, Keeping, Unfrozen, Positions, Probing, Exchanging
<1>17. NewUndisturbed'
  BY <1>3, <1>4, <1>5 DEF SupervisorInv, Undisturbing, NewUndisturbed, Undisturbed, Alive,
    Tasks, st, tr, Launched, Positions
<1>18. CaptureUndisturbed'
  BY <1>3, <1>4, <1>5 DEF SupervisorInv, Undisturbing, CaptureUndisturbed, tr
<1>19. FrozenInExchange'
  BY <1>3, <1>4, <1>5 DEF SupervisorInv, Barrier, FrozenInExchange, Owning, Alive, tr,
    Unfrozen, Exchanging
<1>20. AnswersPrecede'
  BY <1>3, <1>4, <1>5 DEF SupervisorInv, Barrier, AnswersPrecede, Owning, Alive, tr
<1>21. AnswersRead'
  BY <1>3, <1>4, <1>5 DEF SupervisorInv, Barrier, AnswersRead, Owning, Silent, Alive, tr,
    Probing
<1>22. CaptureRead'
  BY <1>3, <1>4, <1>5 DEF SupervisorInv, Barrier, CaptureRead, Owning, Silent, Alive, tr
<1>23. CaptureComes'
  BY <1>3, <1>4, <1>5 DEF SupervisorInv, Barrier, CaptureComes, Owning, Alive, tr
<1>24. CapturedIsFinal'
  BY <1>3, <1>4, <1>5, <1>1, Bounds DEF SupervisorInv, Barrier, CapturedIsFinal, Routed,
    Tasks, st, tr, Exchanging, Recovering, Typed, LoopTyped
<1>25. QED
  BY <1>1, <1>6, <1>7, <1>8, <1>9, <1>10, <1>11, <1>12, <1>13, <1>14, <1>15, <1>16, <1>17,
      <1>18, <1>19, <1>20, <1>21, <1>22, <1>23, <1>24 DEF SupervisorInv, Sayings, Undisturbing,
      Barrier

(* The input barrier of _drain.                                             *)
LEMMA FrozenKeeps ==
  ASSUME SupervisorInv, tr.pc = "draining", tr.old = current, loop = "run",
         current \in Cores, ~seen[current].reaped, proc[current].granted, Undisturbed(current),
         st.pc \in {"booting", "done"}, Owning => Silent(current),
         TaskTyped', ProcTyped', st' = st, tr'.pc = "capturing", tr'.new = tr.new,
         tr'.old = tr.old, tr'.state = tr.state, routing' = FALSE,
         \A d \in Cores : IF d = current /\ Alive(d) THEN Freezes(proc[d], proc'[d])
                          ELSE proc'[d] = proc[d],
         UNCHANGED <<out, seen, current, last, menu, exit, loop, updates, resumes, crashes,
                     presses>>
  PROVE  SupervisorInv'
<1>1. /\ tr.pc = "draining" /\ tr.old = current /\ loop = "run"
      /\ UNCHANGED <<out, seen, current, last, menu, exit, loop, updates, resumes, crashes,
                     presses>>
  OBVIOUS
<1>2. Typed'
  BY DEF SupervisorInv, Typed, OutTyped, SeenTyped, LoopTyped
<1>3. Unreaped' = Unreaped /\ \A d \in Cores : Alive(d)' <=> Alive(d)
  BY DEF Unreaped, Alive, Freezes, Lives
<1>4. Positions'
  BY <1>1, <1>3 DEF SupervisorInv, Freezes, Lives, Flags, Positions, Tasks, st, tr,
    Recovering, Exchanging, Launched, Probing
<1>5. Remains'
  BY <1>1, <1>3 DEF SupervisorInv, Freezes, Lives, Flags, Remains
<1>6. Ownership'
  BY <1>1, <1>3 DEF SupervisorInv, Freezes, Lives, Flags, Ownership, OneOwner, Alive, Tasks,
    st, tr, Recovering
<1>7. OneProcess'
  BY <1>1, <1>3 DEF SupervisorInv, Freezes, Lives, Flags, OneProcess, Unreaped, Tasks, st, tr,
    Launched, Killing, Probing, Keeping, Unfrozen
<1>8. OneJournal'
  BY <1>1, <1>3 DEF SupervisorInv, Freezes, Lives, Flags, OneJournal, Writers, Alive, Tasks,
    st, tr, Launched, Killing, Keeping, Unfrozen
<1>9. FrozenGranted'
  BY <1>1, <1>3 DEF SupervisorInv, Freezes, Lives, Flags, Sayings, FrozenGranted
<1>10. GrantedSay'
  BY <1>1, <1>3 DEF SupervisorInv, Freezes, Lives, Flags, Sayings, GrantedSay
<1>11. StartupSays'
  BY <1>1, <1>3 DEF SupervisorInv, Freezes, Lives, Flags, Sayings, StartupSays, st
<1>12. ReadySays'
  BY <1>1, <1>3 DEF SupervisorInv, Freezes, Lives, Flags, Sayings, ReadySays
<1>13. StartingSays'
  BY <1>1, <1>3 DEF SupervisorInv, Freezes, Lives, Flags, Sayings, StartingSays
<1>14. CurrentUndisturbed'
  BY <1>1, <1>3 DEF SupervisorInv, Freezes, Lives, Flags, Undisturbing, CurrentUndisturbed,
    Undisturbed, Alive, tr, Keeping, Unfrozen
<1>15. NewUndisturbed'
  BY <1>1, <1>3 DEF SupervisorInv, Freezes, Lives, Flags, Undisturbing, NewUndisturbed,
    Undisturbed, Alive, Tasks, st, tr, Launched, Positions
<1>16. CaptureUndisturbed'
  BY <1>1, <1>3 DEF SupervisorInv, Freezes, Lives, Flags, Undisturbing, CaptureUndisturbed,
    tr, CurrentUndisturbed, Undisturbed, Keeping, Unfrozen
<1>17. FrozenInExchange'
  BY <1>1, <1>3 DEF SupervisorInv, Freezes, Lives, Flags, Barrier, FrozenInExchange, Owning,
    Alive, tr, Unfrozen, Exchanging
<1>18. AnswersPrecede'
  BY <1>1, <1>3 DEF SupervisorInv, Freezes, Lives, Flags, Barrier, AnswersPrecede, Owning,
    Alive, tr
<1>19. AnswersRead'
  BY <1>1, <1>3 DEF SupervisorInv, Freezes, Lives, Flags, Barrier, AnswersRead, Owning,
    Silent, Alive, tr, Probing
<1>20. CaptureRead'
  BY <1>1, <1>3 DEF SupervisorInv, Freezes, Lives, Flags, Barrier, CaptureRead, Owning,
    Silent, Alive, tr, AnswersRead
<1>21. CaptureComes'
  BY <1>1, <1>3 DEF SupervisorInv, Freezes, Lives, Flags, Barrier, CaptureComes, Owning,
    Alive, tr, Silent, AnswersRead, Answers
<1>22. CapturedIsFinal'
  BY <1>1, <1>3 DEF SupervisorInv, Freezes, Lives, Flags, Barrier, CapturedIsFinal, Routed,
    Tasks, st, tr, Exchanging, Recovering, Positions
<1>23. QED
  BY <1>2, <1>4, <1>5, <1>6, <1>7, <1>8, <1>9, <1>10, <1>11, <1>12, <1>13, <1>14, <1>15, <1>16,
      <1>17, <1>18, <1>19, <1>20, <1>21, <1>22 DEF SupervisorInv, Sayings, Undisturbing, Barrier

(* The old core is asked to drain.                                          *)
LEMMA StartDrainKeeps ==
  ASSUME SupervisorInv, NEW t \in Tasks, StartDrain(t)
  PROVE  SupervisorInv'
<1>1. /\ t = "transition" /\ tr.pc = "validating" /\ current \in Cores /\ proc[current] \in Procs
      /\ st.pc \in {"booting", "done"} /\ loop = "run"
  BY DEF SupervisorInv, Positions, StartDrain, Typed, ProcTyped, LoopTyped, Tasks, st, tr,
        Recovering
<1>2. /\ TaskTyped' /\ st' = st /\ tr'.pc = "draining" /\ tr'.old = current /\ tr'.new = 0
  <2> DEFINE s == [At("draining") EXCEPT !.old = current]
  <2>1. At("draining") = [pc |-> "draining", old |-> 0, new |-> 0, state |-> 0, stage |-> 0]
    BY DEF At, Done
  <2>2. s = [pc |-> "draining", old |-> current, new |-> 0, state |-> 0, stage |-> 0]
    BY <2>1
  <2>3. s \in Stations /\ s.pc = "draining" /\ s.old = current /\ s.new = 0
    BY <2>2, <1>1, Bounds DEF Stations, Places
  <2>4. task' = [task EXCEPT !["transition"] = s]
    BY <1>1 DEF StartDrain
  <2> HIDE DEF s
  <2>5. QED
    BY <2>3, <2>4, StationFacts DEF SupervisorInv, Typed, Tasks, st, tr
<1>3. /\ ProcTyped'
      /\ \A d \in Cores : IF d = current /\ Alive(d) THEN Drains(proc[d], proc'[d])
                          ELSE proc'[d] = proc[d]
  <2>1. Draining(proc[current]) \in Procs /\ Drains(proc[current], Draining(proc[current]))
    BY <1>1, Changed
  <2>2. proc' = Told(current, Draining(proc[current]))
    BY DEF StartDrain
  <2>3. QED
    BY <1>1, <2>1, <2>2, ToldFacts DEF SupervisorInv, Typed
<1>4. /\ SeenTyped' /\ ~seen'[current].captured
      /\ \A d \in Cores : seen'[d].state = seen[d].state /\ (seen'[d].reaped <=> seen[d].reaped)
  <2> DEFINE s == [seen[current] EXCEPT !.idle = FALSE, !.captured = FALSE, !.error = FALSE]
  <2>1. s \in Sights /\ ~s.captured /\ s.state = seen[current].state
        /\ (s.reaped <=> seen[current].reaped)
    BY <1>1 DEF SupervisorInv, Typed, SeenTyped, Sights
  <2>2. seen' = [seen EXCEPT ![current] = s]
    BY <1>1 DEF StartDrain, SupervisorInv, Typed, SeenTyped
  <2> HIDE DEF s
  <2>3. QED
    BY <1>1, <2>1, <2>2 DEF SupervisorInv, Typed, SeenTyped
<1>5. UNCHANGED <<out, current, last, routing, menu, exit, loop, updates, resumes, crashes,
                  presses>>
  BY DEF StartDrain, loopVars, countVars
<1>6. Typed'
  BY <1>2, <1>3, <1>4, <1>5 DEF SupervisorInv, Typed, OutTyped, LoopTyped
<1>7. Unreaped' = Unreaped /\ \A d \in Cores : Alive(d)' <=> Alive(d)
  BY <1>3, <1>4 DEF Unreaped, Alive, Drains, Lives
<1>8. \A d \in Cores :
         Lives(proc[d], proc'[d]) /\ Flags(proc[d], proc'[d]) /\ Rights(proc[d], proc'[d])
         /\ (proc'[d].retiring <=> proc[d].retiring)
  BY <1>3 DEF Drains, Lives, Flags, Rights
<1>9. Positions'
  BY <1>1, <1>2, <1>4, <1>5, <1>7, <1>8 DEF SupervisorInv, Lives, Flags, Rights, Positions,
    Tasks, st, tr, Recovering, Exchanging, Launched, Probing
<1>10. Remains'
  BY <1>1, <1>2, <1>4, <1>5, <1>7, <1>8 DEF SupervisorInv, Lives, Flags, Rights, Remains
<1>11. Ownership'
  BY <1>1, <1>2, <1>4, <1>5, <1>7, <1>8 DEF SupervisorInv, Lives, Flags, Rights, Ownership,
    OneOwner, Alive, Tasks, st, tr, Recovering
<1>12. OneProcess'
  BY <1>1, <1>2, <1>4, <1>5, <1>7, <1>8 DEF SupervisorInv, Lives, Flags, Rights, OneProcess,
    Unreaped, Tasks, st, tr, Launched, Killing, Probing, Keeping, Unfrozen
<1>13. OneJournal'
  BY <1>1, <1>2, <1>4, <1>5, <1>7, <1>8 DEF SupervisorInv, Lives, Flags, Rights, OneJournal,
    Writers, Alive, Tasks, st, tr, Launched, Killing, Keeping, Unfrozen
<1>14. FrozenGranted'
  BY <1>1, <1>2, <1>4, <1>5, <1>7, <1>8 DEF SupervisorInv, Lives, Flags, Rights, Sayings,
    FrozenGranted
<1>15. GrantedSay'
  BY <1>1, <1>2, <1>4, <1>5, <1>7, <1>8 DEF SupervisorInv, Lives, Flags, Rights, Sayings,
    GrantedSay
<1>16. StartupSays'
  BY <1>1, <1>2, <1>4, <1>5, <1>7, <1>8 DEF SupervisorInv, Lives, Flags, Rights, Sayings,
    StartupSays, st
<1>17. ReadySays'
  BY <1>1, <1>2, <1>4, <1>5, <1>7, <1>8 DEF SupervisorInv, Lives, Flags, Rights, Sayings,
    ReadySays
<1>18. StartingSays'
  BY <1>1, <1>2, <1>4, <1>5, <1>7, <1>8 DEF SupervisorInv, Lives, Flags, Rights, Sayings,
    StartingSays
<1>19. CurrentUndisturbed'
  BY <1>1, <1>2, <1>4, <1>5, <1>7, <1>8 DEF SupervisorInv, Lives, Flags, Rights, Undisturbing,
    CurrentUndisturbed, Undisturbed, Alive, tr, Keeping, Unfrozen
<1>20. NewUndisturbed'
  BY <1>1, <1>2, <1>4, <1>5, <1>7, <1>8 DEF SupervisorInv, Lives, Flags, Rights, Undisturbing,
    NewUndisturbed, Undisturbed, Alive, Tasks, st, tr, Launched
<1>21. CaptureUndisturbed'
  BY <1>1, <1>2, <1>4, <1>5, <1>7, <1>8 DEF SupervisorInv, Lives, Flags, Rights, Undisturbing,
    CaptureUndisturbed, tr
<1>22. FrozenInExchange'
  BY <1>1, <1>2, <1>4, <1>5, <1>7, <1>8 DEF SupervisorInv, Lives, Flags, Rights, Barrier,
    FrozenInExchange, Owning, Alive, tr, Unfrozen, Exchanging
<1>23. AnswersPrecede'
  BY <1>1, <1>2, <1>4, <1>5, <1>7, <1>8 DEF SupervisorInv, Lives, Flags, Rights, Barrier,
    AnswersPrecede, Owning, Alive, tr
<1>24. AnswersRead'
  BY <1>1, <1>2, <1>4, <1>5, <1>7, <1>8 DEF SupervisorInv, Lives, Flags, Rights, Barrier,
    AnswersRead, Owning, Silent, Alive, tr, Probing
<1>25. CaptureRead'
  BY <1>1, <1>2, <1>4, <1>5, <1>7, <1>8 DEF SupervisorInv, Lives, Flags, Rights, Barrier,
    CaptureRead, Owning, Silent, Alive, tr
<1>26. CaptureComes'
  BY <1>1, <1>2, <1>4, <1>5, <1>7, <1>8 DEF SupervisorInv, Lives, Flags, Rights, Barrier,
    CaptureComes, Owning, Alive, tr
<1>27. CapturedIsFinal'
  BY <1>1, <1>2, <1>4, <1>5, <1>7, <1>8 DEF SupervisorInv, Lives, Flags, Rights, Barrier,
    CapturedIsFinal, Routed, Tasks, st, tr, Exchanging, Recovering
<1>28. QED
  BY <1>6, <1>9, <1>10, <1>11, <1>12, <1>13, <1>14, <1>15, <1>16, <1>17, <1>18, <1>19, <1>20,
      <1>21, <1>22, <1>23, <1>24, <1>25, <1>26, <1>27 DEF SupervisorInv, Sayings, Undisturbing,
      Barrier

(* A recovery by force begins: the old core is killed.                      *)
LEMMA RecoveryKeeps ==
  ASSUME SupervisorInv, Recovery("transition"), ~Pending, loop # "left", loop' = "run",
         presses' \in {presses, presses + 1}, st.pc \in {"booting", "done"},
         presses' > 0 => st.pc = "done",
         st.pc = "booting" => seen[st.new].reaped,
         menu' \in BOOLEAN,
         UNCHANGED <<out, current, last, exit, updates, resumes, crashes>>
  PROVE  SupervisorInv'
<1>1. /\ TaskTyped' /\ st' = st /\ tr'.pc = "killing" /\ tr'.old = current /\ tr'.new = 0
  <2> DEFINE s == [At("killing") EXCEPT !.old = current]
  <2>0. s = [pc |-> "killing", old |-> current, new |-> 0, state |-> 0, stage |-> 0]
    <3>1. At("killing") = [pc |-> "killing", old |-> 0, new |-> 0, state |-> 0, stage |-> 0]
      BY DEF At, Done
    <3>2. QED
      BY <3>1
  <2>1. s \in Stations /\ s.pc = "killing" /\ s.old = current /\ s.new = 0
    BY <2>0, Bounds DEF Stations, Places, Recovering, SupervisorInv, Typed, LoopTyped
  <2>2. task' = [task EXCEPT !["transition"] = s]
    BY DEF Recovery
  <2> HIDE DEF s
  <2>3. QED
    BY <2>1, <2>2, StationFacts DEF SupervisorInv, Typed, Tasks, st, tr
<1>2. /\ ProcTyped' /\ SeenTyped' /\ routing' = FALSE
      /\ \A d \in Cores : SameSight(seen[d], seen'[d])
      /\ \A d \in Cores : IF d = current /\ Alive(d) THEN Dies(proc[d], proc'[d])
                          ELSE proc'[d] = proc[d]
  <2>1. CASE current = 0
    <3>1. proc' = proc /\ seen' = seen /\ routing' = FALSE
      BY <2>1 DEF Recovery
    <3>2. ProcTyped' /\ SeenTyped'
      BY <3>1 DEF SupervisorInv, Typed, ProcTyped, SeenTyped
    <3>3. QED
      BY <2>1, <3>1, <3>2, Bounds DEF SameSight
  <2>2. CASE current # 0
    <3>1. current \in Cores /\ StopAsked(current, TRUE) /\ routing' = FALSE
      BY <2>2, Bounds DEF Recovery, SupervisorInv, Typed, LoopTyped
    <3>2. QED
      BY <3>1, StopFacts DEF SupervisorInv
  <2>3. QED
    BY <2>1, <2>2
<1>3. Typed' /\ tr.pc = "done"
  <2>1. presses' \in Nat /\ tr.pc = "done"
    BY DEF SupervisorInv, Typed, LoopTyped, Pending, tr
  <2>2. OutTyped' /\ LoopTyped'
    BY <1>2, <2>1 DEF SupervisorInv, Typed, OutTyped, LoopTyped
  <2>3. QED
    BY <1>1, <1>2, <2>1, <2>2 DEF Typed
<1>4. Unreaped' = Unreaped
  BY <1>2 DEF Unreaped, Alive, Dies, SameSight
<1>5. \A d \in Cores : /\ Alive(d)' => Alive(d) /\ d # current /\ proc'[d] = proc[d]
                       /\ (proc'[d].life = "none" <=> proc[d].life = "none")
                       /\ seen'[d].state = seen[d].state
                       /\ (seen'[d].reaped <=> seen[d].reaped)
                       /\ (proc'[d].granted <=> proc[d].granted)
                       /\ (proc'[d].frozen <=> proc[d].frozen)
                       /\ (proc[d].life = "gone" => proc'[d].life = "gone")
  BY <1>2 DEF Alive, Dies, Flags, Rights, SameSight
<1>6. \A d \in Cores : proc'[d].life = "starting" => proc'[d] = proc[d]
  BY <1>5 DEF Alive
<1>7. presses' < 2 => presses < 2
  BY DEF SupervisorInv, Typed, LoopTyped
<1>8. presses' = 0 => presses = 0 /\ loop = "run"
  BY DEF SupervisorInv, Typed, LoopTyped, Positions
<1>9. Positions'
  BY <1>1, <1>3, <1>5, <1>8 DEF SupervisorInv, Positions, Tasks, st, tr, Recovering,
    Exchanging, Launched, Probing
<1>10. Remains'
  BY <1>1, <1>3, <1>5 DEF SupervisorInv, Remains
<1>11. Ownership'
  BY <1>1, <1>3, <1>5 DEF SupervisorInv, Ownership, OneOwner, Alive, Tasks, st, tr, Recovering
<1>12. OneProcess'
  BY <1>1, <1>3, <1>5, <1>4, <1>8 DEF SupervisorInv, OneProcess, Unreaped, Tasks, st, tr,
    Launched, Killing, Probing, Keeping, Unfrozen
<1>13. OneJournal'
  BY <1>1, <1>3, <1>5, <1>7 DEF SupervisorInv, OneJournal, Writers, Alive, Tasks, st, tr,
    Launched, Killing, Keeping, Unfrozen
<1>14. FrozenGranted'
  BY <1>1, <1>3, <1>5 DEF SupervisorInv, Sayings, FrozenGranted
<1>15. GrantedSay'
  BY <1>1, <1>3, <1>5 DEF SupervisorInv, Sayings, GrantedSay
<1>16. StartupSays'
  BY <1>1, <1>3, <1>5 DEF SupervisorInv, Sayings, StartupSays, st
<1>17. ReadySays'
  BY <1>1, <1>3, <1>5 DEF SupervisorInv, Sayings, ReadySays
<1>18. StartingSays'
  BY <1>1, <1>3, <1>5, <1>6 DEF SupervisorInv, Sayings, StartingSays
<1>19. CurrentUndisturbed'
  BY <1>1, <1>3, <1>5 DEF SupervisorInv, Undisturbing, CurrentUndisturbed, Undisturbed, Alive,
    tr, Keeping, Unfrozen
<1>20. NewUndisturbed'
  BY <1>1, <1>3, <1>5 DEF SupervisorInv, Undisturbing, NewUndisturbed, Undisturbed, Alive,
    Tasks, st, tr, Launched
<1>21. CaptureUndisturbed'
  BY <1>1, <1>3, <1>5 DEF SupervisorInv, Undisturbing, CaptureUndisturbed, tr
<1>22. FrozenInExchange'
  BY <1>1, <1>3, <1>5 DEF SupervisorInv, Barrier, FrozenInExchange, Owning, Alive, tr,
    Unfrozen, Exchanging
<1>23. AnswersPrecede'
  BY <1>1, <1>3, <1>5 DEF SupervisorInv, Barrier, AnswersPrecede, Owning, Alive, tr
<1>24. AnswersRead'
  BY <1>1, <1>3, <1>5 DEF SupervisorInv, Barrier, AnswersRead, Owning, Silent, Alive, tr,
    Probing
<1>25. CaptureRead'
  BY <1>1, <1>3, <1>5 DEF SupervisorInv, Barrier, CaptureRead, Owning, Silent, Alive, tr
<1>26. CaptureComes'
  BY <1>1, <1>3, <1>5 DEF SupervisorInv, Barrier, CaptureComes, Owning, Alive, tr
<1>27. CapturedIsFinal'
  BY <1>1, <1>3, <1>5, <1>2 DEF SupervisorInv, Barrier, CapturedIsFinal, Routed, Tasks, st,
    tr, Exchanging, Recovering
<1>28. QED
  BY <1>3, <1>9, <1>10, <1>11, <1>12, <1>13, <1>14, <1>15, <1>16, <1>17, <1>18, <1>19, <1>20,
      <1>21, <1>22, <1>23, <1>24, <1>25, <1>26, <1>27 DEF SupervisorInv, Sayings, Undisturbing,
      Barrier

(* Ctrl+R cancels the transition at the await it has reached.               *)
LEMMA CancelKeeps ==
  ASSUME SupervisorInv, loop = "run", Pending, st.pc = "done", st' = st,
         TaskTyped', ProcTyped', SeenTyped',
         \A d \in Cores : SameSight(seen[d], seen'[d]),
         \A d \in Cores : \/ proc'[d] = proc[d]
                          \/ Alive(d) /\ (Dies(proc[d], proc'[d]) \/ Retires(proc[d], proc'[d])),
         \/ tr.pc = "probing" /\ tr'.pc = "cancel_stopping" /\ tr'.new = tr.new
         \/ /\ tr.pc \in {"awaiting", "restoring"} /\ tr'.pc = "cancel_clearing"
            /\ tr'.new = tr.new
         \/ tr.pc = "restarting" /\ tr'.pc = "giving_up" /\ tr'.new = tr.new
         \/ tr.pc \notin Launched \cup {"probing"} /\ tr'.pc = "done",
         loop' = "cancel", presses' = presses + 1, menu' \in BOOLEAN,
         UNCHANGED <<out, current, last, routing, exit, updates, resumes, crashes>>
  PROVE  SupervisorInv'
<1>1. Typed'
  BY DEF SupervisorInv, Typed, OutTyped, LoopTyped
<1>2. Unreaped' = Unreaped
  BY DEF Unreaped, Alive, Dies, Retires, Lives, SameSight
<1>3. \A d \in Cores : /\ Alive(d)' => Alive(d)
                       /\ (proc'[d].life = "none" <=> proc[d].life = "none")
                       /\ seen'[d].state = seen[d].state
                       /\ (seen'[d].reaped <=> seen[d].reaped)
                       /\ (proc'[d].granted <=> proc[d].granted)
                       /\ (proc'[d].frozen <=> proc[d].frozen)
                       /\ (proc'[d].probe <=> proc[d].probe)
                       /\ (proc[d].life = "gone" => proc'[d].life = "gone")
                       /\ (proc'[d].life = "starting" => proc[d].life = "starting")
  BY DEF Alive, Dies, Retires, Lives, Flags, Rights, SameSight
<1>4. presses \in Nat /\ presses' # 0 /\ presses' > 0 /\ (presses' < 2 => presses < 2 /\ presses = 0)
  BY DEF SupervisorInv, Typed, LoopTyped
<1>5. Positions'
  BY <1>3, <1>4 DEF SupervisorInv, Positions, Tasks, st, tr, Recovering, Exchanging, Launched,
    Probing
<1>6. Remains'
  BY <1>3 DEF SupervisorInv, Remains
<1>7. Ownership'
  BY <1>3 DEF SupervisorInv, Ownership, OneOwner, Alive, Tasks, st, tr, Recovering
<1>8. OneProcess'
  BY <1>3, <1>2, <1>4 DEF SupervisorInv, OneProcess, Unreaped, Tasks, st, tr, Launched,
    Killing, Probing, Keeping, Unfrozen
<1>9. OneJournal'
  <2>0. tr.pc \in Keeping \cup Launched \cup Killing \cup {"killing"}
    BY DEF SupervisorInv, Typed, TaskTyped, Tasks, Stations, Places, Exchanging, Recovering,
        Positions, tr, st, Keeping, Unfrozen, Launched, Killing
  <2>1. presses = 0 => /\ tr.pc \in Launched => Writers({tr.new})
                       /\ tr.pc \in {"killing"} \cup Killing => Writers({})
                       /\ tr.pc \in Keeping => Writers({current})
    BY DEF SupervisorInv, OneJournal, Tasks, tr, st
  <2>2. presses = 0 => IF tr'.pc \in {"giving_up", "cancel_clearing"} THEN Writers({tr.new})
                       ELSE Writers({current})
    BY <2>0, <2>1 DEF Keeping, Unfrozen, Killing, Launched, Writers
  <2>3. QED
    BY <2>2, <1>3, <1>4 DEF OneJournal, Writers, Tasks, tr, st, Killing, Keeping, Unfrozen,
          Launched
<1>10. FrozenGranted'
  BY <1>3 DEF SupervisorInv, Sayings, FrozenGranted
<1>11. GrantedSay'
  BY <1>3 DEF SupervisorInv, Sayings, GrantedSay
<1>12. StartupSays'
  BY <1>3 DEF SupervisorInv, Sayings, StartupSays, st
<1>13. ReadySays'
  BY <1>3 DEF SupervisorInv, Sayings, ReadySays
<1>14. StartingSays'
  BY <1>3 DEF SupervisorInv, Sayings, StartingSays
<1>15. CurrentUndisturbed'
  BY <1>3 DEF SupervisorInv, Undisturbing, CurrentUndisturbed, Undisturbed, Alive, tr,
    Keeping, Unfrozen
<1>16. NewUndisturbed'
  BY <1>3 DEF SupervisorInv, Undisturbing, NewUndisturbed, Undisturbed, Alive, Tasks, st, tr,
    Launched
<1>17. CaptureUndisturbed'
  BY <1>3 DEF SupervisorInv, Undisturbing, CaptureUndisturbed, tr
<1>18. FrozenInExchange'
  BY <1>3 DEF SupervisorInv, Barrier, FrozenInExchange, Owning, Alive, tr, Unfrozen,
    Exchanging
<1>19. AnswersPrecede'
  BY <1>3 DEF SupervisorInv, Barrier, AnswersPrecede, Owning, Alive, tr
<1>20. AnswersRead'
  BY <1>3 DEF SupervisorInv, Barrier, AnswersRead, Owning, Silent, Alive, tr, Probing
<1>21. CaptureRead'
  BY <1>3 DEF SupervisorInv, Barrier, CaptureRead, Owning, Silent, Alive, tr
<1>22. CaptureComes'
  BY <1>3 DEF SupervisorInv, Barrier, CaptureComes, Owning, Alive, tr
<1>23. CapturedIsFinal'
  BY <1>3 DEF SupervisorInv, Barrier, CapturedIsFinal, Routed, Tasks, st, tr, Exchanging,
    Recovering
<1>24. QED
  BY <1>1, <1>5, <1>6, <1>7, <1>8, <1>9, <1>10, <1>11, <1>12, <1>13, <1>14, <1>15, <1>16, <1>17,
      <1>18, <1>19, <1>20, <1>21, <1>22, <1>23 DEF SupervisorInv, Sayings, Undisturbing, Barrier

(* The first core is launched.                                              *)
LEMMA BootKeeps ==
  ASSUME SupervisorInv, st.pc = "launch", LaunchCore(last, FALSE),
         task' = [task EXCEPT !["start"] = [At("booting") EXCEPT !.new = NextFree]],
         current' = NextFree, out' = [out EXCEPT ![NextFree] = <<Said("startup", 0)>>],
         UNCHANGED <<last, routing, menu, exit, loop, updates, resumes, presses>>
  PROVE  SupervisorInv'
<1> DEFINE n == NextFree
<1>1. /\ current = 0 /\ tr.pc = "done" /\ presses = 0 /\ loop = "run" /\ Unreaped = {}
      /\ \A c \in Cores : ~Alive(c)
  BY Bounds DEF SupervisorInv, Positions, OneProcess, Remains, Unreaped, Alive, Tasks, st, tr
<1>2. last \in Versions /\ FALSE \in BOOLEAN
  BY DEF SupervisorInv, Typed, LoopTyped
<1>3. /\ ProcTyped' /\ SeenTyped' /\ n \in Cores \ {current}
      /\ \A d \in Cores \ {n} : proc'[d] = proc[d] /\ seen'[d] = seen[d]
      /\ Starts(proc'[n], FALSE) /\ Fresh(seen'[n])
  BY <1>2, LaunchFacts DEF SupervisorInv
<1>4. crashes' = crashes
  BY DEF LaunchCore
<1> DEFINE s == [At("booting") EXCEPT !.new = n]
           m == Said("startup", 0)
<1>5. /\ TaskTyped' /\ tr' = tr /\ st'.pc = "booting" /\ st'.new = n
  <2>1. At("booting") = [pc |-> "booting", old |-> 0, new |-> 0, state |-> 0, stage |-> 0]
    BY DEF At, Done
  <2>2. s = [pc |-> "booting", old |-> 0, new |-> n, state |-> 0, stage |-> 0]
    BY <2>1
  <2> HIDE DEF n
  <2>3. s \in Stations /\ s.pc = "booting" /\ s.new = n
    BY <2>2, <1>3, Bounds DEF Stations, Places
  <2> USE DEF n
  <2>4. task' = [task EXCEPT !["start"] = s]
    OBVIOUS
  <2> HIDE DEF s, n
  <2>5. QED
    BY <2>3, <2>4, StationFacts DEF SupervisorInv, Typed, Tasks, st, tr
<1>6. current' = n /\ out' = [out EXCEPT ![n] = <<m>>]
  OBVIOUS
<1> HIDE DEF n, s
<1>7. /\ OutTyped' /\ \A d \in Cores \ {n} : out'[d] = out[d]
      /\ Len(out'[n]) = 1 /\ out'[n][1].kind = "startup"
  <2>1. m \in Sent /\ m.kind = "startup"
    BY Bounds DEF Said, Sent, Messages
  <2> HIDE DEF m
  <2>2. <<m>> \in Seq(Sent) /\ Len(<<m>>) = 1 /\ <<m>>[1] = m
    BY <2>1
  <2>3. QED
    BY <1>3, <1>6, <2>1, <2>2 DEF SupervisorInv, Typed, OutTyped
<1> HIDE DEF m
<1>8. Typed'
  BY <1>3, <1>4, <1>5, <1>6, <1>7, Bounds DEF SupervisorInv, Typed, LoopTyped
<1>9. Unreaped' = {n} /\ \A d \in Cores : Alive(d)' => d = n
  BY <1>1, <1>3 DEF Unreaped, Starts, Fresh, Alive
<1>10. \A i \in 1..Len(out'[n]) : i = 1 /\ out'[n][i].kind = "startup"
  BY <1>7
<1>11. \A d \in Cores : \A i \in 1..Len(out[d]) : out[d][i].kind # "startup"
  BY <1>1 DEF SupervisorInv, Sayings, StartupSays
<1>12. Positions'
  BY <1>1, <1>3, <1>5, <1>6 DEF SupervisorInv, Starts, Fresh, Positions, Tasks, st, tr,
    Recovering, Exchanging, Launched, Probing
<1>13. Remains'
  BY <1>1, <1>3, <1>5, <1>6, Bounds DEF SupervisorInv, Starts, Fresh, Remains
<1>14. Ownership'
  BY <1>1, <1>3, <1>5, <1>6, <1>9 DEF SupervisorInv, Starts, Fresh, Ownership, OneOwner,
    Alive, Tasks, st, tr, Recovering
<1>15. OneProcess'
  BY <1>1, <1>3, <1>5, <1>6, <1>9 DEF SupervisorInv, Starts, Fresh, OneProcess, Unreaped,
    Tasks, st, tr, Launched, Killing, Probing, Keeping, Unfrozen
<1>16. OneJournal'
  BY <1>1, <1>3, <1>5, <1>6, <1>9 DEF SupervisorInv, Starts, Fresh, OneJournal, Writers,
    Alive, Tasks, st, tr, Launched, Killing, Keeping, Unfrozen
<1>17. FrozenGranted'
  BY <1>1, <1>3, <1>5, <1>6 DEF SupervisorInv, Starts, Fresh, Sayings, FrozenGranted
<1>18. GrantedSay'
  BY <1>1, <1>3, <1>5, <1>6, <1>7, <1>10 DEF SupervisorInv, Starts, Fresh, Sayings,
    GrantedSay, Answers
<1>19. StartupSays'
  BY <1>1, <1>3, <1>5, <1>6, <1>7, <1>10, <1>11 DEF SupervisorInv, Starts, Fresh, Sayings,
    StartupSays, st
<1>20. ReadySays'
  BY <1>1, <1>3, <1>5, <1>6, <1>7, <1>10 DEF SupervisorInv, Starts, Fresh, Sayings, ReadySays
<1>21. StartingSays'
  BY <1>1, <1>3, <1>5, <1>6, <1>7, <1>10 DEF SupervisorInv, Starts, Fresh, Sayings,
    StartingSays
<1>22. CurrentUndisturbed'
  BY <1>1, <1>3, <1>5, <1>6 DEF SupervisorInv, Starts, Fresh, Undisturbing,
    CurrentUndisturbed, Undisturbed, Alive, tr, Keeping, Unfrozen
<1>23. NewUndisturbed'
  BY <1>1, <1>3, <1>5, <1>6 DEF SupervisorInv, Starts, Fresh, Undisturbing, NewUndisturbed,
    Undisturbed, Alive, Tasks, st, tr, Launched
<1>24. CaptureUndisturbed'
  BY <1>1, <1>3, <1>5, <1>6 DEF SupervisorInv, Starts, Fresh, Undisturbing,
    CaptureUndisturbed, tr
<1>25. FrozenInExchange'
  BY <1>1, <1>3, <1>5, <1>6 DEF SupervisorInv, Starts, Fresh, Barrier, FrozenInExchange,
    Owning, Alive, tr, Unfrozen, Exchanging
<1>26. AnswersPrecede'
  BY <1>1, <1>3, <1>5, <1>6, <1>10 DEF SupervisorInv, Starts, Fresh, Barrier, AnswersPrecede,
    Owning, Alive, tr, Answers
<1>27. AnswersRead'
  BY <1>1, <1>3, <1>5, <1>6 DEF SupervisorInv, Starts, Fresh, Barrier, AnswersRead, Owning,
    Silent, Alive, tr, Probing
<1>28. CaptureRead'
  BY <1>1, <1>3, <1>5, <1>6 DEF SupervisorInv, Starts, Fresh, Barrier, CaptureRead, Owning,
    Silent, Alive, tr
<1>29. CaptureComes'
  BY <1>1, <1>3, <1>5, <1>6 DEF SupervisorInv, Starts, Fresh, Barrier, CaptureComes, Owning,
    Alive, tr
<1>30. CapturedIsFinal'
  BY <1>1, <1>3, <1>5, <1>6 DEF SupervisorInv, Starts, Fresh, Barrier, CapturedIsFinal,
    Routed, Tasks, st, tr, Exchanging, Recovering
<1>31. QED
  BY <1>8, <1>12, <1>13, <1>14, <1>15, <1>16, <1>17, <1>18, <1>19, <1>20, <1>21, <1>22, <1>23,
      <1>24, <1>25, <1>26, <1>27, <1>28, <1>29, <1>30 DEF SupervisorInv, Sayings, Undisturbing,
      Barrier

(* The startup task ends.                                                   *)
LEMMA StartedKeeps ==
  ASSUME SupervisorInv, st.pc = "booting", out[st.new] = <<>>, End("start"),
         ProcTyped', SeenTyped', last' \in Versions, routing' \in BOOLEAN,
         exit' \in {"none", "ok", "failed"},
         \A d \in Cores : SameSight(seen[d], seen'[d]),
         \/ proc' = proc /\ routing' = routing
         \/ /\ ReadyOk(st.new)
            /\ \A d \in Cores : IF d = current /\ Alive(d) THEN Grants(proc[d], proc'[d])
                                ELSE proc'[d] = proc[d],
         UNCHANGED <<out, current, menu, loop, countVars>>
  PROVE  SupervisorInv'
<1>1. TaskTyped' /\ tr' = tr /\ st'.pc = "done"
  BY EndFacts DEF SupervisorInv, Typed, Tasks, st, tr
<1>2. \A d \in Cores : \A i \in 1..Len(out[d]) : out[d][i].kind = "startup" => loop = "left"
  BY DEF SupervisorInv, Sayings, StartupSays
<1>3. Typed'
  BY <1>1 DEF SupervisorInv, Typed, OutTyped, LoopTyped, countVars
<1>4. \A d \in Cores : /\ (Alive(d)' <=> Alive(d)) /\ Lives(proc[d], proc'[d])
                       /\ Flags(proc[d], proc'[d]) /\ (proc'[d].retiring <=> proc[d].retiring)
                       /\ (proc[d].granted => proc'[d].granted)
                       /\ (proc'[d].frozen => proc[d].frozen)
                       /\ seen'[d].state = seen[d].state
                       /\ (seen'[d].captured <=> seen[d].captured)
                       /\ (seen'[d].error <=> seen[d].error)
                       /\ (seen'[d].reaped <=> seen[d].reaped)
  BY DEF Alive, Grants, Lives, Flags, SameSight
<1>5. Unreaped' = Unreaped
  BY <1>4 DEF Unreaped, Lives
<1>6. UNCHANGED <<out, current, loop, presses>>
  BY DEF countVars
<1>7. \A d \in Cores : \/ proc'[d] = proc[d]
                       \/ /\ d = st.new /\ d = current /\ tr.pc = "done" /\ Grants(proc[d],
                             proc'[d])
                          /\ seen[d].state # 0
  BY DEF SupervisorInv, Positions, ReadyOk
<1>8. routing' = routing \/ tr.pc = "done"
  BY DEF SupervisorInv, Positions, ReadyOk
<1>9. Positions'
  BY <1>1, <1>4, <1>6 DEF SupervisorInv, Lives, Flags, Positions, Tasks, st, tr, Recovering,
    Exchanging, Launched, Probing
<1>10. Remains'
  BY <1>1, <1>4, <1>6 DEF SupervisorInv, Lives, Flags, Remains
<1>11. Ownership'
  BY <1>1, <1>4, <1>6, <1>7 DEF SupervisorInv, Lives, Flags, Ownership, OneOwner, Alive,
    Tasks, st, tr, Recovering, Grants
<1>12. OneProcess'
  BY <1>1, <1>4, <1>6, <1>5 DEF SupervisorInv, Lives, Flags, OneProcess, Unreaped, Tasks, st,
    tr, Launched, Killing, Probing, Keeping, Unfrozen
<1>13. OneJournal'
  BY <1>1, <1>4, <1>6 DEF SupervisorInv, Lives, Flags, OneJournal, Writers, Alive, Tasks, st,
    tr, Launched, Killing, Keeping, Unfrozen
<1>14. FrozenGranted'
  BY <1>1, <1>4, <1>6, <1>7 DEF SupervisorInv, Lives, Flags, Sayings, FrozenGranted, Grants
<1>15. GrantedSay'
  BY <1>1, <1>4, <1>6 DEF SupervisorInv, Lives, Flags, Sayings, GrantedSay
<1>16. StartupSays'
  BY <1>1, <1>4, <1>6, <1>2 DEF SupervisorInv, Lives, Flags, Sayings, StartupSays, st
<1>17. ReadySays'
  BY <1>1, <1>4, <1>6, <1>7 DEF SupervisorInv, Lives, Flags, Sayings, ReadySays
<1>18. StartingSays'
  BY <1>1, <1>4, <1>6, <1>7 DEF SupervisorInv, Lives, Flags, Sayings, StartingSays
<1>19. CurrentUndisturbed'
  BY <1>1, <1>4, <1>6 DEF SupervisorInv, Lives, Flags, Undisturbing, CurrentUndisturbed,
    Undisturbed, Alive, tr, Keeping, Unfrozen
<1>20. NewUndisturbed'
  BY <1>1, <1>4, <1>6 DEF SupervisorInv, Lives, Flags, Undisturbing, NewUndisturbed,
    Undisturbed, Alive, Tasks, st, tr, Launched, Positions
<1>21. CaptureUndisturbed'
  BY <1>1, <1>4, <1>6 DEF SupervisorInv, Lives, Flags, Undisturbing, CaptureUndisturbed, tr,
    Positions, Exchanging
<1>22. FrozenInExchange'
  BY <1>1, <1>4, <1>6, <1>7 DEF SupervisorInv, Lives, Flags, Barrier, FrozenInExchange,
    Owning, Alive, tr, Unfrozen, Exchanging, Grants
<1>23. AnswersPrecede'
  BY <1>1, <1>4, <1>6 DEF SupervisorInv, Lives, Flags, Barrier, AnswersPrecede, Owning, Alive,
    tr
<1>24. AnswersRead'
  BY <1>1, <1>4, <1>6, <1>7 DEF SupervisorInv, Lives, Flags, Barrier, AnswersRead, Owning,
    Silent, Alive, tr, Probing
<1>25. CaptureRead'
  BY <1>1, <1>4, <1>6, <1>7 DEF SupervisorInv, Lives, Flags, Barrier, CaptureRead, Owning,
    Silent, Alive, tr
<1>26. CaptureComes'
  BY <1>1, <1>4, <1>6, <1>7 DEF SupervisorInv, Lives, Flags, Barrier, CaptureComes, Owning,
    Alive, tr
<1>27. CapturedIsFinal'
  BY <1>1, <1>4, <1>6, Bounds, <1>8, Exchanger DEF SupervisorInv, Lives, Flags, Barrier,
    CapturedIsFinal, Routed, Tasks, st, tr, Exchanging, Recovering, Typed, LoopTyped,
    Positions
<1>28. QED
  BY <1>3, <1>9, <1>10, <1>11, <1>12, <1>13, <1>14, <1>15, <1>16, <1>17, <1>18, <1>19, <1>20,
      <1>21, <1>22, <1>23, <1>24, <1>25, <1>26, <1>27 DEF SupervisorInv, Sayings, Undisturbing,
      Barrier

(* The end of a core's output, its exit and the end of the program.         *)
LEMMA EofKeeps ==
  ASSUME SupervisorInv, NEW c \in Cores, Eof(c)
  PROVE  SupervisorInv'
<1>1. seen[c] \in Sights /\ UNCHANGED <<proc, out, current, last, routing, menu, exit, loop,
                                        task, updates, resumes, crashes, presses>>
  BY DEF SupervisorInv, Typed, SeenTyped, Eof, loopVars, countVars
<1>2. /\ SeenTyped' /\ proc[c].life = "gone"
      /\ \A d \in Cores : seen'[d].state = seen[d].state /\ (seen'[d].reaped <=> seen[d].reaped)
      /\ \A d \in Cores : d # c => seen'[d] = seen[d]
  <2> DEFINE s == [seen[c] EXCEPT !.eof = TRUE, !.ready = TRUE, !.idle = TRUE, !.captured = TRUE]
  <2>1. s \in Sights /\ s.state = seen[c].state /\ (s.reaped <=> seen[c].reaped)
    BY <1>1 DEF Sights
  <2>2. seen' = [seen EXCEPT ![c] = s] /\ proc[c].life = "gone"
    BY DEF Eof, SupervisorInv, Typed, SeenTyped
  <2> HIDE DEF s
  <2>3. QED
    BY <2>1, <2>2 DEF SupervisorInv, Typed, SeenTyped
<1>3. Typed'
  BY <1>1, <1>2 DEF SupervisorInv, Typed, ProcTyped, OutTyped, TaskTyped, LoopTyped
<1>4. Unreaped' = Unreaped /\ (\A d \in Cores : Alive(d)' <=> Alive(d)) /\ ~Alive(c)
  BY <1>1, <1>2 DEF Unreaped, Alive
<1>5. Positions'
  BY <1>1, <1>2, <1>4 DEF SupervisorInv, Positions, Tasks, st, tr, Recovering, Exchanging,
    Launched, Probing
<1>6. Remains'
  BY <1>1, <1>2, <1>4 DEF SupervisorInv, Remains
<1>7. Ownership'
  BY <1>1, <1>2, <1>4 DEF SupervisorInv, Ownership, OneOwner, Alive, Tasks, st, tr, Recovering
<1>8. OneProcess'
  BY <1>1, <1>2, <1>4 DEF SupervisorInv, OneProcess, Unreaped, Tasks, st, tr, Launched,
    Killing, Probing, Keeping, Unfrozen
<1>9. OneJournal'
  BY <1>1, <1>2, <1>4 DEF SupervisorInv, OneJournal, Writers, Alive, Tasks, st, tr, Launched,
    Killing, Keeping, Unfrozen
<1>10. FrozenGranted'
  BY <1>1, <1>2, <1>4 DEF SupervisorInv, Sayings, FrozenGranted
<1>11. GrantedSay'
  BY <1>1, <1>2, <1>4 DEF SupervisorInv, Sayings, GrantedSay
<1>12. StartupSays'
  BY <1>1, <1>2, <1>4 DEF SupervisorInv, Sayings, StartupSays, st
<1>13. ReadySays'
  BY <1>1, <1>2, <1>4 DEF SupervisorInv, Sayings, ReadySays
<1>14. StartingSays'
  BY <1>1, <1>2, <1>4 DEF SupervisorInv, Sayings, StartingSays
<1>15. CurrentUndisturbed'
  BY <1>1, <1>2, <1>4 DEF SupervisorInv, Undisturbing, CurrentUndisturbed, Undisturbed, Alive,
    tr, Keeping, Unfrozen
<1>16. NewUndisturbed'
  BY <1>1, <1>2, <1>4 DEF SupervisorInv, Undisturbing, NewUndisturbed, Undisturbed, Alive,
    Tasks, st, tr, Launched, Positions
<1>17. CaptureUndisturbed'
  BY <1>1, <1>2, <1>4 DEF SupervisorInv, Undisturbing, CaptureUndisturbed, tr
<1>18. FrozenInExchange'
  BY <1>1, <1>2, <1>4 DEF SupervisorInv, Barrier, FrozenInExchange, Owning, Alive, tr,
    Unfrozen, Exchanging
<1>19. AnswersPrecede'
  BY <1>1, <1>2, <1>4 DEF SupervisorInv, Barrier, AnswersPrecede, Owning, Alive, tr
<1>20. AnswersRead'
  BY <1>1, <1>2, <1>4 DEF SupervisorInv, Barrier, AnswersRead, Owning, Silent, Alive, tr,
    Probing
<1>21. CaptureRead'
  BY <1>1, <1>2, <1>4 DEF SupervisorInv, Barrier, CaptureRead, Owning, Silent, Alive, tr
<1>22. CaptureComes'
  BY <1>1, <1>2, <1>4 DEF SupervisorInv, Barrier, CaptureComes, Owning, Alive, tr
<1>23. CapturedIsFinal'
  BY <1>1, <1>2, <1>4, Bounds DEF SupervisorInv, Barrier, CapturedIsFinal, Routed, Tasks, st,
    tr, Exchanging, Recovering, Typed, LoopTyped
<1>24. QED
  BY <1>3, <1>5, <1>6, <1>7, <1>8, <1>9, <1>10, <1>11, <1>12, <1>13, <1>14, <1>15, <1>16, <1>17,
      <1>18, <1>19, <1>20, <1>21, <1>22, <1>23 DEF SupervisorInv, Sayings, Undisturbing, Barrier

LEMMA ReapKeeps ==
  ASSUME SupervisorInv, NEW c \in Cores, Reap(c)
  PROVE  SupervisorInv'
<1>1. UNCHANGED <<current, last, routing, menu, exit, loop, task, updates, resumes, crashes,
                  presses>>
      /\ proc[c].life = "gone" /\ ~seen[c].reaped
  BY DEF Reap, loopVars, countVars
<1>2. /\ ProcTyped' /\ SeenTyped' /\ OutTyped'
      /\ \A d \in Cores \ {c} : proc'[d] = proc[d] /\ seen'[d] = seen[d] /\ out'[d] = out[d]
      /\ proc'[c].life = "gone" /\ seen'[c].reaped
      /\ c = current => /\ proc'[c] = proc[c] /\ out'[c] = out[c]
                        /\ seen'[c].state = seen[c].state
      /\ c # current => /\ out'[c] = <<>> /\ ~proc'[c].frozen
                        /\ \A i \in 1..Len(out'[c]) : FALSE
  <2>1. CASE c = current
    <3> DEFINE s == [seen[c] EXCEPT !.reaped = TRUE]
    <3>1. s \in Sights /\ s.reaped /\ s.state = seen[c].state
      BY DEF Sights, SupervisorInv, Typed, SeenTyped
    <3>2. seen' = [seen EXCEPT ![c] = s] /\ proc' = proc /\ out' = out
      BY <2>1 DEF Reap, SupervisorInv, Typed, SeenTyped
    <3> HIDE DEF s
    <3>3. QED
      BY <1>1, <2>1, <3>1, <3>2 DEF SupervisorInv, Typed, SeenTyped, ProcTyped, OutTyped
  <2>2. CASE c # current
    <3> DEFINE g == [NoProc EXCEPT !.life = "gone"]
    <3>1. g \in Procs /\ g.life = "gone" /\ ~g.frozen
      BY Bounds DEF Procs, NoProc
    <3>2. Ended \in Sights /\ Ended.reaped
      BY Bounds DEF Ended, NoSeen, Sights
    <3>3. /\ seen' = [seen EXCEPT ![c] = Ended] /\ proc' = [proc EXCEPT ![c] = g]
          /\ out' = [out EXCEPT ![c] = <<>>]
      BY <2>2 DEF Reap
    <3>4. <<>> \in Seq(Sent)
      OBVIOUS
    <3> HIDE DEF g
    <3>5. QED
      BY <2>2, <3>1, <3>2, <3>3, <3>4 DEF SupervisorInv, Typed, SeenTyped, ProcTyped, OutTyped
  <2>3. QED
    BY <2>1, <2>2
<1>3. Typed'
  BY <1>1, <1>2 DEF SupervisorInv, Typed, TaskTyped, LoopTyped
<1>4. Unreaped' = Unreaped \ {c} /\ (\A d \in Cores : Alive(d)' <=> Alive(d)) /\ ~Alive(c)
  BY <1>1, <1>2 DEF Unreaped, Alive
<1>5. \A d \in Cores : (seen[d].reaped => seen'[d].reaped)
                       /\ (proc'[d].life = "none" <=> proc[d].life = "none")
  BY <1>1, <1>2
<1>6. Positions'
  BY <1>1, <1>2, <1>4, <1>5, Bounds DEF SupervisorInv, Positions, Tasks, st, tr, Recovering,
    Exchanging, Launched, Probing
<1>7. Remains'
  BY <1>1, <1>2, <1>4, <1>5 DEF SupervisorInv, Remains
<1>8. Ownership'
  BY <1>1, <1>2, <1>4, <1>5 DEF SupervisorInv, Ownership, OneOwner, Alive, Tasks, st, tr,
    Recovering
<1>9. OneProcess'
  BY <1>1, <1>2, <1>4, <1>5 DEF SupervisorInv, OneProcess, Unreaped, Tasks, st, tr, Launched,
    Killing, Probing, Keeping, Unfrozen
<1>10. OneJournal'
  BY <1>1, <1>2, <1>4, <1>5 DEF SupervisorInv, OneJournal, Writers, Alive, Tasks, st, tr,
    Launched, Killing, Keeping, Unfrozen
<1>11. FrozenGranted'
  BY <1>1, <1>2, <1>4, <1>5 DEF SupervisorInv, Sayings, FrozenGranted
<1>12. GrantedSay'
  BY <1>1, <1>2, <1>4, <1>5 DEF SupervisorInv, Sayings, GrantedSay
<1>13. StartupSays'
  BY <1>1, <1>2, <1>4, <1>5 DEF SupervisorInv, Sayings, StartupSays, st
<1>14. ReadySays'
  BY <1>1, <1>2, <1>4, <1>5 DEF SupervisorInv, Sayings, ReadySays
<1>15. StartingSays'
  BY <1>1, <1>2, <1>4, <1>5 DEF SupervisorInv, Sayings, StartingSays
<1>16. CurrentUndisturbed'
  BY <1>1, <1>2, <1>4, <1>5 DEF SupervisorInv, Undisturbing, CurrentUndisturbed, Undisturbed,
    Alive, tr, Keeping, Unfrozen
<1>17. NewUndisturbed'
  BY <1>1, <1>2, <1>4, <1>5 DEF SupervisorInv, Undisturbing, NewUndisturbed, Undisturbed,
    Alive, Tasks, st, tr, Launched, Positions
<1>18. CaptureUndisturbed'
  BY <1>1, <1>2, <1>4, <1>5 DEF SupervisorInv, Undisturbing, CaptureUndisturbed, tr,
    Positions, Exchanging
<1>19. FrozenInExchange'
  BY <1>1, <1>2, <1>4, <1>5 DEF SupervisorInv, Barrier, FrozenInExchange, Owning, Alive, tr,
    Unfrozen, Exchanging
<1>20. AnswersPrecede'
  BY <1>1, <1>2, <1>4, <1>5 DEF SupervisorInv, Barrier, AnswersPrecede, Owning, Alive, tr
<1>21. AnswersRead'
  BY <1>1, <1>2, <1>4, <1>5 DEF SupervisorInv, Barrier, AnswersRead, Owning, Silent, Alive,
    tr, Probing
<1>22. CaptureRead'
  BY <1>1, <1>2, <1>4, <1>5 DEF SupervisorInv, Barrier, CaptureRead, Owning, Silent, Alive, tr
<1>23. CaptureComes'
  BY <1>1, <1>2, <1>4, <1>5 DEF SupervisorInv, Barrier, CaptureComes, Owning, Alive, tr
<1>24. CapturedIsFinal'
  BY <1>1, <1>2, <1>4, <1>5, Bounds, Exchanger DEF SupervisorInv, Barrier, CapturedIsFinal,
    Routed, Tasks, st, tr, Exchanging, Recovering, Typed, LoopTyped
<1>25. QED
  BY <1>3, <1>6, <1>7, <1>8, <1>9, <1>10, <1>11, <1>12, <1>13, <1>14, <1>15, <1>16, <1>17,
      <1>18, <1>19, <1>20, <1>21, <1>22, <1>23, <1>24 DEF SupervisorInv, Sayings, Undisturbing,
      Barrier

LEMMA LeaveKeeps ==
  ASSUME SupervisorInv, Leave
  PROVE  SupervisorInv'
<1>1. /\ UNCHANGED <<out, seen, current, last, routing, menu, exit, updates, resumes, crashes,
                     presses>>
      /\ loop = "run" /\ loop' = "left"
  BY DEF Leave, countVars
<1>2. TaskTyped' /\ tr'.pc = "done" /\ st'.pc = "done"
  <2>1. Done \in Stations /\ Done.pc = "done"
    BY Bounds DEF Done, Stations, Places
  <2>2. task' = [u \in Tasks |-> Done]
    BY DEF Leave
  <2>3. QED
    BY <2>1, <2>2 DEF TaskTyped, Tasks, tr, st
<1>3. /\ ProcTyped'
      /\ \A d \in Cores : IF Alive(d) THEN Dies(proc[d], proc'[d]) ELSE proc'[d] = proc[d]
  <2>1. \A d \in Cores : /\ proc[d] \in Procs /\ [proc[d] EXCEPT !.life = "gone"] \in Procs
                         /\ Dies(proc[d], [proc[d] EXCEPT !.life = "gone"])
    BY Changed DEF SupervisorInv, Typed, ProcTyped
  <2>2. proc' = [d \in Cores |-> IF Alive(d) THEN [proc[d] EXCEPT !.life = "gone"] ELSE proc[d]]
    BY DEF Leave
  <2>3. QED
    BY <2>1, <2>2 DEF ProcTyped
<1>4. Typed'
  BY <1>1, <1>2, <1>3 DEF SupervisorInv, Typed, OutTyped, SeenTyped, LoopTyped
<1>5. \A d \in Cores : /\ ~Alive(d)' /\ proc'[d].life # "starting"
                       /\ (proc'[d].life = "none" <=> proc[d].life = "none")
                       /\ (proc'[d].granted <=> proc[d].granted)
                       /\ (proc'[d].frozen <=> proc[d].frozen)
                       /\ (proc[d].life = "gone" => proc'[d].life = "gone")
  BY <1>3 DEF Alive, Dies, Rights, SupervisorInv, Typed, ProcTyped, Procs
<1>6. Positions'
  BY <1>1, <1>2, <1>5 DEF SupervisorInv, Positions, Tasks, st, tr, Recovering, Exchanging,
    Launched, Probing
<1>7. Remains'
  BY <1>1, <1>2, <1>5 DEF SupervisorInv, Remains
<1>8. Ownership'
  BY <1>1, <1>2, <1>5 DEF SupervisorInv, Ownership, OneOwner, Alive, Tasks, st, tr, Recovering
<1>9. OneProcess'
  BY <1>1, <1>2, <1>5 DEF SupervisorInv, OneProcess, Unreaped, Tasks, st, tr, Launched,
    Killing, Probing, Keeping, Unfrozen
<1>10. OneJournal'
  BY <1>1, <1>2, <1>5 DEF SupervisorInv, OneJournal, Writers, Alive, Tasks, st, tr, Launched,
    Killing, Keeping, Unfrozen
<1>11. FrozenGranted'
  BY <1>1, <1>2, <1>5 DEF SupervisorInv, Sayings, FrozenGranted
<1>12. GrantedSay'
  BY <1>1, <1>2, <1>5 DEF SupervisorInv, Sayings, GrantedSay
<1>13. StartupSays'
  BY <1>1, <1>2, <1>5 DEF SupervisorInv, Sayings, StartupSays, st
<1>14. ReadySays'
  BY <1>1, <1>2, <1>5 DEF SupervisorInv, Sayings, ReadySays
<1>15. StartingSays'
  BY <1>1, <1>2, <1>5 DEF SupervisorInv, Sayings, StartingSays
<1>16. CurrentUndisturbed'
  BY <1>1, <1>2, <1>5 DEF SupervisorInv, Undisturbing, CurrentUndisturbed, Undisturbed, Alive,
    tr, Keeping, Unfrozen
<1>17. NewUndisturbed'
  BY <1>1, <1>2, <1>5 DEF SupervisorInv, Undisturbing, NewUndisturbed, Undisturbed, Alive,
    Tasks, st, tr, Launched
<1>18. CaptureUndisturbed'
  BY <1>1, <1>2, <1>5 DEF SupervisorInv, Undisturbing, CaptureUndisturbed, tr
<1>19. FrozenInExchange'
  BY <1>1, <1>2, <1>5 DEF SupervisorInv, Barrier, FrozenInExchange, Owning, Alive, tr,
    Unfrozen, Exchanging
<1>20. AnswersPrecede'
  BY <1>1, <1>2, <1>5 DEF SupervisorInv, Barrier, AnswersPrecede, Owning, Alive, tr
<1>21. AnswersRead'
  BY <1>1, <1>2, <1>5 DEF SupervisorInv, Barrier, AnswersRead, Owning, Silent, Alive, tr,
    Probing
<1>22. CaptureRead'
  BY <1>1, <1>2, <1>5 DEF SupervisorInv, Barrier, CaptureRead, Owning, Silent, Alive, tr
<1>23. CaptureComes'
  BY <1>1, <1>2, <1>5 DEF SupervisorInv, Barrier, CaptureComes, Owning, Alive, tr
<1>24. CapturedIsFinal'
  BY <1>1, <1>2, <1>5 DEF SupervisorInv, Barrier, CapturedIsFinal, Routed, Tasks, st, tr,
    Exchanging, Recovering
<1>25. QED
  BY <1>4, <1>6, <1>7, <1>8, <1>9, <1>10, <1>11, <1>12, <1>13, <1>14, <1>15, <1>16, <1>17,
      <1>18, <1>19, <1>20, <1>21, <1>22, <1>23, <1>24 DEF SupervisorInv, Sayings, Undisturbing,
      Barrier

-----------------------------------------------------------------------------
(* One step of a process.                                                   *)

LEMMA AppendFacts ==
  ASSUME NEW S, NEW s \in Seq(S), NEW m \in S
  PROVE  /\ Append(s, m) \in Seq(S) /\ Len(Append(s, m)) = Len(s) + 1 /\ Len(s) \in Nat
         /\ \A i \in 1..Len(s) : Append(s, m)[i] = s[i]
         /\ Append(s, m)[Len(s) + 1] = m
OBVIOUS

LEMMA TailFacts ==
  ASSUME NEW S, NEW s \in Seq(S), s # <<>>
  PROVE  /\ Tail(s) \in Seq(S) /\ Len(Tail(s)) = Len(s) - 1 /\ Len(s) \in Nat \ {0}
         /\ \A i \in 1..Len(Tail(s)) : Tail(s)[i] = s[i + 1] /\ i + 1 \in 1..Len(s)
         /\ Head(s) = s[1] /\ Head(s) \in S
<1>1. Len(s) \in Nat \ {0}
  BY EmptySeq
<1>2. QED
  BY <1>1

(* What a process may say: what its flags allow.                            *)
Allowed(p, q, m) ==
    /\ m.kind # "startup" /\ (m.kind = "ready" => p.life = "starting")
    /\ m.kind \in {"update", "resume_queue"} => p.granted /\ ~p.frozen
    /\ m.kind \in Answers => p.frozen /\ ~p.saved /\ q.saved /\ m.version = p.version

Says(s, r, p, q) ==
    \/ r = s
    \/ /\ Len(r) = Len(s) + 1 /\ Len(s) \in Nat
       /\ \A i \in 1..Len(s) : r[i] = s[i]
       /\ Allowed(p, q, r[Len(s) + 1])

(* What it may do by itself.                                                *)
Moves(p, q) ==
    /\ p.life \in {"starting", "ready"} /\ q.life \in {"ready", "gone"}
    /\ q.life = "gone" => q.left \/ q.retiring
    /\ (q.probe <=> p.probe) /\ (q.granted <=> p.granted) /\ (q.frozen <=> p.frozen)
    /\ (q.retiring <=> p.retiring) /\ (p.left => q.left) /\ (p.saved => q.saved)
    /\ q.version # p.version => p.granted /\ ~p.frozen

LEMMA SaysFacts ==
  ASSUME OutTyped, NEW c \in Cores, NEW k \in Messages, Say(c, k), proc[c] \in Procs,
         NEW q, Allowed(proc[c], q, Said(k, proc[c].version))
  PROVE  OutTyped' /\ Says(out[c], out'[c], proc[c], q)
         /\ \A d \in Cores \ {c} : out'[d] = out[d]
<1> DEFINE m == Said(k, proc[c].version)
<1>1. m \in Sent /\ out[c] \in Seq(Sent)
  BY DEF Sent, Said, Procs, OutTyped
<1>2. out' = [out EXCEPT ![c] = Append(out[c], m)] /\ Allowed(proc[c], q, m)
  BY DEF Say
<1> HIDE DEF m
<1>3. /\ Append(out[c], m) \in Seq(Sent) /\ Len(Append(out[c], m)) = Len(out[c]) + 1
      /\ Len(out[c]) \in Nat /\ \A i \in 1..Len(out[c]) : Append(out[c], m)[i] = out[c][i]
      /\ Append(out[c], m)[Len(out[c]) + 1] = m
  BY <1>1, AppendFacts
<1>4. OutTyped' /\ out'[c] = Append(out[c], m) /\ \A d \in Cores \ {c} : out'[d] = out[d]
  BY <1>2, <1>3 DEF OutTyped
<1>5. QED
  BY <1>2, <1>3, <1>4 DEF Says

LEMMA ProcessFacts ==
  ASSUME Typed, NEW c \in Cores, ProcessStep(c)
  PROVE  /\ ProcTyped' /\ OutTyped'
         /\ \A d \in Cores : IF d = c THEN Moves(proc[d], proc'[d])
                                          /\ Says(out[d], out'[d], proc[d], proc'[d])
                             ELSE proc'[d] = proc[d] /\ out'[d] = out[d]
         /\ {updates', resumes', crashes'} \subseteq Nat
         /\ UNCHANGED <<seen, loopVars, task, presses>>
<1>1. /\ proc \in [Cores -> Procs] /\ proc[c] \in Procs /\ OutTyped
      /\ {updates, resumes, crashes, presses} \subseteq Nat
  BY DEF Typed, ProcTyped, LoopTyped
<1>2. UNCHANGED <<seen, loopVars, task, presses>>
  BY DEF ProcessStep, Restored, StartFails, Change, Idle, Capture, Retire, AskUpdate,
      AskResume, Quit, Crash, ProcOnly, countVars
<1>3. {updates', resumes', crashes'} \subseteq Nat
  BY <1>1 DEF ProcessStep, Restored, StartFails, Change, Idle, Capture, Retire, AskUpdate,
      AskResume, Quit, Crash, countVars
<1>4. ASSUME NEW p \in Procs, proc' = [proc EXCEPT ![c] = p], Moves(proc[c], p), out' = out
      PROVE  /\ ProcTyped' /\ OutTyped'
             /\ \A d \in Cores : IF d = c THEN Moves(proc[d], proc'[d])
                                              /\ Says(out[d], out'[d], proc[d], proc'[d])
                                 ELSE proc'[d] = proc[d] /\ out'[d] = out[d]
  BY <1>1, <1>4 DEF ProcTyped, OutTyped, Says
<1>5. ASSUME NEW p \in Procs, proc' = [proc EXCEPT ![c] = p], Moves(proc[c], p),
             NEW k \in Messages, Say(c, k), Allowed(proc[c], p, Said(k, proc[c].version))
      PROVE  /\ ProcTyped' /\ OutTyped'
             /\ \A d \in Cores : IF d = c THEN Moves(proc[d], proc'[d])
                                              /\ Says(out[d], out'[d], proc[d], proc'[d])
                                 ELSE proc'[d] = proc[d] /\ out'[d] = out[d]
  <2>1. proc'[c] = p /\ ProcTyped' /\ \A d \in Cores \ {c} : proc'[d] = proc[d]
    BY <1>1, <1>5 DEF ProcTyped
  <2>2. OutTyped' /\ Says(out[c], out'[c], proc[c], p)
        /\ \A d \in Cores \ {c} : out'[d] = out[d]
    BY <1>1, <1>5, SaysFacts
  <2>3. QED
    BY <1>5, <2>1, <2>2
<1>6. CASE Restored(c)
  <2> DEFINE p == [proc[c] EXCEPT !.life = "ready"]
  <2>1. p \in Procs /\ Moves(proc[c], p) /\ proc' = [proc EXCEPT ![c] = p]
    BY <1>1, <1>6, BoundsAssumption DEF Procs, Moves, ProcTyped, Versions, Restored
  <2>2. Say(c, "ready")
    BY <1>6 DEF Restored
  <2>3. Allowed(proc[c], p, Said("ready", proc[c].version))
    BY <1>1, <1>6 DEF Procs, Allowed, Said, Answers, Restored
  <2>4. {"ready"} \subseteq Messages
    BY DEF Messages
  <2> HIDE DEF p
  <2>5. QED
    BY <1>2, <1>3, <1>5, <2>1, <2>2, <2>3, <2>4
<1>7. CASE StartFails(c)
  <2> DEFINE p == [proc[c] EXCEPT !.life = "gone", !.left = TRUE]
  <2>1. p \in Procs /\ Moves(proc[c], p) /\ proc' = [proc EXCEPT ![c] = p]
    BY <1>1, <1>7, BoundsAssumption DEF Procs, Moves, ProcTyped, Versions, StartFails
  <2>2. Say(c, "failed")
    BY <1>7 DEF StartFails
  <2>3. Allowed(proc[c], p, Said("failed", proc[c].version))
    BY <1>1, <1>7 DEF Procs, Allowed, Said, Answers, StartFails
  <2>4. {"failed"} \subseteq Messages
    BY DEF Messages
  <2> HIDE DEF p
  <2>5. QED
    BY <1>2, <1>3, <1>5, <2>1, <2>2, <2>3, <2>4
<1>8. CASE Change(c)
  <2> DEFINE p == [proc[c] EXCEPT !.version = proc[c].version + 1]
  <2>1. p \in Procs /\ Moves(proc[c], p) /\ proc' = [proc EXCEPT ![c] = p]
    BY <1>1, <1>8, BoundsAssumption DEF Procs, Moves, ProcTyped, Versions, Change
  <2>2. out' = out
    BY <1>8 DEF Change
  <2> HIDE DEF p
  <2>3. QED
    BY <1>2, <1>3, <1>4, <2>1, <2>2
<1>9. CASE Idle(c)
  <2> DEFINE p == [proc[c] EXCEPT !.idleSent = TRUE]
  <2>1. p \in Procs /\ Moves(proc[c], p) /\ proc' = [proc EXCEPT ![c] = p]
    BY <1>1, <1>9, BoundsAssumption DEF Procs, Moves, ProcTyped, Versions, Idle
  <2>2. Say(c, "idle")
    BY <1>9 DEF Idle
  <2>3. Allowed(proc[c], p, Said("idle", proc[c].version))
    BY <1>1, <1>9 DEF Procs, Allowed, Said, Answers, Idle
  <2>4. {"idle"} \subseteq Messages
    BY DEF Messages
  <2> HIDE DEF p
  <2>5. QED
    BY <1>2, <1>3, <1>5, <2>1, <2>2, <2>3, <2>4
<1>10. CASE Capture(c)
  <2> DEFINE p == [proc[c] EXCEPT !.saved = TRUE]
  <2>1. p \in Procs /\ Moves(proc[c], p) /\ proc' = [proc EXCEPT ![c] = p]
    BY <1>1, <1>10, BoundsAssumption DEF Procs, Moves, ProcTyped, Versions, Capture
  <2>2. Say(c, "handoff") \/ Say(c, "capture_failed")
    BY <1>10 DEF Capture
  <2>3. /\ Allowed(proc[c], p, Said("handoff", proc[c].version))
        /\ Allowed(proc[c], p, Said("capture_failed", proc[c].version))
    BY <1>1, <1>10 DEF Procs, Allowed, Said, Answers, Capture
  <2>4. {"handoff", "capture_failed"} \subseteq Messages
    BY DEF Messages
  <2> HIDE DEF p
  <2>5. QED
    BY <1>2, <1>3, <1>5, <2>1, <2>2, <2>3, <2>4
<1>11. CASE Retire(c)
  <2> DEFINE p == [proc[c] EXCEPT !.life = "gone"]
  <2>1. p \in Procs /\ Moves(proc[c], p) /\ proc' = [proc EXCEPT ![c] = p]
    BY <1>1, <1>11, BoundsAssumption DEF Procs, Moves, ProcTyped, Versions, Retire
  <2>2. out' = out
    BY <1>11 DEF Retire
  <2> HIDE DEF p
  <2>3. QED
    BY <1>2, <1>3, <1>4, <2>1, <2>2
<1>12. CASE AskUpdate(c)
  <2> DEFINE p == proc[c]
  <2>1. p \in Procs /\ Moves(proc[c], p) /\ proc' = [proc EXCEPT ![c] = p]
    BY <1>1, <1>12, BoundsAssumption DEF Procs, Moves, ProcTyped, Versions, AskUpdate, Owner
  <2>2. Say(c, "update")
    BY <1>12 DEF AskUpdate, Owner
  <2>3. Allowed(proc[c], p, Said("update", proc[c].version))
    BY <1>1, <1>12 DEF Procs, Allowed, Said, Answers, AskUpdate, Owner
  <2>4. {"update"} \subseteq Messages
    BY DEF Messages
  <2> HIDE DEF p
  <2>5. QED
    BY <1>2, <1>3, <1>5, <2>1, <2>2, <2>3, <2>4
<1>13. CASE AskResume(c)
  <2> DEFINE p == proc[c]
  <2>1. p \in Procs /\ Moves(proc[c], p) /\ proc' = [proc EXCEPT ![c] = p]
    BY <1>1, <1>13, BoundsAssumption DEF Procs, Moves, ProcTyped, Versions, AskResume, Owner
  <2>2. Say(c, "resume_queue")
    BY <1>13 DEF AskResume, Owner
  <2>3. Allowed(proc[c], p, Said("resume_queue", proc[c].version))
    BY <1>1, <1>13 DEF Procs, Allowed, Said, Answers, AskResume, Owner
  <2>4. {"resume_queue"} \subseteq Messages
    BY DEF Messages
  <2> HIDE DEF p
  <2>5. QED
    BY <1>2, <1>3, <1>5, <2>1, <2>2, <2>3, <2>4
<1>14. CASE Quit(c)
  <2> DEFINE p == [proc[c] EXCEPT !.life = "gone", !.left = TRUE]
  <2>1. p \in Procs /\ Moves(proc[c], p) /\ proc' = [proc EXCEPT ![c] = p]
    BY <1>1, <1>14, BoundsAssumption DEF Procs, Moves, ProcTyped, Versions, Quit, Owner
  <2>2. Say(c, "finished")
    BY <1>14 DEF Quit, Owner
  <2>3. Allowed(proc[c], p, Said("finished", proc[c].version))
    BY <1>1, <1>14 DEF Procs, Allowed, Said, Answers, Quit, Owner
  <2>4. {"finished"} \subseteq Messages
    BY DEF Messages
  <2> HIDE DEF p
  <2>5. QED
    BY <1>2, <1>3, <1>5, <2>1, <2>2, <2>3, <2>4
<1>15. CASE Crash(c)
  <2> DEFINE p == [proc[c] EXCEPT !.life = "gone", !.left = TRUE]
  <2>1. p \in Procs /\ Moves(proc[c], p) /\ proc' = [proc EXCEPT ![c] = p]
    BY <1>1, <1>15, BoundsAssumption DEF Procs, Moves, ProcTyped, Versions, Crash, Alive
  <2>2. out' = out
    BY <1>15 DEF Crash, Alive
  <2> HIDE DEF p
  <2>3. QED
    BY <1>2, <1>3, <1>4, <2>1, <2>2
<1>16. QED
  BY <1>6, <1>7, <1>8, <1>9, <1>10, <1>11, <1>12, <1>13, <1>14, <1>15 DEF ProcessStep

LEMMA ProcessKeeps ==
  ASSUME SupervisorInv, NEW c \in Cores, ProcessStep(c)
  PROVE  SupervisorInv'
<1>1. /\ ProcTyped' /\ OutTyped'
      /\ \A d \in Cores : IF d = c THEN Moves(proc[d], proc'[d])
                                       /\ Says(out[d], out'[d], proc[d], proc'[d])
                          ELSE proc'[d] = proc[d] /\ out'[d] = out[d]
      /\ UNCHANGED <<seen, current, last, routing, menu, exit, loop, task, presses>>
      /\ {updates', resumes', crashes'} \subseteq Nat
  BY ProcessFacts DEF SupervisorInv, loopVars
<1>2. Typed'
  BY <1>1 DEF SupervisorInv, Typed, SeenTyped, TaskTyped, LoopTyped
<1>3. \A d \in Cores :
        /\ Alive(d)' => Alive(d)
        /\ (proc'[d].life = "none" <=> proc[d].life = "none")
        /\ (proc'[d].probe <=> proc[d].probe) /\ (proc'[d].granted <=> proc[d].granted)
        /\ (proc'[d].frozen <=> proc[d].frozen) /\ (proc'[d].retiring <=> proc[d].retiring)
        /\ (proc[d].left => proc'[d].left) /\ (proc[d].saved => proc'[d].saved)
        /\ proc'[d].version # proc[d].version => Alive(d) /\ proc[d].granted /\ ~proc[d].frozen
        /\ proc'[d].life = "gone" => \/ proc[d].life = "gone"
                                     \/ Alive(d) /\ (proc'[d].left \/ proc'[d].retiring)
        /\ proc[d].life = "gone" => proc'[d] = proc[d] /\ out'[d] = out[d]
        /\ proc'[d].life = "starting" => proc'[d] = proc[d] /\ out'[d] = out[d]
  BY <1>1 DEF Moves, Alive
<1>4. \A d \in Cores : Says(out[d], out'[d], proc[d], proc'[d]) /\ (d # c => out'[d] = out[d])
  BY <1>1 DEF Says
<1>5. c \in Cores /\ ~seen[c].reaped /\ Alive(c) /\ \A d \in Cores : out[d] \in Seq(Sent)
  BY <1>1 DEF Moves, Alive, SupervisorInv, Remains, Typed, OutTyped
<1>6. \A d \in Cores : \A i \in 1..Len(out'[d]) :
         \/ i \in 1..Len(out[d]) /\ out'[d][i] = out[d][i]
         \/ d = c /\ i = Len(out'[d]) /\ Allowed(proc[d], proc'[d], out'[d][i])
  BY <1>4, <1>5 DEF Says
<1>7. \A d \in Cores : Len(out[d]) \in Nat /\ Len(out'[d]) \in Nat
  BY <1>1, <1>5 DEF OutTyped
<1>8. Positions'
  BY <1>1, <1>3 DEF SupervisorInv, Positions, Tasks, st, tr, Recovering, Exchanging, Launched,
    Probing
<1>9. Remains'
  BY <1>1, <1>3, <1>5 DEF SupervisorInv, Remains, Alive
<1>10. Ownership'
  BY <1>1, <1>3 DEF SupervisorInv, Ownership, OneOwner, Alive, Tasks, st, tr, Recovering
<1>11. OneProcess'
  BY <1>1, <1>3 DEF SupervisorInv, OneProcess, Unreaped, Tasks, st, tr, Launched, Killing,
    Probing, Keeping, Unfrozen
<1>12. OneJournal'
  BY <1>1, <1>3 DEF SupervisorInv, OneJournal, Writers, Alive, Tasks, st, tr, Launched,
    Killing, Keeping, Unfrozen
<1>13. FrozenGranted'
  BY <1>1, <1>3 DEF SupervisorInv, Sayings, FrozenGranted
<1>14. GrantedSay'
  BY <1>1, <1>3, <1>6 DEF SupervisorInv, Sayings, GrantedSay, Allowed, Answers, FrozenGranted
<1>15. StartupSays'
  BY <1>1, <1>3, <1>6 DEF SupervisorInv, Sayings, StartupSays, st, Allowed, Answers
<1>16. ReadySays'
  <2> SUFFICES ASSUME NEW d \in Cores, NEW i \in 1..Len(out'[d]), out'[d][i].kind = "ready"
               PROVE  /\ seen[d].state = 0 /\ ~proc'[d].granted
                      /\ \A j \in 1..(i - 1) : out'[d][j].kind = "startup"
    BY <1>1 DEF ReadySays
  <2>1. \A j \in 1..(i - 1) : j \in 1..Len(out[d]) /\ out'[d][j] = out[d][j]
    BY <1>6, <1>7
  <2>2. CASE i \in 1..Len(out[d]) /\ out'[d][i] = out[d][i]
    <3>1. /\ seen[d].state = 0 /\ ~proc[d].granted
          /\ \A j \in 1..(i - 1) : out[d][j].kind = "startup"
      BY <2>2 DEF SupervisorInv, Sayings, ReadySays
    <3>2. QED
      BY <2>1, <3>1, <1>3
  <2>3. CASE Allowed(proc[d], proc'[d], out'[d][i])
    BY <2>1, <2>3, <1>3 DEF SupervisorInv, Sayings, StartingSays, Allowed
  <2>4. QED
    BY <1>6, <2>2, <2>3
<1>17. StartingSays'
  BY <1>1, <1>3, <1>4, <1>5 DEF SupervisorInv, Sayings, StartingSays
<1>18. CurrentUndisturbed'
  BY <1>1, <1>3 DEF SupervisorInv, Undisturbing, CurrentUndisturbed, Undisturbed, Alive, tr,
    Keeping, Unfrozen
<1>19. NewUndisturbed'
  BY <1>1, <1>3 DEF SupervisorInv, Undisturbing, NewUndisturbed, Undisturbed, Alive, Tasks,
    st, tr, Launched, Positions
<1>20. CaptureUndisturbed'
  BY <1>1, <1>3 DEF SupervisorInv, Undisturbing, CaptureUndisturbed, tr, Positions,
    CurrentUndisturbed, Undisturbed, Alive, Keeping, Unfrozen, LoopTyped, Typed, Exchanging
<1>21. FrozenInExchange'
  BY <1>1, <1>3 DEF SupervisorInv, Barrier, FrozenInExchange, Owning, Alive, tr, Unfrozen,
    Exchanging
<1>22. AnswersPrecede'
  <2> SUFFICES ASSUME Owning', loop = "run", tr.pc = "done",
                      NEW j \in 1..Len(out'[current]), NEW i \in 1..(j - 1),
                      out'[current][i].kind = "update", out'[current][j].kind \in Answers
               PROVE  FALSE
    BY <1>1 DEF AnswersPrecede, tr
  <2>1. Owning /\ ~proc[current].frozen
    BY <1>1, <1>3 DEF Owning, SupervisorInv, Barrier, FrozenInExchange, Unfrozen
  <2>2. i \in 1..Len(out[current]) /\ out'[current][i] = out[current][i]
    BY <2>1, <1>6, <1>7 DEF Owning
  <2>3. j \in 1..Len(out[current]) /\ out'[current][j] = out[current][j]
    BY <2>1, <1>6, <1>7 DEF Allowed, Owning
  <2>4. QED
    BY <2>1, <2>2, <2>3 DEF SupervisorInv, Barrier, AnswersPrecede
<1>23. AnswersRead'
  BY <1>1, <1>3, <1>6 DEF SupervisorInv, Barrier, AnswersRead, Owning, Silent, Alive, tr,
    Probing, Allowed, Answers, FrozenInExchange, Unfrozen, Positions, LoopTyped, Typed
<1>24. CaptureRead'
  BY <1>1, <1>3, <1>6 DEF SupervisorInv, Barrier, CaptureRead, Owning, Silent, Alive, tr,
    Allowed, Answers, FrozenInExchange, Exchanging
<1>25. CaptureComes'
  <2> SUFFICES ASSUME Owning', tr.pc = "capturing", ~seen[current].captured,
                      NEW i \in 1..Len(out'[current]), out'[current][i].kind \in Answers
               PROVE  /\ proc'[current].saved
                      /\ out'[current][i].kind = "handoff" =>
                            out'[current][i].version = proc'[current].version
                      /\ \A j \in 1..Len(out'[current]) :
                            out'[current][j].kind \in Answers => j = i
    BY <1>1 DEF CaptureComes, tr
  <2>1. Owning /\ proc[current].frozen /\ proc'[current].version = proc[current].version
    BY <1>1, <1>3 DEF Owning, SupervisorInv, Barrier, FrozenInExchange, Exchanging
  <2>2. CASE i \in 1..Len(out[current]) /\ out'[current][i] = out[current][i]
    <3>1. /\ proc[current].saved
          /\ out[current][i].kind = "handoff" => out[current][i].version = proc[current].version
          /\ \A j \in 1..Len(out[current]) : out[current][j].kind \in Answers => j = i
      BY <2>1, <2>2 DEF SupervisorInv, Barrier, CaptureComes
    <3>2. \A j \in 1..Len(out'[current]) : out'[current][j].kind \in Answers =>
             j \in 1..Len(out[current]) /\ out'[current][j] = out[current][j]
      BY <2>1, <3>1, <1>6 DEF Allowed, Owning
    <3>3. QED
      BY <2>1, <2>2, <3>1, <3>2, <1>3 DEF Owning
  <2>3. CASE Allowed(proc[current], proc'[current], out'[current][i]) /\ i = Len(out'[current])
    <3>1. /\ ~proc[current].saved /\ proc'[current].saved
          /\ out'[current][i].version = proc[current].version
      BY <2>3 DEF Allowed
    <3>2. \A j \in 1..Len(out[current]) : out[current][j].kind \notin Answers
      BY <2>1, <3>1 DEF SupervisorInv, Barrier, CaptureComes
    <3>3. QED
      BY <2>1, <2>3, <3>1, <3>2, <1>6 DEF Owning
  <2>4. QED
    BY <2>1, <2>2, <2>3, <1>6 DEF Owning
<1>26. CapturedIsFinal'
  BY <1>1, <1>3, Exchanger, Bounds DEF SupervisorInv, Typed, LoopTyped, FrozenInExchange,
    Ownership, OneOwner, Owning, Alive, Barrier, CapturedIsFinal, Routed, Exchanging,
    Recovering, tr
<1>27. QED
  BY <1>2, <1>8, <1>9, <1>10, <1>11, <1>12, <1>13, <1>14, <1>15, <1>16, <1>17, <1>18, <1>19,
      <1>20, <1>21, <1>22, <1>23, <1>24, <1>25, <1>26 DEF SupervisorInv, Sayings, Undisturbing,
      Barrier

-----------------------------------------------------------------------------
(* One message, read by the loop.                                           *)

LEMMA ReadFacts ==
  ASSUME Typed, NEW c \in Cores, out[c] # <<>>, out' = [out EXCEPT ![c] = Tail(@)]
  PROVE  /\ OutTyped' /\ Head(out[c]) \in Sent /\ Head(out[c]) = out[c][1]
         /\ 1 \in 1..Len(out[c])
         /\ \A d \in Cores \ {c} : out'[d] = out[d]
         /\ Len(out[c]) \in Nat \ {0} /\ Len(out'[c]) = Len(out[c]) - 1
         /\ \A i \in 1..Len(out'[c]) : i + 1 \in 1..Len(out[c]) /\ out'[c][i] = out[c][i + 1]
<1>1. out[c] \in Seq(Sent)
  BY DEF Typed, OutTyped
<1>2. out' = [out EXCEPT ![c] = Tail(out[c])]
  OBVIOUS
<1>3. /\ Tail(out[c]) \in Seq(Sent) /\ Len(Tail(out[c])) = Len(out[c]) - 1
      /\ Len(out[c]) \in Nat \ {0}
      /\ \A i \in 1..Len(Tail(out[c])) : /\ Tail(out[c])[i] = out[c][i + 1]
                                         /\ i + 1 \in 1..Len(out[c])
      /\ Head(out[c]) = out[c][1] /\ Head(out[c]) \in Sent
  BY <1>1, TailFacts
<1>4. OutTyped' /\ out'[c] = Tail(out[c]) /\ \A d \in Cores \ {c} : out'[d] = out[d]
  BY <1>2, <1>3 DEF Typed, OutTyped
<1>5. 1 \in 1..Len(out[c])
  BY <1>3
<1>6. QED
  BY <1>3, <1>4, <1>5

(* Reading the oldest message of a core makes no core say an answer that it *)
(* had not said.                                                            *)
LEMMA SilentStays ==
  ASSUME NEW c \in Cores, NEW d \in Cores, \A e \in Cores \ {c} : out'[e] = out[e],
         \A i \in 1..Len(out'[c]) : i + 1 \in 1..Len(out[c]) /\ out'[c][i] = out[c][i + 1],
         Silent(d)
  PROVE  \A i \in 1..Len(out'[d]) : out'[d][i].kind \notin Answers
<1>1. CASE d # c
  BY <1>1 DEF Silent
<1>2. CASE d = c
  <2> SUFFICES ASSUME NEW i \in 1..Len(out'[c])
               PROVE  out'[c][i].kind \notin Answers
    BY <1>2
  <2>1. i + 1 \in 1..Len(out[c]) /\ out'[c][i] = out[c][i + 1]
    OBVIOUS
  <2>2. out[c][i + 1].kind \notin Answers
    BY <2>1, <1>2 DEF Silent
  <2>3. QED
    BY <2>1, <2>2
<1>3. QED
  BY <1>1, <1>2

(* What a message changes in the supervisor's record of the core.           *)
Notes(s, r, m) ==
    /\ r.state = (IF m.kind \in {"ready", "handoff"} THEN m.version ELSE s.state)
    /\ (r.captured <=> s.captured \/ m.kind \in Answers)
    /\ (r.error <=> s.error \/ m.kind \in {"failed", "capture_failed"})
    /\ (r.reaped <=> s.reaped)

LEMMA NotedKeeps ==
  ASSUME SupervisorInv, NEW c \in Cores, loop = "run", SeenTyped', last' \in Versions,
         routing' \in BOOLEAN, exit' \in {"none", "ok", "failed"},
         NEW m \in Sent, m = out[c][1], 1 \in 1..Len(out[c]), OutTyped',
         \A d \in Cores \ {c} : out'[d] = out[d],
         Len(out[c]) \in Nat \ {0}, Len(out'[c]) = Len(out[c]) - 1,
         \A i \in 1..Len(out'[c]) : i + 1 \in 1..Len(out[c]) /\ out'[c][i] = out[c][i + 1],
         Notes(seen[c], seen'[c], m), \A d \in Cores \ {c} : seen'[d] = seen[d],
         routing' = routing \/ (m.kind = "startup" /\ c = current),
         UNCHANGED <<proc, task, current, menu, loop, countVars>>
  PROVE  SupervisorInv'
<1>1. Typed'
  BY DEF SupervisorInv, Typed, ProcTyped, TaskTyped, LoopTyped, countVars
<1>2. \A d \in Cores : (seen'[d].reaped <=> seen[d].reaped) /\ (Alive(d)' <=> Alive(d))
  BY DEF Notes, Alive
<1>3. UNCHANGED <<proc, task, current, loop, updates, resumes, crashes, presses>>
  BY DEF countVars
<1>4. Unreaped' = Unreaped
  BY <1>2, <1>3 DEF Unreaped
<1>5. m.kind = "startup" => st.pc = "booting" /\ st.new = c
  BY DEF SupervisorInv, Sayings, StartupSays
<1>6. \A d \in Cores \ {c} : seen'[d] = seen[d]
  OBVIOUS
<1>7. Notes(seen[c], seen'[c], m)
  OBVIOUS
<1>8. m.kind \in {"ready", "handoff"} => proc[c].life # "starting"
  BY DEF SupervisorInv, Sayings, StartingSays
<1>9. m.kind = "ready" => ~proc[c].granted
  BY DEF SupervisorInv, Sayings, ReadySays
<1>10. \A d \in Cores : Len(out[d]) \in Nat /\ Len(out'[d]) \in Nat
  BY DEF SupervisorInv, Typed, OutTyped
<1>11. Positions'
  BY <1>2, <1>3 DEF SupervisorInv, Positions, Tasks, st, tr, Recovering, Exchanging, Launched,
    Probing
<1>12. Remains'
  BY <1>2, <1>3 DEF SupervisorInv, Remains
<1>13. Ownership'
  BY <1>2, <1>3 DEF SupervisorInv, Ownership, OneOwner, Alive, Tasks, st, tr, Recovering
<1>14. OneProcess'
  BY <1>2, <1>3, <1>4 DEF SupervisorInv, OneProcess, Unreaped, Tasks, st, tr, Launched,
    Killing, Probing, Keeping, Unfrozen
<1>15. OneJournal'
  BY <1>2, <1>3 DEF SupervisorInv, OneJournal, Writers, Alive, Tasks, st, tr, Launched,
    Killing, Keeping, Unfrozen
<1>16. FrozenGranted'
  BY <1>2, <1>3 DEF SupervisorInv, Sayings, FrozenGranted
<1>17. GrantedSay'
  BY <1>2, <1>3 DEF SupervisorInv, Sayings, GrantedSay
<1>18. StartupSays'
  <2>1. \A d \in Cores \ {c} : \A i \in 1..Len(out'[d]) :
           out'[d][i].kind = "startup" /\ loop # "left" => st.pc = "booting" /\ st.new = d
    BY DEF SupervisorInv, Sayings, StartupSays
  <2>2. \A i \in 1..Len(out'[c]) :
           out'[c][i].kind = "startup" /\ loop # "left" => st.pc = "booting" /\ st.new = c
    BY DEF SupervisorInv, Sayings, StartupSays
  <2>3. QED
    BY <2>1, <2>2, <1>3 DEF StartupSays, st
<1>19. ReadySays'
  <2>0. \A d \in Cores \ {c} : \A i \in 1..Len(out'[d]) : out'[d][i].kind = "ready" =>
           /\ seen'[d].state = 0 /\ ~proc'[d].granted
           /\ \A j \in 1..(i - 1) : out'[d][j].kind = "startup"
    BY <1>3, <1>6 DEF SupervisorInv, Sayings, ReadySays
  <2> SUFFICES ASSUME NEW i \in 1..Len(out'[c]), out'[c][i].kind = "ready"
               PROVE  /\ seen'[c].state = 0 /\ ~proc'[c].granted
                      /\ \A j \in 1..(i - 1) : out'[c][j].kind = "startup"
    BY <2>0 DEF ReadySays
  <2>1. i + 1 \in 1..Len(out[c]) /\ out[c][i + 1].kind = "ready"
    OBVIOUS
  <2>2. /\ seen[c].state = 0 /\ ~proc[c].granted
        /\ \A j \in 1..i : out[c][j].kind = "startup"
    BY <2>1 DEF SupervisorInv, Sayings, ReadySays
  <2>3. m.kind = "startup"
    BY <2>2
  <2>4. \A j \in 1..(i - 1) : out'[c][j].kind = "startup"
    <3>1. \A j \in 1..(i - 1) : j + 1 \in 1..i /\ j \in 1..Len(out'[c])
      BY <1>10
    <3>2. QED
      BY <2>2, <3>1
  <2>5. QED
    BY <2>2, <2>3, <2>4, <1>3, <1>7 DEF Notes
<1>20. StartingSays'
  <2>1. \A d \in Cores \ {c} : seen'[d] = seen[d] /\ out'[d] = out[d]
    BY <1>6
  <2>2. proc[c].life = "starting" =>
           /\ ~proc[c].granted /\ seen'[c].state = 0
           /\ \A i \in 1..Len(out'[c]) : out'[c][i].kind = "startup"
    BY <1>7, <1>8 DEF SupervisorInv, Sayings, StartingSays, Notes
  <2>3. QED
    BY <2>1, <2>2, <1>3 DEF SupervisorInv, Sayings, StartingSays
<1>21. CurrentUndisturbed'
  BY <1>2, <1>3 DEF SupervisorInv, Undisturbing, CurrentUndisturbed, Undisturbed, Alive, tr,
    Keeping, Unfrozen
<1>22. NewUndisturbed'
  BY <1>2, <1>3 DEF SupervisorInv, Undisturbing, NewUndisturbed, Undisturbed, Alive, Tasks,
    st, tr, Launched, Positions
<1>23. CaptureUndisturbed'
  BY <1>2, <1>3 DEF SupervisorInv, Undisturbing, CaptureUndisturbed, tr
<1>24. FrozenInExchange'
  BY <1>2, <1>3 DEF SupervisorInv, Barrier, FrozenInExchange, Owning, Alive, tr, Unfrozen,
    Exchanging
<1>25. AnswersPrecede'
  <2> SUFFICES ASSUME Owning', loop = "run", tr.pc = "done",
                      NEW j \in 1..Len(out'[current]), NEW i \in 1..(j - 1),
                      out'[current][i].kind = "update", out'[current][j].kind \in Answers
               PROVE  FALSE
    BY <1>3 DEF AnswersPrecede, tr
  <2>1. Owning
    BY <1>2, <1>3 DEF Owning
  <2>2. CASE current = c
    <3>0. i \in 1..Len(out'[c]) /\ i + 1 \in 1..((j + 1) - 1)
      BY <2>2, <1>10
    <3>1. /\ j + 1 \in 1..Len(out[c]) /\ out[c][j + 1].kind \in Answers
          /\ i + 1 \in 1..((j + 1) - 1) /\ out[c][i + 1].kind = "update"
      BY <2>2, <3>0
    <3>2. QED
      BY <2>1, <2>2, <3>1 DEF SupervisorInv, Barrier, AnswersPrecede
  <2>3. CASE current # c
    BY <2>1, <2>3 DEF Owning, SupervisorInv, Barrier, AnswersPrecede
  <2>4. QED
    BY <2>2, <2>3
<1>26. AnswersRead'
  <2> SUFFICES ASSUME Owning'
               PROVE  /\ tr.pc \in {"validating", "draining"} \cup Probing => Silent(current)'
                      /\ tr.pc \in Probing => proc[current].saved
                      /\ tr.pc = "draining" => ~seen'[current].captured
    BY <1>3 DEF AnswersRead, tr
  <2>1. /\ tr.pc \in {"validating", "draining"} \cup Probing => Silent(current)
        /\ tr.pc \in Probing => proc[current].saved
        /\ tr.pc = "draining" => ~seen[current].captured
    BY <1>2, <1>3 DEF Owning, SupervisorInv, Barrier, AnswersRead
  <2>2. current \in Cores
    BY Bounds DEF SupervisorInv, Typed, LoopTyped, Owning
  <2>3. Silent(current) => \A i \in 1..Len(out'[current]) : out'[current][i].kind \notin Answers
    BY <2>2, SilentStays
  <2>4. Silent(current) => Silent(current)'
    BY <2>3, <1>3 DEF Silent
  <2>5. 1 \in 1..Len(out[c]) /\ (current = c => out[current][1] = m)
    OBVIOUS
  <2>6. Silent(current) /\ current = c => m.kind \notin Answers
    BY <2>5 DEF Silent
  <2>7. Silent(current) /\ ~seen[current].captured => ~seen'[current].captured
    BY <2>2, <2>6, <1>6, <1>7 DEF Notes
  <2>8. QED
    BY <2>1, <2>4, <2>7
<1>27. CaptureRead'
  <2> SUFFICES ASSUME Owning', tr.pc = "capturing", seen'[current].captured
               PROVE  /\ proc[current].saved /\ Silent(current)'
                      /\ seen'[current].error \/ seen'[current].state = proc[current].version
    BY <1>3 DEF CaptureRead, tr
  <2>1. Owning /\ proc[current].granted
    BY <1>2, <1>3 DEF Owning, SupervisorInv, Barrier, FrozenInExchange, Exchanging, Sayings,
          FrozenGranted
  <2>2. CASE current # c
    BY <2>1, <2>2, <1>3, <1>6 DEF SupervisorInv, Barrier, CaptureRead, Silent, Owning
  <2>3. CASE current = c /\ seen[c].captured
    <3>1. /\ proc[c].saved /\ Silent(c)
          /\ seen[c].error \/ seen[c].state = proc[c].version
      BY <2>1, <2>3 DEF SupervisorInv, Barrier, CaptureRead
    <3>2. m.kind \notin Answers /\ m.kind # "ready"
      BY <2>1, <2>3, <3>1, <1>9 DEF Silent
    <3>3. Silent(current)'
      BY <2>3, <3>1, SilentStays, <1>3 DEF Silent
    <3>4. seen'[c].error \/ seen'[c].state = proc[c].version
      BY <3>1, <3>2, <1>7 DEF Notes, Answers
    <3>5. QED
      BY <2>3, <3>1, <3>3, <3>4
  <2>4. CASE current = c /\ ~seen[c].captured
    <3>1. m.kind \in Answers
      BY <2>4, <1>7, <1>3 DEF Notes
    <3>2. /\ proc[c].saved
          /\ m.kind = "handoff" => m.version = proc[c].version
          /\ \A j \in 1..Len(out[c]) : out[c][j].kind \in Answers => j = 1
      BY <2>1, <2>4, <3>1 DEF SupervisorInv, Barrier, CaptureComes
    <3>3. \A j \in 1..Len(out'[c]) : out'[c][j].kind \notin Answers
      BY <3>2, <1>10
    <3>4. QED
      BY <2>4, <3>1, <3>2, <3>3, <1>3, <1>7 DEF Notes, Silent, Answers
  <2>5. QED
    BY <2>2, <2>3, <2>4
<1>28. CaptureComes'
  <2> SUFFICES ASSUME Owning', tr.pc = "capturing", ~seen'[current].captured,
                      NEW i \in 1..Len(out'[current]), out'[current][i].kind \in Answers
               PROVE  /\ proc[current].saved
                      /\ out'[current][i].kind = "handoff" =>
                            out'[current][i].version = proc[current].version
                      /\ \A j \in 1..Len(out'[current]) :
                            out'[current][j].kind \in Answers => j = i
    BY <1>3 DEF CaptureComes, tr
  <2>1. Owning /\ ~seen[current].captured
    BY <1>2, <1>3, <1>6, <1>7 DEF Owning, Notes
  <2>2. CASE current = c
    <3>1. i + 1 \in 1..Len(out[c]) /\ out[c][i + 1] = out'[c][i]
      BY <2>2
    <3>2. /\ proc[c].saved
          /\ out[c][i + 1].kind = "handoff" => out[c][i + 1].version = proc[c].version
          /\ \A j \in 1..Len(out[c]) : out[c][j].kind \in Answers => j = i + 1
      BY <2>1, <2>2, <3>1 DEF SupervisorInv, Barrier, CaptureComes
    <3>3. \A j \in 1..Len(out'[c]) : out'[c][j].kind \in Answers => j + 1 = i + 1
      BY <3>2
    <3>4. \A j \in 1..Len(out'[c]) : j + 1 = i + 1 => j = i
      BY <2>2, <1>10
    <3>5. QED
      BY <2>2, <3>1, <3>2, <3>3, <3>4
  <2>3. CASE current # c
    BY <2>1, <2>3 DEF Owning, SupervisorInv, Barrier, CaptureComes
  <2>4. QED
    BY <2>2, <2>3
<1>29. CapturedIsFinal'
  BY <1>2, <1>3, <1>5, Bounds DEF SupervisorInv, Barrier, CapturedIsFinal, Routed, Tasks, st,
    tr, Exchanging, Recovering, Positions, Typed, LoopTyped
<1>30. QED
  BY <1>1, <1>11, <1>12, <1>13, <1>14, <1>15, <1>16, <1>17, <1>18, <1>19, <1>20, <1>21, <1>22,
      <1>23, <1>24, <1>25, <1>26, <1>27, <1>28, <1>29 DEF SupervisorInv, Sayings, Undisturbing,
      Barrier

LEMMA UpdateKeeps ==
  ASSUME SupervisorInv, NEW c \in Cores, loop = "run",
         NEW m \in Sent, m = out[c][1], 1 \in 1..Len(out[c]), OutTyped',
         \A d \in Cores \ {c} : out'[d] = out[d],
         Len(out[c]) \in Nat \ {0}, Len(out'[c]) = Len(out[c]) - 1,
         \A i \in 1..Len(out'[c]) : i + 1 \in 1..Len(out[c]) /\ out'[c][i] = out[c][i + 1],
         m.kind = "update", c = current, ~Pending,
         task' = [task EXCEPT !["transition"] = At("validating")],
         UNCHANGED <<proc, seen, last, routing, exit, current, menu, loop, countVars>>
  PROVE  SupervisorInv'
<1>1. /\ TaskTyped' /\ st' = st /\ tr'.pc = "validating" /\ tr'.new = 0
      /\ \A i \in 1..Len(out[current]) : out[current][i].kind \in Answers => ~Owning
  <2>1. At("validating") \in Stations /\ At("validating").pc = "validating"
        /\ At("validating").new = 0
    BY Bounds DEF At, Done, Stations, Places
  <2>2. TaskTyped' /\ st' = st /\ tr'.pc = "validating" /\ tr'.new = 0
    BY <2>1, StationFacts DEF SupervisorInv, Typed, Tasks, st, tr
  <2>3. \A i \in 1..Len(out[current]) : i # 1 => 1 \in 1..(i - 1)
    OBVIOUS
  <2>4. QED
    BY <2>2, <2>3 DEF SupervisorInv, Barrier, AnswersPrecede, Answers, Pending, tr
<1>2. UNCHANGED <<proc, seen, current, last, routing, exit, menu, loop, updates, resumes,
                  crashes, presses>>
  BY DEF countVars
<1>3. Typed' /\ proc[c].granted /\ tr.pc = "done" /\ st.pc \in {"booting", "done"} /\ loop = "run"
  BY <1>1, <1>2, Bounds DEF SupervisorInv, Typed, ProcTyped, SeenTyped, LoopTyped, Sayings,
        GrantedSay, Positions, Pending, tr, st
<1>4. Silent(current)' \/ ~Owning
  <2>1. Silent(current) \/ ~Owning
    BY <1>1 DEF Silent
  <2>2. Silent(current) => \A i \in 1..Len(out'[current]) : out'[current][i].kind \notin Answers
    BY SilentStays
  <2>3. QED
    BY <2>1, <2>2, <1>2 DEF Silent
<1>5. \A d \in Cores : Alive(d)' <=> Alive(d)
  BY <1>2 DEF Alive
<1>6. Unreaped' = Unreaped
  BY <1>2 DEF Unreaped
<1>7. \A d \in Cores : Len(out[d]) \in Nat /\ Len(out'[d]) \in Nat
  BY DEF SupervisorInv, Typed, OutTyped
<1>8. Positions'
  BY <1>1, <1>2, <1>3, <1>5, Bounds DEF SupervisorInv, Positions, Tasks, st, tr, Recovering,
    Exchanging, Launched, Probing
<1>9. Remains'
  BY <1>1, <1>2, <1>3, <1>5 DEF SupervisorInv, Remains
<1>10. Ownership'
  BY <1>1, <1>2, <1>3, <1>5 DEF SupervisorInv, Ownership, OneOwner, Alive, Tasks, st, tr,
    Recovering
<1>11. OneProcess'
  BY <1>1, <1>2, <1>3, <1>5, <1>6 DEF SupervisorInv, OneProcess, Unreaped, Tasks, st, tr,
    Launched, Killing, Probing, Keeping, Unfrozen
<1>12. OneJournal'
  BY <1>1, <1>2, <1>3, <1>5 DEF SupervisorInv, OneJournal, Writers, Alive, Tasks, st, tr,
    Launched, Killing, Keeping, Unfrozen
<1>13. FrozenGranted'
  BY <1>1, <1>2, <1>3, <1>5 DEF SupervisorInv, Sayings, FrozenGranted
<1>14. GrantedSay'
  BY <1>1, <1>2, <1>3, <1>5 DEF SupervisorInv, Sayings, GrantedSay
<1>15. StartupSays'
  <2>1. \A d \in Cores \ {c} : \A i \in 1..Len(out'[d]) :
           out'[d][i].kind = "startup" /\ loop # "left" => st.pc = "booting" /\ st.new = d
    BY DEF SupervisorInv, Sayings, StartupSays
  <2>2. \A i \in 1..Len(out'[c]) :
           out'[c][i].kind = "startup" /\ loop # "left" => st.pc = "booting" /\ st.new = c
    BY DEF SupervisorInv, Sayings, StartupSays
  <2>3. QED
    BY <2>1, <2>2, <1>1, <1>2 DEF StartupSays, st
<1>16. ReadySays'
  <2>0. \A d \in Cores \ {c} : \A i \in 1..Len(out'[d]) : out'[d][i].kind = "ready" =>
           /\ seen'[d].state = 0 /\ ~proc'[d].granted
           /\ \A j \in 1..(i - 1) : out'[d][j].kind = "startup"
    BY <1>2 DEF SupervisorInv, Sayings, ReadySays
  <2> SUFFICES ASSUME NEW i \in 1..Len(out'[c]), out'[c][i].kind = "ready"
               PROVE  /\ seen'[c].state = 0 /\ ~proc'[c].granted
                      /\ \A j \in 1..(i - 1) : out'[c][j].kind = "startup"
    BY <2>0 DEF ReadySays
  <2>1. i + 1 \in 1..Len(out[c]) /\ out[c][i + 1].kind = "ready"
    OBVIOUS
  <2>2. QED
    BY <2>1, <1>3 DEF SupervisorInv, Sayings, ReadySays
<1>17. StartingSays'
  BY <1>1, <1>2, <1>3, <1>5 DEF SupervisorInv, Sayings, StartingSays
<1>18. CurrentUndisturbed'
  BY <1>1, <1>2, <1>3, <1>5 DEF SupervisorInv, Undisturbing, CurrentUndisturbed, Undisturbed,
    Alive, tr, Keeping, Unfrozen
<1>19. NewUndisturbed'
  BY <1>1, <1>2, <1>3, <1>5 DEF SupervisorInv, Undisturbing, NewUndisturbed, Undisturbed,
    Alive, Tasks, st, tr, Launched
<1>20. CaptureUndisturbed'
  BY <1>1, <1>2, <1>3, <1>5 DEF SupervisorInv, Undisturbing, CaptureUndisturbed, tr
<1>21. FrozenInExchange'
  BY <1>1, <1>2, <1>3, <1>5 DEF SupervisorInv, Barrier, FrozenInExchange, Owning, Alive, tr,
    Unfrozen, Exchanging
<1>22. AnswersPrecede'
  BY <1>1, <1>2, <1>3, <1>5 DEF SupervisorInv, Barrier, AnswersPrecede, Owning, Alive, tr
<1>23. AnswersRead'
  BY <1>1, <1>2, <1>3, <1>5, <1>4 DEF SupervisorInv, Barrier, AnswersRead, Owning, Silent,
    Alive, tr, Probing
<1>24. CaptureRead'
  BY <1>1, <1>2, <1>3, <1>5 DEF SupervisorInv, Barrier, CaptureRead, Owning, Silent, Alive, tr
<1>25. CaptureComes'
  BY <1>1, <1>2, <1>3, <1>5 DEF SupervisorInv, Barrier, CaptureComes, Owning, Alive, tr
<1>26. CapturedIsFinal'
  BY <1>1, <1>2, <1>3, <1>5 DEF SupervisorInv, Barrier, CapturedIsFinal, Routed, Tasks, st,
    tr, Exchanging, Recovering
<1>27. QED
  BY <1>3, <1>8, <1>9, <1>10, <1>11, <1>12, <1>13, <1>14, <1>15, <1>16, <1>17, <1>18, <1>19,
      <1>20, <1>21, <1>22, <1>23, <1>24, <1>25, <1>26 DEF SupervisorInv, Sayings, Undisturbing,
      Barrier

LEMMA ResumeKeeps ==
  ASSUME SupervisorInv, NEW c \in Cores, loop = "run",
         NEW m \in Sent, m = out[c][1], 1 \in 1..Len(out[c]), OutTyped',
         \A d \in Cores \ {c} : out'[d] = out[d],
         Len(out[c]) \in Nat \ {0}, Len(out'[c]) = Len(out[c]) - 1,
         \A i \in 1..Len(out'[c]) : i + 1 \in 1..Len(out[c]) /\ out'[c][i] = out[c][i + 1],
         m.kind = "resume_queue", c = current, ~Pending, ResumeCore(current),
         UNCHANGED <<seen, last, task, exit, current, menu, loop, countVars>>
  PROVE  SupervisorInv'
<1>1. /\ ProcTyped' /\ routing' \in BOOLEAN
      /\ IF seen[c].reaped THEN UNCHANGED <<proc, routing>>
         ELSE \A d \in Cores : IF d = c /\ Alive(d) THEN Grants(proc[d], proc'[d])
                               ELSE proc'[d] = proc[d]
  BY ResumeFacts, Bounds DEF SupervisorInv, Typed, LoopTyped
<1>2. \A d \in Cores : IF d = c /\ Alive(d) THEN Grants(proc[d], proc'[d])
                       ELSE proc'[d] = proc[d]
  BY <1>1 DEF SupervisorInv, Remains, Alive
<1>3. UNCHANGED <<task, seen, current, last, exit, menu, loop, updates, resumes, crashes,
                  presses>>
  BY DEF countVars
<1>4. /\ Typed' /\ proc[c].granted /\ tr.pc = "done" /\ st.pc \in {"booting", "done"}
      /\ tr' = tr /\ st' = st
  BY <1>1, <1>3, Bounds DEF SupervisorInv, Typed, SeenTyped, TaskTyped, LoopTyped, Sayings,
        GrantedSay, Positions, Pending, tr, st
<1>5. \A d \in Cores : /\ (Alive(d)' <=> Alive(d)) /\ Lives(proc[d], proc'[d])
                       /\ Flags(proc[d], proc'[d]) /\ (proc'[d].granted <=> proc[d].granted)
                       /\ (proc'[d].retiring <=> proc[d].retiring)
  BY <1>2, <1>4 DEF Alive, Grants, Lives, Flags
<1>6. Unreaped' = Unreaped
  BY <1>3, <1>5 DEF Unreaped, Lives
<1>7. \A d \in Cores : Len(out[d]) \in Nat /\ Len(out'[d]) \in Nat
  BY DEF SupervisorInv, Typed, OutTyped
<1>8. Positions'
  BY <1>2, <1>3, <1>4, <1>5 DEF SupervisorInv, Grants, Lives, Flags, Positions, Tasks, st, tr,
    Recovering, Exchanging, Launched, Probing
<1>9. Remains'
  BY <1>2, <1>3, <1>4, <1>5 DEF SupervisorInv, Grants, Lives, Flags, Remains
<1>10. Ownership'
  BY <1>2, <1>3, <1>4, <1>5 DEF SupervisorInv, Grants, Lives, Flags, Ownership, OneOwner,
    Alive, Tasks, st, tr, Recovering
<1>11. OneProcess'
  BY <1>2, <1>3, <1>4, <1>5, <1>6 DEF SupervisorInv, Grants, Lives, Flags, OneProcess,
    Unreaped, Tasks, st, tr, Launched, Killing, Probing, Keeping, Unfrozen
<1>12. OneJournal'
  BY <1>2, <1>3, <1>4, <1>5 DEF SupervisorInv, Grants, Lives, Flags, OneJournal, Writers,
    Alive, Tasks, st, tr, Launched, Killing, Keeping, Unfrozen
<1>13. FrozenGranted'
  BY <1>2, <1>3, <1>4, <1>5 DEF SupervisorInv, Grants, Lives, Flags, Sayings, FrozenGranted
<1>14. GrantedSay'
  BY <1>2, <1>3, <1>4, <1>5 DEF SupervisorInv, Grants, Lives, Flags, Sayings, GrantedSay
<1>15. StartupSays'
  <2>1. \A d \in Cores \ {c} : \A i \in 1..Len(out'[d]) :
           out'[d][i].kind = "startup" /\ loop # "left" => st.pc = "booting" /\ st.new = d
    BY DEF SupervisorInv, Sayings, StartupSays
  <2>2. \A i \in 1..Len(out'[c]) :
           out'[c][i].kind = "startup" /\ loop # "left" => st.pc = "booting" /\ st.new = c
    BY DEF SupervisorInv, Sayings, StartupSays
  <2>3. QED
    BY <2>1, <2>2, <1>3, <1>4 DEF StartupSays, st
<1>16. ReadySays'
  <2>0. \A d \in Cores \ {c} : \A i \in 1..Len(out'[d]) : out'[d][i].kind = "ready" =>
           /\ seen'[d].state = 0 /\ ~proc'[d].granted
           /\ \A j \in 1..(i - 1) : out'[d][j].kind = "startup"
    BY <1>3, <1>5 DEF SupervisorInv, Sayings, ReadySays
  <2> SUFFICES ASSUME NEW i \in 1..Len(out'[c]), out'[c][i].kind = "ready"
               PROVE  /\ seen'[c].state = 0 /\ ~proc'[c].granted
                      /\ \A j \in 1..(i - 1) : out'[c][j].kind = "startup"
    BY <2>0 DEF ReadySays
  <2>1. i + 1 \in 1..Len(out[c]) /\ out[c][i + 1].kind = "ready"
    OBVIOUS
  <2>2. QED
    BY <2>1, <1>4 DEF SupervisorInv, Sayings, ReadySays
<1>17. StartingSays'
  BY <1>2, <1>3, <1>4, <1>5 DEF SupervisorInv, Grants, Lives, Flags, Sayings, StartingSays
<1>18. CurrentUndisturbed'
  BY <1>2, <1>3, <1>4, <1>5 DEF SupervisorInv, Grants, Lives, Flags, Undisturbing,
    CurrentUndisturbed, Undisturbed, Alive, tr, Keeping, Unfrozen
<1>19. NewUndisturbed'
  BY <1>2, <1>3, <1>4, <1>5 DEF SupervisorInv, Grants, Lives, Flags, Undisturbing,
    NewUndisturbed, Undisturbed, Alive, Tasks, st, tr, Launched
<1>20. CaptureUndisturbed'
  BY <1>2, <1>3, <1>4, <1>5 DEF SupervisorInv, Grants, Lives, Flags, Undisturbing,
    CaptureUndisturbed, tr
<1>21. FrozenInExchange'
  BY <1>2, <1>3, <1>4, <1>5 DEF SupervisorInv, Grants, Lives, Flags, Barrier,
    FrozenInExchange, Owning, Alive, tr, Unfrozen, Exchanging
<1>22. AnswersPrecede'
  <2> SUFFICES ASSUME Owning', loop = "run", tr.pc = "done",
                      NEW j \in 1..Len(out'[current]), NEW i \in 1..(j - 1),
                      out'[current][i].kind = "update", out'[current][j].kind \in Answers
               PROVE  FALSE
    BY <1>3 DEF AnswersPrecede, tr
  <2>1. Owning
    BY <1>3, <1>5 DEF Owning
  <2>2. CASE current = c
    <3>0. i \in 1..Len(out'[c]) /\ i + 1 \in 1..((j + 1) - 1)
      BY <2>2, <1>7
    <3>1. /\ j + 1 \in 1..Len(out[c]) /\ out[c][j + 1].kind \in Answers
          /\ i + 1 \in 1..((j + 1) - 1) /\ out[c][i + 1].kind = "update"
      BY <2>2, <3>0
    <3>2. QED
      BY <2>1, <2>2, <3>1 DEF SupervisorInv, Barrier, AnswersPrecede
  <2>3. CASE current # c
    BY <2>1, <2>3 DEF Owning, SupervisorInv, Barrier, AnswersPrecede
  <2>4. QED
    BY <2>2, <2>3
<1>23. AnswersRead'
  BY <1>2, <1>3, <1>4, <1>5 DEF SupervisorInv, Grants, Lives, Flags, Barrier, AnswersRead,
    Owning, Silent, Alive, tr, Probing
<1>24. CaptureRead'
  BY <1>2, <1>3, <1>4, <1>5 DEF SupervisorInv, Grants, Lives, Flags, Barrier, CaptureRead,
    Owning, Silent, Alive, tr
<1>25. CaptureComes'
  BY <1>2, <1>3, <1>4, <1>5 DEF SupervisorInv, Grants, Lives, Flags, Barrier, CaptureComes,
    Owning, Alive, tr
<1>26. CapturedIsFinal'
  BY <1>2, <1>3, <1>4, <1>5, <1>1 DEF SupervisorInv, Grants, Lives, Flags, Barrier,
    CapturedIsFinal, Routed, Tasks, st, tr, Exchanging, Recovering, Positions
<1>27. QED
  BY <1>4, <1>8, <1>9, <1>10, <1>11, <1>12, <1>13, <1>14, <1>15, <1>16, <1>17, <1>18, <1>19,
      <1>20, <1>21, <1>22, <1>23, <1>24, <1>25, <1>26 DEF SupervisorInv, Sayings, Undisturbing,
      Barrier

-----------------------------------------------------------------------------
(* The steps of the tasks.                                                  *)

LEMMA WhoseStep ==
  ASSUME SupervisorInv, NEW t \in Tasks, task[t].pc # "done"
  PROVE  \/ t = "transition" /\ st.pc \in {"booting", "done"}
         \/ t = "start" /\ task[t].pc \in {"launch", "booting"} \cup Recovering
BY DEF SupervisorInv, Positions, Tasks, st, tr, Recovering

LEMMA OldKept ==
  ASSUME SupervisorInv, tr.pc \in {"validating", "draining", "capturing", "failed"},
         tr.pc = "failed" => seen[tr.new].reaped
  PROVE  /\ current \in Cores /\ loop = "run" /\ Undisturbed(current)
         /\ proc[current].granted /\ st.pc \in {"booting", "done"}
         /\ tr.pc # "validating" => tr.old = current
         /\ presses = 0 => Unreaped \subseteq {current}
         /\ presses < 2 => Writers({current})
         /\ tr.pc # "capturing" /\ Owning => Silent(current)
<1>1. /\ current \in Cores /\ loop = "run" /\ proc[current].granted
      /\ st.pc \in {"booting", "done"} /\ (tr.pc # "validating" => tr.old = current)
  BY DEF SupervisorInv, Typed, LoopTyped, Positions, Tasks, st, tr, Recovering, Exchanging
<1>2. Undisturbed(current)
  BY <1>1 DEF SupervisorInv, Undisturbing, CurrentUndisturbed, Keeping, Unfrozen
<1>3. presses = 0 => Unreaped \subseteq {current}
  BY <1>1 DEF SupervisorInv, OneProcess, Keeping, Unfrozen, Probing, Unreaped
<1>4. presses < 2 => Writers({current})
  BY <1>1 DEF SupervisorInv, OneJournal, Keeping, Unfrozen
<1>5. tr.pc # "capturing" /\ Owning => Silent(current)
  BY DEF SupervisorInv, Barrier, AnswersRead, Probing
<1>6. QED
  BY <1>1, <1>2, <1>3, <1>4, <1>5

LEMMA CandidateFailsKeeps ==
  ASSUME SupervisorInv, NEW t \in Tasks, CandidateFails(t) \/ ProbeRejected(t)
  PROVE  SupervisorInv'
<1>1. /\ t = "transition" /\ tr.pc \in {"validating", "failed"}
      /\ tr.pc = "failed" => seen[tr.new].reaped
      /\ Rejected("transition")
      /\ UNCHANGED <<out, seen, current, last, menu, exit, loop, updates, resumes, crashes,
                     presses>>
  BY WhoseStep DEF CandidateFails, ProbeRejected, New, Recovering, tr, countVars
<1>2. SeenTyped' /\ last' \in Versions /\ {updates', resumes', crashes'} \subseteq Nat
  BY <1>1 DEF SupervisorInv, Typed, SeenTyped, LoopTyped
<1>3. QED
  BY <1>1, <1>2, OldKept, RejectedKeeps

LEMMA GiveUpKeeps ==
  ASSUME SupervisorInv, NEW t \in Tasks, GiveUp(t)
  PROVE  SupervisorInv'
<1>1. /\ t = "transition" /\ tr.pc = "giving_up" /\ Unreaped = {} /\ Rejected("transition")
      /\ UNCHANGED <<out, seen, current, last, menu, exit, loop, updates, resumes, crashes,
                     presses>>
  BY WhoseStep DEF GiveUp, Recovering, tr, countVars
<1>2. SeenTyped' /\ last' \in Versions /\ {updates', resumes', crashes'} \subseteq Nat
  BY <1>1 DEF SupervisorInv, Typed, SeenTyped, LoopTyped
<1>3. \A c \in Cores : ~Alive(c) /\ (proc[c].life = "gone" => seen[c].reaped)
  BY <1>1 DEF Unreaped, Alive, SupervisorInv, Remains
<1>4. ~Owning /\ Writers({current}) /\ (current \in Cores => Undisturbed(current))
  BY <1>3 DEF Owning, Writers, Undisturbed
<1>5. QED
  BY <1>1, <1>2, <1>4, RejectedKeeps

LEMMA CaptureFailsKeeps ==
  ASSUME SupervisorInv, NEW t \in Tasks, CaptureFails(t)
  PROVE  SupervisorInv'
<1>1. /\ t = "transition" /\ tr.pc = "capturing" /\ Rejected("transition")
      /\ IF seen[tr.old].captured THEN seen[tr.old].error \/ seen[tr.old].state = 0
         ELSE \A i \in 1..Len(out[tr.old]) : out[tr.old][i].kind \in Answers
      /\ seen' = [seen EXCEPT ![tr.old].error = FALSE]
      /\ UNCHANGED <<out, current, last, menu, exit, loop, updates, resumes, crashes, presses>>
  BY WhoseStep DEF CaptureFails, Recovering, Answers, tr, countVars
<1>2. /\ current \in Cores /\ tr.old = current /\ loop = "run" /\ Undisturbed(current)
      /\ proc[current].granted
      /\ presses = 0 => Unreaped \subseteq {current}
      /\ presses < 2 => Writers({current})
  BY <1>1, OldKept
<1>3. /\ SeenTyped'
      /\ \A d \in Cores : /\ seen'[d].state = seen[d].state
                          /\ (seen'[d].reaped <=> seen[d].reaped)
                          /\ (seen'[d].captured <=> seen[d].captured)
  <2> DEFINE s == [seen[current] EXCEPT !.error = FALSE]
  <2>0. seen[current] \in Sights
    BY <1>2 DEF SupervisorInv, Typed, SeenTyped
  <2>1. s \in Sights /\ s.state = seen[current].state /\ (s.reaped <=> seen[current].reaped)
        /\ (s.captured <=> seen[current].captured)
    BY <2>0 DEF Sights
  <2>2. seen' = [seen EXCEPT ![current] = s]
    BY <1>1, <1>2 DEF SupervisorInv, Typed, SeenTyped
  <2> HIDE DEF s
  <2>3. QED
    BY <1>2, <2>1, <2>2 DEF SupervisorInv, Typed, SeenTyped
<1>4. Owning => Silent(current) \/ \A i \in 1..Len(out[current]) : out[current][i].kind # "update"
  BY <1>1, <1>2 DEF Answers, SupervisorInv, Barrier, CaptureRead
<1>5. last' \in Versions /\ {updates', resumes', crashes'} \subseteq Nat
  BY <1>1 DEF SupervisorInv, Typed, LoopTyped
<1>6. QED
  BY <1>1, <1>2, <1>3, <1>4, <1>5, RejectedKeeps

LEMMA CapturedKeeps ==
  ASSUME SupervisorInv, NEW t \in Tasks, Captured(t)
  PROVE  SupervisorInv'
<1>1. /\ t = "transition" /\ tr.pc = "capturing"
      /\ seen[tr.old].captured /\ ~seen[tr.old].error /\ last' = seen[tr.old].state
      /\ UNCHANGED <<out, current, menu, exit, loop, updates, resumes, presses>>
  BY WhoseStep DEF Captured, Recovering, tr
<1>2. /\ current \in Cores /\ tr.old = current /\ loop = "run" /\ Undisturbed(current)
      /\ proc[current].granted
      /\ presses = 0 => Unreaped \subseteq {current}
      /\ presses < 2 => Writers({current})
  BY <1>1, OldKept
<1>3. last' \in Versions
  BY <1>1, <1>2 DEF SupervisorInv, Typed, SeenTyped, Sights
<1>4. CASE LaunchRaises /\ Rejected(t) /\ UNCHANGED seen
  <2>1. SeenTyped' /\ {updates', resumes', crashes'} \subseteq Nat
    BY <1>1, <1>4 DEF SupervisorInv, Typed, SeenTyped, LoopTyped, LaunchRaises
  <2>2. Owning => Silent(current)
    BY <1>1, <1>2 DEF SupervisorInv, Barrier, CaptureRead
  <2>3. QED
    BY <1>1, <1>2, <1>3, <1>4, <2>1, <2>2, RejectedKeeps
<1>5. CASE /\ LaunchCore(last', TRUE) /\ UNCHANGED routing
           /\ task' = [task EXCEPT ![t].pc = "probing", ![t].new = NextFree, ![t].state = last']
  <2>1. NextFree \in Cores
    BY <1>3, <1>5, LaunchFacts DEF SupervisorInv
  <2>2. /\ TaskTyped' /\ task'[t].pc = "probing" /\ task'[t].new = NextFree
        /\ task'[t].old = task[t].old /\ task'[t].state = seen[current].state
        /\ \A u \in Tasks \ {t} : task'[u] = task[u]
    <3> DEFINE s == [task[t] EXCEPT !.pc = "probing", !.new = NextFree, !.state = last']
    <3>1. task[t] \in Stations /\ NextFree \in 0..MaxCores
      BY <2>1, Bounds DEF SupervisorInv, Typed, TaskTyped
    <3>2. s \in Stations /\ s.pc = "probing" /\ s.new = NextFree /\ s.old = task[t].old
          /\ s.state = last'
      BY <1>3, <3>1 DEF Stations, Places, Exchanging
    <3>3. task' = [task EXCEPT ![t] = s]
      BY <1>5
    <3> HIDE DEF s
    <3>4. QED
      BY <1>1, <1>2, <3>2, <3>3, StationFacts DEF SupervisorInv, Typed
  <2>3. QED
    BY <1>1, <1>2, <1>3, <1>5, <2>2, LaunchKeeps DEF tr
<1>6. QED
  BY <1>4, <1>5 DEF Captured

LEMMA DrainedKeeps ==
  ASSUME SupervisorInv, NEW t \in Tasks, Drained(t)
  PROVE  SupervisorInv'
<1>1. /\ t = "transition" /\ tr.pc = "draining"
      /\ UNCHANGED <<out, seen, current, last, menu, exit, loop, updates, resumes, crashes,
                     presses>>
  BY WhoseStep DEF Drained, Recovering, tr, countVars
<1>2. /\ current \in Cores /\ tr.old = current /\ loop = "run" /\ Undisturbed(current)
      /\ proc[current].granted /\ proc[current] \in Procs /\ st.pc \in {"booting", "done"}
      /\ presses = 0 => Unreaped \subseteq {current}
      /\ presses < 2 => Writers({current})
      /\ Owning => Silent(current)
  BY <1>1, OldKept DEF SupervisorInv, Typed, ProcTyped
<1>3. SeenTyped' /\ last' \in Versions /\ {updates', resumes', crashes'} \subseteq Nat
  BY <1>1 DEF SupervisorInv, Typed, SeenTyped, LoopTyped
<1>4. CASE seen[current].reaped
  <2>1. Rejected("transition")
    BY <1>1, <1>2, <1>4 DEF Drained, tr
  <2>2. QED
    BY <1>1, <1>2, <1>3, <2>1, RejectedKeeps
<1>5. CASE ~seen[current].reaped
  <2>1. /\ Go("transition", "capturing") /\ routing' = FALSE
        /\ proc' = Told(current, [proc[current] EXCEPT !.frozen = TRUE])
    BY <1>1, <1>2, <1>5 DEF Drained, tr
  <2>2. /\ TaskTyped' /\ st' = st /\ tr'.pc = "capturing" /\ tr'.new = tr.new
        /\ tr'.old = tr.old /\ tr'.state = tr.state
    BY <2>1, GoFacts DEF st, tr, Tasks, SupervisorInv, Typed, Places, Exchanging
  <2>3. /\ ProcTyped'
        /\ \A d \in Cores : IF d = current /\ Alive(d) THEN Freezes(proc[d], proc'[d])
                            ELSE proc'[d] = proc[d]
    <3>1. /\ [proc[current] EXCEPT !.frozen = TRUE] \in Procs
          /\ Freezes(proc[current], [proc[current] EXCEPT !.frozen = TRUE])
      BY <1>2, Changed
    <3>2. QED
      BY <2>1, <1>2, <3>1, ToldFacts DEF SupervisorInv, Typed
  <2>4. QED
    BY <1>1, <1>2, <1>3, <1>5, <2>1, <2>2, <2>3, FrozenKeeps
<1>6. QED
  BY <1>4, <1>5

LEMMA StageKeeps ==
  ASSUME SupervisorInv, NEW t \in Tasks, task[t].pc \in {"killing", "clearing"},
         NEW k \in 0..3, NEW v \in Versions, Stage(t, k, v),
         presses = 0 /\ loop = "run" => Unreaped = {}, presses < 2 => Writers({}),
         UNCHANGED <<out, loopVars, updates, resumes, presses>>
  PROVE  SupervisorInv'
<1>1. CASE /\ LaunchCore(v, FALSE)
           /\ task' = [task EXCEPT ![t].pc = "restoring", ![t].new = NextFree, ![t].stage = k]
  <2>1. NextFree \in Cores
    BY <1>1, LaunchFacts DEF SupervisorInv
  <2>2. /\ TaskTyped' /\ task'[t].pc = "restoring" /\ task'[t].new = NextFree
        /\ task'[t].old = task[t].old /\ task'[t].state = task[t].state
        /\ \A u \in Tasks \ {t} : task'[u] = task[u]
    BY <1>1, <2>1, Bounds DEF SupervisorInv, Typed, TaskTyped, Stations, Places, Recovering
  <2>3. last' \in Versions /\ UNCHANGED <<current, routing, menu, exit, loop>>
    BY DEF loopVars, SupervisorInv, Typed, LoopTyped
  <2>4. QED
    BY <1>1, <2>2, <2>3, LaunchKeeps
<1>2. CASE /\ LaunchRaises /\ KillFirst
           /\ task' = [task EXCEPT ![t].pc = "clearing", ![t].stage = k]
  <2>1. /\ TaskTyped' /\ task'[t].pc = "clearing" /\ task'[t].new = task[t].new
        /\ task'[t].old = task[t].old /\ task'[t].state = task[t].state
        /\ \A u \in Tasks \ {t} : task'[u] = task[u]
    BY <1>2, Bounds DEF SupervisorInv, Typed, TaskTyped, Stations, Places, Recovering
  <2>2. {updates', resumes', crashes'} \subseteq Nat
    BY <1>2 DEF SupervisorInv, Typed, LoopTyped, LaunchRaises
  <2>3. (presses < 2 => Writers({task[t].new})) /\ \A c \in Cores : Alive(c) => c # current
    BY DEF Writers, SupervisorInv, Ownership, Recovering
  <2>4. task[t].pc \in {"retiring", "awaiting", "undoing", "restarting"} \cup Recovering
    BY DEF Recovering
  <2>5. task[t].pc \in Recovering
    BY DEF Recovering
  <2>6. QED
    BY <1>2, <2>1, <2>2, <2>3, <2>4, <2>5, ClearKeeps
<1>3. QED
  BY <1>1, <1>2 DEF Stage

LEMMA RestoreKeeps ==
  ASSUME SupervisorInv, NEW t \in Tasks, RestoreLatest(t) \/ RestoreNext(t)
  PROVE  SupervisorInv'
<1>1. {0, 1, last} \subseteq Versions /\ {1, 2, 3} \subseteq 0..3
  BY Bounds DEF SupervisorInv, Typed, LoopTyped
<1>2. CASE RestoreLatest(t)
  <2>1. /\ task[t].pc = "killing" /\ \A c \in {task[t].old} \ {0} : seen[c].reaped
        /\ Stage(t, 1, last) /\ UNCHANGED <<out, loopVars, updates, resumes, presses>>
    BY <1>2 DEF RestoreLatest
  <2>2. task[t].old = current /\ (presses < 2 => Writers({}))
    BY <2>1 DEF SupervisorInv, Positions, OneJournal
  <2>3. \/ t = "transition" /\ st.pc \in {"booting", "done"}
        \/ t = "start"
    BY <2>1, WhoseStep
  <2>4. presses = 0 /\ loop = "run" => Unreaped \subseteq {current}
    BY <2>1, <2>3 DEF SupervisorInv, OneProcess, st, tr
  <2>5. current \notin Unreaped
    BY <2>1, <2>2, Bounds DEF Unreaped
  <2>6. presses = 0 /\ loop = "run" => Unreaped = {}
    BY <2>4, <2>5
  <2>7. QED
    BY <1>1, <2>1, <2>2, <2>6, StageKeeps
<1>3. CASE RestoreNext(t)
  <2>1. task[t].pc = "clearing" /\ Unreaped = {}
        /\ UNCHANGED <<out, current, last, routing, exit, loop, updates, resumes, presses>>
    BY <1>3 DEF RestoreNext
  <2>2. Writers({})
    BY <2>1 DEF Writers, Unreaped, Alive, SupervisorInv, Remains
  <2>3. CASE (Stage(t, 2, 1) \/ Stage(t, 3, 0)) /\ UNCHANGED menu
    <3>1. UNCHANGED <<out, loopVars, updates, resumes, presses>>
      BY <2>1, <2>3 DEF loopVars
    <3>2. QED
      BY <1>1, <2>1, <2>2, <2>3, <3>1, StageKeeps
  <2>4. CASE menu' = TRUE /\ End(t) /\ UNCHANGED <<proc, seen, crashes>>
    <3>1. /\ TaskTyped' /\ task'[t].pc = "done" /\ \A u \in Tasks \ {t} : task'[u] = task[u]
          /\ menu' \in BOOLEAN /\ exit' \in {"none", "ok", "failed"}
          /\ {updates', resumes', crashes'} \subseteq Nat
      BY <2>1, <2>4, EndFacts DEF SupervisorInv, Typed, LoopTyped
    <3>2. QED
      BY <2>1, <2>4, <3>1, EndedKeeps
  <2>5. QED
    BY <1>3, <2>3, <2>4 DEF RestoreNext
<1>4. QED
  BY <1>2, <1>3

LEMMA ReplaceKeeps ==
  ASSUME SupervisorInv, NEW t \in Tasks, Replace(t) \/ RestartPrevious(t)
  PROVE  SupervisorInv'
<1>1. /\ UNCHANGED <<out, current, last, routing, menu, exit, loop, updates, resumes, presses>>
      /\ last' \in Versions /\ task[t].state \in Versions
  BY DEF Replace, RestartPrevious, loopVars, SupervisorInv, Typed, LoopTyped, TaskTyped, Stations
<1>2. /\ \/ /\ task[t].pc = "retiring" /\ seen[current].reaped
         \/ task[t].pc = "undoing" /\ Unreaped = {}
      /\ t = "transition" /\ current \in Cores /\ st.pc \in {"booting", "done"}
  BY Exchanger, WhoseStep DEF SupervisorInv, Replace, RestartPrevious, Exchanging, Recovering
<1>3. /\ presses = 0 /\ loop = "run" => Unreaped = {}
      /\ presses < 2 => Writers({})
      /\ \A c \in Cores : Alive(c) => c # current
  <2>1. CASE task[t].pc = "undoing" /\ Unreaped = {}
    BY <2>1 DEF Unreaped, Writers, Alive, SupervisorInv, Remains
  <2>2. CASE task[t].pc = "retiring" /\ seen[current].reaped
    <3>1. ~Alive(current) /\ current \notin Unreaped
      BY <1>2, <2>2 DEF Alive, Unreaped, SupervisorInv, Remains
    <3>2. presses = 0 /\ loop = "run" => Unreaped \subseteq {current}
      BY <1>2, <2>2 DEF SupervisorInv, OneProcess, Keeping, Probing, tr
    <3>3. presses < 2 => Writers({current})
      BY <1>2, <2>2 DEF SupervisorInv, OneJournal, Keeping, tr
    <3>4. QED
      BY <3>1, <3>2, <3>3 DEF Writers
  <2>3. QED
    BY <1>2, <2>1, <2>2
<1>4. ASSUME LaunchCore(task[t].state, FALSE), NEW pc \in {"awaiting", "restarting"},
             task' = [task EXCEPT ![t].pc = pc, ![t].new = NextFree],
             pc = "awaiting" <=> task[t].pc = "retiring"
      PROVE  SupervisorInv'
  <2>1. NextFree \in Cores
    BY <1>1, <1>4, LaunchFacts DEF SupervisorInv
  <2>2. /\ TaskTyped' /\ task'[t].pc = pc /\ task'[t].new = NextFree
        /\ task'[t].old = task[t].old /\ task'[t].state = task[t].state
        /\ \A u \in Tasks \ {t} : task'[u] = task[u]
    BY <1>4, <2>1, Bounds DEF SupervisorInv, Typed, TaskTyped, Stations, Places, Exchanging
  <2>3. QED
    BY <1>1, <1>2, <1>3, <1>4, <2>2, LaunchKeeps
<1>5. ASSUME LaunchRaises, KillFirst, NEW pc \in {"undoing", "giving_up"}, Go(t, pc),
             pc = "undoing" <=> task[t].pc = "retiring"
      PROVE  SupervisorInv'
  <2>1. /\ TaskTyped' /\ task'[t].pc = pc /\ task'[t].new = task[t].new
        /\ task'[t].old = task[t].old /\ task'[t].state = task[t].state
        /\ \A u \in Tasks \ {t} : task'[u] = task[u]
    BY <1>5, GoFacts DEF SupervisorInv, Typed, Places, Exchanging
  <2>2. {updates', resumes', crashes'} \subseteq Nat
    BY <1>1, <1>5 DEF SupervisorInv, Typed, LoopTyped, LaunchRaises
  <2>3. presses < 2 => Writers({task[t].new})
    BY <1>3 DEF Writers
  <2>4. UNCHANGED <<out, loopVars, presses>>
    BY <1>1 DEF loopVars
  <2>5. QED
    BY <1>2, <1>3, <1>5, <2>1, <2>2, <2>3, <2>4, ClearKeeps
<1>6. CASE Replace(t)
  BY <1>4, <1>5, <1>6 DEF Replace
<1>7. CASE RestartPrevious(t)
  <2>1. task[t].pc = "undoing" /\ Unreaped = {}
    BY <1>7 DEF RestartPrevious
  <2>2. UNCHANGED <<proc, seen>> => KillFirst
    BY <2>1 DEF KillFirst
  <2>3. QED
    BY <1>4, <1>5, <1>7, <2>1, <2>2 DEF RestartPrevious
<1>8. QED
  BY <1>6, <1>7

LEMMA NotActivatedKeeps ==
  ASSUME SupervisorInv, NEW t \in Tasks, NotActivated(t) \/ NotRestored(t)
  PROVE  SupervisorInv'
<1>1. PICK pc \in {"undoing", "giving_up", "clearing"} :
         /\ Go(t, pc) /\ KillFirst /\ UNCHANGED <<out, loopVars, countVars>>
         /\ \/ task[t].pc = "awaiting" /\ pc = "undoing"
            \/ task[t].pc = "restarting" /\ pc = "giving_up"
            \/ task[t].pc = "restoring" /\ pc = "clearing"
  BY DEF NotActivated, NotRestored
<1>2. /\ TaskTyped' /\ task'[t].pc = pc /\ task'[t].new = task[t].new
      /\ task'[t].old = task[t].old /\ task'[t].state = task[t].state
      /\ \A u \in Tasks \ {t} : task'[u] = task[u]
  BY <1>1, GoFacts DEF SupervisorInv, Typed, Places, Exchanging, Recovering
<1>3. /\ {updates', resumes', crashes'} \subseteq Nat
      /\ UNCHANGED <<out, loopVars, presses>>
  BY <1>1 DEF SupervisorInv, Typed, LoopTyped, countVars
<1>4. /\ presses = 0 /\ loop = "run" => Unreaped \subseteq {task[t].new}
      /\ presses < 2 => Writers({task[t].new})
      /\ \A c \in Cores : Alive(c) => c # current
  BY <1>1 DEF SupervisorInv, OneProcess, OneJournal, Ownership, Launched, Recovering
<1>5. task[t].pc = "restoring" => task[t].pc \in Recovering
  BY DEF Recovering
<1>6. QED
  BY <1>1, <1>2, <1>3, <1>4, <1>5, ClearKeeps

LEMMA ActivatedKeeps ==
  ASSUME SupervisorInv, NEW t \in Tasks, Activated(t) \/ Recovered(t)
  PROVE  SupervisorInv'
<1> DEFINE c == New(t)
<1>1. /\ task[t].pc \in Launched /\ c = task[t].new /\ ReadyOk(c) /\ End(t)
      /\ Become(c, Granted(proc[c])) \/ Become(c, Draining(Granted(proc[c])))
      /\ last' \in {seen[c].state, last} /\ routing' = TRUE
      /\ UNCHANGED <<menu, exit, loop, updates, resumes, crashes, presses>>
  BY DEF Activated, Recovered, New, Launched, countVars
<1>2. c \in Cores
  BY <1>1 DEF SupervisorInv, Positions
<1> HIDE DEF c
<1>3. /\ TaskTyped' /\ task'[t].pc = "done" /\ \A u \in Tasks \ {t} : task'[u] = task[u]
  BY <1>1, EndFacts DEF SupervisorInv, Typed
<1>4. last' \in Versions /\ routing' \in BOOLEAN
  BY <1>1, <1>2 DEF SupervisorInv, Typed, SeenTyped, Sights, LoopTyped
<1>5. /\ Granted(proc[c]) \in Procs /\ Grants(proc[c], Granted(proc[c]))
      /\ Draining(Granted(proc[c])) \in Procs /\ Grants(proc[c], Draining(Granted(proc[c])))
  BY <1>2, Changed DEF SupervisorInv, Typed, ProcTyped
<1>6. QED
  BY <1>1, <1>2, <1>3, <1>4, <1>5, BecomeKeeps

LEMMA ProbedKeeps ==
  ASSUME SupervisorInv, NEW t \in Tasks, Probed(t) \/ RetireOld(t)
  PROVE  SupervisorInv'
<1>1. /\ task[t].pc \in {"probing", "passed"} /\ UNCHANGED <<out, loopVars, countVars>>
      /\ FALSE \in BOOLEAN
  BY DEF Probed, RetireOld
<1>2. t = "transition" /\ current \in Cores /\ task[t].old = current
  BY <1>1, Exchanger DEF SupervisorInv, Exchanging
<1>3. CASE Probed(t)
  <2>1. PICK pc \in {"passed", "failed"} :
           task[t].pc = "probing" /\ Go(t, pc) /\ StopAsked(task[t].new, FALSE)
    BY <1>3 DEF Probed, New
  <2>2. task[t].new \in Cores
    BY <2>1 DEF SupervisorInv, Positions, Probing
  <2>3. /\ ProcTyped' /\ SeenTyped' /\ \A d \in Cores : SameSight(seen[d], seen'[d])
        /\ \A d \in Cores : \/ proc'[d] = proc[d]
                            \/ d = task[t].new /\ Retires(proc[d], proc'[d])
    BY <1>1, <2>1, <2>2, StopFacts DEF SupervisorInv
  <2>4. /\ TaskTyped' /\ task'[t].pc = pc /\ task'[t].new = task[t].new
        /\ task'[t].old = task[t].old /\ task'[t].state = task[t].state
        /\ \A u \in Tasks \ {t} : task'[u] = task[u]
    BY <2>1, GoFacts DEF SupervisorInv, Typed, Places, Exchanging
  <2>5. QED
    BY <1>1, <2>1, <2>3, <2>4, RetiredKeeps
<1>4. CASE RetireOld(t)
  <2>1. /\ task[t].pc = "passed" /\ seen[task[t].new].reaped /\ Go(t, "retiring")
        /\ StopAsked(current, FALSE)
    BY <1>2, <1>4 DEF RetireOld, New
  <2>2. /\ ProcTyped' /\ SeenTyped' /\ \A d \in Cores : SameSight(seen[d], seen'[d])
        /\ \A d \in Cores : \/ proc'[d] = proc[d]
                            \/ d = current /\ Retires(proc[d], proc'[d])
    BY <1>1, <1>2, <2>1, StopFacts DEF SupervisorInv
  <2>3. /\ TaskTyped' /\ task'[t].pc = "retiring" /\ task'[t].new = task[t].new
        /\ task'[t].old = task[t].old /\ task'[t].state = task[t].state
        /\ \A u \in Tasks \ {t} : task'[u] = task[u]
    BY <2>1, GoFacts DEF SupervisorInv, Typed, Places, Exchanging
  <2>4. QED
    BY <1>1, <2>1, <2>2, <2>3, RetiredKeeps
<1>5. QED
  BY <1>3, <1>4

LEMMA TimeoutKeeps ==
  ASSUME SupervisorInv, NEW t \in Tasks, RetireTimeout(t) \/ KillChild(t)
  PROVE  SupervisorInv'
<1>1. UNCHANGED <<out, loopVars, task, countVars>>
  BY DEF RetireTimeout, KillChild
<1>2. CASE RetireTimeout(t)
  <2>1. PICK c : /\ \/ task[t].pc \in {"passed", "failed", "cancel_stopping"} /\ c = task[t].new
                    \/ task[t].pc = "retiring" /\ c = task[t].old
                 /\ Alive(c) /\ proc' = [proc EXCEPT ![c].life = "gone"] /\ seen' = seen
    BY <1>2 DEF RetireTimeout, New
  <2>2. /\ c \in Cores /\ t = "transition" /\ st.pc \in {"booting", "done"}
        /\ c = current => tr.pc \in {"retiring", "cancel_stopping"}
    <3>1. t = "transition" /\ st.pc \in {"booting", "done"}
      BY <2>1, WhoseStep DEF Recovering
    <3>2. QED
      BY <2>1, <3>1 DEF SupervisorInv, Positions, Exchanging, Probing, tr
  <2>3. tr.pc \notin Launched
    BY <2>1, <2>2 DEF Launched, tr
  <2>4. \A u \in Tasks : task[u].pc \notin Launched
    BY <2>2, <2>3 DEF Tasks, Launched, st, tr
  <2>5. /\ ProcTyped'
        /\ \A d \in Cores : proc'[d] = proc[d] \/ (d = c /\ Dies(proc[d], proc'[d]))
    <3> DEFINE p == [proc[c] EXCEPT !.life = "gone"]
    <3>1. p \in Procs /\ Dies(proc[c], p)
      BY <2>2, Changed DEF SupervisorInv, Typed, ProcTyped
    <3>2. proc' = [proc EXCEPT ![c] = p]
      BY <2>1
    <3> HIDE DEF p
    <3>3. QED
      BY <2>2, <3>1, <3>2 DEF SupervisorInv, Typed, ProcTyped
  <2>6. SeenTyped' /\ \A d \in Cores : SameSight(seen[d], seen'[d])
    BY <2>1 DEF SameSight, SupervisorInv, Typed, SeenTyped
  <2>7. \A d \in Cores : \/ proc'[d] = proc[d]
                         \/ /\ Alive(d) /\ Dies(proc[d], proc'[d])
                            /\ d = current /\ loop = "run" =>
                                  tr.pc \notin Keeping \ {"retiring", "cancel_stopping"}
                            /\ \A u \in Tasks : task[u].pc \in Launched => d # task[u].new
    BY <2>1, <2>2, <2>4, <2>5
  <2>8. QED
    BY <1>1, <2>5, <2>6, <2>7, KillKeeps
<1>3. CASE KillChild(t)
  <2>1. task[t].pc \in Clearing /\ KillFirst
    BY <1>3 DEF KillChild
  <2>2. /\ ProcTyped' /\ SeenTyped' /\ \A d \in Cores : SameSight(seen[d], seen'[d])
        /\ \A d \in Cores : proc'[d] = proc[d] \/ (Alive(d) /\ Dies(proc[d], proc'[d]))
    BY <2>1, KillFacts DEF SupervisorInv
  <2>3. /\ \A u \in Tasks : task[u].pc \notin Launched
        /\ current \in Cores /\ loop = "run" => tr.pc \notin Keeping \ {"retiring",
              "cancel_stopping"}
    <3>1. CASE t = "transition"
      BY <2>1, <3>1, WhoseStep DEF Clearing, Launched, Keeping, Unfrozen, Tasks, st, tr
    <3>2. CASE t = "start"
      BY <2>1, <3>2, Bounds DEF Clearing, Launched, Tasks, st, tr, SupervisorInv, Positions,
            Recovering
    <3>3. QED
      BY <3>1, <3>2 DEF Tasks
  <2>4. QED
    BY <1>1, <2>2, <2>3, KillKeeps
<1>4. QED
  BY <1>2, <1>3

LEMMA CancelledKeeps ==
  ASSUME SupervisorInv, NEW t \in Tasks, Cancelled(t)
  PROVE  SupervisorInv'
<1>1. /\ TaskTyped' /\ task'[t].pc = "done" /\ \A u \in Tasks \ {t} : task'[u] = task[u]
  BY EndFacts DEF SupervisorInv, Typed, Cancelled
<1>2. /\ UNCHANGED <<proc, out, seen, current, last, routing, menu, exit, loop, updates,
                     resumes, crashes, presses>>
      /\ \/ task[t].pc = "cancel_clearing" /\ Unreaped = {}
         \/ task[t].pc = "cancel_stopping" /\ seen[task[t].new].reaped
  BY DEF Cancelled, New, coreVars, loopVars, countVars
<1>3. /\ menu' \in BOOLEAN /\ exit' \in {"none", "ok", "failed"}
      /\ {updates', resumes', crashes'} \subseteq Nat
  BY <1>2 DEF SupervisorInv, Typed, LoopTyped
<1>4. QED
  BY <1>1, <1>2, <1>3, EndedKeeps

LEMMA TaskKeeps ==
  ASSUME SupervisorInv, NEW t \in Tasks, TaskStep(t)
  PROVE  SupervisorInv'
BY CandidateFailsKeeps, StartDrainKeeps, DrainedKeeps, CapturedKeeps, CaptureFailsKeeps,
   ProbedKeeps, TimeoutKeeps, ReplaceKeeps, ActivatedKeeps, NotActivatedKeeps, GiveUpKeeps,
   CancelledKeeps, RestoreKeeps DEF TaskStep

-----------------------------------------------------------------------------
(* The steps of the loop, and of the startup task.                          *)

LEMMA EventKeeps ==
  ASSUME SupervisorInv, NEW c \in Cores, Event(c)
  PROVE  SupervisorInv'
<1> DEFINE m == Head(out[c])
<1>1. /\ out[c] # <<>> /\ out' = [out EXCEPT ![c] = Tail(@)] /\ loop = "run" /\ exit = "none"
      /\ UNCHANGED <<current, menu, loop, countVars>>
  BY DEF Event, Running
<1>2. /\ OutTyped' /\ m \in Sent /\ m = out[c][1] /\ 1 \in 1..Len(out[c])
      /\ \A d \in Cores \ {c} : out'[d] = out[d]
      /\ Len(out[c]) \in Nat \ {0} /\ Len(out'[c]) = Len(out[c]) - 1
      /\ \A i \in 1..Len(out'[c]) : i + 1 \in 1..Len(out[c]) /\ out'[c][i] = out[c][i + 1]
  BY <1>1, ReadFacts DEF SupervisorInv
<1>3. /\ seen \in [Cores -> Sights] /\ seen[c] \in Sights /\ m.version \in Versions
      /\ last \in Versions /\ routing \in BOOLEAN /\ exit \in {"none", "ok", "failed"}
  BY <1>2 DEF SupervisorInv, Typed, SeenTyped, LoopTyped, Sent
<1>4. \/ /\ m.kind = "ready"
         /\ seen' = [seen EXCEPT ![c] = [seen[c] EXCEPT !.state = m.version, !.ready = TRUE]]
         /\ UNCHANGED <<proc, last, routing, task, exit>>
      \/ /\ m.kind = "failed"
         /\ seen' = [seen EXCEPT ![c] = [seen[c] EXCEPT !.error = TRUE, !.ready = TRUE]]
         /\ UNCHANGED <<proc, last, routing, task, exit>>
      \/ /\ m.kind = "startup" /\ routing' = (routing \/ c = current)
         /\ UNCHANGED <<proc, seen, last, task, exit>>
      \/ /\ m.kind = "idle"
         /\ seen' = [seen EXCEPT ![c] = [seen[c] EXCEPT !.idle = @ \/ c = current]]
         /\ UNCHANGED <<proc, last, routing, task, exit>>
      \/ /\ m.kind = "handoff"
         /\ seen' = [seen EXCEPT ![c] = [seen[c] EXCEPT !.state = m.version, !.captured = TRUE]]
         /\ last' = IF c = current THEN m.version ELSE last
         /\ UNCHANGED <<proc, routing, task, exit>>
      \/ /\ m.kind = "capture_failed"
         /\ seen' = [seen EXCEPT ![c] = [seen[c] EXCEPT !.error = TRUE, !.captured = TRUE]]
         /\ UNCHANGED <<proc, last, routing, task, exit>>
      \/ /\ m.kind = "update"
         /\ task' = IF c = current /\ ~Pending
                    THEN [task EXCEPT !["transition"] = At("validating")] ELSE task
         /\ UNCHANGED <<proc, seen, last, routing, exit>>
      \/ /\ m.kind = "resume_queue"
         /\ IF c = current THEN ResumeQueue ELSE UNCHANGED <<proc, routing>>
         /\ UNCHANGED <<seen, last, task, exit>>
      \/ /\ m.kind = "finished"
         /\ IF c = current
            THEN exit' = "ok" /\ seen' = [seen EXCEPT ![c] = [seen[c] EXCEPT !.expected = TRUE]]
            ELSE UNCHANGED <<exit, seen>>
         /\ UNCHANGED <<proc, last, routing, task>>
  BY DEF Event
<1> HIDE DEF m
<1>5. ASSUME NEW s \in Sights, seen' = [seen EXCEPT ![c] = s], Notes(seen[c], s, m),
             last' \in Versions, routing' \in BOOLEAN, exit' \in {"none", "ok", "failed"},
             routing' = routing \/ (m.kind = "startup" /\ c = current),
             UNCHANGED <<proc, task>>
      PROVE  SupervisorInv'
  <2>1. SeenTyped' /\ seen'[c] = s /\ \A d \in Cores \ {c} : seen'[d] = seen[d]
    BY <1>3, <1>5 DEF SeenTyped
  <2>2. QED
    BY <1>1, <1>2, <1>5, <2>1, NotedKeeps
<1>6. seen' = seen => seen' = [seen EXCEPT ![c] = seen[c]]
  BY <1>3
<1>7. CASE /\ m.kind = "ready" /\ UNCHANGED <<proc, last, routing, task, exit>>
           /\ seen' = [seen EXCEPT ![c] = [seen[c] EXCEPT !.state = m.version, !.ready = TRUE]]
  <2>1. LET s == [seen[c] EXCEPT !.state = m.version, !.ready = TRUE] IN
        s \in Sights /\ Notes(seen[c], s, m)
    BY <1>3, <1>7 DEF Sights, Notes, Answers
  <2>2. QED
    BY <1>3, <1>5, <1>7, <2>1
<1>8. CASE /\ m.kind = "failed" /\ UNCHANGED <<proc, last, routing, task, exit>>
           /\ seen' = [seen EXCEPT ![c] = [seen[c] EXCEPT !.error = TRUE, !.ready = TRUE]]
  <2>1. LET s == [seen[c] EXCEPT !.error = TRUE, !.ready = TRUE] IN
        s \in Sights /\ Notes(seen[c], s, m)
    BY <1>3, <1>8 DEF Sights, Notes, Answers
  <2>2. QED
    BY <1>3, <1>5, <1>8, <2>1
<1>9. CASE /\ m.kind = "startup" /\ routing' = (routing \/ c = current)
           /\ UNCHANGED <<proc, seen, last, task, exit>>
  <2>1. Notes(seen[c], seen[c], m) /\ routing' \in BOOLEAN
        /\ (routing' = routing \/ (m.kind = "startup" /\ c = current))
    BY <1>3, <1>9 DEF Notes, Answers
  <2>2. QED
    BY <1>3, <1>5, <1>6, <1>9, <2>1
<1>10. CASE /\ m.kind = "idle" /\ UNCHANGED <<proc, last, routing, task, exit>>
            /\ seen' = [seen EXCEPT ![c] = [seen[c] EXCEPT !.idle = @ \/ c = current]]
  <2> DEFINE s == [seen[c] EXCEPT !.idle = seen[c].idle \/ c = current]
  <2>1. s \in Sights /\ Notes(seen[c], s, m)
    BY <1>3, <1>10 DEF Sights, Notes, Answers
  <2>2. seen' = [seen EXCEPT ![c] = s]
    BY <1>10
  <2> HIDE DEF s
  <2>3. QED
    BY <1>3, <1>5, <1>10, <2>1, <2>2
<1>11. CASE /\ m.kind = "handoff" /\ UNCHANGED <<proc, routing, task, exit>>
            /\ seen' = [seen EXCEPT ![c] = [seen[c] EXCEPT !.state = m.version,
                  !.captured = TRUE]]
            /\ last' = IF c = current THEN m.version ELSE last
  <2>1. LET s == [seen[c] EXCEPT !.state = m.version, !.captured = TRUE] IN
        s \in Sights /\ Notes(seen[c], s, m)
    BY <1>3, <1>11 DEF Sights, Notes, Answers
  <2>2. last' \in Versions
    BY <1>3, <1>11
  <2>3. QED
    BY <1>3, <1>5, <1>11, <2>1, <2>2
<1>12. CASE /\ m.kind = "capture_failed" /\ UNCHANGED <<proc, last, routing, task, exit>>
            /\ seen' = [seen EXCEPT ![c] = [seen[c] EXCEPT !.error = TRUE, !.captured = TRUE]]
  <2>1. LET s == [seen[c] EXCEPT !.error = TRUE, !.captured = TRUE] IN
        s \in Sights /\ Notes(seen[c], s, m)
    BY <1>3, <1>12 DEF Sights, Notes, Answers
  <2>2. QED
    BY <1>3, <1>5, <1>12, <2>1
<1>13. CASE /\ m.kind \in {"update", "resume_queue", "finished"}
            /\ UNCHANGED <<proc, seen, last, routing, task>> /\ exit' \in {"none", "ok", "failed"}
  <2>1. Notes(seen[c], seen[c], m)
    BY <1>3, <1>13 DEF Notes, Answers
  <2>2. QED
    BY <1>3, <1>5, <1>6, <1>13, <2>1
<1>14. CASE /\ m.kind = "update" /\ c = current /\ ~Pending
            /\ task' = [task EXCEPT !["transition"] = At("validating")]
            /\ UNCHANGED <<proc, seen, last, routing, exit>>
  BY <1>1, <1>2, <1>14, UpdateKeeps
<1>15. CASE /\ m.kind = "resume_queue" /\ c = current /\ ~Pending /\ ResumeCore(current)
            /\ UNCHANGED <<seen, last, task, exit>>
  BY <1>1, <1>2, <1>15, ResumeKeeps
<1>16. CASE /\ m.kind = "finished" /\ exit' = "ok" /\ UNCHANGED <<proc, last, routing, task>>
            /\ seen' = [seen EXCEPT ![c] = [seen[c] EXCEPT !.expected = TRUE]]
  <2>1. LET s == [seen[c] EXCEPT !.expected = TRUE] IN
        s \in Sights /\ Notes(seen[c], s, m)
    BY <1>3, <1>16 DEF Sights, Notes, Answers
  <2>2. QED
    BY <1>3, <1>5, <1>16, <2>1
<1>17. QED
  BY <1>3, <1>4, <1>7, <1>8, <1>9, <1>10, <1>11, <1>12, <1>13, <1>14, <1>15, <1>16
  DEF ResumeQueue

(* The loop only notices the end of the current core; with a transition     *)
(* pending nothing else is done.                                            *)
LEMMA NoticeExitKeeps ==
  ASSUME SupervisorInv, NoticeExit
  PROVE  SupervisorInv'
<1>1. /\ loop = "run" /\ current # 0 /\ seen[current].reaped
      /\ UNCHANGED <<out, current, last, menu, exit, loop, updates, resumes, crashes, presses>>
  BY DEF NoticeExit, Running, countVars
<1>2. current \in Cores /\ st.pc \in {"booting", "done"} /\ menu' \in BOOLEAN
      /\ (presses > 0 => st.pc = "done") /\ (st.pc = "booting" => seen[st.new].reaped)
      /\ presses \in Nat
  BY <1>1, Bounds DEF SupervisorInv, Typed, LoopTyped, Positions
<1>3. CASE Pending
  <2>1. /\ seen' = [seen EXCEPT ![current] = [seen[current] EXCEPT !.expected = TRUE]]
        /\ UNCHANGED <<proc, task, routing>>
    BY <1>2, <1>3 DEF NoticeExit, SupervisorInv, Typed, SeenTyped
  <2>2. \A d \in Cores : seen[d] \in Sights /\ SameSight(seen[d], seen[d])
    BY DEF SupervisorInv, Typed, SeenTyped, SameSight
  <2>3. /\ [seen[current] EXCEPT !.expected = TRUE] \in Sights
        /\ SameSight(seen[current], [seen[current] EXCEPT !.expected = TRUE])
    BY <1>2, <2>2, Noticed
  <2>4. SeenTyped' /\ \A d \in Cores : SameSight(seen[d], seen'[d])
    BY <2>1, <2>2, <2>3 DEF SupervisorInv, Typed, SeenTyped
  <2>5. ProcTyped' /\ UNCHANGED <<out, loopVars, task, countVars>>
    BY <1>1, <2>1 DEF SupervisorInv, Typed, ProcTyped, loopVars, countVars
  <2>6. QED
    BY <2>1, <2>4, <2>5, KillKeeps
<1>4. CASE ~Pending
  <2>1. Recovery("transition")
    BY <1>4 DEF NoticeExit
  <2>2. QED
    BY <1>1, <1>2, <1>4, <2>1, RecoveryKeeps
<1>5. QED
  BY <1>3, <1>4

LEMMA AfterCancelKeeps ==
  ASSUME SupervisorInv, AfterCancel
  PROVE  SupervisorInv'
<1>1. /\ loop = "cancel" /\ ~Pending /\ loop' = "run" /\ Recovery("transition")
      /\ UNCHANGED <<out, current, last, menu, exit, updates, resumes, crashes, presses>>
  BY DEF AfterCancel, countVars
<1>2. st.pc = "done" /\ menu' \in BOOLEAN
  BY <1>1 DEF SupervisorInv, Positions, Typed, LoopTyped
<1>3. QED
  BY <1>1, <1>2, RecoveryKeeps

LEMMA PressKeeps ==
  ASSUME SupervisorInv, Press, ~RecoverDuringStart
  PROVE  SupervisorInv'
<1>1. /\ loop = "run" /\ presses' = presses + 1 /\ presses \in Nat /\ menu' \in BOOLEAN
      /\ st.pc = "done" /\ menu \in BOOLEAN
      /\ UNCHANGED <<out, current, last, exit, updates, resumes, crashes>>
  BY DEF Press, Running, st, SupervisorInv, Typed, LoopTyped
<1>2. CASE ~Pending
  <2>1. Recovery("transition") /\ loop' = "run"
    BY <1>1, <1>2 DEF Press
  <2>2. presses' \in {presses, presses + 1}
    BY <1>1
  <2>3. QED
    BY <1>1, <1>2, <2>1, <2>2, RecoveryKeeps
<1>3. CASE Pending
  <2>1. /\ loop' = "cancel" /\ UNCHANGED routing
        /\ IF CancelledTo(tr.pc) = "done" THEN End("transition")
           ELSE Go("transition", CancelledTo(tr.pc))
        /\ CASE tr.pc = "probing" -> StopAsked(tr.new, FALSE)
             [] CancelledTo(tr.pc) \in Clearing -> KillFirst
             [] OTHER -> UNCHANGED <<proc, seen>>
    BY <1>3 DEF Press, New, tr
  <2>2. /\ TaskTyped /\ "transition" \in Tasks /\ "start" \in Tasks \ {"transition"}
        /\ FALSE \in BOOLEAN
    BY DEF SupervisorInv, Typed, Tasks
  <2>3. CASE tr.pc = "probing"
    <3>0. CancelledTo(tr.pc) = "cancel_stopping"
      BY <2>3 DEF CancelledTo
    <3>1. Go("transition", "cancel_stopping") /\ StopAsked(tr.new, FALSE)
      BY <2>1, <2>3, <3>0 DEF Clearing
    <3>2. tr.new \in Cores
      BY <2>2, <2>3 DEF SupervisorInv, Positions, Probing, tr
    <3>3. /\ ProcTyped' /\ SeenTyped' /\ \A d \in Cores : SameSight(seen[d], seen'[d])
          /\ \A d \in Cores : proc'[d] = proc[d] \/ (Alive(d) /\ Retires(proc[d], proc'[d]))
      BY <2>2, <3>1, <3>2, StopFacts DEF SupervisorInv
    <3>4. TaskTyped' /\ st' = st /\ tr'.pc = "cancel_stopping" /\ tr'.new = tr.new
      BY <2>2, <3>1, GoFacts DEF Places, st, tr
    <3>5. QED
      BY <1>1, <1>3, <2>1, <2>3, <3>3, <3>4, CancelKeeps
  <2>4. CASE tr.pc \in Launched
    <3> DEFINE pc == IF tr.pc = "restarting" THEN "giving_up" ELSE "cancel_clearing"
    <3>1. Go("transition", pc) /\ KillFirst
      BY <2>1, <2>4 DEF CancelledTo, Clearing, Launched
    <3>2. /\ ProcTyped' /\ SeenTyped' /\ \A d \in Cores : SameSight(seen[d], seen'[d])
          /\ \A d \in Cores : proc'[d] = proc[d] \/ (Alive(d) /\ Dies(proc[d], proc'[d]))
      BY <3>1, KillFacts DEF SupervisorInv
    <3>3. pc \in Places
      BY DEF Places
    <3> HIDE DEF pc
    <3>4. TaskTyped' /\ st' = st /\ tr'.pc = pc /\ tr'.new = tr.new
      BY <2>2, <3>1, <3>3, GoFacts DEF st, tr
    <3>5. \/ tr.pc \in {"awaiting", "restoring"} /\ tr'.pc = "cancel_clearing"
          \/ tr.pc = "restarting" /\ tr'.pc = "giving_up"
      BY <2>4, <3>4 DEF Launched, pc
    <3>6. QED
      BY <1>1, <1>3, <2>1, <3>2, <3>4, <3>5, CancelKeeps
  <2>5. CASE tr.pc \notin Launched \cup {"probing"}
    <3>1. End("transition") /\ proc' = proc /\ seen' = seen
      BY <2>1, <2>5 DEF CancelledTo, Clearing, Launched
    <3>2. TaskTyped' /\ st' = st /\ tr'.pc = "done"
      BY <2>2, <3>1, EndFacts DEF st, tr
    <3>3. ProcTyped' /\ SeenTyped' /\ \A d \in Cores : SameSight(seen[d], seen'[d])
      BY <3>1 DEF SupervisorInv, Typed, ProcTyped, SeenTyped, SameSight
    <3>4. QED
      BY <1>1, <1>3, <2>1, <2>5, <3>1, <3>2, <3>3, CancelKeeps
  <2>6. QED
    BY <2>3, <2>4, <2>5
<1>4. QED
  BY <1>2, <1>3

LEMMA LaunchStepKeeps ==
  ASSUME SupervisorInv, Launch
  PROVE  SupervisorInv'
<1>1. st.pc = "launch" /\ "start" \in Tasks
      /\ UNCHANGED <<last, routing, menu, loop, updates, resumes, presses>>
  BY DEF Launch, st, Tasks
<1>2. CASE /\ LaunchCore(last, FALSE)
           /\ task' = [task EXCEPT !["start"] = [At("booting") EXCEPT !.new = NextFree]]
           /\ current' = NextFree
           /\ out' = [out EXCEPT ![NextFree] = <<Said("startup", 0)>>]
           /\ UNCHANGED exit
  BY <1>1, <1>2, BootKeeps
<1>3. CASE LaunchRaises /\ End("start") /\ exit' = "failed" /\ UNCHANGED <<proc, seen, out,
                                                                           current>>
  <2>1. /\ TaskTyped' /\ task'["start"].pc = "done"
        /\ \A u \in Tasks \ {"start"} : task'[u] = task[u]
    BY <1>1, <1>3, EndFacts DEF SupervisorInv, Typed
  <2>2. /\ menu' \in BOOLEAN /\ exit' \in {"none", "ok", "failed"}
        /\ {updates', resumes', crashes'} \subseteq Nat
    BY <1>1, <1>3 DEF SupervisorInv, Typed, LoopTyped, LaunchRaises
  <2>3. task["start"].pc = "launch" /\ Unreaped = {}
    BY <1>1 DEF st, SupervisorInv, OneProcess, Positions
  <2>4. QED
    BY <1>1, <1>3, <2>1, <2>2, <2>3, EndedKeeps
<1>4. QED
  BY <1>2, <1>3 DEF Launch

LEMMA StartedStepKeeps ==
  ASSUME SupervisorInv, Started
  PROVE  SupervisorInv'
<1>1. /\ st.pc = "booting" /\ out[st.new] = <<>> /\ End("start")
      /\ UNCHANGED <<out, current, menu, loop, countVars>>
  BY DEF Started, New, st
<1>2. /\ ProcTyped /\ SeenTyped /\ last \in Versions /\ routing \in BOOLEAN
      /\ exit \in {"none", "ok", "failed"} /\ current \in 0..MaxCores
      /\ \A d \in Cores : SameSight(seen[d], seen[d]) /\ seen[d] \in Sights
  BY DEF SupervisorInv, Typed, SeenTyped, LoopTyped, SameSight
<1>3. CASE UNCHANGED <<proc, seen, last, routing, exit>>
  <2>1. ProcTyped' /\ SeenTyped'
    BY <1>2, <1>3 DEF ProcTyped, SeenTyped
  <2>2. QED
    BY <1>1, <1>2, <1>3, <2>1, StartedKeeps
<1>4. CASE /\ ReadyOk(st.new) /\ last' = seen[current].state /\ ResumeCore(current)
           /\ UNCHANGED <<seen, exit>>
  <2>1. current \in Cores /\ ~seen[current].reaped
    BY <1>1, <1>4 DEF SupervisorInv, Positions, ReadyOk
  <2>2. last' \in Versions
    BY <1>2, <1>4, <2>1 DEF Sights
  <2>3. /\ ProcTyped' /\ routing' \in BOOLEAN
        /\ \A d \in Cores : IF d = current /\ Alive(d) THEN Grants(proc[d], proc'[d])
                            ELSE proc'[d] = proc[d]
    BY <1>2, <1>4, <2>1, Bounds, ResumeFacts DEF SupervisorInv
  <2>4. SeenTyped'
    BY <1>2, <1>4 DEF SeenTyped
  <2>5. QED
    BY <1>1, <1>2, <1>4, <2>2, <2>3, <2>4, StartedKeeps
<1>5. CASE /\ seen' = [seen EXCEPT ![current].expected = TRUE] /\ exit' = "failed"
           /\ UNCHANGED <<proc, last, routing>>
  <2>1. CASE current \in Cores
    <3>1. seen' = [seen EXCEPT ![current] = [seen[current] EXCEPT !.expected = TRUE]]
      BY <1>5, <2>1 DEF SupervisorInv, Typed, SeenTyped
    <3>2. /\ [seen[current] EXCEPT !.expected = TRUE] \in Sights
          /\ SameSight(seen[current], [seen[current] EXCEPT !.expected = TRUE])
      BY <1>2, <2>1, Noticed
    <3>3. SeenTyped' /\ \A d \in Cores : SameSight(seen[d], seen'[d])
      BY <1>2, <3>1, <3>2 DEF SeenTyped
    <3>4. ProcTyped'
      BY <1>2, <1>5 DEF ProcTyped
    <3>5. QED
      BY <1>1, <1>2, <1>5, <3>3, <3>4, StartedKeeps
  <2>2. CASE current \notin Cores
    <3>1. seen' = seen
      BY <1>2, <1>5, <2>2 DEF SeenTyped
    <3>2. ProcTyped' /\ SeenTyped'
      BY <1>2, <1>5, <3>1 DEF ProcTyped, SeenTyped
    <3>3. QED
      BY <1>1, <1>2, <1>5, <3>1, <3>2, StartedKeeps
  <2>3. QED
    BY <2>1, <2>2
<1>6. QED
  BY <1>3, <1>4, <1>5 DEF Started, New, st

-----------------------------------------------------------------------------
(* The invariant.                                                           *)

LEMMA SupervisorStarts ==
  ASSUME Init
  PROVE  SupervisorInv
<1>1. NoProc \in Procs /\ NoSeen \in Sights /\ <<>> \in Seq(Sent) /\ Len(<<>>) = 0
  BY Bounds DEF NoProc, NoSeen, Procs, Sights
<1>2. /\ At("launch") = [pc |-> "launch", old |-> 0, new |-> 0, state |-> 0, stage |-> 0]
      /\ At("killing") = [pc |-> "killing", old |-> 0, new |-> 0, state |-> 0, stage |-> 0]
      /\ Done = [pc |-> "done", old |-> 0, new |-> 0, state |-> 0, stage |-> 0]
  BY DEF At, Done
<1>3. {At("launch"), At("killing"), Done} \subseteq Stations
  BY <1>2, Bounds DEF Stations, Places, Recovering
<1>4. /\ tr.pc = "done" /\ tr.new = 0 /\ st.pc \in {"launch", "killing"} /\ st.old = 0
      /\ current = 0 /\ loop = "run" /\ presses = 0
  BY <1>2 DEF Init, Tasks, st, tr
<1>5. \A c \in Cores : /\ proc[c] = NoProc /\ out[c] = <<>> /\ seen[c] = NoSeen
                       /\ ~Alive(c) /\ proc[c].life = "none" /\ ~seen[c].reaped
                       /\ ~proc[c].frozen /\ \A i \in 1..Len(out[c]) : FALSE
  BY <1>1 DEF Init, NoProc, NoSeen, Alive
<1>6. Typed
  <2>1. ProcTyped /\ OutTyped /\ SeenTyped
    BY <1>1 DEF Init, ProcTyped, OutTyped, SeenTyped
  <2>2. TaskTyped
    BY <1>3 DEF Init, TaskTyped
  <2>3. LoopTyped
    <3>1. current \in 0..MaxCores /\ last \in Versions
      BY Bounds DEF Init
    <3>2. routing \in BOOLEAN /\ menu \in BOOLEAN /\ exit = "none" /\ loop = "run"
      BY DEF Init
    <3>3. {updates, resumes, crashes, presses} \subseteq Nat
      BY DEF Init
    <3>4. QED
      BY <3>1, <3>2, <3>3 DEF LoopTyped
  <2>4. QED
    BY <2>1, <2>2, <2>3 DEF Typed
<1>7. Unreaped = {}
  BY <1>5 DEF Unreaped
<1>8. Positions
  BY <1>4, Bounds DEF Positions, Tasks, st, tr, Recovering, Exchanging, Launched, Probing
<1>9. Remains /\ Ownership /\ Sayings
  BY <1>5 DEF Remains, Ownership, OneOwner, Sayings, FrozenGranted, GrantedSay, StartupSays,
      ReadySays, StartingSays
<1>10. OneProcess /\ OneJournal
  BY <1>5, <1>7 DEF OneProcess, OneJournal, Writers
<1>11. Undisturbing
  BY <1>4, Bounds DEF Undisturbing, CurrentUndisturbed, NewUndisturbed, CaptureUndisturbed,
      Tasks, st, tr, Launched
<1>12. ~Owning /\ tr.pc \notin Exchanging /\ st.pc \notin Exchanging /\ ~Routed
  BY <1>4, Bounds DEF Owning, Exchanging, Routed
<1>13. Barrier
  BY <1>4, <1>12 DEF Barrier, FrozenInExchange, AnswersPrecede, AnswersRead, CaptureRead,
      CaptureComes, CapturedIsFinal, Tasks, st, tr
<1>14. QED
  BY <1>6, <1>8, <1>9, <1>10, <1>11, <1>13 DEF SupervisorInv

LEMMA StillKeeps ==
  ASSUME SupervisorInv, UNCHANGED vars
  PROVE  SupervisorInv'
<1>1. UNCHANGED <<proc, out, seen, loopVars, task, countVars>>
  BY DEF vars, coreVars
<1>2. ProcTyped' /\ SeenTyped' /\ \A d \in Cores : SameSight(seen[d], seen'[d])
  BY <1>1 DEF SupervisorInv, Typed, ProcTyped, SeenTyped, SameSight
<1>3. QED
  BY <1>1, <1>2, KillKeeps

LEMMA StepKeeps ==
  ASSUME SupervisorInv, [Next]_vars, ~RecoverDuringStart
  PROVE  SupervisorInv'
BY ProcessKeeps, EofKeeps, ReapKeeps, TaskKeeps, LaunchStepKeeps, StartedStepKeeps, EventKeeps,
   NoticeExitKeeps, AfterCancelKeeps, LeaveKeeps, PressKeeps, StillKeeps
DEF Next, StartStep, LoopStep

(* Of two live processes one is a probe: until the second press of Ctrl+R   *)
(* the live ones that need the journal are at most one in every place of    *)
(* the transition.                                                          *)
LEMMA InvariantMeans ==
  ASSUME SupervisorInv
  PROVE  OneCoreInCharge /\ CapturedIsFinal /\ TypeOK
<1>1. OneOwner /\ CapturedIsFinal
  BY DEF SupervisorInv, Ownership, Barrier
<1>2. TypeOK
  BY DEF TypeOK, SupervisorInv, Typed, ProcTyped, OutTyped, SeenTyped, TaskTyped, LoopTyped,
      Procs, Sights, Sent, Stations
<1>3. tr.pc \in Places /\ st.pc \in Places
  BY DEF SupervisorInv, Typed, TaskTyped, Tasks, Stations, st, tr
<1>4. ASSUME presses < 2 PROVE \E c \in 0..MaxCores : Writers({c})
  <2>1. current \in 0..MaxCores /\ \A t \in Tasks : task[t].new \in 0..MaxCores
    BY DEF SupervisorInv, Typed, TaskTyped, LoopTyped, Stations
  <2>2. Writers({}) => Writers({current})
    BY DEF Writers
  <2>3. CASE st.pc \in {"booting", "done"}
    <3>1. tr.pc \in Keeping \cup Launched \cup Killing \cup {"killing"}
      BY <1>3 DEF Places, Exchanging, Recovering, Keeping, Unfrozen, Launched, Killing,
          SupervisorInv, Positions
    <3>2. QED
      BY <1>4, <2>1, <2>2, <2>3, <3>1 DEF SupervisorInv, OneJournal, Tasks, tr
  <2>4. CASE st.pc \notin {"booting", "done"}
    <3>1. st.pc \in Launched \cup Killing \cup {"launch", "killing"}
      BY <2>4 DEF SupervisorInv, Positions, Recovering, Launched, Killing
    <3>2. QED
      BY <1>4, <2>1, <2>2, <3>1 DEF SupervisorInv, OneJournal, Tasks, st
  <2>5. QED
    BY <2>3, <2>4
<1>5. presses < 2 => OneWriter
  BY <1>4 DEF Writers, OneWriter
<1>6. QED
  BY <1>1, <1>2, <1>5 DEF OneCoreInCharge

(* One core owns dispatch, and with it the journal: a live core that has    *)
(* been told to activate or to continue is the current one, and until       *)
(* Ctrl+R has been pressed twice no two live cores need the journal,        *)
(* whatever crashes, times out or is cancelled on the way (_drain,          *)
(* _recover, _resume and _stop_live_children of supervisor.py).  Ctrl+R is  *)
(* not pressed before the first core is ready.                              *)
THEOREM CoreInCharge ==
  ASSUME ~RecoverDuringStart
  PROVE  Spec => []OneCoreInCharge
<1>1. Init => SupervisorInv
  BY SupervisorStarts
<1>2. SupervisorInv /\ [Next]_vars => SupervisorInv'
  BY StepKeeps
<1>3. SupervisorInv => OneCoreInCharge
  BY InvariantMeans
<1>4. QED
  BY <1>1, <1>2, <1>3, PTL DEF Spec

(* What the replacement starts from is the last state of the old core, and  *)
(* no terminal input is routed while cores are exchanged (_drain with the   *)
(* input barrier, _restart_previous and _restore_state of supervisor.py).   *)
THEOREM CaptureFinal ==
  ASSUME ~RecoverDuringStart
  PROVE  Spec => []CapturedIsFinal
<1>1. Init => SupervisorInv
  BY SupervisorStarts
<1>2. SupervisorInv /\ [Next]_vars => SupervisorInv'
  BY StepKeeps
<1>3. SupervisorInv => CapturedIsFinal
  BY InvariantMeans
<1>4. QED
  BY <1>1, <1>2, <1>3, PTL DEF Spec

(* The types of the supervisor's records of its cores, of the processes     *)
(* and of the two tasks (class Supervisor and Core of supervisor.py).       *)
THEOREM SupervisorTyped ==
  ASSUME ~RecoverDuringStart
  PROVE  Spec => []TypeOK
<1>1. Init => SupervisorInv
  BY SupervisorStarts
<1>2. SupervisorInv /\ [Next]_vars => SupervisorInv'
  BY StepKeeps
<1>3. SupervisorInv => TypeOK
  BY InvariantMeans
<1>4. QED
  BY <1>1, <1>2, <1>3, PTL DEF Spec
=============================================================================

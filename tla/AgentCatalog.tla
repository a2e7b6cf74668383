----------------------------- MODULE AgentCatalog -----------------------------
(***************************************************************************)
(* plugins/subagents and plugins/workflows: a job of the main conversation     *)
(* delegates batches of tasks to children, each an AgentWorker of its own in    *)
(* the catalog.  A pool thread for each task creates the child and waits for    *)
(* it; it may outlive the job, the child may outlive both and be prompted by    *)
(* the user, a reload of the plugin hands the children to a new catalog, and    *)
(* close() has to stop and join every one of them.                             *)
(***************************************************************************)
EXTENDS Naturals, FiniteSets

CONSTANTS
  MaxChildren,     \* bound on delegated tasks: children are 1..MaxChildren
  MaxParallel,     \* max_parallel of the coordinator
  MaxReloads,      \* bound on reloads: catalogs are 0..MaxReloads
  Attended,        \* the children whose chat the user opens
  MaxPrompts       \* bound on prompts the user sends to children

AgentAssumption == MaxReloads \in Nat

Children == 1..MaxChildren
Catalogs == 0..MaxReloads

VARIABLES
  gen,          \* the catalog of the active plugin generation
  handoff,      \* a reload: "none", "exported", "restored"
  chats,        \* _chats of each catalog, the children only
  counted,      \* _active of each catalog
  shut,         \* catalogs that are closed
  closing,      \* close(): "no", "joining", "returned"
  batch, live,  \* the tasks of the running job's batch; it is not cancelled
  exec,         \* the pool thread of each task
  home,         \* the catalog its coordinator had when the batch began
  result,       \* what the thread returned
  phase,        \* the child's worker
  observer,     \* the catalog its on_activity reports to
  asked,        \* children whose worker was told to stop
  cancelled,    \* children whose task the user cancelled
  outcome,      \* what became of the delegated task
  prompts,
  missed        \* history: catalog and child whose report went to the old catalog

execVars  == <<batch, live, exec, home, result>>
childVars == <<phase, observer, asked, cancelled, outcome, prompts>>
catVars   == <<gen, handoff, chats, counted, shut, closing>>
vars == <<execVars, childVars, catVars, missed>>

Outcomes == {"completed", "cancelled", "failed"}
Busy     == {"running", "resolved", "left"}

TypeOK ==
  /\ gen \in Catalogs /\ handoff \in {"none", "exported", "restored"}
  /\ {chats, counted} \subseteq [Catalogs -> SUBSET Children]
  /\ shut \subseteq Catalogs /\ closing \in {"no", "joining", "returned"}
  /\ {batch, asked, cancelled} \subseteq SUBSET Children /\ live \in BOOLEAN
  /\ exec \in [Children -> {"none", "queued", "checked", "waiting", "ended"}]
  /\ {home, observer} \subseteq [Children -> Catalogs]
  /\ {result, outcome} \subseteq [Children -> {"none"} \cup Outcomes]
  /\ phase \in [Children -> {"none", "queued", "picked", "idle", "stopped"} \cup Busy]
  /\ prompts \in 0..MaxPrompts /\ missed \subseteq Catalogs \X Children

Init ==
  /\ gen = 0 /\ handoff = "none"
  /\ chats = [g \in Catalogs |-> {}] /\ counted = chats
  /\ shut = {} /\ closing = "no"
  /\ batch = {} /\ live = FALSE
  /\ exec = [c \in Children |-> "none"]
  /\ home = [c \in Children |-> 0] /\ observer = home
  /\ result = [c \in Children |-> "none"] /\ outcome = result
  /\ phase = [c \in Children |-> "none"]
  /\ asked = {} /\ cancelled = {}
  /\ prompts = 0 /\ missed = {}

(***************************************************************************)
(* The job that delegates.  It is an operation of the plugin runtime, so no  *)
(* reload and no close() overlaps it.                                        *)
(***************************************************************************)
StartBatch(n) ==
  LET fresh == {c \in Children : exec[c] = "none"}
      tasks == {c \in fresh : Cardinality({d \in fresh : d < c}) < n}
  IN /\ batch = {} /\ handoff = "none" /\ closing = "no"
     /\ n \in 1..Cardinality(fresh)
     /\ batch' = tasks /\ live' = TRUE
     /\ exec' = [c \in Children |-> IF c \in tasks THEN "queued" ELSE exec[c]]
     /\ home' = [c \in Children |-> IF c \in tasks THEN gen ELSE home[c]]
     /\ UNCHANGED <<result, childVars, catVars, missed>>

CancelJob ==
  /\ live
  /\ live' = FALSE
  /\ UNCHANGED <<batch, exec, home, result, childVars, catVars, missed>>

\* Every result is in, or the cancelled job raises: futures not started are
\* cancelled, the threads of the others are not waited for.
EndBatch ==
  /\ batch # {}
  /\ live => \A c \in batch : exec[c] = "ended"
  /\ exec' = [c \in Children |-> IF c \in batch /\ exec[c] = "queued" THEN "ended" ELSE exec[c]]
  /\ batch' = {} /\ live' = FALSE
  /\ UNCHANGED <<home, result, childVars, catVars, missed>>

(***************************************************************************)
(* _ChildExecution on its pool thread.                                      *)
(***************************************************************************)
\* The cancel check of a job raises once it is cancelled, and after it ended.
Valid(c)   == c \in batch /\ live
Working(c) == exec[c] \in {"checked", "waiting"}

End(c, r) ==
  /\ exec' = [exec EXCEPT ![c] = "ended"]
  /\ result' = [result EXCEPT ![c] = r]
  /\ UNCHANGED <<batch, live, home>>

Check(c) ==
  /\ exec[c] = "queued" /\ c \in batch
  /\ Cardinality({d \in batch : Working(d)}) < MaxParallel
  /\ \/ live /\ exec' = [exec EXCEPT ![c] = "checked"] /\ UNCHANGED <<batch, live, home, result>>
     \/ ~live /\ End(c, "none")
  /\ UNCHANGED <<childVars, catVars, missed>>

Register(c) ==
  /\ chats' = [chats EXCEPT ![home[c]] = @ \cup {c}]
  /\ phase' = [phase EXCEPT ![c] = "queued"]
  /\ observer' = [observer EXCEPT ![c] = home[c]]
  /\ exec' = [exec EXCEPT ![c] = "waiting"]
  /\ UNCHANGED <<batch, live, home, result, gen, handoff, counted, shut, closing,
                 asked, cancelled, outcome, prompts, missed>>

\* Planted error: create_child does not look whether the catalog is closed.
CreateChildUnchecked(c) == exec[c] = "checked" /\ Register(c)

\* create_child: the catalog's flag and its membership change under one lock.
CreateChild(c) == exec[c] = "checked" /\ home[c] \notin shut /\ Register(c)

\* A closed catalog refuses, and other errors may come before the job is
\* submitted: the failure is reported unless the job that asked is over.
CreateFails(c) ==
  /\ exec[c] = "checked"
  /\ End(c, IF Valid(c) THEN "failed" ELSE "none")
  /\ UNCHANGED <<childVars, catVars, missed>>

\* wait() checks for cancellation between polls; the child is not cancelled.
StopWaiting(c) ==
  /\ exec[c] = "waiting" /\ ~Valid(c)
  /\ End(c, "none")
  /\ UNCHANGED <<childVars, catVars, missed>>

\* The future is done, possibly just after a poll timed out, and possibly with
\* the TimeoutError of a provider: its own result is what is reported.
Report(c) ==
  /\ exec[c] = "waiting" /\ Valid(c) /\ outcome[c] # "none"
  /\ End(c, outcome[c])
  /\ UNCHANGED <<childVars, catVars, missed>>

\* A report that is too long fails instead.
RejectReport(c) ==
  /\ exec[c] = "waiting" /\ Valid(c) /\ outcome[c] = "completed"
  /\ End(c, "failed")
  /\ UNCHANGED <<childVars, catVars, missed>>

(***************************************************************************)
(* The worker of a child (AgentWorker in full).                             *)
(***************************************************************************)
Child(c, from, to) ==
  /\ phase[c] = from
  /\ phase' = [phase EXCEPT ![c] = to]
  /\ UNCHANGED <<execVars, asked, gen, handoff, chats, shut, closing>>

\* activity() of whichever catalog observes the child now.
Activity(c, active) ==
  /\ counted' = [counted EXCEPT ![observer[c]] = IF active THEN @ \cup {c} ELSE @ \ {c}]
  /\ missed' = (missed \ {<<observer[c], c>>})
               \cup (IF handoff = "restored" THEN {<<gen + 1, c>>} ELSE {})
  /\ UNCHANGED observer

\* The worker takes its job: it is active from here on.
Pick(c) ==
  /\ Child(c, "queued", "picked")
  /\ UNCHANGED <<observer, cancelled, outcome, prompts, counted, missed>>

Begin(c) ==
  /\ c \notin asked
  /\ Child(c, "picked", "running")
  /\ Activity(c, TRUE)
  /\ UNCHANGED <<cancelled, outcome, prompts>>

\* The completion is given for the delegated task only, not for prompts.
Outcome(c, o) ==
  outcome' = [outcome EXCEPT ![c] = IF outcome[c] = "none" THEN o ELSE outcome[c]]

\* A worker that is stopping cancels a job it has not begun.
Skip(c) ==
  /\ c \in asked
  /\ Child(c, "picked", "idle")
  /\ Outcome(c, "cancelled")
  /\ UNCHANGED <<observer, cancelled, prompts, counted, missed>>

Resolve(c, o) ==
  /\ o = "cancelled" => c \in cancelled \cup asked
  /\ Child(c, "running", "resolved")
  /\ Outcome(c, o)
  /\ UNCHANGED <<observer, cancelled, prompts, counted, missed>>

\* The job is forgotten first, then the observer is told.
Leave(c) ==
  /\ Child(c, "resolved", "left")
  /\ cancelled' = cancelled \ {c}
  /\ UNCHANGED <<observer, outcome, prompts, counted, missed>>

Settle(c) ==
  /\ Child(c, "left", "idle")
  /\ Activity(c, FALSE)
  /\ UNCHANGED <<cancelled, outcome, prompts>>

Exit(c) ==
  /\ c \in asked
  /\ Child(c, "idle", "stopped")
  /\ UNCHANGED <<observer, cancelled, outcome, prompts, counted, missed>>

\* The user opens a child's chat: another prompt, or a cancellation.
Prompt(c) ==
  /\ c \in Attended /\ c \notin asked /\ c \in chats[gen] /\ prompts < MaxPrompts
  /\ prompts' = prompts + 1
  /\ Child(c, "idle", "queued")
  /\ UNCHANGED <<observer, cancelled, outcome, counted, missed>>

CancelChild(c) ==
  /\ c \in Attended /\ c \in chats[gen] /\ phase[c] \in {"queued", "picked", "running"} /\ c \notin cancelled
  /\ cancelled' = cancelled \cup {c}
  /\ UNCHANGED <<execVars, phase, observer, asked, outcome, prompts, catVars, missed>>

(***************************************************************************)
(* A reload of the plugin, between operations.                              *)
(***************************************************************************)
\* export() copies the membership ...
Export ==
  /\ handoff = "none" /\ batch = {} /\ closing = "no" /\ gen < MaxReloads
  /\ handoff' = "exported"
  /\ chats' = [chats EXCEPT ![gen + 1] = chats[gen]]
  /\ UNCHANGED <<execVars, childVars, gen, counted, shut, closing, missed>>

\* ... and restore() counts the children that have an active job.
Restore ==
  /\ handoff = "exported"
  /\ handoff' = "restored"
  /\ counted' = [counted EXCEPT ![gen + 1] =
                   {c \in chats[gen + 1] : phase[c] \in {"picked", "running", "resolved"}}]
  /\ missed' = missed \ ({gen + 1} \X Children)
  /\ UNCHANGED <<execVars, childVars, gen, chats, shut, closing>>

\* Planted error: the workers keep the observer they have.
ReconfigureKept ==
  /\ handoff = "restored"
  /\ handoff' = "none" /\ gen' = gen + 1
  /\ UNCHANGED <<execVars, childVars, chats, counted, shut, closing, missed>>

\* The generation is active: its observers replace the old ones.
Reconfigure ==
  /\ handoff = "restored"
  /\ handoff' = "none" /\ gen' = gen + 1
  /\ observer' = [c \in Children |-> IF c \in chats[gen'] THEN gen' ELSE observer[c]]
  /\ UNCHANGED <<execVars, phase, asked, cancelled, outcome, prompts, chats, counted,
                 shut, closing, missed>>

\* The new generation is rejected: the old catalog was never changed.
Reject ==
  /\ handoff # "none"
  /\ handoff' = "none"
  /\ chats' = [chats EXCEPT ![gen + 1] = {}]
  /\ counted' = [counted EXCEPT ![gen + 1] = {}]
  /\ UNCHANGED <<execVars, childVars, gen, shut, closing, missed>>

(***************************************************************************)
(* close().                                                                 *)
(***************************************************************************)
\* The flag is set and the children are listed under the lock, then stopped ...
Close ==
  /\ closing = "no" /\ handoff = "none" /\ batch = {}
  /\ closing' = "joining" /\ shut' = shut \cup {gen}
  /\ asked' = asked \cup chats[gen]
  /\ UNCHANGED <<execVars, phase, observer, cancelled, outcome, prompts, gen, handoff,
                 chats, counted, missed>>

\* ... and joined one by one; a join that fails does not keep the others.
Joined ==
  /\ closing = "joining"
  /\ \A c \in asked : phase[c] = "stopped"
  /\ closing' = "returned"
  /\ UNCHANGED <<execVars, childVars, gen, handoff, chats, counted, shut, missed>>

Next ==
  \/ \E n \in 1..MaxChildren : StartBatch(n)
  \/ CancelJob \/ EndBatch
  \/ \E c \in Children :
       \/ Check(c) \/ CreateChild(c) \/ CreateFails(c)
       \/ StopWaiting(c) \/ Report(c) \/ RejectReport(c)
       \/ Pick(c) \/ Begin(c) \/ Skip(c) \/ Leave(c) \/ Settle(c) \/ Exit(c)
       \/ Prompt(c) \/ CancelChild(c)
       \/ \E o \in Outcomes : Resolve(c, o)
  \/ Export \/ Restore \/ Reconfigure \/ Reject \/ Close \/ Joined

Spec == Init /\ [][Next]_vars

(***************************************************************************)
(* Properties.                                                              *)
(***************************************************************************)
\* When close() returns no child of the catalog is alive, whatever the pool
\* threads of cancelled jobs are about to do, and every task it was given has an
\* outcome.  Known limit: a thread that outlived its job may still create a
\* child in a catalog that a reload has copied; that child is in no catalog
\* anybody closes.
Strays == {c \in Children : phase[c] # "none" /\ c \notin chats[gen]}

ChildrenStop ==
  closing = "returned" =>
    \A c \in Children \ Strays :
      phase[c] # "none" => phase[c] = "stopped" /\ outcome[c] # "none"

\* The number of running children shown to the user is right for every child of
\* the active catalog, across reloads.  Known limit: a child that begins or ends
\* its job after restore() has counted reports it to the catalog being replaced.
CountIsCurrent ==
  handoff = "none" /\ closing = "no" =>
    \A c \in {d \in chats[gen] : <<gen, d>> \notin missed} :
      /\ phase[c] \in {"running", "resolved"} => c \in counted[gen]
      /\ phase[c] \in {"none", "queued", "idle", "stopped"} => c \notin counted[gen]
==============================================================================

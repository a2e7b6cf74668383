-------------------------- MODULE PackageTransaction --------------------------
(***************************************************************************)
(* raychat/plugin_manager.py: installs, removals and switches of packages in *)
(* one scope that several processes share.  A process plans a change from     *)
(* the receipt it cached, and its plugin runtime calls the hooks of the plan  *)
(* between operations as ReloadService promises: prepare, then commit if the   *)
(* new generation is active or rollback if it is not, or rollback alone if the *)
(* operation that asked for the change failed.  One action is one effect on    *)
(* the file system, so that a crash may come between any two.                  *)
(***************************************************************************)
EXTENDS Naturals, FiniteSets

CONSTANTS
  Processes, Packages,
  NoProcess,        \* no process: the owner of a plan that is not made
  Preinstalled,     \* packages in the first receipt
  MaxVersion,       \* releases of a package are 1..MaxVersion
  MaxPlans,         \* bound on changes: plans are 1..MaxPlans
  MaxCrashes        \* bound on processes that die

PackageAssumption ==
  /\ NoProcess \notin Processes
  /\ Preinstalled \subseteq Packages
  /\ MaxVersion \in Nat \ {0} /\ {MaxPlans, MaxCrashes} \subseteq Nat

Versions == 1..MaxVersion
Missing  == 0
Plans    == 1..MaxPlans
NoPlan   == 0

\* plugins.lock.json: the installed release of each package, what the operator
\* disabled, and its catalogs and profiles, which are one mark here.
Receipts == [packages : [Packages -> Versions \cup {Missing}],
             disabled : SUBSET Packages, marked : BOOLEAN]

FirstReceipt ==
  [packages |-> [p \in Packages |-> IF p \in Preinstalled THEN 1 ELSE Missing],
   disabled |-> {}, marked |-> FALSE]

\* The phases of a plan; from "locked" on it holds the scope lock.
Held   == {"locked", "aside", "placed", "recorded", "restored"}
Phases == {"free", "queued", "done"} \cup Held

VARIABLES
  receipt,     \* the receipt on disk
  tree,        \* the installed directory of each package
  backup,      \* the directory a plan has renamed, while it is needed
  lock,        \* the plan whose process holds plugins.mutex
  cache,       \* _states of each process
  alive,       \* the processes that run
  plan,
  crashes,
  stale,       \* history: a receipt was written that came from an old cache
  torn         \* history: a process died between renaming directories and the receipt

vars == <<receipt, tree, backup, lock, cache, alive, plan, crashes, stale, torn>>

NoChange == [proc |-> NoProcess, kind |-> "none",
             package |-> CHOOSE p \in Packages : TRUE, version |-> Missing,
             before |-> FirstReceipt, state |-> FirstReceipt, known |-> FALSE,
             fresh |-> FALSE, source |-> Missing, phase |-> "free"]
Ended == [NoChange EXCEPT !.phase = "done"]

TypeOK ==
  /\ receipt \in Receipts
  /\ tree \in [Packages -> Versions \cup {Missing}]
  /\ backup \in [Plans -> Versions \cup {Missing}]
  /\ lock \in Plans \cup {NoPlan}
  /\ cache \in [Processes -> Receipts]
  /\ alive \subseteq Processes
  /\ \A k \in Plans : plan[k].phase \in Phases /\ plan[k].state \in Receipts
  /\ crashes \in 0..MaxCrashes
  /\ {stale, torn} \subseteq BOOLEAN

Init ==
  /\ receipt = FirstReceipt
  /\ tree = receipt.packages
  /\ backup = [k \in Plans |-> Missing]
  /\ lock = NoPlan
  /\ cache = [p \in Processes |-> FirstReceipt]
  /\ alive = Processes
  /\ plan = [k \in Plans |-> NoChange]
  /\ crashes = 0
  /\ stale = FALSE /\ torn = FALSE

fileVars == <<receipt, tree, backup>>
histVars == <<crashes, stale, torn>>

(***************************************************************************)
(* Planning: nothing is written yet.                                        *)
(***************************************************************************)
\* paths() reads the manifest of every package the process knows of.
PathsReadable(p) ==
  \A q \in Packages : cache[p].packages[q] # Missing => tree[q] # Missing

Installing(state, q, v) ==
  [state EXCEPT !.packages[q] = v, !.disabled = @ \ {q}]
Removing(state, q) ==
  [state EXCEPT !.packages[q] = Missing, !.disabled = @ \cup {q}]
Switching(state, q, enabled) ==
  [state EXCEPT !.disabled = IF enabled THEN @ \ {q} ELSE @ \cup {q}]

\* A change is planned from what the process cached; the receipt it will be
\* compared with is read now, and so is the source it replaces.
Planned(k, p, kind, q, v, state) ==
  /\ p \in alive
  /\ plan[k].phase = "free"
  /\ \A i \in Plans : i < k => plan[i].phase # "free"
  /\ plan' = [plan EXCEPT ![k] =
       [proc |-> p, kind |-> kind, package |-> q, version |-> v,
        before |-> receipt, state |-> state,
        known |-> cache[p].packages[q] # Missing, fresh |-> cache[p] = receipt,
        source |-> tree[q], phase |-> "queued"]]
  /\ UNCHANGED <<fileVars, lock, cache, alive, histVars>>

Install(k, p, q, v) ==
  /\ PathsReadable(p)
  /\ Planned(k, p, "install", q, v, Installing(cache[p], q, v))

\* update() resolves the source of an installed release again.
Update(k, p, q, v) ==
  /\ cache[p].packages[q] # Missing
  /\ Install(k, p, q, v)

Uninstall(k, p, q) ==
  /\ cache[p].packages[q] # Missing
  /\ Planned(k, p, "remove", q, Missing, Removing(cache[p], q))

\* set_enabled() starts from the receipt it reads, not from the cached one.
SetEnabled(k, p, q, enabled) ==
  /\ PathsReadable(p)
  /\ cache[p].packages[q] # Missing
  /\ Planned(k, p, "switch", q, Missing, Switching(receipt, q, enabled))

(***************************************************************************)
(* The hooks.                                                               *)
(***************************************************************************)
To(k, phase) == plan' = [plan EXCEPT ![k].phase = phase]
End(k)       == plan' = [plan EXCEPT ![k] = Ended]

SourceUnchanged(k) ==
  plan[k].kind = "install" /\ plan[k].known => tree[plan[k].package] = plan[k].source

\* Planted error: the receipt is not compared with the one planned from.
PrepareUnchecked(k) ==
  /\ plan[k].phase = "queued"
  /\ lock = NoPlan
  /\ SourceUnchanged(k)
  /\ lock' = k
  /\ plan' = [plan EXCEPT ![k].phase = "locked", ![k].source = tree[plan[k].package]]
  /\ UNCHANGED <<fileVars, cache, alive, histVars>>

\* The lock does not wait; the receipt and the replaced source must be as they
\* were when the change was planned.
PrepareLocked(k) ==
  /\ plan[k].phase = "queued"
  /\ lock = NoPlan
  /\ receipt = plan[k].before
  /\ SourceUnchanged(k)
  /\ lock' = k
  /\ plan' = [plan EXCEPT ![k].phase = "locked", ![k].source = tree[plan[k].package]]
  /\ UNCHANGED <<fileVars, cache, alive, histVars>>

PrepareRefused(k) ==
  /\ plan[k].phase = "queued"
  /\ lock # NoPlan \/ receipt # plan[k].before \/ ~SourceUnchanged(k)
  /\ End(k)
  /\ UNCHANGED <<fileVars, lock, cache, alive, histVars>>

\* _write_transaction_files: the installed directory is renamed, ...
MoveAside(k) ==
  LET q == plan[k].package IN
  /\ plan[k].phase = "locked" /\ plan[k].kind = "install"
  /\ backup' = [backup EXCEPT ![k] = tree[q]]
  /\ tree' = [tree EXCEPT ![q] = Missing]
  /\ To(k, "aside")
  /\ UNCHANGED <<receipt, lock, cache, alive, histVars>>

\* ... and a complete copy of the staged one takes its name.
Place(k) ==
  /\ plan[k].phase = "aside"
  /\ tree' = [tree EXCEPT ![plan[k].package] = plan[k].version]
  /\ To(k, "placed")
  /\ UNCHANGED <<receipt, backup, lock, cache, alive, histVars>>

Record(k) ==
  /\ plan[k].phase = IF plan[k].kind = "install" THEN "placed" ELSE "locked"
  /\ receipt' = plan[k].state
  /\ stale' = (stale \/ (plan[k].kind # "switch" /\ ~plan[k].fresh))
  /\ To(k, "recorded")
  /\ UNCHANGED <<tree, backup, lock, cache, alive, crashes, torn>>

\* commit: the new state is cached, backup and removed directory are deleted.
Commit(k) ==
  LET q == plan[k].package IN
  /\ plan[k].phase = "recorded"
  /\ cache' = [cache EXCEPT ![plan[k].proc] = plan[k].state]
  /\ backup' = [backup EXCEPT ![k] = Missing]
  /\ tree' = IF plan[k].kind = "remove" /\ plan[k].before.packages[q] # Missing
             THEN [tree EXCEPT ![q] = Missing] ELSE tree
  /\ lock' = NoPlan
  /\ End(k)
  /\ UNCHANGED <<receipt, alive, histVars>>

\* The operation failed, or the runtime closed, before the plan was prepared.
Abandon(k) ==
  /\ plan[k].phase = "queued"
  /\ End(k)
  /\ UNCHANGED <<fileVars, lock, cache, alive, histVars>>

\* rollback: a step of prepare raised or the generation was rejected.  The
\* directories go back first, ...
Restore(k) ==
  LET q == plan[k].package IN
  /\ plan[k].phase \in Held \ {"restored"}
  /\ tree' = IF plan[k].phase \in {"aside", "placed", "recorded"} /\ plan[k].kind = "install"
             THEN [tree EXCEPT ![q] = backup[k]] ELSE tree
  /\ backup' = [backup EXCEPT ![k] = Missing]
  /\ To(k, "restored")
  /\ UNCHANGED <<receipt, lock, cache, alive, histVars>>

\* Planted error: the lock is released before the receipt is put back.
UnrecordNothing(k) ==
  /\ plan[k].phase = "restored"
  /\ lock' = NoPlan
  /\ End(k)
  /\ UNCHANGED <<receipt, tree, backup, cache, alive, histVars>>

\* ... then the receipt, if it is this plan's.
Unrecord(k) ==
  /\ plan[k].phase = "restored"
  /\ receipt' = IF receipt = plan[k].state THEN plan[k].before ELSE receipt
  /\ lock' = NoPlan
  /\ End(k)
  /\ UNCHANGED <<tree, backup, cache, alive, histVars>>

(***************************************************************************)
(* Other writers of the receipt, and processes that die and start again.    *)
(***************************************************************************)
Catalog(p) ==
  /\ p \in alive /\ lock = NoPlan
  /\ receipt = cache[p]
  /\ receipt' = [receipt EXCEPT !.marked = ~@]
  /\ cache' = [cache EXCEPT ![p] = receipt']
  /\ UNCHANGED <<tree, backup, lock, alive, plan, histVars>>

\* The operating system releases the lock of a dead process.
Crash(p) ==
  /\ p \in alive /\ crashes < MaxCrashes
  /\ crashes' = crashes + 1
  /\ alive' = alive \ {p}
  /\ plan' = [k \in Plans |-> IF plan[k].proc = p /\ plan[k].phase \notin {"free", "done"}
                              THEN Ended ELSE plan[k]]
  /\ lock' = IF lock # NoPlan /\ plan[lock].proc = p THEN NoPlan ELSE lock
  /\ torn' = (torn \/ \E k \in Plans : plan[k].proc = p /\ plan[k].phase \in {"aside", "placed", "restored"})
  /\ UNCHANGED <<fileVars, cache, stale>>

\* A process reads the receipt once; with a startup profile it takes the lock
\* to add the profile's mark, and does not start if the lock is taken.
Start(p, profile) ==
  /\ p \notin alive
  /\ profile => lock = NoPlan
  /\ alive' = alive \cup {p}
  /\ receipt' = IF profile THEN [receipt EXCEPT !.marked = TRUE] ELSE receipt
  /\ cache' = [cache EXCEPT ![p] = receipt']
  /\ UNCHANGED <<tree, backup, lock, plan, histVars>>

Next ==
  \/ \E k \in Plans :
       \/ PrepareLocked(k) \/ PrepareRefused(k) \/ MoveAside(k) \/ Place(k)
       \/ Record(k) \/ Commit(k) \/ Abandon(k) \/ Restore(k) \/ Unrecord(k)
       \/ \E p \in Processes, q \in Packages :
            \/ \E v \in Versions : Install(k, p, q, v) \/ Update(k, p, q, v)
            \/ Uninstall(k, p, q)
            \/ \E enabled \in BOOLEAN : SetEnabled(k, p, q, enabled)
  \/ \E p \in Processes :
       Catalog(p) \/ Crash(p) \/ \E profile \in BOOLEAN : Start(p, profile)

Spec == Init /\ [][Next]_vars

(***************************************************************************)
(* Properties.                                                              *)
(***************************************************************************)
\* With no transaction under way, every package in the receipt is installed in
\* the release it names, unless a process died inside a transaction or wrote a
\* receipt it had planned from an old cache: these two are known limits.
InstalledTreesExist ==
  lock = NoPlan /\ ~torn /\ ~stale =>
    \A q \in Packages :
      receipt.packages[q] # Missing => tree[q] = receipt.packages[q]

\* Whoever holds the lock is alone: a transaction ends with its own receipt
\* and its release in place, or with everything as it was.
EndsWhole ==
  \A k \in Plans :
    plan[k].phase \in Held /\ plan'[k].phase = "done" /\ alive' = alive =>
      LET q == plan[k].package IN
      \/ /\ receipt' = plan[k].state
         /\ plan[k].kind = "install" => tree'[q] = plan[k].version
      \/ /\ receipt' = plan[k].before
         /\ tree'[q] = plan[k].source
         /\ cache' = cache
==============================================================================

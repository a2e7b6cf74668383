---------------------------- MODULE ReloadService ----------------------------
(* What the plugin runtime promises to those who call operation() and        *)
(* update_plugins(): operations run in one generation each, a requested       *)
(* update is activated only while no operation runs, it ends at most once, by  *)
(* its commit or by its rollback, and nothing is activated after close().      *)
(* A request may be left without an end only by a callback that raises.        *)
EXTENDS Naturals

CONSTANTS Threads, Requests

VARIABLES
  running,   \* the threads that are inside an operation
  gen,       \* how many generations have been activated
  ended,     \* what became of each request: "none", "asked" or its end
  shut       \* the runtime is closed

promise == <<running, gen, ended, shut>>

PromiseInit ==
  /\ running = {}
  /\ gen = 0
  /\ ended = [r \in Requests |-> "none"]
  /\ shut = FALSE

Start(t) ==
  /\ ~shut
  /\ t \notin running
  /\ running' = running \cup {t}
  /\ (gen' = gen) \/ (running = {} /\ gen' = gen + 1)
  /\ UNCHANGED <<ended, shut>>

\* Changed sources are activated while, or just before, nobody is at work.
Refresh ==
  /\ ~shut
  /\ running = {}
  /\ gen' = gen + 1
  /\ UNCHANGED <<running, ended, shut>>

Leave(t) ==
  /\ t \in running
  /\ running' = running \ {t}
  /\ UNCHANGED <<gen, ended, shut>>

Ask(r) ==
  /\ ended[r] = "none"
  /\ ended' = [ended EXCEPT ![r] = "asked"]
  /\ UNCHANGED <<running, gen, shut>>

Asked(rs) == \A r \in rs : ended[r] = "asked"

\* The requests of a failed operation are rolled back together.
Reject(rs) ==
  /\ rs # {} /\ Asked(rs)
  /\ ended' = [r \in Requests |-> IF r \in rs THEN "rollback" ELSE ended[r]]
  /\ UNCHANGED <<running, gen, shut>>

\* The new generation takes over, and then the request is committed.
Activate(r) ==
  /\ ~shut
  /\ running = {}
  /\ ended[r] = "asked"
  /\ gen' = gen + 1
  /\ ended' = [ended EXCEPT ![r] = "active"]
  /\ UNCHANGED <<running, shut>>

Commit(r) ==
  /\ ended[r] = "active"
  /\ ended' = [ended EXCEPT ![r] = "commit"]
  /\ UNCHANGED <<running, gen, shut>>

\* A callback raised while updates were being applied.
Drop(rs) ==
  /\ running = {}
  /\ rs # {} /\ \A r \in rs : ended[r] \in {"asked", "active"}
  /\ ended' = [r \in Requests |-> IF r \in rs THEN "dropped" ELSE ended[r]]
  /\ UNCHANGED <<running, gen, shut>>

\* The last operation may be the one that closes the runtime.
Shutdown ==
  /\ ~shut
  /\ \E t \in Threads : running \subseteq {t}
  /\ running' = {}
  /\ shut' = TRUE
  /\ ended' = [r \in Requests |-> IF ended[r] = "asked" THEN "rollback" ELSE ended[r]]
  /\ UNCHANGED gen

PromiseNext ==
  \/ Refresh \/ Shutdown
  \/ \E t \in Threads : Start(t) \/ Leave(t)
  \/ \E r \in Requests : Ask(r) \/ Activate(r) \/ Commit(r)
  \/ \E rs \in SUBSET Requests : Reject(rs) \/ Drop(rs)

PromiseSpec == PromiseInit /\ [][PromiseNext]_promise
==============================================================================

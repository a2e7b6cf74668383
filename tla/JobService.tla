----------------------------- MODULE JobService -----------------------------
(***************************************************************************)
(* What one conversation worker promises its clients, whatever threads,    *)
(* queues and locks stand behind it: jobs are taken one at a time in the   *)
(* order they were accepted, each one ends exactly once, and once the      *)
(* service is closing it accepts nothing and begins nothing.  AgentWorker  *)
(* implements it.                                                          *)
(***************************************************************************)
EXTENDS Naturals

CONSTANT MaxJobs      \* jobs are numbered 1..MaxJobs in the order of acceptance

VARIABLES
    status,           \* status[j]: where job j stands
    closing           \* whether the service has been told to stop

vars == <<status, closing>>

Jobs     == 1..MaxJobs
Endings  == {"completed", "cancelled", "error"}
Statuses == {"new", "queued", "running"} \cup Endings

TypeOK ==
    /\ status \in [Jobs -> Statuses]
    /\ closing \in BOOLEAN

(* Every job accepted before j has ended. *)
AllBeforeEnded(j) == \A i \in Jobs : i < j => status[i] \in Endings

Init ==
    /\ status = [j \in Jobs |-> "new"]
    /\ closing = FALSE

Accept(j) ==
    /\ ~closing
    /\ status[j] = "new"
    /\ \A i \in Jobs : i < j => status[i] # "new"
    /\ status' = [status EXCEPT ![j] = "queued"]
    /\ UNCHANGED closing

Begin(j) ==
    /\ ~closing
    /\ status[j] = "queued"
    /\ AllBeforeEnded(j)
    /\ status' = [status EXCEPT ![j] = "running"]
    /\ UNCHANGED closing

End(j, ending) ==
    /\ status[j] = "running"
    /\ status' = [status EXCEPT ![j] = ending]
    /\ UNCHANGED closing

(* A job still queued when the service closes is cancelled without running. *)
Drop(j) ==
    /\ closing
    /\ status[j] = "queued"
    /\ AllBeforeEnded(j)
    /\ status' = [status EXCEPT ![j] = "cancelled"]
    /\ UNCHANGED closing

Close ==
    /\ ~closing
    /\ closing' = TRUE
    /\ UNCHANGED status

Next ==
    \/ \E j \in Jobs : Accept(j) \/ Begin(j) \/ Drop(j)
    \/ \E j \in Jobs, ending \in Endings : End(j, ending)
    \/ Close

Spec == Init /\ [][Next]_vars
=============================================================================

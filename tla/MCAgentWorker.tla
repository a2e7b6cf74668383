--------------------------- MODULE MCAgentWorker ---------------------------
(* AgentWorker on a small instance: one client against the owning thread.   *)
(* Its safety for any number of clients is proved in AgentWorkerProofs.     *)
EXTENDS AgentWorker
=============================================================================

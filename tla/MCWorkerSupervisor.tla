------------------------- MODULE MCWorkerSupervisor -------------------------
(* WorkerSupervisor with two of the three subsystems RunWorker starts: enough *)
(* for two of them to compete for the one place in the error channel.         *)
EXTENDS WorkerSupervisor

WorkerSubsystems == {"transfer_consumer", "webhook_worker"}
BrokerConsumers == {"transfer_consumer"}
=============================================================================

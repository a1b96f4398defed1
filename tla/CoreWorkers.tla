---------------------------- MODULE CoreWorkers ----------------------------
(* The RPC workers of one core process, see CoreRequests. *)
EXTENDS Naturals
CONSTANTS Workers, NoWorker
ASSUME WorkersAssumption == NoWorker \notin Workers
=============================================================================

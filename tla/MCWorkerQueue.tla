--------------------------- MODULE MCWorkerQueue ---------------------------
(***************************************************************************)
(* A finite instance of WorkerQueue for TLC. It has no symmetry: the same  *)
(* run checks safety and liveness.                                         *)
(***************************************************************************)
EXTENDS WorkerQueue, TLC

=============================================================================

---------------------------- MODULE MCCommandWorker ----------------------------
(*****************************************************************************)
(* Instances of CommandWorker for TLC.                                       *)
(*****************************************************************************)
EXTENDS CommandWorker

CONSTANTS a1, a2, w

\* A listing and the creation of a snapshot.
CommandsMC == {1, 4}
=============================================================================

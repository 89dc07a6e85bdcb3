---------------------------- MODULE MCLockFile ----------------------------
(* LockFile on a small instance, with the assumptions of its proofs.       *)
EXTENDS LockFileProofs
=============================================================================

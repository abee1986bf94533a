---------------------------- MODULE MCOwnership ----------------------------
(* PathOwnership with a few processes and stores, for TLC.                 *)
EXTENDS OwnershipProperties
=============================================================================

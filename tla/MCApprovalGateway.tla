-------------------------- MODULE MCApprovalGateway --------------------------
(* A connection with one or two actions, and a turn queue and an early map of *)
(* one place each, so that both overflow.                                     *)
EXTENDS ApprovalGateway
=============================================================================

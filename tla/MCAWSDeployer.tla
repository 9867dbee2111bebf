---------------------------- MODULE MCAWSDeployer ----------------------------
(***************************************************************************)
(* AWSDeployer as it is: its state space is finite and small.              *)
(***************************************************************************)
EXTENDS AWSDeployer
=============================================================================

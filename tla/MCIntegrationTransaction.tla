----------------------- MODULE MCIntegrationTransaction -----------------------
(***************************************************************************)
(* Instances of IntegrationTransaction for TLC: waves of two or three       *)
(* patches, with or without a file of the user's beside them.               *)
(***************************************************************************)
EXTENDS IntegrationTransaction
=============================================================================

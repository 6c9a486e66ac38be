---------------------------- MODULE MCGptUpdate ----------------------------
(* The constants are given in the configuration: three LUNs, so that crashes  *)
(* can leave them in three different stages.                                  *)
EXTENDS GptUpdate
=============================================================================

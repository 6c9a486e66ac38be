------------------------------ MODULE MCMsgTask ------------------------------
(* Messages enough for a list of several elements, a send while the thread   *)
(* waits, one while it is woken, and one after the task is interrupted.      *)
EXTENDS MsgTask
=============================================================================

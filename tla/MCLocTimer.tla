----------------------------- MODULE MCLocTimer -----------------------------
(* Two clients and three starts: a timer can be stopped, expire, or be       *)
(* restarted while another one is ahead of it.                               *)
EXTENDS LocTimer
MCClients == {"c1", "c2"}
MCDelays  == {1, 2}
=============================================================================

------------------------------ MODULE MCGnssNi ------------------------------
(* One client and three requests: one in each session and one that follows. *)
EXTENDS GnssNi
=============================================================================

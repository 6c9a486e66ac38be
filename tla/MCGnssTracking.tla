-------------------------- MODULE MCGnssTracking --------------------------
(* Options that differ in interval, in power and in kind.                  *)
EXTENDS GnssTracking

MCOptions ==
  {[interval |-> 2, power |-> 1, quality |-> 0, distance |-> FALSE],
   [interval |-> 1, power |-> 2, quality |-> 0, distance |-> FALSE],
   [interval |-> 2, power |-> 2, quality |-> 0, distance |-> TRUE]}
=============================================================================

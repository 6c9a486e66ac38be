----------------------------- MODULE MCBatching -----------------------------
(* Two kinds of routine session and two trips, one nearer, one more often.  *)
EXTENDS Batching

MCOptions ==
  {[mode |-> "routine", distance |-> 1, interval |-> 1],
   [mode |-> "noauto", distance |-> 1, interval |-> 1],
   [mode |-> "trip", distance |-> 3, interval |-> 1],
   [mode |-> "trip", distance |-> 1, interval |-> 2]}

MCSymmetry == Permutations(Clients)
=============================================================================

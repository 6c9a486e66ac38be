----------------------------- MODULE MCGeofence -----------------------------
(* Clients of GNSS and geofences, which may also give up their callbacks     *)
(* for geofences.  Batching is not installed.                                *)
EXTENDS Geofence, TLC

MCCallbacks == {{"gnss", "geofence"}, {"gnss"}}

MCSymmetry == Permutations(Clients) \cup Permutations(HwIds) \cup Permutations(Options)
=============================================================================

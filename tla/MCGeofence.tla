----------------------------- MODULE MCGeofence -----------------------------
(* Small instances of Geofence for TLC: a street of three places, a fence  *)
(* at each end that reaches the middle, a smaller one round the first end  *)
(* and a waypoint without a radius.                                        *)
EXTENDS Geofence

CONSTANTS p1, p2, p3, f1, f2, f3, f4, c1, c2

MCCentre == [f \in Fences |-> IF f \in {f1, f3} THEN c1 ELSE c2]
MCArea   == [f \in Fences |-> CASE f = f1 -> {p1, p2}
                                [] f = f2 -> {p2, p3}
                                [] f = f3 -> {p1}
                                [] f = f4 -> {}]
=============================================================================

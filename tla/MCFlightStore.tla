--------------------------- MODULE MCFlightStore ---------------------------
(* Instances of FlightStore for TLC. *)
EXTENDS FlightStore, TLC

CONSTANTS a1, a2

TwoAircraft == {a1, a2}

AircraftSymmetry == Permutations(TwoAircraft)
=============================================================================

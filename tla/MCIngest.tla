------------------------------ MODULE MCIngest ------------------------------
(* Instances of Ingest for TLC. *)
EXTENDS Ingest, TLC

CONSTANTS a1, a2, altitude, callsign

Line(k, a, fs) == [kind |-> k, aircraft |-> a, fields |-> fs]

TwoAircraft == {a1, a2}
TwoFields == {altitude, callsign}

(* MSG,1 of a1, MSG,3 of both, an untimed MSG,3 and a line that is no MSG. *)
MCLines ==
  {Line("timed", a1, {callsign}), Line("timed", a1, {altitude}),
   Line("timed", a2, {altitude}), Line("untimed", a1, {altitude}),
   Line("noise", a1, {})}
=============================================================================

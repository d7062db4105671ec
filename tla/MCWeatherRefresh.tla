-------------------------- MODULE MCWeatherRefresh --------------------------
(* Instances of WeatherRefresh for TLC. *)
EXTENDS WeatherRefresh, TLC

MCRetryAfters == {0, 3}
=============================================================================

------------------------- MODULE MCWeatherDelivery --------------------------
(* Instances of WeatherDelivery for TLC. *)
EXTENDS WeatherDelivery

\* Two snapshots of one model hour: the second is a refetch.
MCHours == <<1, 1>>
=============================================================================

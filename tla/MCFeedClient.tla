---------------------------- MODULE MCFeedClient ----------------------------
(* Instances of FeedClient for TLC. *)
EXTENDS FeedClient

MCMqttFile == <<"mqtt", "file">>
MCPulsarMqtt == <<"pulsar", "mqtt">>
MCPulsar == <<"pulsar">>
=============================================================================

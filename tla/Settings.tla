------------------------------ MODULE Settings ------------------------------
(***************************************************************************)
(* How the three services get their settings: the feed client              *)
(* (adsb-pulsar-client), the recorder (adsb-data-server) and the weather   *)
(* service (adsb-weather-server) layer defaults < TOML file < environment  *)
(* < flags, each with an overlay of its own, and derive from the result    *)
(* the topics they meet on.                                                *)
(*                                                                         *)
(* A service is a table of fields: the default, whether the environment    *)
(* can set it, and how the overlay converts a value of the file ("none":   *)
(* the overlay does not know the field).  A value of a file is a pair of   *)
(* its TOML type and the value; the environment and the flags are parsed   *)
(* by clap, which ends the process on a value it cannot parse.             *)
(***************************************************************************)
EXTENDS Integers, Sequences, Listing, SequencesExt

CONSTANT Unset      (* a field without a value (Option::None)              *)

Kinds == {"pulsar", "mqtt", "file", "noop"}

ASSUME SettingsAssumption == Unset \notin Int /\ Unset \notin Seq(Int) /\ Unset \notin Seq(Kinds)

Field(default, env, conversion) == [default |-> default, env |-> env, file |-> conversion]

\* A table of the fields of both.
Joined(t, u) == [f \in DOMAIN t \cup DOMAIN u |-> IF f \in DOMAIN t THEN t[f] ELSE u[f]]

\* The larger defaults, and the texts that are none or have no letters.
NoText == ""
Heartbeats == ",000000,"
SbsPort == 30003
BrokerPort == 1883
RecorderPort == 8787
WeatherPort == 8789
ReceiveBuffer == 65536
RetryQueue == 100000
LineBuffer == 10000000
Hour == 3600000
PressureLevels == <<850, 700, 500, 300, 250, 200>>

-----------------------------------------------------------------------------
(* The feed client.                                                        *)

SourceFields ==
  [source_kind |-> Field("socket", TRUE, "none"),
   source_id |-> Field("kraspberryPi", TRUE, "string"),
   socket_host |-> Field("10.0.0.200", TRUE, "string"),
   socket_port |-> Field(SbsPort, TRUE, "u16"),
   metrics_port |-> Field(0, TRUE, "checked_u16"),
   metrics_bind |-> Field("127.0.0.1", TRUE, "string"),
   pulsar_broker |-> Field("pulsar://", TRUE, "string"),
   pulsar_topic |-> Field("sbs-topic", TRUE, "string"),
   recv_buffer_size |-> Field(ReceiveBuffer, FALSE, "none"),
   socket_timeout_secs |-> Field(90, FALSE, "none")]

LimitFields ==
  [socket_read_timeout_secs |-> Field(75, TRUE, "u64"),
   initial_retry_delay_secs |-> Field(1, FALSE, "none"),
   max_retry_delay_secs |-> Field(60, FALSE, "none"),
   log_sample_rate |-> Field(100, FALSE, "u64"),
   max_retry_queue_size |-> Field(RetryQueue, FALSE, "none"),
   max_line_buffer_size |-> Field(LineBuffer, FALSE, "none"),
   pulsar_batch_delay_ms |-> Field(100, FALSE, "none"),
   pulsar_batch_max_messages |-> Field(100, FALSE, "none"),
   test_mode |-> Field(FALSE, FALSE, "none"),
   log_level |-> Field("info", FALSE, "string"),
   connection_mode |-> Field("client", FALSE, "string"),
   dump1090_tz |-> Field("Local", FALSE, "string")]

BackendFields ==
  [forwarders |-> Field(<<"pulsar">>, FALSE, "kinds"),
   file_path |-> Field("adsb_messages.sbs", FALSE, "string"),
   heartbeat_timeout_secs |-> Field(90, TRUE, "u64"),
   heartbeat_pattern |-> Field(Heartbeats, TRUE, "none"),
   mqtt_broker |-> Field("localhost", TRUE, "string"),
   mqtt_port |-> Field(BrokerPort, TRUE, "u16"),
   mqtt_topic |-> Field(<<"adsb", "sbs", "raw">>, TRUE, "string"),
   mqtt_weather_topic |-> Field(<<>>, TRUE, "string")]

DerivedFields ==
  [weather_api_url |-> Field(NoText, TRUE, "string"),
   mqtt_client_id |-> Field(NoText, TRUE, "string"),
   mqtt_qos |-> Field(0, TRUE, "u8"),
   receiver_latitude |-> Field(Unset, FALSE, "float"),
   receiver_longitude |-> Field(Unset, FALSE, "float"),
   receiver_altitude |-> Field(Unset, FALSE, "float")]

FeedFields == Joined(Joined(SourceFields, LimitFields), Joined(BackendFields, DerivedFields))

\* Default::default(), with which the desktop and the recorder build a feed.
FeedDefault ==
  [f \in DOMAIN FeedFields |->
     CASE f = "source_kind" -> "socket"
       [] f \in {"test_mode"} -> FALSE
       [] f \in {"mqtt_qos", "metrics_port"} -> 0
       [] f \in {"weather_api_url", "mqtt_client_id"} -> NoText
       [] f = "mqtt_weather_topic" -> <<>>
       [] f \in {"receiver_latitude", "receiver_longitude", "receiver_altitude"} -> Unset
       [] OTHER -> FeedFields[f].default]

-----------------------------------------------------------------------------
(* The recorder and the weather service.                                   *)

ServerFields ==
  [source_id |-> Field("adsb-edge", TRUE, "string"),
   db_path |-> Field("/var/lib/adsb/adsb.db", TRUE, "string"),
   mqtt_broker |-> Field("localhost", TRUE, "string"),
   mqtt_port |-> Field(BrokerPort, TRUE, "u16"),
   mqtt_topic |-> Field(<<"adsb", "sbs", "raw">>, TRUE, "string"),
   mqtt_weather_topic |-> Field(<<>>, TRUE, "string"),
   dump1090_tz |-> Field("Local", TRUE, "string"),
   gap_threshold_ms |-> Field(Hour, TRUE, "i64"),
   checkpoint_secs |-> Field(300, TRUE, "u64"),
   retention_hours |-> Field(0, TRUE, "u64"),
   http_port |-> Field(RecorderPort, TRUE, "u16"),
   http_bind |-> Field("127.0.0.1", TRUE, "string"),
   share |-> Field(FALSE, TRUE, "boolean"),
   share_uri |-> Field("quack:0.0.0.0:9494", TRUE, "string"),
   share_token |-> Field(Unset, TRUE, "string"),
   log_level |-> Field("info", TRUE, "string")]

WeatherFields ==
  [source_id |-> Field("adsb-edge", TRUE, "string"),
   mqtt_broker |-> Field("localhost", TRUE, "string"),
   mqtt_port |-> Field(BrokerPort, TRUE, "checked_u16"),
   mqtt_topic |-> Field(<<"adsb", "weather", "grid">>, TRUE, "string"),
   receiver_latitude |-> Field(Unset, TRUE, "float"),
   receiver_longitude |-> Field(Unset, TRUE, "float"),
   radius_nm |-> Field(300, TRUE, "float"),
   spacing_deg |-> Field(1, TRUE, "float"),
   levels |-> Field(PressureLevels, TRUE, "levels"),
   refresh_minutes |-> Field(60, TRUE, "checked_u32"),
   model |-> Field("best_match", TRUE, "string"),
   base_url |-> Field("https", TRUE, "string"),
   cache_path |-> Field(Unset, TRUE, "string"),
   http_port |-> Field(WeatherPort, TRUE, "checked_u16"),
   http_bind |-> Field("127.0.0.1", TRUE, "string"),
   state_path |-> Field(Unset, TRUE, "string"),
   log_level |-> Field("info", TRUE, "string")]

-----------------------------------------------------------------------------
(* The overlay of a file.                                                  *)

(***************************************************************************)
(* What a value of the file becomes: <<>> if it is of no use, or the value *)
(* alone in a sequence.  A number that does not fit is wrapped where the   *)
(* overlay says `as`, and of no use where it says try_from.  A u64 keeps   *)
(* a negative number as one (2^64 is left out of the model).               *)
(***************************************************************************)
Only(type, v) == IF v[1] = type THEN <<v[2]>> ELSE <<>>
Limit8 == 256
Limit16 == 65536
Limit32 == 2147483647    \* 2^32 in the code, which is beyond the numbers of TLC
Fits(v, limit) == v[1] = "integer" /\ v[2] \in 0..(limit - 1)
Convert(conversion, v) ==
  CASE conversion \in {"string", "boolean"} -> Only(conversion, v)
    [] conversion \in {"u64", "i64"} -> Only("integer", v)
    [] conversion = "u16" -> IF v[1] = "integer" THEN <<v[2] % Limit16>> ELSE <<>>
    [] conversion = "u8" -> IF v[1] = "integer" THEN <<v[2] % Limit8>> ELSE <<>>
    [] conversion = "checked_u16" -> IF Fits(v, Limit16) THEN <<v[2]>> ELSE <<>>
    [] conversion = "checked_u32" -> IF Fits(v, Limit32) THEN <<v[2]>> ELSE <<>>
    [] conversion = "float" -> IF v[1] \in {"float", "integer"} THEN <<v[2]>> ELSE <<>>
    [] conversion = "kinds" ->     \* the entries that name a kind, if there is one
         LET known == Among(IF v[1] = "array" THEN v[2] ELSE <<>>, {"string"} \X Kinds)
         IN IF known = <<>> THEN <<>> ELSE <<[i \in DOMAIN known |-> known[i][2]]>>
    [] conversion = "levels" ->    \* all of them, or none
         IF v[1] = "array" /\ \A i \in DOMAIN v[2] : Fits(v[2][i], Limit16)
         THEN <<[i \in DOMAIN v[2] |-> v[2][i][2]]>> ELSE <<>>
    [] conversion = "none" -> <<>>

FromFile(fields, f, file) == IF f \in DOMAIN file THEN Convert(fields[f].file, file[f]) ELSE <<>>
IsDefaulted(fields, f, flags, env) == f \notin DOMAIN flags /\ ~(fields[f].env /\ f \in DOMAIN env)

Parsed(fields, flags, env) ==
  [f \in DOMAIN fields |-> IF f \in DOMAIN flags THEN flags[f]
                           ELSE IF fields[f].env /\ f \in DOMAIN env THEN env[f]
                           ELSE fields[f].default]

\* One for each service; they differ in their tables only.
\* Mutant of Overlay: a value that is given and is the default does not count as given.
OverlayByValue(fields, flags, env, file) ==
  [f \in DOMAIN fields |-> IF Parsed(fields, flags, env)[f] = fields[f].default /\ FromFile(fields, f, file) # <<>>
                           THEN FromFile(fields, f, file)[1]
                           ELSE Parsed(fields, flags, env)[f]]
Overlay(fields, flags, env, file) ==
  [f \in DOMAIN fields |-> IF IsDefaulted(fields, f, flags, env) /\ FromFile(fields, f, file) # <<>>
                           THEN FromFile(fields, f, file)[1]
                           ELSE Parsed(fields, flags, env)[f]]

\* A file that is not there is not an error and sets nothing; one that cannot be read or
\* parsed is.  What is loaded, and the file, is alone in a sequence, or <<>> is an error.
Load(fields, flags, env, file) == IF file = <<>> THEN <<>> ELSE <<Overlay(fields, flags, env, file[1])>>
LoadFeed(flags, env, file) == Load(FeedFields, flags, env, file)
LoadServer(flags, env, file) == Load(ServerFields, flags, env, file)
LoadWeather(flags, env, file) == Load(WeatherFields, flags, env, file)

-----------------------------------------------------------------------------
(* What the services make of it.                                           *)

Addresses == {"127.0.0.1", "0.0.0.0"}
HasKind(c, kind) == \E i \in DOMAIN c.forwarders : c.forwarders[i] = kind

ValidFeed(c) ==
  /\ c.source_id # NoText
  /\ c.metrics_port > 0 => c.metrics_bind \in Addresses
  /\ HasKind(c, "pulsar") => c.pulsar_broker \in {"pulsar://", "pulsar+ssl://"}
  /\ HasKind(c, "mqtt") => c.mqtt_broker # NoText /\ c.mqtt_topic # <<>> /\ c.mqtt_qos <= 2
  /\ c.connection_mode \in {"client", "server"}
  /\ c.recv_buffer_size > 0 /\ c.max_line_buffer_size > 0

Forwarders(c) == IF c.test_mode THEN <<"noop">> ELSE c.forwarders

\* forward_message divides by log_sample_rate, in test mode; validate() lets 0 pass.
Divides(c) == IF c.test_mode THEN c.log_sample_rate ELSE 1

\* What main makes of what is loaded: 2 is a configuration error, 1 a fatal one.
FeedOutcome(loaded, print) ==
  IF loaded = <<>> THEN "exit_2"
  ELSE IF print THEN "exit_0"
  ELSE LET c == loaded[1] IN
       IF Forwarders(c) = <<>> \/ ~ValidFeed(c) THEN "exit_1"
       ELSE IF Divides(c) = 0 THEN "panics" ELSE "runs"

Served == {1000, 975, 950, 925, 900, 850, 800, 700, 600, 500, 400, 300, 250, 200, 150, 100, 70, 50, 30}
ValidWeather(c, gridFits) ==
  /\ c.receiver_latitude # Unset /\ c.receiver_longitude # Unset
  /\ c.refresh_minutes # 0
  /\ c.levels # <<>> /\ \A i \in DOMAIN c.levels : c.levels[i] \in Served
  /\ c.model \in {"best_match", "icon_eu"}
  /\ gridFits /\ c.http_bind \in Addresses

WeatherOutcome(loaded, print, gridFits) ==
  IF loaded = <<>> THEN "exit_2"
  ELSE IF print THEN "exit_0"
  ELSE IF ValidWeather(loaded[1], gridFits) THEN "runs" ELSE "exit_2"

\* The recorder validates nothing: what it cannot use it does without.
Recording(c) ==
  [api |-> c.http_port > 0,
   bind |-> IF c.http_bind \in Addresses THEN c.http_bind ELSE "127.0.0.1",
   maintenance |-> c.checkpoint_secs # 0,
   prunes |-> c.checkpoint_secs # 0 /\ c.retention_hours # 0,
   shares |-> c.share]

\* Config::weather_topic; a topic is the sequence of its levels.
WeatherTopic(c) ==
  LET n == Len(c.mqtt_topic) IN
  IF c.mqtt_weather_topic # <<>> THEN c.mqtt_weather_topic
  ELSE IF n > 2 /\ IsSuffix(<<"sbs", "raw">>, c.mqtt_topic)
       THEN SubSeq(c.mqtt_topic, 1, n - 2) \o <<"weather", "grid">>
       ELSE c.mqtt_topic \o <<"weather">>

\* WeatherTopics::from_grid_topic.
StatusTopic(grid) ==
  IF Len(grid) > 1 /\ Last(grid) = "grid" THEN Front(grid) \o <<"status">> ELSE grid \o <<"status">>

\* ServerConfig::feed_config.
FeedConfig(c) ==
  [FeedDefault EXCEPT !.source_id = c.source_id, !.mqtt_broker = c.mqtt_broker,
     !.mqtt_port = c.mqtt_port, !.mqtt_topic = c.mqtt_topic,
     !.mqtt_weather_topic = c.mqtt_weather_topic]

\* The ids the services take at the broker: MqttForwarder, MqttSource and the
\* publisher of the weather service, each with its own ending.
MqttClientId(c) == IF c.mqtt_client_id = NoText THEN c.source_id ELSE c.mqtt_client_id
ClientIds(feed, server, weather) ==
  <<<<MqttClientId(feed)>>, <<MqttClientId(FeedConfig(server)), "sub">>, <<weather.source_id, "weather">>>>

\* 0 turns a timeout off.
Timeout(seconds) == IF seconds = 0 THEN Unset ELSE seconds

-----------------------------------------------------------------------------
(* scripts/render-config.py: the files of one stack.  What it does not     *)
(* decide by itself is left out.                                           *)

RenderedTopic(topic) ==
  LET n == Len(topic) IN
  IF n > 2 /\ SubSeq(topic, n - 1, n) = <<"sbs", "raw">>
  THEN SubSeq(topic, 1, n - 2) \o <<"weather", "grid">> ELSE topic \o <<"weather">>

RenderedWeatherTopic(stack) == IF stack.weather = <<>> THEN RenderedTopic(stack.topic) ELSE stack.weather

\* emit() leaves out what has no value: the position, where the stack has none.
Emit(pairs, position) ==
  Joined(pairs, IF position = Unset THEN <<>>
                ELSE [receiver_latitude |-> <<"float", position>>, receiver_longitude |-> <<"float", position>>])

RenderFeed(stack) ==
  Emit([source_id |-> <<"string", stack.id>>, mqtt_topic |-> <<"string", stack.topic>>,
        forwarders |-> <<"array", <<<<"string", "mqtt">>>> \o
                         (IF stack.pulsar THEN <<<<"string", "pulsar">>>> ELSE <<>>)>>],
       stack.position)
RenderServer(stack) ==
  Emit([source_id |-> <<"string", stack.id>>, mqtt_topic |-> <<"string", stack.topic>>,
        mqtt_weather_topic |-> <<"string", RenderedWeatherTopic(stack)>>,
        retention_hours |-> <<"integer", 0>>],
       Unset)
RenderWeather(stack) ==
  Emit([source_id |-> <<"string", stack.id>>, mqtt_topic |-> <<"string", RenderedWeatherTopic(stack)>>],
       stack.position)

-----------------------------------------------------------------------------
(* Properties.                                                             *)

(***************************************************************************)
(* The services of one stack meet on the same topics, whichever of the two *)
(* copies of the rule a topic went through: the recorder reads what the    *)
(* weather service publishes, and where nobody overrides the topic so does *)
(* a desktop that knows the feed's topic only; none takes the client id of *)
(* another; and what was rendered is accepted by the service it is for     *)
(* (the weather service needs the receiver's position).                    *)
(***************************************************************************)
StackMeets(stack) ==
  LET feed == LoadFeed(<<>>, <<>>, <<RenderFeed(stack)>>)[1]
      server == LoadServer(<<>>, <<>>, <<RenderServer(stack)>>)[1]
      weather == LoadWeather(<<>>, <<>>, <<RenderWeather(stack)>>)[1]
  IN /\ WeatherTopic(FeedConfig(server)) = weather.mqtt_topic
     /\ stack.weather = <<>> => /\ WeatherTopic(feed) = weather.mqtt_topic
                                /\ StatusTopic(weather.mqtt_topic) # feed.mqtt_topic
     /\ StatusTopic(weather.mqtt_topic) # weather.mqtt_topic
     /\ server.mqtt_topic = feed.mqtt_topic
     /\ IsInjective(ClientIds(feed, server, weather))
     /\ HasKind(feed, "mqtt") /\ HasKind(feed, "pulsar") = stack.pulsar
     /\ FeedOutcome(<<feed>>, FALSE) = "runs"
     /\ WeatherOutcome(<<weather>>, FALSE, TRUE) = "runs" <=> stack.position # Unset
     /\ Recording(server).maintenance /\ ~Recording(server).prunes

(***************************************************************************)
(* The layers of one service, field by field and whatever the other fields *)
(* are given: a flag beats the environment, which beats the file, which    *)
(* beats the default, though what is given may be the default itself; a    *)
(* value of the file that cannot be used changes nothing; and whatever the *)
(* file says there is something to forward to.  --print-config shows every *)
(* field that has a value.  Put in the file, that is loaded again as it    *)
(* was for each field that the overlay knows; a field that it does not     *)
(* know, and that a flag or the environment had set, is shown all the same *)
(* and is loaded as its default.                                           *)
(***************************************************************************)
Toml(conversion, v) ==
  CASE conversion \in {"string", "boolean", "float"} -> <<conversion, v>>
    [] conversion \in {"u8", "u16", "u64", "i64", "checked_u16", "checked_u32"} -> <<"integer", v>>
    [] conversion = "kinds" -> <<"array", [i \in DOMAIN v |-> <<"string", v[i]>>]>>
    [] conversion = "levels" -> <<"array", [i \in DOMAIN v |-> <<"integer", v[i]>>]>>
    [] conversion = "none" -> <<"value", v>>      \* of any type
Printed(fields, c) == [f \in {g \in DOMAIN fields : c[g] # Unset} |-> Toml(fields[f].file, c[f])]

LayersHold(fields, flags, env, file) ==
  LET c == Overlay(fields, flags, env, file)
      again == Overlay(fields, <<>>, <<>>, Printed(fields, c))
      left == {f \in DOMAIN fields : f \notin DOMAIN flags /\ ~(fields[f].env /\ f \in DOMAIN env)}
  IN /\ \A f \in DOMAIN flags : c[f] = flags[f]
     /\ \A f \in DOMAIN env \ DOMAIN flags : fields[f].env => c[f] = env[f]
     /\ \A f \in left : FromFile(fields, f, file) # <<>> => c[f] = FromFile(fields, f, file)[1]
     /\ \A f \in left : FromFile(fields, f, file) = <<>> => c[f] = fields[f].default
     /\ \A f \in DOMAIN fields : again[f] = IF fields[f].file # "none" THEN c[f] ELSE fields[f].default
     /\ "forwarders" \in DOMAIN fields /\ "forwarders" \notin DOMAIN flags => c.forwarders # <<>>

\* Given nothing, every way of building a feed's settings gives the same.
DefaultsAgree == LoadFeed(<<>>, <<>>, << <<>> >>) = <<FeedDefault>> /\ ValidFeed(FeedDefault)
=============================================================================

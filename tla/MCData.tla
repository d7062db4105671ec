--------------------------------- MODULE MCData ---------------------------------
(***************************************************************************)
(* What is stored, asked and configured, for TLC: a behaviour is taken up  *)
(* with one group of the tables of one database (the groups share only the *)
(* mutex of the handle), with fetches of the weather provider, or with one *)
(* question to the code that has no state of its own.                      *)
(***************************************************************************)
EXTENDS AuthoredTables, RecordedTables, Provider, Queries, Settings, Link

VARIABLE asked      (* the question, <<"none">> in the other behaviours      *)

dataVars == <<authoredVars, recordedVars, providerVars, asked>>

-----------------------------------------------------------------------------
(* The questions.                                                          *)

MCHours == {1, 2}
MCCost == <<2, 4, 1>>

Position == [hex : {1, 2}, at : 0..3, place : {None, 4, -5}]
Histories == UNION {{h \in [1..n -> Position] :
                       \A i \in 2..n : h[i - 1].at < h[i].at
                                       \/ (h[i - 1].at = h[i].at /\ h[i - 1].hex < h[i].hex)} : n \in 0..3}
Window(s, e) == [start |-> s, end |-> e]
Windows == {Window(None, None), Window(1, None), Window(0, 3), Window(1, 2)}

\* No snapshot is without a source.
Sources == {"own", "other"}
ASSUME SourceAssumption == None \notin Sources

Snapshot == [at : 1..2, source : Sources]
Shelves == UNION {{[i \in 1..n |-> [at |-> s[i].at, source |-> s[i].source, received |-> i]] :
                     s \in {t \in [1..n -> Snapshot] : IsInjective(t)}} : n \in 0..4}

TopicLevels == {<<"adsb", "sbs", "raw">>, <<"adsb", "dev", "sbs", "raw">>, <<"sbs", "raw">>, <<"lab">>}
Stacks == [id : {"pi"}, topic : TopicLevels, weather : {<<>>, <<"wx">>, <<"wx", "grid">>},
           pulsar : BOOLEAN, position : {Unset, 45}]

\* No text of a file is the missing value.
ASSUME TextAssumption == Unset \notin {"file", "http"}

\* A layer gives some of the fields, to some of them the value they have by default.
Layer(options) == {[f \in {g \in DOMAIN o : o[g] # Unset} |-> o[f]] : o \in options}
Ports == {Unset, <<"integer", 8080>>, <<"integer", 70000>>, <<"string", "http">>}
FeedFiles ==
  Layer([source_id : {Unset, <<"string", "file">>, <<"integer", 5>>}, metrics_port : Ports,
         mqtt_port : {Unset, <<"integer", 70000>>},
         forwarders : {Unset, <<"array", <<>>>>, <<"array", <<<<"string", "file">>, <<"string", "carrier">>>>>>}])
FeedEnvs == Layer([source_id : {Unset, "env"}, metrics_port : {Unset, 9, 0}, forwarders : {Unset, <<"mqtt">>}])
FeedFlags == Layer([source_id : {Unset, "flag", "kraspberryPi"}, forwarders : {Unset, <<"file">>},
                    test_mode : {Unset, TRUE}])
WeatherFiles ==
  Layer([levels : {Unset, <<"array", <<<<"integer", 500>>>>>>, <<"array", <<<<"integer", 70000>>>>>>},
         refresh_minutes : {Unset, <<"integer", 30>>, <<"integer", -1>>}, http_port : Ports,
         receiver_latitude : {Unset, <<"integer", 45>>}])
WeatherEnvs == Layer([http_port : {Unset, 9, WeatherPort}, refresh_minutes : {Unset, 15}])

Bytes == {"x", "h", "sp", "cr", "nl"}
Reads(n) == UNION {[1..k -> Bytes] : k \in 0..n}
Lasts == {Missed, 2, 60, 400}
Drops == (UNION {[1..k -> Lasts] : k \in 0..4})
         \cup {[i \in 1..12 |-> IF i = n THEN 400 ELSE 2] : n \in 0..12}
Lines == [fields : {7, 21, 22}, type : {"MSG", "STA"}, hex : {"", "000000", "a"},
          date : {Missed, "day", "odd"}, time : {Missed, 7, 8}, transmission : {3}]
Zones == [change : {8}, before : 0..2, after : 0..2]

Asks ==
  \/ \E h \in Histories, w \in Windows : asked = <<"tracks", h, w>>
  \/ \E h \in Histories, w \in {Window(None, None), Window(0, 3), Window(1, 2)}, n \in {0, 2, 3} :
       asked = <<"charts", h, w, n>>
  \/ \E s \in Shelves, w \in Windows, limit \in {None, 0, 1, 9} : asked = <<"pages", s, w, limit>>
  \/ \E s \in Stacks : asked = <<"stack", s>>
  \/ \E o \in FeedFlags, e \in FeedEnvs, f \in FeedFiles : asked = <<"feed_settings", o, e, f>>
  \/ \E e \in WeatherEnvs, f \in WeatherFiles : asked = <<"weather_settings", <<>>, e, f>>
  \/ \E a \in Reads(3), b \in Reads(2) : asked = <<"reads", <<a, b>> >>
  \/ \E a, b, c \in Reads(1) : asked = <<"reads", <<a, b, c>> >>
  \/ \E d \in Drops : asked = <<"drops", d>>
  \/ \E l \in Lines, tz \in {"UTC", "Local", "Nowhere"} : asked = <<"line", l, tz>>
  \/ \E z \in Zones : asked = <<"zone", z>>

-----------------------------------------------------------------------------
(* The behaviours.                                                         *)

TablesIdle == calls = 0 /\ scenarios = <<>> /\ ops = 0 /\ file = Absent
ProviderIdle == now = 0 /\ tries = 0
Asked == asked # <<"none">>

DataInit ==
  /\ AuthoredInit /\ RecordedInit /\ ProviderInit
  /\ \/ ProviderIdle /\ asked = <<"none">> /\ (scenarios = <<>> \/ file = Absent)
     \/ TablesIdle /\ asked = <<"none">>
     \/ TablesIdle /\ ProviderIdle /\ Asks

DataNext ==
  /\ ~Asked
  /\ \/ AuthoredNext /\ ops = 0 /\ file = Absent /\ ProviderIdle /\ UNCHANGED <<recordedVars, providerVars, asked>>
     \/ RecordedNext /\ calls = 0 /\ scenarios = <<>> /\ ProviderIdle
        /\ UNCHANGED <<authoredVars, providerVars, asked>>
     \/ ProviderNext /\ TablesIdle /\ UNCHANGED <<authoredVars, recordedVars, asked>>

DataSpec == DataInit /\ [][DataNext]_dataVars

-----------------------------------------------------------------------------
(* The answers.                                                            *)

AskedFor(kind) == asked[1] = kind

(***************************************************************************)
(* What the map, the charts and the pages show of one database agrees,     *)
(* whichever query it comes from (TracksAgree, ChartsAgree, PagesHonest).  *)
(***************************************************************************)
QueriesAgree ==
  /\ AskedFor("tracks") => TracksAgree(asked[2], asked[3])
  /\ AskedFor("charts") => ChartsAgree(asked[2], asked[3], asked[4])
  /\ AskedFor("pages") => PagesHonest(asked[2], asked[3], asked[4])
  /\ AskedFor("none") /\ TablesIdle /\ ProviderIdle => SectorsCentred /\ AnswersAlike(<<"ok", 1>>)

(***************************************************************************)
(* The layers of each service's settings hold, and the services of one     *)
(* stack meet (LayersHold, StackMeets, DefaultsAgree).                     *)
(***************************************************************************)
SettingsAgree ==
  /\ AskedFor("stack") => StackMeets(asked[2])
  /\ AskedFor("feed_settings") => LayersHold(FeedFields, asked[2], asked[3], asked[4])
  /\ AskedFor("weather_settings") => LayersHold(WeatherFields, asked[2], asked[3], asked[4])
  /\ AskedFor("none") /\ TablesIdle /\ ProviderIdle =>
       /\ DefaultsAgree
       /\ LayersHold(ServerFields, <<>>, <<>>, [http_port |-> <<"integer", 70000>>])

(***************************************************************************)
(* The same lines come out of the same bytes, each is read the same way    *)
(* wherever it is stored, and reconnects are paced (LinesSame,             *)
(* ReadingsSame, ClockHonest, Paced).                                      *)
(***************************************************************************)
LinesAgree ==
  /\ AskedFor("reads") => \A timeout \in {0, 2} : LinesSame(asked[2], timeout)
  /\ AskedFor("drops") => Paced(asked[2])
  /\ AskedFor("line") => ReadingsSame(asked[2], asked[3],
                                 [z \in {"Local"} |-> [change |-> 8, before |-> 2, after |-> 1]], 99)
  /\ AskedFor("zone") => ClockHonest(asked[2])
=============================================================================

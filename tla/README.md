# Formal models of adsb-feed

TLA+ models of the Rust core of adsb-feed, the TLC runs that check them on small instances,
and TLAPS proofs of the properties that matter most for every value of the constants.
Paths below are relative to `src/rust/`.

1. [The system](#1-the-system)
2. [The modules](#2-the-modules)
3. [The runs](#3-the-runs)
4. [The proofs](#4-the-proofs)
5. [Where the code and its words disagree](#5-where-the-code-and-its-words-disagree)
6. [What is not modelled](#6-what-is-not-modelled)
7. [Plan](#7-plan)

## 1. The system

dump1090 decodes aircraft transponders and serves SBS-1 lines over TCP. Everything else is
built around those lines:

```
dump1090 --TCP--> feed client --fan-out--> Pulsar | MQTT | file
                       |  (message tap)
                       v
                 ingest pipeline --batches--> desktop window (live map)
                       |
                       v
                 storage slot --> DuckDB (positions, flights, raw messages, ...)
                       ^
  release / reclaim / swap / set mode (desktop commands), prune (data server)

Open-Meteo <--HTTP-- weather refresh loop --watch--> publisher --MQTT--> data server, desktop
                          ^        |
               API (enable/disable) state file, cache
```

The desktop app and the data server both embed the feed client and the ingest pipeline; the
weather server is a process of its own. All of it is tokio tasks with shared state behind
mutexes, `watch` and `broadcast` channels.

| Component | State | Operations | Interacts through | Hard to get right | Correct when |
|---|---|---|---|---|---|
| Feed client (`adsb-pulsar-client/src/client.rs`, `forwarder/`) | a retry queue per forwarder, each forwarder's handle and connection flag, line buffer, shutdown channel | connect, read, fan out, retry once a second, flush, give up a forwarder, back off, stop | forwarder trait; background tasks of Pulsar and MQTT; message tap | forwarders fail independently, in the middle of a fan-out; queues at their limit; a wedged broker; `select!` takes any ready arm | every message is, at each backend, delivered, waiting or dropped as the oldest of a full queue; nothing stalls; shutdown ends it |
| Sources, framing, backoff (`source/`, `backoff.rs`, `process_buffer`) | connection attempts, partial line, latest payload per topic | reconnect, split lines, route topics | broadcast and watch channels | partial lines, reconnect storms | every line once, in order |
| Configuration (`config.rs` of the services, `scripts/render-config.py`) | none | overlay, validate, derive | files, environment, flags | a value that equals its default looks like one that was not given; each service has an overlay of its own | the layers keep their order; the services of one stack meet |
| Ingest pipeline (`adsb-data-engine/src/ingest.rs`) | one merged position per aircraft, counts, raw lines | absorb, flush twice a second, final flush | storage slot, toggles, batch sink | lag on the channel, toggles during a flush, a slot that is held or empty, abort | best-known state, every line counted once, drained at the end |
| Flight store (`adsb-data-engine/src/storage.rs`) | `positions`, `flights`, in-memory `flight_tracker` | open with bootstrap and rebuild, insert_batch, prune, import | mutex of the handle | no transaction over the statements of a batch; the tracker is state beside the table; timestamps that step back | one row per key; flights are the runs of positions without a gap; a restart continues where the process was |
| Other tables and queries (`storage.rs`) | raw messages, events, scenarios, weather | insert, update, delete, aggregate | the same mutex | partial failure | referential integrity |
| Sharing (`share.rs`) | attached catalog, listening port | start, stop, attach | slot | lost when the slot is replaced | one writer per catalog |
| Data server (`adsb-data-server/src`) | recorder tasks, last model hour | record, checkpoint, prune, HTTP | ingest, storage, MQTT | shutdown races the last flush | nothing recorded is lost but what was under way |
| Weather refresh (`adsb-weather-server/src/refresh.rs`, `control.rs`, `state_file.rs`, `cache.rs`) | phase, scheduled fetch, failures, report, setting, state file, cache | fetch, wait, obey the setting, persist a limit, restart | watch channels, API threads, files | two writers of one file, commands in any phase, restarts inside a rate limit, clock boundaries | never early, never silent for ever, honest report, durable setting |
| Weather provider and budget (`provider.rs`, `budget.rs`) | chunks already fetched, tokens | fetch in chunks, pace | refresh loop | partial fetches, overdrawn bucket | within the allowance |
| Weather publisher (`publisher.rs`, `projection.rs`) | connection, retained messages | publish on connect and on change, last will | MQTT | one task fills and drains the request channel | subscribers see the latest, and `offline` when it is gone |
| Desktop storage (`adsb-pulsar-client-desktop/src-tauri/src/commands.rs`, `storage_mode.rs`, `lib.rs`) | the slot, its configuration, files under canonical, staging and snapshot names | release, reclaim, swap, set mode, start, end | the slot's lock, the file system, DuckDB | a command cut off or failed between two renames; write-ahead logs that lie beside a name; two windows | no row loses its file; the app reopens what it had |
| Desktop feed and bridge (`commands.rs`, `bridge.rs`, `weather.rs`) | feed handle, task handles, statuses | start, stop, watch, relay | channels, events | check and act across an await | one feed at a time; honest status |
| Desktop front end (TypeScript) | maps of tracks, playback clocks, scenario lists | browse, play, edit | commands, events | answers out of order | what is shown is what was asked for last |
| Agents (Python) | one run's event queue | stream, call tools, simulate | HTTP, AG-UI, A2A | exactly one terminal event | every stream ends |

`PROJECT.json` lists each part with its status, and under `hazards` the behaviours of this
code that tests hardly reach, at the lines where they bite.

## 2. The modules

| Module | What it is | Composition |
|---|---|---|
| `Delivery` | what the feed client promises each backend: every message at once or through the retry queue, oldest first, and only the oldest of a full queue is lost | abstract |
| `FeedClient` | `ADSBFeedClient::run` and all it calls, the three forwarders and their background tasks | implements `Delivery` |
| `Ingest` | one `IngestPipeline`, its channel, the slot and toggles it meets | abstracts what `insert_batch` does, which is `FlightStore`'s |
| `FlightStore` | positions, flights, tracker, over crashes, restarts, prunes, imports | |
| `AuthoredTables` | events of interest, scenarios, tracks: calls that overlap on one mutex | |
| `RecordedTables` | positions, raw messages, weather snapshots, status events: record, prune, export, import | |
| `Queries` | the read side of `storage.rs`, as operators on tables | pure |
| `Quota` | what the weather service promises its provider | abstract |
| `WeatherRefresh` | `Refresher::run`, `Control::set_enabled`, `StateStore`, cache, restarts | implements `Quota` |
| `Provider` | `OpenMeteoProvider` with its token bucket: what one fetch of `WeatherRefresh` does | |
| `WeatherPublisher` | projection and publisher of the weather service, and the broker it talks to | |
| `MqttSource` | a subscriber: one connection, several topics, a watch channel each | |
| `WeatherDelivery` | publisher, broker, one subscriber and the relays behind it | composes `WeatherPublisher` and `MqttSource` |
| `DesktopFeed` | `start_feed`, `stop_feed`, `save_config`, the tasks of a feed, the status shown | |
| `DesktopStorage` | slot, commands and files of the desktop windows | |
| `Settings` | defaults, file, environment and flags of three services, and what is derived from them | pure |
| `Link` | framing, connection monitor, backoff, and how a line is read | pure |
| `FeedClientProofs`, `IngestProofs`, `FlightStoreProofs`, `DataProofs`, `WeatherRefreshProofs`, `WeatherDeliveryProofs`, `DesktopProofs` | theorems | extend the modules they are about |
| `Counting` | lemmas on numbers, sums, ranks and lists | extended by the proofs |
| `Listing` | the elements of a list that are in a set, in their order; the elements of a set in a given order | extended by `MqttSource`, `Queries`, `Settings`, `Link` |
| `MCFeedClient`, `MCIngest`, `MCFlightStore`, `MCWeatherRefresh`, `MCWeatherDelivery`, `MCDesktopFeed`, `MCDesktopStorage` | instances for TLC | |
| `MCData` | one instance of what is stored, asked and configured | `AuthoredTables`, `RecordedTables`, `Provider`, `Queries`, `Settings`, `Link` side by side |

**FeedClient.** `phase` is the await at which the main task is; between two awaits a step is
atomic, as on the tokio scheduler, and any step of a background task may come in between.
`Start`…`Started` are `run`; `Attempt`, `ConnectOk`, `ConnectError`, `Wake` are
`run_client_mode` and `connect_socket`; `Receive` is a read with the lines it completes;
`ForwardOffline/Ok/Error`, `Disconnect` are one iteration of `forward_message`; `Tick`…`TickEnd`
are the housekeeping arm with `drain_retry_queue`. A Pulsar forwarder holds a producer that
only `flush` (or `send`) takes from its reconnect task; an MQTT forwarder has a request channel
of `RequestCap` slots that its event loop empties; a file may fail at any write. Messages are
the numbers 1, 2, … in order of arrival; staleness is a choice at every tick, since the clock it
depends on is in `Link`.

**Ingest.** `phase` is the await at which `run` or `flush` is. The channel overwrites lines
that are not received in time (`Lagged`); commands hold or empty the slot; the toggles change
at any time and are loaded where the code loads them; the data server may abort the task. A
field of a position holds the number of the line that supplied it, so "newest value" is the
largest number.

**FlightStore.** `insert_batch` is `InsertBatch` (the appender's rows are committed, the
tracker is advanced in memory, the statements are worked out) and one step per INSERT and
UPDATE, all INSERTs first, because DuckDB commits each statement. `Close` can come between any
two of them. `Segments` is the window query of `bootstrap_flights`. `Ordered` says whether an
aircraft's timestamps may step back, `Fallible` whether a statement may fail in a process that
goes on. `counted` remembers which positions were counted in a flight, so that the table can be
compared with what the window query would compute from them.

**AuthoredTables.** A call is a blocking task; a step is what it does under the handle's mutex.
Calls that take the mutex twice (to read back the row, to touch the scenario) have a second step
between which others may come, and the calls on tracks carry the time they read before the
first. Statements of one step that are not in a transaction may fail after any prefix. An id
named in a call was drawn before, whether or not its row still exists: windows hold old lists.

**RecordedTables.** A table counts the rows of each key, so a row written twice is seen. Prune,
export and import are their statements in order, each committed by itself, and stop after any of
them. `file` is the database beside this one: a backup the export made, or another receiver's
file; `attached` is what a failed export leaves behind. `recorded`, `given`, `cut` and `merged` are
history: what was recorded here, what the other receiver's file had, what was pruned, and what was
imported whole. What tables hold beside their keys is in
`FlightStore` and `Queries`.

**Queries.** One operator per SQL statement, on a table that is a sequence of rows; the Arrow
queries run the same statements. A statement selects places of the table (`Within`, `Located`) and
puts the rows there in order (`Select` with `Earlier`, `Newer`, …), rows with equal keys in that of
the table, where SQL promises none. `Dispatch`, `ToolAnswer` and `CommandAnswer` are how the data
server's tools and the desktop's commands reach them, with an empty slot or wrong arguments.

**WeatherRefresh.** Times to come are kept as time left, so that time needs no bound; `clock` is the
time of day, for limits that end at an hour or a day. `Persist` and `Announce` are the two steps of
`set_enabled`, which other phases of the loop and the end of the process can separate. `store` is
the setting and the limit as the state store has them in memory, `file` what is on the disk: `Open`
leaves a file that it cannot read where it is and starts from the default, and `Update` writes only
what differs from memory. Every choice that `next_delay`'s jitter can make is a step. `Down` is what
is left of a process that ended, at any point. `pace`, `limit`, `kept` and `acked` are history: the
delay this process chose, the last rate limit, whether its record would survive, and the setting the
operator was told.

**Provider.** One fetch at a time, chunk after chunk: held from an earlier try of the same model
hour (`UseHeld`), paced by the bucket (`Pace`), asked (`Request`, `Answered`), or dropped at any
await (`Abandoned`). The bucket may go into debt, as `reserve` lets it. An answer that parses may
lack locations or times (`Replies`). `Assemble` drops the chunks in hand first and only then finds
whether they make a snapshot; if they do, it chooses the hour in them the way `select_hour` does.
`purchases`, `answered` and `assembled` are history over all fetches: the requests, those that got
an answer, and the fetches that came to assemble.

**WeatherPublisher, MqttSource, WeatherDelivery.** The publisher's `phase` is where its `select!`
stands; each branch is an action. Its MQTT library is `queue` (requests handed over and not yet
sent) and the connection; `retained` and `session` are the broker's part: `session` is the
session whose last will the broker still holds. A lost connection may lose acknowledgements, so
that requests are sent again (`SendUnacknowledged`); a broker restart forgets what it retained.
`MqttSource` is the same loop on the reading side, with its latest value per topic. In
`WeatherDelivery` what one sends is what the other receives, a subscription is answered with
what is retained, and behind it is either the desktop (`RelayGrid`, `RelayService`, and
`Persist` in embedded mode) or the recorder (`Persist` with its `last_hour`). The two do not
meet, so one of them at a time is enough.

**DesktopFeed.** `call` is the await at which a command is, `handle` the feed handle of the app
state. Each feed has its client task (`client`), which ends the alive signal when it is dropped,
and `others`, the tasks that wait for it; an abort takes a task at its next await, so that a
watchdog in the middle of a write still finishes it (`Polling`). `Resolve` is the watchdog's
verdict from the transport and the silence, in ticks, for either kind of source. `Overlap` says
whether commands may overlap.

**DesktopStorage.** A database is a number, a name maps to a database, and each file and each
write-ahead log holds a set of recorded batches. `swap_database` and `set_storage_mode` are one
step per effect on the slot or the file system, `End` may come anywhere. Of DuckDB the model
assumes an exclusive lock per process, that closing writes the log into the file, and that an
unclosed log is found again only beside the name the file was opened under. `mishap` remembers
that a command failed or was cut off halfway, which some properties have to allow for; `OneOwner`
says which state (`LeftStaged`) it is that lets a swap open a database twice.

**Settings.** A service is a table of fields, each with its default, whether the environment can
set it, and the conversion its overlay applies to a value of the file (`as` wraps, `try_from`
refuses, a field the overlay does not know is ignored). `Load` is the four layers in the order of
the code, with its test for "is the default"; the derived topics, client ids and timeouts, and
the files `render-config.py` writes, are operators on the result.

**Link.** A byte is one of the five that decide (line feed, carriage return, blank, text,
heartbeat). `ProcessBuffer` and `SplitLines` are the two ways of cutting; `Classify`, `IsStale`
the monitor; `Delay`, `Dropped` the backoff with its reset; `PositionOf`, `RawOf`, `TimeOf` what
a line becomes.

**MCData.** These components share only the mutex of one handle, or nothing at all. A behaviour
of `DataSpec` is therefore one of authored tables, of recorded tables, of fetches, or one question
(`asked`) put to the pure operators; they are never interleaved, since no step of one reads
what another writes.

## 3. The runs

`PROJECT.json` gives each run's question; the bounds below are small because the interesting
events are few: two forwarders that fail independently, a queue that overflows, a batch that is
cut in half, a limit that outlives a restart, one fault anywhere between a service and its
reader.

| Run | Instance | Shows |
|---|---|---|
| `feed_client_mode` | MQTT and file forwarder, queue of 2, drain of 2, request channel of 1, reads of up to 2 lines, 4 messages | accounting, order and bounds of the retry queues (`RetryQueuesSound`), refinement of `Delivery`, every fan-out completes, shutdown ends `run()`. Four messages overflow a queue of two twice and leave a drain unfinished. |
| `feed_server_mode` | Pulsar and MQTT, server mode, limit 0, drain of 1, 3 messages | the same promise at the limit that `validate` does not exclude |
| `feed_pulsar_never_up` | one Pulsar forwarder, fair backends | counterexample, see section 5 |
| `flight_restarts` | one aircraft, gap 1, times 0–4, 4 batches, one import | the table is exactly what the window query computes from what was counted, flights keep apart, the tracker names the latest, whatever crashed. Flights of one aircraft do not touch those of another but for the order of statements, which the next run has. |
| `flight_out_of_order` | two aircraft (symmetric), gap 0, times 0–2, 3 batches, failing statements | keys stay unique and flights only grow, also with timestamps that step back |
| `ingest_pipeline` | two aircraft, two fields, five kinds of line, channel of 2, 3 lines, 2 commands, abort | best-known state, every line counted once, raw records in order, drained at the close, an end. Three lines on a channel of two lag; two commands toggle inside a flush or hold and return the slot. |
| `weather_refresh` | hour of 3, day of 6, refresh 2, retries 1–2, Retry-After 0 or 3, failures saturate at 2, files may fail | a setting that is durable but after an unreadable file, current channels, waits kept, refinement of `Quota`, the loop fetches again and stops. All scopes of limits meet every position in the hour and day. |
| `weather_delivery` | two reports, two snapshots of one model hour, one change, one fault | nobody gone is announced online, a model hour is recorded once, all converge to what the service says now. One change and one fault may come at any two points, the fault being a lost connection, an ended process of either side, a broker restart, a failed INSERT or a foreign payload; starting an ended process again costs none. |
| `desktop_storage` | one window, 4 databases, 2 batches, failures | no row loses its file, whatever failed or was cut off; one handle per database, but for the swap after one that failed; and, if no command was cut off before, a swap starts fresh and the app reopens what it had |
| `desktop_swap_loss` | one window, 2 databases, 1 batch, no failures | counterexample, see section 5 |
| `desktop_feed` | two feeds, commands that take turns, read timeout 0, heartbeat timeout 1, silences up to 3 | one feed runs and it is the one the app can stop, every task of an ended feed ends, the light settles on the verdict. Two feeds are what it takes for the first to interfere with the second; three is the first silence beyond both thresholds and their sum. |
| `database_and_settings` | authored: 4 calls, 2 at a time, times 0–1; recorded: 4 calls, times 0–1, two model hours; provider: chunks of 2, 4, 1 against a capacity of 3, hour of 8 ticks, 3 tries; questions as `MCData` enumerates them | no authored row is lost or reachable from nowhere, ordinals do not collide, no import gives a key that has a row another one, a chunk is bought again for an hour only after an assembly, queries put side by side agree, settings keep their layers and meet, lines are the same however they are cut but for a CR and lines of blanks. The second chunk costs more than the bucket holds; three tries resume twice, or buy again after a failed assembly; some of the values that a layer gives are the defaults; reads of three and two bytes cut every pair of line ends. |

A type invariant is one conjunct of another invariant where it would be a property of its own for
nothing: in `BestKnown`, `RecordedOnce`, `OneOwner`, `OneFeed`, `RowsAccounted`, `EachRowOnce` (in
`RowsBounded`).

Deadlock is checked except where the system stops by design: the feed client returns from
`run()`, feeds have ended and are not started again, and a question of `MCData` has its answer.

**Fairness.** Nothing is assumed of dump1090, of the weather provider's success, of operators or
of users.

- `FeedClient!Fairness`: the main task's own steps and timers (weak); the shutdown and
  housekeeping arms of `select!` (strong, since tokio polls the arms in random order, so an arm
  that is ready again and again is taken); the MQTT event loop, which is polled in a loop and
  ends a silent connection by keep-alive (weak). `BackendsFairSpec` adds brokers that come up
  when tried for long, so that the counterexample is not the brokers' doing.
- `Ingest!LiveSpec`: the `recv` arm (strong, for the same reason), the task's own steps inside a
  flush and the release of a write lock (weak); the 500 ms tick is not needed.
- `WeatherRefresh!LiveSpec`: the task runs, a request ends (the provider has
  `REQUEST_TIMEOUT`), a persisted command is announced, time passes.
- `WeatherDelivery!LiveSpec`: the tasks of the service and of the subscriber run, a connection is
  tried again after the backoff and succeeds in the end, queued requests are sent, the broker
  ends a session that is not kept alive, relays take what is in their channels (all weak). What
  fails is bounded by `MaxFaults`: `Converges` is about the time after the last fault.
- `DesktopFeed!FairSpec`: a command that was called returns, the tasks of a feed are scheduled,
  the watchdog's and the heartbeat's timers tick, a task whose alive signal is gone ends (all
  weak).

Every property has a mutant in `PROJECT.json`: a definition changed the way a plausible mistake
in that code would, defined beside the original, under which TLC finds the property violated.

## 4. The proofs

TLAPS checks these for every value of the constants that satisfies the named assumptions of
the modules, and the assumption a theorem names itself. The assumptions are types of the
constants, positive limits, delays and costs, a finite set of aircraft (`AircraftAssumption`:
counts are summed over it), a fetch that takes no more than half an hour of an hour with a middle
(`ProviderAssumption`), and that what stands for no payload is none (`PayloadAssumption`). The
bounds of the runs are constants here, so each theorem is about any number of calls, faults and
messages. A property that a run checks is meant whole: its types are part of the theorem.

**FeedClientProofs** — `TypeCorrect`, `MessagesAccounted`, `RetryQueuesAreSound`, `RetryOrder`,
`DeliveryKept`. That every message is accounted for is not inductive: a drop from a full queue is
only the loss of the *oldest* message if the queue is increasing and everything in it is newer
than everything dropped or retried. The inductive invariant `AllLedgers` keeps, per forwarder, a
ledger with those facts together; each step is shown to keep the ledger of the forwarder it works
on and to leave the others alone, from lemmas on what enqueueing, taking and putting back do to an
increasing queue. `DeliveryKept` is the refinement of `Delivery`: the fate of a message is read
off the ledger, each action changes the fate of at most one message at one forwarder, and that a
drop comes from a *full* queue is the cardinality of an increasing queue.

**FlightStoreProofs** — `FlightTypes`, `FlightKeys`, `FlightsStay` (without any condition on
timestamps or failures), `FlightsApart` (if timestamps do not step back), `TrackerLatest` (if no
statement fails in a process that goes on), `SegmentsExact` (under both conditions). Unique keys
need an invariant over the tracker, the statements still to be executed and the table at once
(`KeyInv`: the number in the tracker is at least that of any row, strictly above unless the row is
the tracker's own); separation needs in addition that the tracker's `last` bounds the rows and the
stored timestamps (`SeparationInv`); that the tracker has its row is `TrackerBacked`. The bootstrap
enters through lemmas about `Segments`: numbers increase with time, and runs of positions do not
touch. `SegmentsExact` says that the table, where no statement is outstanding, is `Segments` of what
was counted. `SegmentInv` says what that becomes between the statements of a batch, and its step
is a lemma about the window query itself: a position later than all others either lengthens the
last run by one or starts the next, and changes no other run and no number.

**IngestProofs** — `MergesToBestKnown`, `RawInOrder`, `CountsEveryLine`, `NothingLeftBehind`. The
invariant says where a line can be: the window is what was received since the last drain
(`Window`), the buffer is the best-known state of exactly that (`Best`), and a record is in the raw
buffer or in the table, both increasing and everything in the table older (`Records`). A failed or
aborted write leaves a record out, never out of order. `Counts` says where a count can be at each
await of `flush`: in the count map, in the batch under way or with the sink; the sum over the
aircraft stays the number of parsed lines.

**DataProofs** — about the components that share a handle or nothing, see `MCData`.
`RowsOnce` has two parts. The bounds on the tables (`RowsBounded`) are made inductive by the same
bound on the file beside the database (`FileSound`), which an import reads back: it is the other
receiver's still, or an export made it from tables that kept the bound, whichever statement that
export stopped at. That a key with rows gets another one only by being recorded again
(`NoneCopied`) is then a fact about each step: recording adds one to both, and an import copies
nothing to a key that has rows.
`RowsKept`: a call waits for the mutex with ids and a time from before; `CallSound` says what it may
count on when it gets it: those ids were drawn, and the rows it is to update are older than its
time, so that no `updated_at` comes before its `created_at`. `OneOrder` adds that the ordinals of a
scenario differ (`OrdinalsApart`), unless a renumbering was cut off, and that a list sorted by
them opens in one order (`Sortable`).

What `Link` and `Settings` compute is proved for all inputs, not for those a run asks about.
`LinesAreSame`: over any stream, any cut into reads and any limit, `process_buffer` and
`split_lines` give the same lines but for the CR at their end and the lines of blanks: what the
client has, with the CR taken off, is what `split_lines` has without the lines of blanks. Cutting is
a fold over the bytes, so the proof is an induction over lists: the pieces of `s \o t` are the whole
pieces of `s`, and those of what was left of `s` with `t` (`PiecesOfConcat`), and what a read adds
to the buffer is therefore what the stream adds. `ReconnectsPaced` is an induction over the
connections, with the waits so far as its invariant (`PacedUpTo`); `LinesReadTheSame` and
`ClocksHonest` are case distinctions on the line and on which side of the change an instant is.
`SettingsLayered` holds for every table whose defaults its own conversions accept (`IsTable`) and
every flag and variable that clap would have accepted (`IsLayer`), for any file: what a field ends
up with depends on what it is given and on no other field, so a value of the file stands whatever
else a flag or a variable sets. What `--print-config` shows is every field with a value; the fields
that the overlay does not know come back as their defaults. That the three services' tables are such
tables is checked field by field. `StacksMeet` follows what `render-config.py` writes through the
three overlays, for any id and topics; `DefaultsAreOne` compares the two sources of defaults.

What `Queries` answer is proved for every table, not only tables in the order of time.
`TracksAlwaysMeet`: a row with a place is on exactly one flight, since the flights of an aircraft
are the stretches between its starts and no row lies between two of them; so the join with all
flights is the trajectories asked for one by one, and counting by flights counts every row once.
`ChartsAlwaysMeet` adds up histogram, heatmap, sectors and aircraft list: a set that is the disjoint
union of its cells has as many elements as they have together, and what is grouped twice has fewer
groups than members. `PagesAreHonest` is about what a limit cuts off a list that is ordered:
nothing that comes before what it leaves. All rest on one lemma about `InOrder`, that the elements of
a finite set with a strict total order are listed once each, in it. `SectorsAreCentred` and
`AnswersAreAlike` are case distinctions.

`QueriesAlwaysAgree`, `LinesAlwaysAgree` and `SettingsAlwaysAgree` are then the invariants of
`DataSpec`: whatever it asks is one of these inputs (`AskedSound`), and no step changes the
question.

**WeatherRefreshProofs** — `TypeCorrect`, `SettingSafe`, `FetchesOnTime`, `WaitsAreKept`,
`ChannelsAreCurrent`, `QuotaKept`, `FetchesSound`. That a request never comes early says nothing
about what holds while none is made, so the invariant `Timing` says where the waits of the past are
kept in every phase: in `pending` while the loop waits or is disabled, in the state file while no
process runs, nowhere once a request is under way. `Agreed` does the same for the setting between
its two writes, in memory and in the file, with the file that could not be read as its exception,
`Told` for the report in the channel, `Shown` for the snapshot, the cache and the file.
`WaitsAreKept` adds the arithmetic of `next_delay`. `QuotaKept` is the refinement of `Quota`: one
step per action, which is a step of `Quota` or a stutter.

About `Provider`, which the loop calls, `FetchesSound`: the *level* of the bucket, the time of its
last refill less the tokens it has, grows by the cost with every reservation, so that it bounds what
was spent since any earlier request (`WithinLevel`), be it one of an earlier fetch. A chunk that was
answered is in hand until the hour changes or a fetch comes to assemble (`AnswersSound`), which is
why none is paid for again before.

**WeatherDeliveryProofs** — `NeverOnlineWhenGone`, `OneRowPerHour`. A service that leaves in order
gives up its session and with it the last will, so while it leaves the queue must end with
`offline` (`Leaving`); everywhere else the session stands behind `online`. The table only grows
and the recorder remembers only what is in it (`HoursInv`). What is stored and shown is a snapshot
because a payload keeps to its topic on the whole way: in the publisher's queue (`Types`), in what
the broker retains (`PublisherTyped`), in what it hands over and the consumer's channels
(`FeedTyped`), whatever somebody else publishes in between. For that each step of the composition
is shown to be a step of the publisher (`StepIsServiceStep`) and a step of the subscriber
(`StepIsFeedStep`).

**DesktopProofs** — `OneFeedRuns`, for commands that take turns (`Overlap = FALSE`). `OneFeed` says
where a running feed is known; what a command that is halfway relies on is `Halfway`: that the
handle it found finished is finished still when it spawns, and that none is stored while a feed is
being started or stopped. `FilesKeepNames`, `HandlesApart`, `OpensWhatItHad`, `SwapsToEmpty`, for one
window of the unnamed stack (`Stack = {Root}`), over any failures and any end of the app. The
properties say what holds at rest; the invariant says under which name each database is at every
step of every command (`Stepwise`), that no file with rows is nameless and no name shared
(`Files`), and what a command may count on when none was cut off before it (`Orderly`). With several
windows it does not hold: a change of mode in a window of a named stack opens the files of the
unnamed one, see section 5.

**Counting** — the lemmas the others share. The library states induction for an operator, which
cannot be cited here; `Induction` states it for a *set* of numbers and follows from the pigeonhole
principle (a missing number would give an injection of a finite set into a smaller one), and
`SubsetInduction` likewise for the subsets of a finite set. With them a sum (`SumFunction`) is shown
to be a natural number and to change by what its argument changes, and the elements of a finite set
of numbers to have ranks 0, 1, 2, … without a gap. `ListInduction` is induction over lists by
appending, the `Among` lemmas say what a list is of which only some elements are kept, and
`Recursion` gives the function that a recursive definition of the models chooses: a recursion is
stated as a list of step functions that it follows (`Follows`), since nothing can take the step as
an operator.

**Only model-checked.**

- All liveness, and nothing else that the passing runs check: `FanoutCompletes`, `ShutdownHonoured`,
  `EndsWhenClosed`, `FetchesAgain`, `StopHonoured`, `Converges`, `TasksEnd`, `LightFollows`.
  Fairness and ENABLED are beyond the prover.

## 5. Where the code and its words disagree

Two are runs that end in a counterexample (`findings` in `PROJECT.json`):

- The Pulsar forwarder never becomes connected: the producer of the reconnect task is taken
  over in `send` and `flush`, which are called on connected forwarders only
  (`forwarder/pulsar_forwarder.rs:52`, `client.rs:133`).
- What is recorded after a swap is lost if the app ends before the log is written into the
  file, since the log lies beside the staging name (`commands.rs:731`).

Seen while modelling, without a run. They are in the models as the code has them, and the
properties are stated so that they allow for them.

Feed client and sources:

- After one refused request the MQTT forwarder is not usable again: `disconnect` drops the
  client and nothing calls `connect` (`forwarder/mqtt_forwarder.rs:179`).
- `connect_socket` does not look at shutdown (`client.rs:270`); `ShutdownHonoured` is therefore
  stated for requests outside it. On a signal the binary's `main` drops `client.run()` instead.
- The overflow check comes before the lines are taken out of the buffer, so complete lines can
  be thrown away with the incomplete one (`client.rs:414`).
- `log_sample_rate = 0` passes `validate`, and in test mode the client then panics on its first
  message (`client.rs:471`).
- `split_lines` says that it treats blank lines and CRLF like the socket path
  (`source/mod.rs:52-53`). It takes the CR off and keeps lines of blanks; `process_buffer` keeps the
  CR and drops lines of blanks (`client.rs:434`). So the consumers of the two kinds of source get
  different bytes for the same stream. `LinesAgree` says that these are the only differences.
- `MqttSource` reports `Connected` once its subscribe requests are queued, not when they are
  acknowledged; its waits between attempts delay a shutdown by up to 30 seconds.

Storage:

- A renumbering of a scenario's tracks from a list that is out of date, or one that is cut off
  between two tracks, gives two tracks one ordinal (`storage.rs:2773`); `OrdinalsDistinct` is stated
  for scenarios that were not renumbered so.
- After a failed INSERT the flight tracker names a flight without a row until the next restart
  (`storage.rs:650` against `:77`); `TrackerNamesLatest` is stated for processes that end then.
- With timestamps that step back two flights of an aircraft may overlap (`storage.rs:631`);
  `FlightsSeparated` is stated for timestamps that do not.
- The same moment recorded twice is two rows: none of these tables has a key, and only the INSERT of
  a weather snapshot looks whether there is one (`storage.rs:1804`). `EachRowOnce` bounds the others
  by what was recorded.
- An export that fails has already removed the previous backup, and leaves `export_db` attached.
- `touch_scenario` may set `updated_at` back, since its time is read before the mutex is taken.
- The time distribution divides with DuckDB's floating-point `/` and rounds, so a row is counted
  in the nearest bucket, which may be one more than asked for; the flights metric counts a
  flight in every bucket it spans, where `types.rs:188` says by
  `first_seen_ms` (`storage.rs:1370`, `:1393`).
- One status row of an unknown type fails the whole status query.
- The queries agree on which flight a row belongs to only where flights are the runs of
  positions (`SegmentsOf`), that is for rows recorded in order.
- `retention_hours = -1` prunes everything.
- A line with a blank date and time becomes a position dated now, but its raw message is not
  stored. The hour that a wall clock shows twice is stored as if the clock showed UTC.

Weather:

- A state file that cannot be read stays on the disk while the service starts from the default,
  "on" (`state_file.rs:114-127`). Told to enable, it answers `Ok` without a write, since in memory
  nothing changes (`state_file.rs:152`), though the doc says that what the service does "never differs
  from what a restart would come back with" (`:142-144`) and that it "never acts on a setting a restart
  would lose" (`control.rs:46-47`). If the file says "off" and a later start can read it, the service
  is disabled. `SettingDurable` has this case as its exception.
- A fetch drops the chunks in hand before it is known whether they make a snapshot
  (`provider.rs:309-319`). If they do not (`LocationCount`, `NoTimes`), the error is a transient one,
  and the retry in the same hour buys every chunk again, which `provider.rs:297-298` says a retry
  does not. `FetchSound` allows a second purchase after an assembly only.
- After a restart the service can report `rate_limited` without a `rate_limit`
  (`refresh.rs:361`, `status.rs:76`); the token bucket is not kept over a restart.
- `nearest_hour` rounds the half hour up, `select_hour` takes the earlier of two equally near,
  although `provider.rs:17` calls them the same rule.
- If the broker forgets its retained topics while the service is dead, a desktop that knew it
  `online` goes on showing that.
- The desktop does not try a failed INSERT of a snapshot again before the next one arrives.
- A payload of somebody else on a topic replaces an unread good one in the watch channel.
- A status that was not acknowledged may be sent again before the birth message of the next
  connection.

Desktop:

- `set_storage_mode` opens files of the unnamed stack from the window of a named one
  (`commands.rs:1091` against `lib.rs:443`).
- A swap that fails before its last rename leaves in the slot a database that still has the staging
  name. The next swap opens that name as its fresh database, so that one file has two handles until
  the first is retired, and the slot gets the same rows again (`commands.rs:690-710`). `OneOwner`
  has this case as its exception; `StartsFresh` and `ReopensTheSame` are stated for commands after
  none that was cut off.
- Two `start_feed` calls that overlap both start a feed, and only one can be stopped
  (`commands.rs:55`).
- The status of a socket source is never `Connected` (`source/socket_source.rs:64`), and the
  watchdog judges silence only on a connected transport: the light of such a feed stays at
  `Connecting`, and the thresholds of `bridge.rs:416` are never reached.

Configuration:

- The docs promise defaults, file, environment, flags in this order. The feed client's overlay
  does not read `source_kind`, `recv_buffer_size`, `socket_timeout_secs`, the retry delays,
  `max_retry_queue_size`, `max_line_buffer_size`, the batch settings of Pulsar, `test_mode` and
  `heartbeat_pattern` from the file.
- `--print-config` prints every field (`main.rs:24-32`), also those of the list above, which have no
  effect when what was printed is used as the file: a receive buffer set by a flag is printed and
  then loaded as its default.
- The socket and MQTT ports in the files of the feed client and the data server are cut to 16 bits
  (`as u16`), where the weather server ignores a port that does not fit.
- A blank override of the weather topic is trimmed by the feed client only.

## 6. What is not modelled

- Numbers and texts that decide nothing: metrics, logging, HTTP rendering, the other columns of
  a position, the characters of a line, floating-point trajectories and geometry.
- `test_mode` and the no-op forwarder of the feed client as processes (`Settings` has when they are
  chosen); `delete_flight` and `purge`, which a user runs by hand.
- The read timeout of a socket against the housekeeping tick: `FeedClient` has no clock.
- Overlapping commands of one desktop window on storage, and the DuckDB share that a swap drops.
  Sharing a database is the work of a DuckDB extension of which the repository says little.
- The recorder's periodic checkpoint, and the race of the final one with the last flush. What
  the abort of the ingest task costs is in `Ingest`, which promises nothing for it.
- The limit of 16 requests of the publisher's channel: with three topics it is only reached by
  many changes during one stalled connection, and the publisher would then wait for a channel
  only it empties.
- The AI agent's stream: its events are ordered by a framework the repository only calls. The
  simulation agent is floating-point kinematics and calls of a language model.
- The TypeScript front end: React state over the commands modelled here, in one thread.
- External systems are what the code sees of them: DuckDB commits statement by statement and
  holds an exclusive lock per file; rumqttc buffers requests and reports an error from `poll`; an
  MQTT broker retains the last payload of a topic and publishes the last will of a session that
  ends without a disconnect; tokio's `broadcast` overwrites its oldest values and `watch` keeps
  the last.

## 7. Plan

Done: the feed client with `Delivery`, the flight store, ingest, the weather service from its
provider to the desktop and the recorder, both sides of the desktop (feed and storage), the tables
and queries of the data engine, the settings, the framing.

To model, in order of importance:

1. Overlapping storage commands of one window and of several (`DesktopStorage` has the steps; the
   slot's lock has to become a variable), and the share that a swap drops.
2. `Recorder`: periodic and final checkpoint against the last flush.
3. The request channel's limit in `WeatherPublisher`.
4. `purge` and `delete_flight` in `FlightStore`: both leave the tracker beside a changed table.
5. Scenario lists and playback of the front end, the agent's stream.

To prove, in order: `OneFeed` for commands that overlap once they are serialised, and the storage
theorems for several windows once a mode change keeps to its stack.

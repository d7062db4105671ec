------------------------------- MODULE Queries -------------------------------
(***************************************************************************)
(* The read side of adsb-data-engine/src/storage.rs: what the history      *)
(* queries answer, and that the answers the charts put side by side agree. *)
(* A query is one SQL statement under the handle's mutex; its Arrow twin   *)
(* runs the same statement.                                                *)
(*                                                                         *)
(* A table of positions is a sequence of rows.  Where an aircraft was is a *)
(* place: the bearing in degrees from the receiver (-180..180), or None    *)
(* for a row without coordinates.  `flights` is what insert_batch keeps    *)
(* (FlightStore); SegmentsOf is its content for rows recorded in order.    *)
(***************************************************************************)
EXTENDS Integers, Listing, SequencesExt

CONSTANTS
  None,         (* an absent bound, coordinate or handle                   *)
  GapThreshold, (* gap_threshold_ms                                        *)
  HourLength,   (* 3 600 000 ms, scaled                                    *)
  DefaultPage, MaxPage,  (* 24 and 1000 snapshots, scaled                  *)
  DefaultEvents (* 500 events of interest, scaled                          *)

ASSUME QueriesAssumption ==
  /\ None \notin Int /\ GapThreshold \in Nat \ {0} /\ HourLength \in Nat \ {0}
  /\ DefaultPage \in Nat \ {0} /\ MaxPage \in Nat /\ DefaultPage <= MaxPage
  /\ DefaultEvents \in Nat

Least(S) == CHOOSE x \in S : \A y \in S : x <= y
Greatest(S) == CHOOSE x \in S : \A y \in S : y <= x
FirstRows(s, n) == SubSeq(s, 1, Least({n, Len(s)}))

\* A bound left out adds no condition to the statement.
InWindow(at, w) == (w.start = None \/ at >= w.start) /\ (w.end = None \/ at <= w.end)
Within(rows, w) == {i \in DOMAIN rows : InWindow(rows[i].at, w)}
Located(rows) == {i \in DOMAIN rows : rows[i].place # None}

\* ORDER BY: the rows that come before row i.  Rows with equal keys are left in the order
\* of the table.
Earlier(rows) ==
  [i \in DOMAIN rows |->
     {j \in DOMAIN rows : rows[j].at < rows[i].at \/ (rows[j].at = rows[i].at /\ j < i)}]
Newer(rows) ==
  [i \in DOMAIN rows |->
     {j \in DOMAIN rows : rows[j].at > rows[i].at \/ (rows[j].at = rows[i].at /\ j < i)}]
ByAircraft(rows) ==
  [i \in DOMAIN rows |->
     {j \in DOMAIN rows : rows[j].hex < rows[i].hex \/ (rows[j].hex = rows[i].hex /\ j \in Earlier(rows)[i])}]
CreatedLater(rows) ==
  [i \in DOMAIN rows |->
     {j \in DOMAIN rows : rows[j].received > rows[i].received
                          \/ (rows[j].received = rows[i].received /\ j < i)}]

\* SELECT: the rows of the places I of the table, ordered.
Select(rows, I, ahead) ==
  LET order == InOrder(I, ahead) IN [k \in DOMAIN order |-> rows[order[k]]]

-----------------------------------------------------------------------------
(* Positions, aircraft and flights.                                        *)

\* query_bbox and query_bbox_arrow; `box` is the set of the places in it.
BboxQuery(rows, box, w, limit) ==
  FirstRows(Select(rows, {i \in Within(rows, w) : rows[i].place \in box}, ByAircraft(rows)), limit)

Trajectory(rows, hex, w) ==
  Select(rows, {i \in Within(rows, w) \cap Located(rows) : rows[i].hex = hex}, Earlier(rows))

Tagged(s, id) == [i \in DOMAIN s |-> [row |-> s[i], flight |-> id]]

\* get_trajectories_batch: the answers to a list of queries, one after the other.
BatchTrajectories(rows, wanted) ==
  FlattenSeq([i \in DOMAIN wanted |->
    Tagged(Trajectory(rows, wanted[i].hex, wanted[i].window), wanted[i].flight)])

\* The rows of the join of positions and flights.
\* Mutant of OnFlight: the last position of a flight is cut off.
OnFlightOpen(r, f) == r.hex = f.hex /\ r.at >= f.first /\ (r.at < f.last \/ f.first = f.last)
OnFlight(r, f) == r.hex = f.hex /\ r.at >= f.first /\ r.at <= f.last

\* get_all_trajectories: one join for all the flights, in the order of their ids.
AllTrajectories(rows, flights, w) ==
  FlattenSeq([i \in DOMAIN flights |->
    Tagged(Select(rows, {r \in Within(rows, w) \cap Located(rows) : OnFlight(rows[r], flights[i])},
                  Earlier(rows)),
           flights[i].id)])

AircraftSummary(rows, w) ==
  LET seen(h) == {i \in Within(rows, w) : rows[i].hex = h}
      times(h) == {rows[i].at : i \in seen(h)}
  IN [h \in {rows[i].hex : i \in Within(rows, w)} |->
        [count |-> Cardinality(seen(h)), first |-> Least(times(h)), last |-> Greatest(times(h))]]

Overlaps(f, w) == (w.start = None \/ f.last >= w.start) /\ (w.end = None \/ f.first <= w.end)
FlightSummary(flights, w) == Among(flights, {f \in ToSet(flights) : Overlaps(f, w)})

\* The rows of `flights`: a position farther than the gap from the one before
\* it begins one.  (The statement that builds the table anew.)
SegmentsOf(rows) ==
  LET times(h) == {rows[i].at : i \in {j \in DOMAIN rows : rows[j].hex = h}}
      starts(h) == {t \in times(h) : \A u \in times(h) : u < t => t - u > GapThreshold}
      last(h, t) == Greatest({u \in times(h) : u >= t /\ \A s \in starts(h) : s <= t \/ u < s})
      num(h, t) == Cardinality({s \in starts(h) : s < t})
      all == {[hex |-> r.hex, id |-> <<r.hex, num(r.hex, r.at)>>, first |-> r.at, last |-> last(r.hex, r.at)] :
                r \in ToSet(rows)}
      segments == {f \in all : f.first \in starts(f.hex)}
  IN InOrder(segments, [f \in segments |->
                          {g \in segments : g.hex < f.hex \/ (g.hex = f.hex /\ g.first < f.first)}])

\* get_stats; the sizes are the counts times the size of a row.
Stats(rows, raw, flights) ==
  [rows |-> Len(rows), raw |-> Len(raw), flights |-> Len(flights),
   oldest |-> IF rows = <<>> THEN None ELSE Least({r.at : r \in ToSet(rows)}),
   newest |-> IF rows = <<>> THEN None ELSE Greatest({r.at : r \in ToSet(rows)}),
   size |-> 128 * Len(rows) + 200 * Len(raw) + 160 * Len(flights)]

-----------------------------------------------------------------------------
(* Charts.                                                                 *)

Quotient(at, width) ==     \* CAST(at / width AS BIGINT): to the nearest, ties to even
  LET q == at \div width
      r == 2 * (at % width)
  IN IF r < width \/ (r = width /\ q % 2 = 0) THEN q ELSE q + 1

BucketWidth(q) == IF q.buckets = 0 \/ q.end <= q.start THEN 0 ELSE (q.end - q.start) \div q.buckets

\* get_time_distribution: bucket -> count, for one of four metrics.
TimeDistribution(rows, raw, flights, q, metric) ==
  LET width == BucketWidth(q)
      counted(table) == {i \in DOMAIN table : table[i].at \in q.start..q.end}
      bucket(r) == Quotient(r.at, width) * width
      spread(f) == {b * width : b \in (f.first \div width)..(f.last \div width)} \cap (q.start..q.end)
      crossing == {i \in DOMAIN flights : Overlaps(flights[i], q)}
      histogram(table) == [b \in {bucket(table[i]) : i \in counted(table)} |->
                             Cardinality({i \in counted(table) : bucket(table[i]) = b})]
  IN IF width = 0 THEN [b \in {} |-> 0]
     ELSE CASE metric = "positions" -> histogram(rows)
            [] metric = "raw" -> histogram(raw)
            [] metric = "aircraft" ->
                 [b \in {bucket(rows[i]) : i \in counted(rows)} |->
                    Cardinality({rows[i].hex : i \in {j \in counted(rows) : bucket(rows[j]) = b}})]
            [] metric = "flights" ->
                 [b \in UNION {spread(flights[i]) : i \in crossing} |->
                    Cardinality({i \in crossing : b \in spread(flights[i])})]

Sector(bearing) == ((bearing + 365) % 360) \div 10

\* get_detection_range: a LEFT JOIN with flights, grouped, and all 36 sectors filled.
DetectionRange(rows, flights, w) ==
  LET located == Within(rows, w) \cap Located(rows)
      on(i) == {j \in DOMAIN flights : OnFlight(rows[i], flights[j])}
      joined == UNION {IF on(i) = {} THEN {<<i, 0>>} ELSE {i} \X on(i) : i \in located}
      within(s) == {p \in joined : Sector(rows[p[1]].place) = s}
  IN [s \in 0..35 |-> [count |-> Cardinality(within(s)),
                       flights |-> Cardinality({p[2] : p \in within(s)} \ {0})]]

\* get_hourly_heatmap: the flights are spread over every hour they last, also
\* over those outside the window; a FULL OUTER JOIN puts the three together.
Heatmap(rows, raw, flights, w) ==
  LET hour(t) == t \div HourLength
      of(table, h) == {i \in Within(table, w) : hour(table[i].at) = h}
      hours(table) == {hour(table[i].at) : i \in Within(table, w)}
      lasts(f) == hour(f.first)..hour(f.last)
      crossing == {i \in DOMAIN flights : Overlaps(flights[i], w)}
  IN [h \in hours(rows) \cup hours(raw) \cup UNION {lasts(flights[i]) : i \in crossing} |->
        [aircraft |-> Cardinality({rows[i].hex : i \in of(rows, h)}),
         messages |-> Cardinality(of(rows, h)),
         raw |-> Cardinality(of(raw, h)),
         flights |-> Cardinality({i \in crossing : h \in lasts(flights[i])})]]

-----------------------------------------------------------------------------
(* Raw messages, weather, status and events of interest.                   *)

\* query_raw_messages and its twin; 10 000 rows at most.
RawQuery(raw, hex, w, most) ==
  FirstRows(Select(raw, {i \in Within(raw, w) : raw[i].hex = hex}, Earlier(raw)), most)

RawCount(raw, w) == Cardinality(Within(raw, w))

\* Without a source several receivers' rows may match; the last received wins.
GetWeather(snaps, hour, source) ==
  LET found == {s \in ToSet(snaps) : s.at = hour /\ (source = None \/ s.source = source)}
  IN IF found = {} THEN None
     ELSE CHOOSE s \in found : \A t \in found : t.received <= s.received

ListWeather(snaps, w, limit) ==
  FirstRows(Select(snaps, Within(snaps, w), Newer(snaps)),
            IF limit = None THEN DefaultPage ELSE Least({limit, MaxPage}))

\* query_status_events; a row whose event type or status this version does not
\* know (None) makes the whole query an error.
StatusQuery(events, w, kind, limit) ==
  LET page == FirstRows(Select(events, {i \in Within(events, w) : kind = None \/ events[i].kind = kind},
                               Newer(events)), limit)
  IN IF \E i \in DOMAIN page : page[i].kind = None THEN None ELSE page

\* query_events_of_interest: the ones of a window, the last created first.
EventQuery(events, w, source, limit) ==
  FirstRows(Select(events, {i \in Within(events, w) : source = None \/ events[i].source = source},
                   CreatedLater(events)),
            IF limit = None THEN DefaultEvents ELSE limit)

-----------------------------------------------------------------------------
(* The three ways in: a window's commands, the tool service and its HTTP   *)
(* server.  All answer Unavailable while the slot holds no handle.         *)

CommandAnswer(slot, answer) == IF slot = None THEN <<"error", "unavailable">> ELSE answer
ToolAnswer(slot, answer) == IF slot = None THEN <<"error", "unavailable">> ELSE answer

\* The arguments are parsed before the slot is looked at.
Dispatch(slot, known, parsed, answer) ==
  IF ~known THEN <<"error", "unknown tool">>
  ELSE IF ~parsed THEN <<"error", "invalid arguments">>
  ELSE ToolAnswer(slot, answer)

-----------------------------------------------------------------------------
(* What must agree.                                                        *)

Later(a, b) == IF a = None THEN b ELSE IF b = None THEN a ELSE Greatest({a, b})
Sooner(a, b) == IF a = None THEN b ELSE IF b = None THEN a ELSE Least({a, b})

(***************************************************************************)
(* The map draws the same tracks however it asks: all trajectories are the *)
(* flights' trajectories asked for one by one; every row with a place is   *)
(* on one flight, which the flight summary names; a box around everything  *)
(* has the same rows again, and a limit only cuts its end.                 *)
(***************************************************************************)
TracksAgree(rows, w) ==
  LET flights == SegmentsOf(rows)
      all == AllTrajectories(rows, flights, w)
      wanted == [i \in DOMAIN flights |->
                   [hex |-> flights[i].hex, flight |-> flights[i].id,
                    window |-> [start |-> Later(flights[i].first, w.start),
                                end |-> Sooner(flights[i].last, w.end)]]]
      places == {r.place : r \in ToSet(rows)} \ {None}
      boxed == BboxQuery(rows, places, w, Len(rows))
  IN /\ all = BatchTrajectories(rows, wanted)
     /\ Len(all) = Cardinality(Within(rows, w) \cap Located(rows))
     /\ ToSet(boxed) = {all[i].row : i \in DOMAIN all} /\ Len(boxed) = Len(all)
     /\ {all[i].flight : i \in DOMAIN all} \subseteq {f.id : f \in ToSet(FlightSummary(flights, w))}
     /\ \A n \in 0..Len(rows) : IsPrefix(BboxQuery(rows, places, w, n), boxed)
     /\ \A h \in {r.hex : r \in ToSet(rows)} :
          /\ Among(boxed, {r \in ToSet(rows) : r.hex = h}) = Trajectory(rows, h, w)
          /\ Among(RawQuery(rows, h, w, Len(rows)), {r \in ToSet(rows) : r.place # None}) = Trajectory(rows, h, w)

(***************************************************************************)
(* The charts of one window count the same rows: the histogram, the        *)
(* heatmap and the aircraft list have the rows in it once each, the        *)
(* sectors those with a place, also where flights are joined; a sector is  *)
(* centred on its bearing; no cell has more aircraft than flights or than  *)
(* rows; and a row is at most half a bucket from where it is counted.      *)
(***************************************************************************)
ChartsAgree(rows, w, buckets) ==
  LET flights == SegmentsOf(rows)
      n == Cardinality(Within(rows, w))
      heat == Heatmap(rows, rows, flights, w)
      summary == AircraftSummary(rows, w)
      sectors == DetectionRange(rows, flights, w)
      stats == Stats(rows, rows, flights)
      q == [start |-> w.start, end |-> w.end, buckets |-> buckets]
      width == BucketWidth(q)
      counts == TimeDistribution(rows, rows, flights, q, "positions")
      aircraft == TimeDistribution(rows, rows, flights, q, "aircraft")
      spread == TimeDistribution(rows, rows, flights, q, "flights")
  IN /\ SumFunction([h \in DOMAIN summary |-> summary[h].count]) = n
     /\ SumFunction([h \in DOMAIN heat |-> heat[h].messages]) = n
     /\ RawCount(rows, w) = n
     /\ SumFunction([s \in DOMAIN sectors |-> sectors[s].count])
          = Cardinality(Within(rows, w) \cap Located(rows))
     /\ \A h \in DOMAIN heat : heat[h].aircraft <= heat[h].messages /\ heat[h].aircraft <= heat[h].flights
     /\ \A s \in DOMAIN sectors : sectors[s].flights <= sectors[s].count
     /\ \A h \in DOMAIN summary : stats.oldest <= summary[h].first /\ summary[h].last <= stats.newest
     /\ w.start # None /\ w.end # None => 
          IF width = 0 THEN counts = [b \in {} |-> 0]
          ELSE /\ SumFunction(counts) = n
               /\ TimeDistribution(rows, rows, flights, q, "raw") = counts
               /\ DOMAIN aircraft = DOMAIN counts /\ \A b \in DOMAIN counts : aircraft[b] <= counts[b]
               /\ \A b \in DOMAIN counts : \E i \in DOMAIN rows :
                    2 * (rows[i].at - b) <= width /\ 2 * (b - rows[i].at) <= width
               /\ DOMAIN spread \subseteq w.start..w.end
               /\ \A b \in DOMAIN spread : spread[b] <= Len(FlightSummary(flights, w))

\* A sector is centred on its bearing.
SectorsCentred == \A bearing \in -180..180 :
  LET off == (bearing - 10 * Sector(bearing) + 720) % 360
  IN Sector(bearing) \in 0..35 /\ (off <= 5 \/ off >= 355)

(***************************************************************************)
(* A page of snapshots is the newest of the window, and each snapshot on   *)
(* it can be fetched by the key it is listed with; without a source, what  *)
(* is fetched was received last.  A page of events is the last created of  *)
(* the window, a page of status events the newest; no page leaves out a    *)
(* row while it has room.                                                  *)
(***************************************************************************)
PagesHonest(snaps, w, limit) ==
  LET page == ListWeather(snaps, w, limit)
      events == EventQuery(snaps, w, None, limit)
      status == StatusQuery([i \in DOMAIN snaps |-> [at |-> snaps[i].at, kind |-> snaps[i].source]],
                            w, None, 2)
      inside == {s \in ToSet(snaps) : InWindow(s.at, w)}
  IN /\ Len(page) <= MaxPage
     /\ \A i \in DOMAIN page : GetWeather(snaps, page[i].at, page[i].source) = page[i]
     /\ \A i \in DOMAIN page : GetWeather(snaps, page[i].at, None).received >= page[i].received
     /\ \A s \in inside \ ToSet(page) :
          /\ \A i \in DOMAIN page : page[i].at >= s.at
          /\ Len(page) = IF limit = None THEN DefaultPage ELSE Least({limit, MaxPage})
     /\ \A s \in inside \ ToSet(events) :
          /\ \A i \in DOMAIN events : events[i].received >= s.received
          /\ Len(events) = IF limit = None THEN DefaultEvents ELSE limit
     /\ Len(status) = Least({2, Cardinality(inside)})
     /\ \A s \in inside : Len(status) = 2 => s.at <= status[1].at

\* A call that is understood is answered as the window's command is, and one made
\* while no database is open is an error, never an empty answer.
AnswersAlike(answer) ==
  \A slot \in {None, "open"}, known, parsed \in BOOLEAN :
    /\ Dispatch(slot, TRUE, TRUE, answer) = CommandAnswer(slot, answer)
    /\ slot = None \/ ~known \/ ~parsed => Dispatch(slot, known, parsed, answer)[1] = "error"
=============================================================================

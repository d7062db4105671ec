--------------------------- MODULE RecordedTables ---------------------------
(***************************************************************************)
(* The recorded tables of adsb-data-engine/src/storage.rs beside flights:  *)
(* positions, raw_messages, weather_snapshots and status_events, with      *)
(* retention (prune_sync), backup (export_database_sync) and merging of    *)
(* another database (import_database_sync).                                *)
(*                                                                         *)
(* A table counts the rows of each key: what the import calls natural (an  *)
(* aircraft and a time; a receiver and a model hour).  The statements of   *)
(* one call run one after the other under the handle's mutex, each         *)
(* committed by itself; `done` is how many of them took effect before one  *)
(* failed or the process ended.                                            *)
(***************************************************************************)
EXTENDS Integers, FiniteSets

CONSTANTS
  MaxTime,    (* positions and messages have a time in 0..MaxTime          *)
  Hours,      (* the model hours                                           *)
  Own, Other, (* source_id of this database, and of another receiver       *)
  Absent,     (* a table that is not in a file                             *)
  Faults,     (* TRUE iff statements may fail and the process may end      *)
  MaxOps      (* calls in a behaviour (bound)                              *)

ASSUME RecordedAssumption ==
  MaxTime \in Nat /\ Own # Other /\ Faults \in BOOLEAN /\ MaxOps \in Nat

VARIABLES
  positions, raw, weather,  (* key -> number of rows                       *)
  status,     (* number of rows of status_events                           *)
  file,       (* the database file beside this one: Absent or its tables   *)
  attached,   (* TRUE iff export_db is still attached                      *)
  ops,        (* calls made so far                                         *)
  recorded,   (* history: the rows this process recorded                   *)
  given,      (* history: the rows the other receiver's file had           *)
  cut,        (* history: everything older was pruned                      *)
  merged      (* history: what files that were imported whole had          *)

tables == <<positions, raw, weather>>
past == <<recorded, given, cut, merged>>
recordedVars == <<tables, status, file, attached, ops, past>>

Time == 0..MaxTime
Key == {Own, Other} \X Hours
NoRows(K) == [k \in K |-> 0]
Plus(f, k) == [f EXCEPT ![k] = @ + 1]
Keys(f) == {k \in DOMAIN f : f[k] > 0}
KeysIn(f) == IF f = Absent THEN {} ELSE Keys(f)
\* Another receiver's database: an export, so perhaps with rows recorded twice,
\* or of a version that had no weather yet.
OtherFiles ==
  {[positions |-> [t \in Time |-> IF t \in P THEN n ELSE 0],
    raw |-> [t \in Time |-> IF t \in P THEN 1 ELSE 0], weather |-> w] :
     P \in SUBSET Time, n \in 1..2,
     w \in {Absent, NoRows(Key)} \cup {Plus(NoRows(Key), <<o, h>>) : o \in {Own, Other}, h \in Hours}}

RecordedInit ==
  /\ positions = NoRows(Time) /\ raw = NoRows(Time) /\ weather = NoRows(Key)
  /\ status = 0 /\ attached = FALSE /\ ops = 0
  /\ file \in {Absent} \cup OtherFiles
  /\ recorded = [positions |-> NoRows(Time), raw |-> NoRows(Time), weather |-> NoRows(Key)]
  /\ given = file
  /\ cut = 0
  /\ merged = [positions |-> {}, raw |-> {}, weather |-> {}]

Operation == ops < MaxOps /\ ops' = ops + 1

-----------------------------------------------------------------------------
(* Recording.                                                              *)

\* insert_batch_sync appends the positions; its flights are in FlightStore.
RecordPosition ==
  /\ Operation
  /\ \E t \in Time :
       /\ positions' = Plus(positions, t)
       /\ recorded' = [recorded EXCEPT !.positions = Plus(@, t)]
  /\ UNCHANGED <<raw, weather, status, file, attached, given, cut, merged>>

RecordRaw ==
  /\ Operation
  /\ \E t \in Time :
       /\ raw' = Plus(raw, t)
       /\ recorded' = [recorded EXCEPT !.raw = Plus(@, t)]
  /\ UNCHANGED <<positions, weather, status, file, attached, given, cut, merged>>

\* The broker delivers a retained snapshot again on every reconnect.
RecordWeather ==
  /\ Operation
  /\ \E h \in Hours :
       IF weather[<<Own, h>>] > 0
       THEN UNCHANGED <<weather, recorded>>
       ELSE /\ weather' = Plus(weather, <<Own, h>>)
            /\ recorded' = [recorded EXCEPT !.weather = Plus(@, <<Own, h>>)]
  /\ UNCHANGED <<positions, raw, status, file, attached, given, cut, merged>>

RecordStatus ==
  /\ Operation /\ status' = status + 1
  /\ UNCHANGED <<tables, file, attached, past>>

-----------------------------------------------------------------------------
(* Retention, backup, merging.                                             *)

Statements(n) == IF Faults THEN 0..n ELSE {n}

Pruned(f, c) == [t \in Time |-> IF t < c THEN 0 ELSE f[t]]

\* Positions first, then raw messages; nothing else is ever pruned.
Prune ==
  /\ Operation
  /\ \E c \in Time, done \in Statements(2) :
       /\ positions' = IF done >= 1 THEN Pruned(positions, c) ELSE positions
       /\ raw' = IF done = 2 THEN Pruned(raw, c) ELSE raw
       /\ cut' = IF done >= 1 /\ c > cut THEN c ELSE cut
       /\ merged' = IF done >= 1
                    THEN [merged EXCEPT !.positions = {t \in @ : t >= c}, !.raw = {t \in @ : t >= c}]
                    ELSE merged
  /\ UNCHANGED <<weather, status, file, attached, recorded, given>>

(***************************************************************************)
(* The target is removed, a new file attached as export_db, three tables   *)
(* created, the file detached.  After an error it stays attached, and the  *)
(* next ATTACH under that name fails: when the target is removed already.  *)
(***************************************************************************)
Export ==
  /\ Operation
  /\ IF attached
     THEN file' = Absent /\ UNCHANGED attached
     ELSE \E done \in Statements(3) :
            /\ file' = [positions |-> IF done >= 1 THEN positions ELSE Absent,
                        raw |-> IF done >= 2 THEN raw ELSE Absent,
                        weather |-> IF done = 3 THEN weather ELSE Absent]
            /\ attached' = (done < 3)
  /\ UNCHANGED <<tables, status, past>>

\* The rows of `from` whose key `to` has none of; all of them, if a key is twice there.
\* Mutant of Missing: no anti-join.
MissingAll(to, from) == [k \in DOMAIN to |-> IF from = Absent THEN to[k] ELSE to[k] + from[k]]
Missing(to, from) == [k \in DOMAIN to |-> IF from = Absent \/ to[k] > 0 THEN to[k] ELSE from[k]]

\* with_attached_db detaches also after an error: an import can be tried again.
Import ==
  /\ Operation
  /\ file # Absent /\ ~attached
  /\ \E done \in Statements(3) :
       /\ positions' = IF done >= 1 THEN Missing(positions, file.positions) ELSE positions
       /\ raw' = IF done >= 2 THEN Missing(raw, file.raw) ELSE raw
       /\ weather' = IF done = 3 THEN Missing(weather, file.weather) ELSE weather
       /\ merged' = IF done = 3
                    THEN [positions |-> merged.positions \cup KeysIn(file.positions),
                          raw |-> merged.raw \cup KeysIn(file.raw),
                          weather |-> merged.weather \cup KeysIn(file.weather)]
                    ELSE merged
  /\ UNCHANGED <<status, file, attached, recorded, given, cut>>

\* The process ends, and the database is opened again.
Reopen ==
  /\ Faults /\ attached
  /\ attached' = FALSE
  /\ UNCHANGED <<tables, status, file, ops, past>>

RecordedNext ==
  \/ RecordPosition \/ RecordRaw \/ RecordWeather \/ RecordStatus
  \/ Prune \/ Export \/ Import \/ Reopen

RecordedSpec == RecordedInit /\ [][RecordedNext]_recordedVars

-----------------------------------------------------------------------------
(* Properties.                                                             *)

Rows(name) == IF given = Absent \/ given[name] = Absent THEN [k \in {} |-> 0] ELSE given[name]
GivenAt(name, k) == IF k \in DOMAIN Rows(name) THEN Rows(name)[k] ELSE 0

RecordedTypeOK ==
  /\ \A t \in Time : positions[t] \in Nat /\ raw[t] \in Nat
  /\ \A k \in Key : weather[k] \in Nat
  /\ attached \in BOOLEAN /\ status \in Nat

\* A row that was recorded and is not older than the last pruning is in its table; a
\* key has no more rows than were recorded and the other receiver had, and a model
\* hour one; what a file that was imported whole had is there.
RowsBounded ==
  /\ RecordedTypeOK
  /\ \A t \in Time :
       /\ t >= cut => positions[t] >= recorded.positions[t] /\ raw[t] >= recorded.raw[t]
       /\ positions[t] <= recorded.positions[t] + GivenAt("positions", t)
       /\ raw[t] <= recorded.raw[t] + GivenAt("raw", t)
  /\ \A k \in Key : weather[k] <= 1 /\ weather[k] >= recorded.weather[k]
  /\ merged.positions \subseteq Keys(positions)
  /\ merged.raw \subseteq Keys(raw)
  /\ merged.weather \subseteq Keys(weather)

\* A key that has rows gets another one only by being recorded.
GainsOne(table, recordedRows, k) ==
  table[k] > 0 /\ table'[k] > table[k] =>
    table'[k] = table[k] + 1 /\ recordedRows'[k] = recordedRows[k] + 1
NoneCopied ==
  /\ \A t \in Time : /\ GainsOne(positions, recorded.positions, t)
                     /\ GainsOne(raw, recorded.raw, t)
  /\ \A k \in Key : weather[k] > 0 => weather'[k] = weather[k]

(***************************************************************************)
(* Whatever calls fail halfway and are made again: no row that should be   *)
(* there is missing, and no import, of a backup of these tables either,    *)
(* makes a row of a key that has one, so that only recording the same      *)
(* moment again (insert_batch_sync, insert_raw_sync) gives it another.     *)
(***************************************************************************)
EachRowOnce == []RowsBounded /\ [][NoneCopied]_recordedVars
=============================================================================

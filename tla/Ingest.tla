------------------------------- MODULE Ingest -------------------------------
(***************************************************************************)
(* adsb-data-engine, ingest.rs: one IngestPipeline from the broadcast      *)
(* channel of the feed to the batch sink and the storage, with what works  *)
(* against it: the sender, which overwrites the oldest lines of a slow     *)
(* receiver; the commands that hold or empty the storage slot; the         *)
(* recording toggles of the user; and, in the data server, the recorder    *)
(* that aborts the task when the source ends.                              *)
(*                                                                         *)
(* A line is its place in the order of arrival; a field of a position      *)
(* holds the line that supplied it.                                        *)
(***************************************************************************)
EXTENDS Integers, FiniteSets, Sequences, SequencesExt, FiniteSetsExt, Functions

CONSTANTS
  Aircraft,    (* hex_idents                                               *)
  Field,       (* optional fields of an AircraftPosition                   *)
  Lines,       (* the kinds of line the source may send                    *)
  Capacity,    (* of the broadcast channel (4096)                          *)
  Aborts,      (* TRUE in the data server: Recorder aborts the task        *)
  MaxLines,    (* lines sent in a behaviour (bound)                        *)
  MaxCommands  (* toggles and storage commands in a behaviour (bound)      *)

\* What parsing tells apart: a line that is no MSG of an aircraft ("noise"),
\* and a position whose date and time are both empty ("untimed").
LineKind == [kind : {"timed", "untimed", "noise"}, aircraft : Aircraft, fields : SUBSET Field]

\* The aircraft of a run: a source has sent finitely many lines.
ASSUME AircraftAssumption == IsFiniteSet(Aircraft)
ASSUME LinesAssumption == Lines \subseteq LineKind
ASSUME CapacityAssumption == Capacity \in Nat \ {0} /\ Aborts \in BOOLEAN
ASSUME BoundAssumption == MaxLines \in Nat /\ MaxCommands \in Nat

VARIABLES
  sent,             (* the lines broadcast                                 *)
  closed,           (* the sender is dropped                               *)
  next,             (* the receiver's next line                            *)
  phase,            (* where run and flush are                             *)
  last,             (* the flush under way is the one after Closed         *)
  buffer, message_counts, raw_buffer,
  messages_parsed, record_positions, record_raw,
  batch,            (* the drained batch of the flush under way            *)
  slot,             (* SharedStorage: open, none, or held by a writer      *)
  stored_raw,       (* rows of raw_messages                                *)
  window,           (* history: lines absorbed since the last drain        *)
  emitted,          (* history: message_count total handed to the sink     *)
  commands          (* history: commands, for the bound                    *)

input == <<sent, closed>>
toggles == <<record_positions, record_raw>>
store == <<slot, commands>>
vars == <<input, next, phase, last, buffer, message_counts, raw_buffer, messages_parsed,
          toggles, batch, store, stored_raw, window, emitted>>

\* An aircraft without an entry, and an empty buffer.
NoPosition == [at |-> 0, value |-> [f \in Field |-> 0], message_count |-> 0]
Empty == [a \in Aircraft |-> NoPosition]

Init ==
  /\ sent = <<>> /\ closed = FALSE /\ next = 1
  /\ phase = "select" /\ last = FALSE
  /\ buffer = Empty /\ message_counts = [a \in Aircraft |-> 0] /\ raw_buffer = <<>>
  /\ messages_parsed = 0 /\ record_positions = TRUE /\ record_raw = TRUE
  /\ batch = Empty /\ slot \in {"open", "none"} /\ stored_raw = <<>>
  /\ window = {} /\ emitted = 0 /\ commands = 0

-----------------------------------------------------------------------------
(* The source: sbs_broadcast of the feed.                                  *)

Send(line) ==
  /\ ~closed /\ Len(sent) < MaxLines
  /\ sent' = Append(sent, line)
  /\ UNCHANGED <<closed, next, phase, last, buffer, message_counts, raw_buffer,
                 messages_parsed, toggles, batch, store, stored_raw, window, emitted>>

SourceEnds ==
  /\ ~closed /\ closed' = TRUE
  /\ UNCHANGED <<sent, next, phase, last, buffer, message_counts, raw_buffer,
                 messages_parsed, toggles, batch, store, stored_raw, window, emitted>>

\* The oldest line the channel still holds.
Oldest == IF Len(sent) > Capacity THEN Len(sent) - Capacity + 1 ELSE 1

-----------------------------------------------------------------------------
(* absorb.                                                                 *)

\* parse_sbs_message succeeds; parse_sbs_raw_fields and extract_sbs_timestamp do.
Parses(line) == line.kind # "noise"
Archives(line) == line.kind = "timed"

\* The position parsed from line number i.
Position(i) ==
  [at |-> i, value |-> [f \in Field |-> IF f \in sent[i].fields THEN i ELSE 0],
   message_count |-> 0]

\* Mutant of Merge: the new position replaces the old one.
MergeInsert(old, new) == new

\* merge_into_buffer: new.or(existing), field by field.
Merge(old, new) ==
  IF old = NoPosition THEN new
  ELSE [old EXCEPT !.at = new.at, !.value =
         [f \in Field |-> IF new.value[f] # 0 THEN new.value[f] ELSE old.value[f]]]

\* messages_parsed, message_counts and the buffer advance together.
Absorb(i) ==
  LET line == sent[i]
      a == line.aircraft
  IN /\ raw_buffer' = IF Archives(line) THEN Append(raw_buffer, i) ELSE raw_buffer
     /\ messages_parsed' = messages_parsed + (IF Parses(line) THEN 1 ELSE 0)
     /\ message_counts' = [message_counts EXCEPT ![a] = @ + (IF Parses(line) THEN 1 ELSE 0)]
     /\ buffer' = IF Parses(line) THEN [buffer EXCEPT ![a] = Merge(@, Position(i))] ELSE buffer
     /\ window' = window \cup {i}

\* rx.recv() returns a line.
Receive ==
  /\ phase = "select" /\ Oldest <= next /\ next <= Len(sent)
  /\ Absorb(next) /\ next' = next + 1
  /\ UNCHANGED <<input, phase, last, toggles, batch, store, stored_raw, emitted>>

\* rx.recv() returns Lagged: the lines the channel overwrote are skipped.
Lagged ==
  /\ phase = "select" /\ next < Oldest
  /\ next' = Oldest
  /\ UNCHANGED <<input, phase, last, buffer, message_counts, raw_buffer, messages_parsed,
                 toggles, batch, store, stored_raw, window, emitted>>

-----------------------------------------------------------------------------
(* flush.                                                                  *)

\* Mutant of Drained: message_count takes the total of all aircraft.
DrainedTotal ==
  [a \in Aircraft |->
     IF buffer[a] = NoPosition THEN NoPosition
     ELSE [buffer[a] EXCEPT !.message_count = messages_parsed]]

\* The batch: every position with the count of its aircraft.
Drained ==
  [a \in Aircraft |->
     IF buffer[a] = NoPosition THEN NoPosition
     ELSE [buffer[a] EXCEPT !.message_count = message_counts[a]]]

Total(positions) == SumFunction([a \in Aircraft |-> positions[a].message_count])

\* An empty buffer, and positions that are not recorded, skip steps of flush.
FlushPhase == IF buffer = Empty THEN "raw" ELSE IF record_positions THEN "persist" ELSE "sink"

\* The buffer is drained; record_positions is loaded here.
BeginFlush ==
  /\ phase = "select"
  /\ buffer' = Empty /\ window' = {}
  /\ batch' = Drained
  /\ message_counts' = [a \in Aircraft |-> IF buffer[a] = NoPosition THEN message_counts[a] ELSE 0]
  /\ phase' = FlushPhase
  /\ UNCHANGED <<input, next, raw_buffer, messages_parsed, toggles, store, stored_raw,
                 emitted>>

\* flush_interval.tick()
Tick == BeginFlush /\ UNCHANGED last

\* Mutant of Closed: the loop ends without the final flush.
ClosedAtOnce ==
  /\ phase = "select" /\ closed /\ next = Len(sent) + 1
  /\ last' = TRUE /\ phase' = "done"
  /\ UNCHANGED <<input, next, buffer, message_counts, raw_buffer, messages_parsed,
                 toggles, batch, store, stored_raw, window, emitted>>

\* rx.recv() returns Closed once every line was received.
Closed ==
  /\ phase = "select" /\ closed /\ next = Len(sent) + 1
  /\ last' = TRUE /\ BeginFlush

\* Mutant of PersistBatch: waits for a handle.
PersistBatchWaits ==
  /\ phase = "persist" /\ slot = "open"
  /\ phase' = "sink"
  /\ UNCHANGED <<input, next, last, buffer, message_counts, raw_buffer, messages_parsed,
                 toggles, batch, store, stored_raw, window, emitted>>

\* persist_batch waits while a command holds the slot.  What insert_batch does is
\* module FlightStore's; a failed one and an empty slot lose the batch, no more.
PersistBatch ==
  /\ phase = "persist" /\ slot # "held"
  /\ phase' = "sink"
  /\ UNCHANGED <<input, next, last, buffer, message_counts, raw_buffer, messages_parsed,
                 toggles, batch, store, stored_raw, window, emitted>>

\* sink.on_positions(&batch)
Sink ==
  /\ phase = "sink" /\ phase' = "raw"
  /\ emitted' = emitted + Total(batch) /\ batch' = Empty
  /\ UNCHANGED <<input, next, last, buffer, message_counts, raw_buffer, messages_parsed,
                 toggles, store, stored_raw, window>>

EndFlush ==
  /\ phase' = IF last THEN "done" ELSE "select"
  /\ UNCHANGED <<input, next, last, buffer, message_counts, messages_parsed, toggles,
                 batch, store, window, emitted>>

\* Mutant of RawKept: raw_buffer.clear() comes only when raw recording is on.
RawKeptWhilePaused == IF record_raw THEN <<>> ELSE raw_buffer

\* raw_buffer.clear(), whatever became of the records.
RawKept == <<>>

\* record_raw is off: the records are dropped.
SkipRaw ==
  /\ phase = "raw" /\ ~record_raw
  /\ raw_buffer' = RawKept /\ UNCHANGED stored_raw
  /\ EndFlush

\* record_raw is loaded; persist_raw_batch then waits for the slot, or returns at
\* once if there is nothing to write.
LoadRaw ==
  /\ phase = "raw" /\ record_raw
  /\ phase' = "persist_raw"
  /\ UNCHANGED <<input, next, last, buffer, message_counts, raw_buffer, messages_parsed,
                 toggles, batch, store, stored_raw, window, emitted>>

PersistRaw ==
  /\ phase = "persist_raw" /\ (slot # "held" \/ raw_buffer = <<>>)
  /\ \/ slot = "open" /\ stored_raw' = stored_raw \o raw_buffer
     \/ UNCHANGED stored_raw
  /\ raw_buffer' = RawKept
  /\ EndFlush

-----------------------------------------------------------------------------
(* What works against the pipeline.                                        *)

\* set_recording_state
SetRecording(positions, raw) ==
  /\ commands < MaxCommands /\ commands' = commands + 1
  /\ <<positions, raw>> # toggles
  /\ record_positions' = positions /\ record_raw' = raw
  /\ UNCHANGED <<input, next, phase, last, buffer, message_counts, raw_buffer,
                 messages_parsed, batch, slot, stored_raw, window, emitted>>

\* A command takes the write lock of the slot, and releases it with a handle in
\* it or without one.
HoldSlot ==
  /\ slot # "held" /\ commands < MaxCommands /\ commands' = commands + 1
  /\ slot' = "held"
  /\ UNCHANGED <<input, next, phase, last, buffer, message_counts, raw_buffer,
                 messages_parsed, toggles, batch, stored_raw, window, emitted>>

ReleaseSlot ==
  /\ slot = "held" /\ slot' \in {"open", "none"}
  /\ UNCHANGED <<input, next, phase, last, buffer, message_counts, raw_buffer,
                 messages_parsed, toggles, batch, commands, stored_raw, window, emitted>>

\* Recorder::run aborts the task when the source ends, or the process ends; a
\* statement that has started is executed to its end.
Abort ==
  /\ Aborts /\ phase \notin {"done", "aborted"}
  /\ phase' = "aborted"
  /\ \/ phase = "persist_raw" /\ slot = "open" /\ stored_raw' = stored_raw \o raw_buffer
     \/ UNCHANGED stored_raw
  /\ UNCHANGED <<input, next, last, buffer, message_counts, raw_buffer, messages_parsed,
                 toggles, batch, store, window, emitted>>

Ended == phase \in {"done", "aborted"} /\ UNCHANGED vars

Next ==
  \/ \E line \in Lines : Send(line)
  \/ SourceEnds \/ Receive \/ Lagged \/ Tick \/ Closed
  \/ PersistBatch \/ Sink \/ SkipRaw \/ LoadRaw \/ PersistRaw
  \/ \E p, r \in BOOLEAN : SetRecording(p, r)
  \/ HoldSlot \/ ReleaseSlot \/ Abort \/ Ended

Spec == Init /\ [][Next]_vars

\* The runtime polls the task whenever it is ready, select! picks among ready
\* branches at random, and no command keeps the slot for ever.
LiveSpec ==
  /\ Spec
  /\ SF_vars(Receive \/ Lagged \/ Closed)
  /\ WF_vars(PersistBatch \/ Sink \/ SkipRaw \/ LoadRaw \/ PersistRaw)
  /\ WF_vars(ReleaseSlot)

-----------------------------------------------------------------------------
(* Properties.                                                             *)

Merged == [at : Nat, value : [Field -> Nat], message_count : Nat]

Terminal == {"done", "aborted"}

\* The types of the variables.  A drained batch exists exactly from the drain to
\* the sink: no path through flush skips on_positions.
TypeOK ==
  /\ sent \in Seq(Lines) /\ closed \in BOOLEAN /\ next \in 1..(Len(sent) + 1)
  /\ phase \in {"select", "persist", "sink", "raw", "persist_raw"} \cup Terminal
  /\ last \in BOOLEAN /\ record_positions \in BOOLEAN /\ record_raw \in BOOLEAN
  /\ buffer \in [Aircraft -> Merged] /\ batch \in [Aircraft -> Merged]
  /\ message_counts \in [Aircraft -> Nat]
  /\ messages_parsed \in Nat /\ commands \in 0..MaxCommands
  /\ slot \in {"open", "none", "held"}
  /\ window \subseteq 1..Len(sent)
  /\ raw_buffer \in Seq(1..Len(sent)) /\ stored_raw \in Seq(1..Len(sent))
  /\ phase \notin Terminal => (batch # Empty <=> phase \in {"persist", "sink"})

\* Lines of the window that report aircraft a, and those that supply field f.
Reports(a) == {i \in window : sent[i].aircraft = a /\ sent[i].kind # "noise"}
Supplies(a, f) == {i \in Reports(a) : f \in sent[i].fields}

Newest(S) == IF S = {} THEN 0 ELSE Max(S)

\* "Keeps the best-known state per aircraft": merging line by line gives every
\* field its newest value in the window, whatever subtypes arrive in what order
\* and whichever lines were lost to a lag, and the timestamp of the last line; no
\* path through flush skips the sink.
BestKnown ==
  /\ TypeOK
  /\ \A a \in Aircraft :
       buffer[a] = [at |-> Newest(Reports(a)), message_count |-> 0,
                    value |-> [f \in Field |-> Newest(Supplies(a, f))]]

\* Every parsed line is in the message_count of exactly one batch handed to the
\* sink, or will be in the next one: toggles, an empty slot and lag lose none.
EveryLineCounted ==
  emitted \in Nat /\ emitted + Total(batch) + SumFunction(message_counts) = messages_parsed

\* Rows of raw_messages are in the order of arrival and none is stored twice; and
\* between flushes the raw buffer holds the records of the window that the position
\* buffer was built from: none received while recording was paused is kept for later.
RawFollowsWindow ==
  LET all == IF phase \in Terminal THEN stored_raw ELSE stored_raw \o raw_buffer
  IN /\ \A i, j \in 1..Len(all) : i < j => all[i] < all[j]
     /\ phase = "select" => ToSet(raw_buffer) = {i \in window : sent[i].kind = "timed"}

\* A pipeline that ended by itself has received the last line and holds nothing.
DrainsOnClose ==
  phase = "done" => /\ next = Len(sent) + 1
                    /\ buffer = Empty /\ batch = Empty /\ raw_buffer = <<>>
                    /\ emitted = messages_parsed

\* "A released or unavailable store silently drops the batch so the live feed
\* never stalls on the recorder": once the channel closes, the pipeline ends.
EndsWhenClosed == closed ~> phase \in Terminal
=============================================================================

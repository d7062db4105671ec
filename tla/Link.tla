---------------------------------- MODULE Link ----------------------------------
(***************************************************************************)
(* From the bytes of the receiver to the rows of the database: the framing *)
(* of both ways in (client.rs process_buffer, source/mod.rs split_lines),  *)
(* the connection monitor and the pacing of reconnects (backoff.rs), and   *)
(* what a line is read as (sbs_parser.rs, parse_timestamp_to_ms).          *)
(*                                                                         *)
(* A byte is "x" or "h" (part of a line, "h" stands for the heartbeat      *)
(* pattern), "sp" (a space), "cr" or "nl".  A line for the parser is a     *)
(* record of the fields that decide; times are UTC, in units of an hour.   *)
(***************************************************************************)
EXTENDS Integers, Listing, SequencesExt

CONSTANTS
  Missed,     (* None: a blank field, a connection that was not made        *)
  MaxBuffer   (* max_line_buffer_size                                       *)

ASSUME LinkAssumption == MaxBuffer \in Nat \ {0} /\ Missed \notin Int

-----------------------------------------------------------------------------
(* Framing.                                                                *)

\* The pieces between the newlines, the one after the last included: with one byte
\* more, and all of them.
Cut(pieces, b) ==
  IF b = "nl" THEN Append(pieces, <<>>) ELSE Append(Front(pieces), Append(Last(pieces), b))
Pieces(s) ==
  LET upTo[n \in 0..Len(s)] == IF n = 0 THEN << <<>> >> ELSE Cut(upTo[n - 1], s[n])
  IN upTo[Len(s)]

IsBlank(line) == \A i \in DOMAIN line : line[i] \in {"sp", "cr"}
NotBlank(lines) == Among(lines, {l \in ToSet(lines) : ~IsBlank(l)})
NotEmpty(lines) == Among(lines, ToSet(lines) \ {<<>>})

\* The size is checked before the complete lines are taken out.
\* Mutant of ProcessBuffer: what follows the last newline is a line.
ProcessBufferAll(buffer, data) ==
  [overflow |-> Len(buffer \o data) > MaxBuffer, rest |-> <<>>,
   messages |-> NotBlank(Pieces(buffer \o data))]
ProcessBuffer(buffer, data) ==
  LET all == buffer \o data
      pieces == Pieces(all)
  IN IF Len(all) > MaxBuffer
     THEN [overflow |-> TRUE, rest |-> <<>>, messages |-> <<>>]
     ELSE [overflow |-> FALSE, rest |-> Last(pieces),
           messages |-> NotBlank(Front(pieces))]

\* One CR is stripped and empty lines dropped; lines of blanks are kept.
Strip(line) == IF line # <<>> /\ Last(line) = "cr" THEN Front(line) ELSE line
Stripped(lines) == [i \in DOMAIN lines |-> Strip(lines[i])]
SplitLines(payload) == NotEmpty(Stripped(Pieces(payload)))

\* receive_and_forward: read after read, until the buffer overflows.
OneRead(r, data) ==
  IF r.overflow THEN r
  ELSE LET p == ProcessBuffer(r.rest, data) IN [p EXCEPT !.messages = r.messages \o @]
ReadAll(reads) ==
  LET after[n \in 0..Len(reads)] ==
        IF n = 0 THEN [overflow |-> FALSE, rest |-> <<>>, messages |-> <<>>]
        ELSE OneRead(after[n - 1], reads[n])
  IN after[Len(reads)]

-----------------------------------------------------------------------------
(* The connection monitor: when it last saw a heartbeat and a data line.   *)

NewMonitor(t) == [heartbeat |-> t, data |-> t]
Classify(m, line, t, pattern) ==
  IF pattern /\ \E i \in DOMAIN line : line[i] = "h"
  THEN [m EXCEPT !.heartbeat = t] ELSE [m EXCEPT !.data = t]
IsStale(m, t, timeout) ==
  timeout # 0 /\ \A last \in {m.heartbeat, m.data} : t - last >= timeout

-----------------------------------------------------------------------------
(* Reconnects of the MQTT source and forwarder, in tenths of a second.     *)

MaxDelay == 300
Doubled[n \in 0..32] ==
  IF n = 0 THEN 1 ELSE IF 2 * Doubled[n - 1] > MaxDelay THEN MaxDelay ELSE 2 * Doubled[n - 1]
Delay(attempt) == Doubled[IF attempt < 32 THEN attempt ELSE 32]

ShouldReset(lasted) == lasted # Missed /\ lasted >= 300
ShortLived(lasted) == lasted # Missed /\ lasted < 50 /\ ~ShouldReset(lasted)

\* poll() fails; `lasted` is how long the connection was up, Missed if it was not.
Dropped(r, lasted) ==
  LET attempt == IF ShouldReset(lasted) THEN 0 ELSE r.attempt
      short == IF ShouldReset(lasted) THEN 0 ELSE IF ShortLived(lasted) THEN r.short + 1 ELSE r.short
  IN [attempt |-> attempt + 1, short |-> short, slept |-> Append(r.slept, Delay(attempt)),
      logged |-> attempt < 3 \/ attempt % 10 = 0, collision |-> short >= 3]

Retries(history) ==
  LET after[n \in 0..Len(history)] ==
        IF n = 0 THEN [attempt |-> 0, short |-> 0, slept |-> <<>>, logged |-> FALSE, collision |-> FALSE]
        ELSE Dropped(after[n - 1], history[n])
  IN after[Len(history)]

-----------------------------------------------------------------------------
(* Reading a line.                                                         *)

Accepted(l) == l.fields >= 22 /\ l.type = "MSG" /\ l.hex \notin {"", "000000"}

\* What is read is alone in a sequence, which is empty (None) where nothing is.  A date
\* and a time that are both blank make a timestamp of a position all the same.
PositionOf(l) == IF Accepted(l) THEN <<[hex |-> l.hex, timestamp |-> <<l.date, l.time>>]>> ELSE <<>>
RawOf(l) == IF Accepted(l) THEN <<[hex |-> l.hex, transmission |-> l.transmission]>> ELSE <<>>
TimestampOf(l) ==
  IF l.fields < 8 \/ (l.date = Missed /\ l.time = Missed) THEN <<>> ELSE <<<<l.date, l.time>>>>

\* A zone whose offset from UTC changes at one instant.
Offset(zone, t) == IF t < zone.change THEN zone.before ELSE zone.after
Instants(zone, clock) ==
  {t \in {clock - zone.before, clock - zone.after} : t + Offset(zone, t) = clock}

\* What a wall clock shows twice or never is taken as UTC.
FromWall(zone, clock) ==
  IF Cardinality(Instants(zone, clock)) = 1 THEN CHOOSE t \in Instants(zone, clock) : TRUE ELSE clock

\* parse_timestamp_to_ms; `zones` has Local and the zones that are known by name.
TimeOf(timestamp, tz, zones, present) ==
  IF timestamp[1] # "day" \/ timestamp[2] = Missed THEN present
  ELSE IF tz = "UTC" THEN timestamp[2]
  ELSE IF tz \in DOMAIN zones THEN FromWall(zones[tz], timestamp[2])
  ELSE FromWall(zones["Local"], timestamp[2])

-----------------------------------------------------------------------------
(* Properties.                                                             *)

\* The length of the longest, which is `most` at most.
Longest(seqs, most) ==
  CHOOSE n \in 0..most : /\ \A i \in DOMAIN seqs : Len(seqs[i]) <= n
                         /\ n = 0 \/ \E i \in DOMAIN seqs : Len(seqs[i]) = n

\* The monitor after these messages, one at each instant.
Watched(messages, pattern) ==
  LET after[n \in 0..Len(messages)] ==
        IF n = 0 THEN NewMonitor(0) ELSE Classify(after[n - 1], messages[n], n, pattern)
  IN after[Len(messages)]

(***************************************************************************)
(* However the stream is cut into reads, the client's lines and those of   *)
(* one payload with the same bytes are the same, but for two things the    *)
(* doc of split_lines denies (source/mod.rs:52-53): process_buffer leaves  *)
(* the CR at the end of a line, which split_lines takes off, and drops the *)
(* lines of blanks, which split_lines keeps.  What is incomplete waits for *)
(* the next read, and the buffer overflows only where a line and a read    *)
(* are longer than it; and the monitor calls the link stale exactly when   *)
(* no line at all came for the timeout, whatever it takes for a heartbeat. *)
(***************************************************************************)
LinesSame(reads, timeout) ==
  LET stream == FlattenSeq(reads)
      read == ReadAll(reads)
      rest == Last(Pieces(stream))
      complete == SubSeq(stream, 1, Len(stream) - Len(rest))
  IN /\ ~read.overflow => /\ Stripped(read.messages) = NotBlank(SplitLines(complete))
                          /\ read.rest = rest
     /\ read.overflow => Longest(Pieces(stream), Len(stream)) + Longest(reads, Len(stream)) > MaxBuffer
     /\ \A pattern \in BOOLEAN, t \in Len(read.messages)..(Len(read.messages) + 3) :
          IsStale(Watched(read.messages, pattern), t, timeout) <=> timeout # 0 /\ t - Len(read.messages) >= timeout

(***************************************************************************)
(* A line is stored as the same aircraft at the same time wherever it is   *)
(* stored, or as a position only; a heartbeat is not stored; and what the  *)
(* receiver's wall clock shows is the instant it was, but for the hour it  *)
(* shows twice.                                                            *)
(***************************************************************************)
ReadingsSame(l, tz, zones, present) ==
  LET position == PositionOf(l)
      raw == RawOf(l)
      stamp == TimestampOf(l)
  IN /\ raw # <<>> => position # <<>> /\ position[1].hex = raw[1].hex
     /\ l.hex = "000000" => position = <<>> /\ raw = <<>>
     /\ position # <<>> =>
          IF stamp # <<>> THEN position[1].timestamp = stamp[1]
          ELSE TimeOf(position[1].timestamp, tz, zones, present) = present

ClockHonest(zone) ==
  LET seen(t) == FromWall(zone, t + Offset(zone, t))
      twice(t) == Cardinality(Instants(zone, t + Offset(zone, t))) = 2
      around == (zone.change - 6)..(zone.change + 6)
  IN \A t \in around : IF twice(t) THEN seen(t) = t + Offset(zone, t) /\ zone.after < zone.before
                                   ELSE seen(t) = t

(***************************************************************************)
(* Reconnects are paced: a wait is never shorter than the one before       *)
(* unless the connection held, never longer than the ceiling, and reaches  *)
(* it on a link that flaps, though every connection succeeds; and another  *)
(* client with the same id is only suspected after connections that were   *)
(* made and did not hold.                                                  *)
(***************************************************************************)
Paced(history) ==
  LET r == Retries(history) IN
  /\ \A i \in DOMAIN history : r.slept[i] <= MaxDelay
  /\ \A i \in 2..Len(history) : ~ShouldReset(history[i]) => r.slept[i] >= r.slept[i - 1]
  /\ (\A i \in DOMAIN history : ~ShouldReset(history[i])) /\ Len(history) > 9 => Last(r.slept) = MaxDelay
  /\ r.collision => Cardinality({i \in DOMAIN history : ShortLived(history[i])}) >= 3
=============================================================================

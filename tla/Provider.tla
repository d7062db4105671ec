-------------------------------- MODULE Provider --------------------------------
(***************************************************************************)
(* OpenMeteoProvider (adsb-weather-server/src/provider.rs): a grid fetched *)
(* in chunks that are paced by a token bucket (budget.rs) and, when an     *)
(* attempt fails part-way, carried over to the next one of the same model  *)
(* hour; and the snapshot assembled from them (open_meteo.rs), which is    *)
(* where an answer that is not what was asked for is noticed.              *)
(*                                                                         *)
(* Time is in ticks, the allowance in calls.  WeatherRefresh decides when  *)
(* to fetch and what an error means; there is one fetch at a time, and it  *)
(* may be dropped where it awaits.                                         *)
(***************************************************************************)
EXTENDS Integers, Sequences, FiniteSets, Functions

CONSTANTS
  Cost,          (* the calls that each chunk of the grid costs, in order   *)
  Capacity,      (* of the bucket, in calls                                 *)
  PerTick,       (* calls the bucket is refilled with                       *)
  HourTicks,     (* ticks in an hour                                        *)
  FetchTicks,    (* a fetch lasts no longer: a request has a timeout of 30 s
                    and the whole grid is a few minutes' allowance          *)
  Nothing,       (* no snapshot                                             *)
  MaxTries,      (* fetches begun (bound)                                   *)
  MaxNow         (* the clock stops there (bound)                           *)

ASSUME ProviderAssumption ==
  /\ Cost \in Seq(Nat \ {0}) /\ Cost # <<>>
  /\ Capacity \in Nat \ {0} /\ PerTick = 1 /\ MaxNow \in Nat /\ MaxTries \in Nat
  /\ HourTicks \in Nat \ {0} /\ HourTicks % 2 = 0 /\ FetchTicks \in Nat /\ 2 * FetchTicks <= HourTicks

VARIABLES
  now,
  bucket,     (* tokens, and when they were last accounted for              *)
  partial,    (* the model hour, and the chunks in hand: index -> answer    *)
  fetch,      (* the fetch under way                                        *)
  tries,      (* fetches begun                                              *)
  snapshot,   (* the last one that was assembled                            *)
  purchases,  (* history: the requests                                      *)
  answered,   (* history: those of them that were answered                  *)
  assembled   (* history: the fetches that came to assemble a snapshot      *)

providerVars == <<now, bucket, partial, fetch, tries, snapshot, purchases, answered, assembled>>

NoFetch == [phase |-> "none", began |-> 0, hour |-> 0, got |-> <<>>, wake |-> 0]

ProviderInit ==
  /\ now \in 0..(HourTicks - 1)
  /\ bucket = [tokens |-> Capacity, updated |-> now]
  /\ partial = [hour |-> 0, chunks |-> <<>>]
  /\ fetch = NoFetch /\ tries = 0 /\ snapshot = Nothing
  /\ purchases = {} /\ answered = {} /\ assembled = {}

-----------------------------------------------------------------------------
(* Arithmetic.                                                             *)

\* The hour a fetch asks for.
NearestHour(t) == (t + HourTicks \div 2) \div HourTicks

\* past_hours=1, forecast_hours=2: the hours asked for.
Covered(t) == LET h == t \div HourTicks IN (h - 1)..(h + 1)

\* An answer for a chunk.  One that parses may leave out locations, or all times; more
\* locations than were asked for are not modelled.
Replies(t) == [short : BOOLEAN, hours : {Covered(t), {}}]

\* The hour nearest to t; of two, the earlier.
Away(h, t) == IF h * HourTicks >= t THEN h * HourTicks - t ELSE t - h * HourTicks
SelectHour(hours, t) ==
  CHOOSE h \in hours : \A g \in hours :
    Away(h, t) < Away(g, t) \/ (Away(h, t) = Away(g, t) /\ h <= g)

Smaller(a, b) == IF a <= b THEN a ELSE b
Larger(a, b) == IF a <= b THEN b ELSE a

(***************************************************************************)
(* TokenBucket::reserve with one call per tick: the bucket afterwards.     *)
(* Its `updated` is when the cost may be spent.  A cost above the capacity *)
(* waits for a full bucket and overdraws it.                               *)
(* Mutant of Reserve: a reservation does not wait for the bucket to refill. *)
(***************************************************************************)
ReserveAtOnce(b, cost) ==
  [tokens |-> Smaller(Capacity, b.tokens + Larger(0, now - b.updated)) - cost,
   updated |-> Larger(now, b.updated)]
Reserve(b, cost) ==
  LET tokens == IF now > b.updated THEN Smaller(Capacity, b.tokens + now - b.updated) ELSE b.tokens
      refill == Larger(0, Smaller(cost, Capacity) - tokens)
  IN [tokens |-> tokens + refill - cost, updated |-> Larger(now, b.updated) + refill]

\* PartialFetch::get.
InHand(hour, i) == partial.hour = hour /\ i \in DOMAIN partial.chunks

\* PartialFetch::insert: a new hour discards the chunks of the old one.
Kept(hour) == IF partial.hour = hour THEN partial.chunks ELSE <<>>
Inserted(hour, i, answer) ==
  [hour |-> hour,
   chunks |-> [j \in DOMAIN Kept(hour) \cup {i} |-> IF j = i THEN answer ELSE Kept(hour)[j]]]

-----------------------------------------------------------------------------
(* The fetch.                                                              *)

Upcoming == Len(fetch.got) + 1      \* the chunk the loop is at

Begin ==
  /\ fetch.phase = "none" /\ tries < MaxTries /\ tries' = tries + 1
  /\ fetch' = [NoFetch EXCEPT !.phase = "loop", !.began = now, !.hour = NearestHour(now)]
  /\ UNCHANGED <<now, bucket, partial, snapshot, purchases, answered, assembled>>

UseHeld ==
  /\ fetch.phase = "loop" /\ Upcoming <= Len(Cost) /\ InHand(fetch.hour, Upcoming)
  /\ fetch' = [fetch EXCEPT !.got = Append(@, partial.chunks[Upcoming])]
  /\ UNCHANGED <<now, bucket, partial, tries, snapshot, purchases, answered, assembled>>

Pace ==
  /\ fetch.phase = "loop" /\ Upcoming <= Len(Cost) /\ ~InHand(fetch.hour, Upcoming)
  /\ bucket' = Reserve(bucket, Cost[Upcoming])
  /\ fetch' = [fetch EXCEPT !.phase = "pacing", !.wake = bucket'.updated]
  /\ UNCHANGED <<now, partial, tries, snapshot, purchases, answered, assembled>>

Request ==
  /\ fetch.phase = "pacing" /\ now >= fetch.wake
  /\ fetch' = [fetch EXCEPT !.phase = "asking"]
  /\ purchases' = purchases \cup {[try |-> tries, chunk |-> Upcoming, at |-> now, hour |-> fetch.hour]}
  /\ UNCHANGED <<now, bucket, partial, tries, snapshot, answered, assembled>>

Answered ==
  /\ fetch.phase = "asking"
  /\ \E reply \in Replies(now) :
       /\ partial' = Inserted(fetch.hour, Upcoming, reply)
       /\ fetch' = [fetch EXCEPT !.phase = "loop", !.got = Append(@, reply)]
  /\ answered' = answered \cup {p \in purchases : p.try = tries /\ p.chunk = Upcoming}
  /\ UNCHANGED <<now, bucket, tries, snapshot, purchases, assembled>>

\* An error of any class, or the caller dropped the fetch where it awaits.  The
\* charge and the chunks in hand stay.
Abandoned ==
  /\ fetch.phase \in {"pacing", "asking"}
  /\ fetch' = NoFetch
  /\ UNCHANGED <<now, bucket, partial, tries, snapshot, purchases, answered, assembled>>

\* assemble_snapshot fails when locations are missing (LocationCount) or the first
\* one has no times (NoTimes).
CanAssemble(parts) == (\A i \in DOMAIN parts : ~parts[i].short) /\ parts[1].hours # {}

\* The valid hour is chosen from the first chunk and looked up in the others.
Assembly(parts, began) ==
  [began |-> began, parts |-> parts, valid |-> SelectHour(parts[1].hours, began)]

\* The chunks in hand are dropped before it is known whether they make a snapshot.
Assemble ==
  /\ fetch.phase = "loop" /\ Upcoming > Len(Cost)
  /\ partial' = [partial EXCEPT !.chunks = <<>>]
  /\ \/ CanAssemble(fetch.got) /\ snapshot' = Assembly(fetch.got, fetch.began)
     \/ ~CanAssemble(fetch.got) /\ UNCHANGED snapshot
  /\ fetch' = NoFetch /\ assembled' = assembled \cup {tries}
  /\ UNCHANGED <<now, bucket, tries, purchases, answered>>

\* A sleep ends on time; computing takes none.
TimePasses ==
  /\ now < MaxNow
  /\ fetch.phase # "none" => now < fetch.began + FetchTicks
  /\ fetch.phase # "loop" /\ (fetch.phase = "pacing" => now < fetch.wake)
  /\ now' = now + 1
  /\ UNCHANGED <<bucket, partial, fetch, tries, snapshot, purchases, answered, assembled>>

ProviderNext ==
  \/ Begin \/ UseHeld \/ Pace \/ Request \/ Answered \/ Abandoned \/ Assemble \/ TimePasses

ProviderSpec == ProviderInit /\ [][ProviderNext]_providerVars

-----------------------------------------------------------------------------
(* Properties.                                                             *)

CostOf(S) == SumFunction([p \in S |-> Cost[p.chunk]])
CostIn(a, b) == CostOf({p \in purchases : p.at \in a..b})

\* A fetch came to assemble its snapshot after p and before q.
Between(p, q) == \E t \in assembled : p.try <= t /\ t < q.try

(***************************************************************************)
(* A fetch that fails part-way and is made again: what one of its requests *)
(* was answered is not asked for again in the same model hour until a      *)
(* snapshot is assembled, or fails to be, from all of it; however fetches  *)
(* follow each other, no stretch of time has more calls than the bucket    *)
(* and its refill allow (and the one cost that is above the capacity); and *)
(* the snapshot has every location, and every chunk that has times at the  *)
(* one hour it is valid for, which is the nearest, though its chunks may   *)
(* have been fetched half an hour apart.                                   *)
(***************************************************************************)
Overdraft == Larger(0, Cost[CHOOSE i \in DOMAIN Cost : \A j \in DOMAIN Cost : Cost[j] <= Cost[i]] - Capacity)
FetchSound ==
  /\ \A p, q \in answered :
       p.chunk = q.chunk /\ p.hour = q.hour /\ p.try <= q.try => p = q \/ Between(p, q)
  /\ \A a, b \in {p.at : p \in purchases} : a <= b => CostIn(a, b) <= Capacity + Overdraft + (b - a)
  /\ snapshot # Nothing =>
       /\ Len(snapshot.parts) = Len(Cost)
       /\ \A i \in DOMAIN snapshot.parts :
            LET part == snapshot.parts[i]
            IN ~part.short /\ (part.hours = {} \/ snapshot.valid \in part.hours)
       /\ 2 * Away(snapshot.valid, snapshot.began) <= HourTicks
  /\ DOMAIN partial.chunks \subseteq DOMAIN Cost /\ bucket.tokens <= Capacity
=============================================================================

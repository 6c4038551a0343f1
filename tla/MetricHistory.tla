--------------------------- MODULE MetricHistory ---------------------------
(***************************************************************************)
(* The saved measurements: readings are recorded, complete minutes older   *)
(* than a day are replaced by one summary in bounded batches, and what is  *)
(* older than the retention is removed by whoever meets it:                *)
(*                                                                         *)
(*   src-tauri/src/metrics_db.rs         record, history_range,            *)
(*                                       clear_cache, delete_server        *)
(*   src-tauri/src/metrics_db/rollup.rs  maintain, compact_history,        *)
(*                                       compact_batch, summarize          *)
(*                                                                         *)
(* The clock is the computer's and may be set back.  Each transaction is   *)
(* one step: it excludes the others by the maintenance lock and SQLite,    *)
(* and a crash leaves all of it or nothing.                                *)
(***************************************************************************)
EXTENDS Integers, FiniteSets, FiniteSetsExt

CONSTANTS Series,      \* a server at one endpoint
          Minute,      \* MINUTE_MS in clock ticks
          Day,         \* DAY_MS
          Retention,   \* RETENTION_MS
          RawLimit,    \* raw rows a batch looks at
          Batch,       \* BATCH
          MaxClock,    \* bound: the clock
          MaxBack      \* bound: how often it is set back

ASSUME HistoryAssumption ==
  /\ Minute \in Nat \ {0} /\ Day \in Nat /\ Retention \in Nat
  /\ RawLimit \in Nat \ {0} /\ Batch \in Nat \ {0} /\ MaxClock \in Nat /\ MaxBack \in Nat

VARIABLES
  clock,    \* the computer's clock
  rows,     \* samples: [series, at, summary, of]; "of" are the readings a row stands for
  upkeep,   \* compact_history: the cutoff and the clock it began with, or none
  known     \* history: readings stored and not cleared, the greatest clock, clock set back

historyVars == <<clock, rows, upkeep, known>>

NoUpkeep == [now |-> 0, cutoff |-> 0]

HistoryInit ==
  /\ clock = Retention
  /\ rows = {}
  /\ upkeep = NoUpkeep
  /\ known = [readings |-> {}, newest |-> Retention, back |-> 0]

MinuteOf(at) == (at \div Minute) * Minute
Prune(saved, now) == {r \in saved : r.at >= now - Retention}
InMinute(s, minute) == {r \in rows : r.series = s /\ r.at >= minute /\ r.at < minute + Minute}

Summarized(s, minute) == [series |-> s, at |-> minute, summary |-> TRUE] \in
                           {[series |-> r.series, at |-> r.at, summary |-> r.summary] : r \in rows}
-----------------------------------------------------------------------------
Forward ==
  /\ clock < MaxClock
  /\ clock' = clock + 1
  /\ known' = [known EXCEPT !.newest = Max({@, clock + 1})]
  /\ UNCHANGED <<rows, upkeep>>
Back ==
  /\ known.back < MaxBack
  /\ \E d \in 1 .. Minute + Day : d <= clock /\ clock' = clock - d
  /\ known' = [known EXCEPT !.back = @ + 1]
  /\ UNCHANGED <<rows, upkeep>>

Stored(s, at) ==
  /\ rows' = Prune({r \in rows : ~(r.series = s /\ r.at = at)}
                     \union {[series |-> s, at |-> at, summary |-> FALSE, of |-> {at}]}, at)
  /\ known' = [known EXCEPT !.readings = @ \union {<<s, at>>}]

\* Variant: a reading of a summarized minute is stored as well.
RecordAlways(s) == Stored(s, clock) /\ UNCHANGED <<clock, upkeep>>

\* record: a minute that is summarized stays as it is.
RecordReading(s) ==
  /\ IF Summarized(s, MinuteOf(clock)) THEN rows' = Prune(rows, clock) /\ UNCHANGED known
     ELSE Stored(s, clock)
  /\ UNCHANGED <<clock, upkeep>>

\* Only complete minutes older than a day.
Cutoff == MinuteOf(clock - Day)

\* maintain, every quarter of an hour.
BeginUpkeep ==
  /\ upkeep = NoUpkeep
  /\ upkeep' = [now |-> clock, cutoff |-> Cutoff]
  /\ UNCHANGED <<clock, rows, known>>

\* ORDER BY at LIMIT n: so many of the rows, none of them later than one left out.
Oldest(n, set) ==
  {some \in SUBSET set : /\ Cardinality(some) = Min({n, Cardinality(set)})
                        /\ \A a \in some, b \in set \ some : a.at <= b.at}

\* summarize: one row for all the rows of a bucket's minute.
Merged(kept, b) == InMinute(b.series, b.at) \intersect kept
SummaryOver(kept, b) == [series |-> b.series, at |-> b.at, summary |-> TRUE,
                         of |-> UNION {r.of : r \in Merged(kept, b)}]

\* compact_batch; the lock is free between two batches. A summary is made of every row
\* of its minute.
CompactBatch ==
  /\ upkeep # NoUpkeep
  /\ LET kept == Prune(rows, upkeep.now)
     IN  \E raw \in Oldest(RawLimit, {r \in kept : ~r.summary /\ r.at < upkeep.cutoff}) :
         \E buckets \in Oldest(Batch, {[series |-> r.series, at |-> MinuteOf(r.at)] : r \in raw}) :
           /\ rows' = (kept \ UNION {Merged(kept, b) : b \in buckets}) \union
                        {SummaryOver(kept, b) : b \in buckets}
           /\ upkeep' = IF buckets = {} THEN NoUpkeep ELSE upkeep
  /\ UNCHANGED <<clock, known>>

\* The application ends between two batches.
EndUpkeep ==
  /\ upkeep # NoUpkeep
  /\ upkeep' = NoUpkeep
  /\ UNCHANGED <<clock, rows, known>>

\* history_range removes what is too old before it reads.
ShowHistory ==
  /\ rows' = Prune(rows, clock)
  /\ UNCHANGED <<clock, upkeep, known>>

ClearSaved ==
  /\ rows' = {} /\ known' = [known EXCEPT !.readings = {}]
  /\ UNCHANGED <<clock, upkeep>>

DeleteSeries(s) ==
  /\ rows' = {r \in rows : r.series # s}
  /\ known' = [known EXCEPT !.readings = {k \in @ : k[1] # s}]
  /\ UNCHANGED <<clock, upkeep>>

HistoryNext ==
  \/ Forward \/ Back
  \/ \E s \in Series : DeleteSeries(s) \/ RecordReading(s)
  \/ BeginUpkeep \/ CompactBatch \/ EndUpkeep
  \/ ShowHistory \/ ClearSaved

HistorySpec == HistoryInit /\ [][HistoryNext]_historyVars
-----------------------------------------------------------------------------
(* Properties *)

\* history_range: the newest rows of the time asked for, at most twelve a minute.
HistoryRange(s, minutes) ==
  LET asked == {r \in rows : r.series = s /\ r.at <= clock /\ r.at >= clock - minutes * Minute}
  IN  {r \in asked : Cardinality({newer \in asked : newer.at > r.at}) < 12 * minutes}

\* What a chart is drawn from shows no minute both as a summary and as readings of it
\* (a summarized minute is immutable), however the clock was set.
MinutesWhole ==
  \A s \in Series : \A a, b \in HistoryRange(s, MaxClock) :
    a.summary /\ a # b => MinuteOf(b.at) # a.at

\* A stored reading within the retention is in exactly one row: no batch, pruning or late
\* reading loses it or counts it twice.
CountedOnce ==
  \A k \in known.readings : k[2] >= known.newest - Retention + Minute =>
    Cardinality({r \in rows : r.series = k[1] /\ k[2] \in r.of}) = 1

\* For the runs: charts mix no resolutions of a minute, and rows hold every reading once.
HistoryWhole == MinutesWhole /\ CountedOnce
=============================================================================

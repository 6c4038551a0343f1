--------------------------- MODULE MetricSummary ---------------------------
(***************************************************************************)
(* How the readings of a minute become one: averages, peaks, rates of the  *)
(* counters and the mark of an incomplete minute:                          *)
(*                                                                         *)
(*   src-tauri/src/metrics_db/rollup.rs  summarize                         *)
(*                                                                         *)
(* A rate is kept as bytes and seconds.                                    *)
(***************************************************************************)
EXTENDS Integers, Sequences

CONSTANTS MaxSamples,   \* bound: readings of a minute
          MaxCounter,   \* bound: the values of a counter and of the uptime
          Times,        \* bound: when readings are taken, in seconds
          LongestStep,  \* seconds a rate may bridge
          Complete,     \* readings of a complete minute
          Missing       \* a value a reading does not have

ASSUME SummaryAssumption ==
  /\ MaxSamples \in Nat \ {0} /\ MaxCounter \in Nat
  /\ Missing \notin Int /\ Times \subseteq Nat

VARIABLES minute,   \* the readings of a minute, the oldest first
          summary   \* what replaces them, or Missing

summaryVars == <<minute, summary>>

Reading == [at : Times, bytes : 0 .. MaxCounter, uptime : 0 .. MaxCounter] \union
             [at : Times, bytes : {Missing}, uptime : {0}]

Pairs(m) == 2 .. Len(m)

SummaryInit ==
  /\ minute \in UNION {[1 .. n -> Reading] : n \in 1 .. MaxSamples}
  /\ \A i \in Pairs(minute) : minute[i - 1].at <= minute[i].at
  /\ summary = Missing
-----------------------------------------------------------------------------
\* A counter that went on counting, without a gap, a reset or a reboot.
Continues(a, b) ==
  /\ a.bytes # Missing /\ b.bytes # Missing
  /\ b.at > a.at /\ b.at - a.at <= LongestStep
  /\ b.bytes >= a.bytes /\ b.uptime >= a.uptime

NothingCounted == [bytes |-> 0, seconds |-> 0, peak |-> [bytes |-> 0, seconds |-> 1], invalid |-> FALSE]

\* One pair of readings more; of two peaks the greater, bytes per seconds.
WithPair(c, a, b) ==
  LET bytes   == b.bytes - a.bytes
      seconds == b.at - a.at
  IN  IF ~Continues(a, b) THEN [c EXCEPT !.invalid = TRUE]
      ELSE [bytes |-> c.bytes + bytes, seconds |-> c.seconds + seconds, invalid |-> c.invalid,
            peak |-> IF bytes * c.peak.seconds > c.peak.bytes * seconds
                     THEN [bytes |-> bytes, seconds |-> seconds] ELSE c.peak]

Counted(m) ==
  LET c[i \in 1 .. Len(m)] == IF i = 1 THEN NothingCounted ELSE WithPair(c[i - 1], m[i - 1], m[i])
  IN  c[Len(m)]

\* The interfaces are those of the last reading.
Rate(m) ==
  LET c == Counted(m)
  IN  IF m[Len(m)].bytes = Missing \/ c.invalid \/ c.seconds = 0 THEN Missing
      ELSE [bytes |-> c.bytes, seconds |-> c.seconds, peak |-> c.peak]

Summarize ==
  /\ summary = Missing
  /\ summary' = [rate |-> Rate(minute), count |-> Len(minute),
                 gap |-> Len(minute) < Complete \/ \E i \in Pairs(minute) : minute[i].at - minute[i - 1].at > LongestStep]
  /\ UNCHANGED minute

SummaryNext == Summarize
SummarySpec == SummaryInit /\ [][SummaryNext]_summaryVars
-----------------------------------------------------------------------------
(* Properties *)

\* A rate that is shown is what was counted from the first reading of the minute to the
\* last, over all of the time between, by one boot of the server, and its peak is not
\* below it (rates never bridge a reset or gap).
RatesBridgeNothing ==
  summary # Missing /\ summary.rate # Missing =>
    LET last  == Len(minute)
        peak  == summary.rate.peak
    IN /\ summary.rate.bytes = minute[last].bytes - minute[1].bytes
       /\ summary.rate.seconds = minute[last].at - minute[1].at
       /\ \A i, k \in 1 .. last : i < k => minute[i].bytes <= minute[k].bytes /\ minute[i].uptime <= minute[k].uptime
       /\ peak.bytes * summary.rate.seconds >= summary.rate.bytes * peak.seconds
=============================================================================

------------------------------ MODULE Metrics ------------------------------
(***************************************************************************)
(* The measurements of one server: a worker and refreshes that overlap,    *)
(* the reading that views wait for, and edits, deletion and clearing in    *)
(* between:                                                                *)
(*                                                                         *)
(*   src-tauri/src/metrics_sampler.rs  Sampler                             *)
(*   src-tauri/src/manager.rs          history_guard                       *)
(*   src-tauri/src/commands.rs         cockpit_collect, save_server,       *)
(*                                     delete_server, clear_metrics_cache  *)
(*                                                                         *)
(* Instants are compared only with the completion of reads, so a request   *)
(* remembers how many reads had completed.                                 *)
(***************************************************************************)
EXTENDS Naturals

CONSTANTS Worker,     \* the task that samples the server every ten seconds
          Refresh,    \* refreshes the interface asks for
          View,       \* views that wait for a first reading
          Free,       \* the holder of a lock that is free
          MaxRevisions,   \* bound: edits of the server
          MaxReads    \* bound: reads of the server

Job == Refresh \union {Worker}

\* Besides jobs, the barrier is held by a save or by a clearing of the cache.
ASSUME MetricsAssumption ==
  /\ MaxRevisions \in Nat /\ MaxReads \in Nat
  /\ Worker \notin Refresh
  /\ Free \notin {"save", "clear"} /\ Job \intersect {Free, "save", "clear"} = {}

VARIABLES
  server,    \* saved or not, connection revision, settings in the vault, and whether a save is under way
  barrier,   \* history_barrier
  gate,      \* SampleGate.lock
  reads,     \* reads begun, completed
  latest,    \* the cached reading
  job,       \* each call of sample
  view,      \* each call of first_reading
  recorded       \* settings under which the saved history was measured

metricsVars == <<server, barrier, gate, reads, latest, job, view, recorded>>
-----------------------------------------------------------------------------
NoReading == [ok |-> FALSE, revision |-> 0, began |-> 0, done |-> 0, settings |-> 0, marked |-> FALSE]

Resting == [pc |-> "idle", revision |-> 0, requested |-> 0, reading |-> NoReading]

MetricsInit ==
  /\ server = [saved |-> TRUE, revision |-> 1, settings |-> 1, writing |-> FALSE]
  /\ barrier = Free /\ gate = Free
  /\ reads = [begun |-> 0, completed |-> 0]
  /\ latest = NoReading
  /\ job = [j \in Job |-> [Resting EXCEPT !.pc = IF j = Worker THEN "absent" ELSE "idle"]]
  /\ view = [v \in View |-> [pc |-> "idle", revision |-> 0, woken |-> FALSE]]
  /\ recorded = {}

\* matches_connection; a save holds the manager's lock until the revision has advanced.
Current(revision) == server.saved /\ server.revision = revision
Settled == ~server.writing

\* What first_reading and a shared refresh take from the cache.
Cached(revision) == latest.revision = revision

\* A job ends and its guards are dropped.
Release(j) ==
  /\ gate' = IF gate = j THEN Free ELSE gate
  /\ barrier' = IF barrier = j THEN Free ELSE barrier
-----------------------------------------------------------------------------
(* Sampling *)

\* cockpit_collect with refresh, or a tick of the worker.
Request(j) ==
  /\ job[j].pc \in {"idle", "answered"} /\ Settled
  /\ IF j = Worker THEN Current(job[j].revision) ELSE server.saved
  /\ job' = [job EXCEPT ![j] = [Resting EXCEPT !.pc = "waiting", !.requested = reads.completed,
                                  !.revision = IF j = Worker THEN job[j].revision ELSE server.revision]]
  /\ UNCHANGED <<server, barrier, gate, reads, latest, view, recorded>>

\* Variant: reads of one server are not serialized.
TakeAnyGate(j) ==
  /\ job[j].pc = "waiting"
  /\ job' = [job EXCEPT ![j].pc = "gated"]
  /\ UNCHANGED <<server, barrier, gate, reads, latest, view, recorded>>

TakeGate(j) ==
  /\ job[j].pc = "waiting" /\ gate = Free
  /\ gate' = j
  /\ job' = [job EXCEPT ![j].pc = "gated"]
  /\ UNCHANGED <<server, barrier, reads, latest, view, recorded>>

\* The connection changed while the job waited.
Obsolete(j) ==
  /\ job[j].pc \in {"gated", "guarded"} /\ Settled /\ ~Current(job[j].revision)
  /\ job' = [job EXCEPT ![j].pc = "idle"]
  /\ Release(j)
  /\ UNCHANGED <<server, reads, latest, view, recorded>>

Check(j) ==
  /\ job[j].pc = "gated" /\ Settled /\ Current(job[j].revision)
  /\ job' = [job EXCEPT ![j].pc = "checked"]
  /\ UNCHANGED <<server, barrier, gate, reads, latest, view, recorded>>

\* Variant: any reading of these settings is shared.
AnyShared(j) == Cached(job[j].revision)

\* A read that completed after the request stands for it.
Shared(j) == reads.completed > job[j].requested /\ Cached(job[j].revision)

Share(j) ==
  /\ job[j].pc = "checked" /\ Shared(j)
  /\ job' = [job EXCEPT ![j].pc = "answered", ![j].reading = latest]
  /\ Release(j)
  /\ UNCHANGED <<server, reads, latest, view, recorded>>

\* collect; the connection authenticates with what the vault holds now.
BeginRead(j) ==
  /\ job[j].pc = "checked" /\ ~Shared(j) /\ reads.begun < MaxReads
  /\ reads' = [reads EXCEPT !.begun = @ + 1]
  /\ job' = [job EXCEPT ![j].pc = "reading",
                        ![j].reading = [NoReading EXCEPT !.revision = job[j].revision, !.began = reads.begun + 1,
                                                        !.settings = server.settings]]
  /\ UNCHANGED <<server, barrier, gate, latest, view, recorded>>

EndRead(j, ok) ==
  /\ job[j].pc = "reading"
  /\ job' = [job EXCEPT ![j].pc = "read", ![j].reading.ok = ok]
  /\ UNCHANGED <<server, barrier, gate, reads, latest, view, recorded>>

\* history_guard.
TakeBarrier(j) ==
  /\ job[j].pc = "read" /\ barrier = Free
  /\ barrier' = j
  /\ job' = [job EXCEPT ![j].pc = "guarded"]
  /\ UNCHANGED <<server, gate, reads, latest, view, recorded>>

\* Variant: the connection is not compared again after the read.
VerifyNothing(j) ==
  /\ job[j].pc = "guarded"
  /\ job' = [job EXCEPT ![j].pc = IF job[j].reading.ok THEN "recording" ELSE "publishing"]
  /\ UNCHANGED <<server, barrier, gate, reads, latest, view, recorded>>

Verify(j) ==
  /\ job[j].pc = "guarded" /\ Settled /\ Current(job[j].revision)
  /\ job' = [job EXCEPT ![j].pc = IF job[j].reading.ok THEN "recording" ELSE "publishing"]
  /\ UNCHANGED <<server, barrier, gate, reads, latest, view, recorded>>

\* db.record; a failure is only noted in the reading.
Record(j, saved) ==
  /\ job[j].pc = "recording"
  /\ recorded' = IF saved THEN recorded \union {job[j].reading.settings} ELSE recorded
  /\ job' = [job EXCEPT ![j].pc = "publishing"]
  /\ UNCHANGED <<server, barrier, gate, reads, latest, view>>

\* Variant: a failure leaves the last good reading as it was.
KeptSilently(reading) ==
  IF ~reading.ok /\ latest.ok /\ latest.revision = reading.revision THEN latest ELSE reading

\* A failure keeps the last good reading of these settings and marks it.
Kept(reading) ==
  IF ~reading.ok /\ latest.ok /\ latest.revision = reading.revision
  THEN [latest EXCEPT !.marked = TRUE] ELSE reading

Publish(j) ==
  /\ job[j].pc = "publishing"
  /\ reads' = [reads EXCEPT !.completed = @ + 1]
  /\ LET reading == [job[j].reading EXCEPT !.done = reads.completed + 1] IN
       /\ latest' = Kept(reading)
       /\ job' = [job EXCEPT ![j].pc = "answered", ![j].reading = reading]
  /\ view' = [v \in View |-> [view[v] EXCEPT !.woken = @ \/ view[v].pc \in {"looking", "missed", "asleep"}]]
  /\ Release(j)
  /\ UNCHANGED <<server, recorded>>
-----------------------------------------------------------------------------
(* run: every second *)

\* A worker of other settings is aborted wherever it is; the saved server gets one.
Reconcile ==
  /\ Settled
  /\ latest' = IF Current(latest.revision) THEN latest ELSE NoReading
  /\ IF job[Worker].pc # "absent" /\ Current(job[Worker].revision)
     THEN UNCHANGED <<job, gate, barrier>>
     ELSE /\ Release(Worker)
          /\ job' = [job EXCEPT ![Worker] = IF server.saved THEN [Resting EXCEPT !.revision = server.revision]
                                            ELSE [Resting EXCEPT !.pc = "absent"]]
  /\ UNCHANGED <<server, reads, view, recorded>>
-----------------------------------------------------------------------------
(* first_reading *)

\* cockpit_collect without refresh.  The view registers for the notification first.
Look(v) ==
  /\ \/ view[v].pc = "idle" /\ Settled /\ server.saved
        /\ view' = [view EXCEPT ![v] = [pc |-> "looking", revision |-> server.revision, woken |-> FALSE]]
     \/ view[v].pc = "asleep" /\ view[v].woken
        /\ view' = [view EXCEPT ![v].pc = "looking", ![v].woken = FALSE]
  /\ UNCHANGED <<server, barrier, gate, reads, latest, job, recorded>>

Inspect(v) ==
  /\ view[v].pc = "looking"
  /\ view' = [view EXCEPT ![v].pc = IF Cached(view[v].revision) THEN "idle" ELSE "missed"]
  /\ UNCHANGED <<server, barrier, gate, reads, latest, job, recorded>>

\* Variant: the view registers only now.
SleepUnregistered(v) ==
  /\ view[v].pc = "missed"
  /\ view' = [view EXCEPT ![v].pc = "asleep", ![v].woken = FALSE]
  /\ UNCHANGED <<server, barrier, gate, reads, latest, job, recorded>>

Sleep(v) ==
  /\ view[v].pc = "missed"
  /\ view' = [view EXCEPT ![v].pc = "asleep"]
  /\ UNCHANGED <<server, barrier, gate, reads, latest, job, recorded>>

\* Thirty seconds.
GiveUp(v) ==
  /\ view[v].pc = "asleep"
  /\ view' = [view EXCEPT ![v].pc = "idle"]
  /\ UNCHANGED <<server, barrier, gate, reads, latest, job, recorded>>
-----------------------------------------------------------------------------
(* Commands that change what was measured *)

\* save_server: the barrier, then the manager's lock, until the revision has advanced.
WriteSettings ==
  /\ barrier = Free /\ Settled /\ server.settings <= MaxRevisions
  /\ barrier' = "save"
  /\ server' = [server EXCEPT !.settings = @ + 1, !.writing = TRUE]
  /\ UNCHANGED <<gate, reads, latest, job, view, recorded>>

AdvanceRevision ==
  /\ server.writing
  /\ barrier' = Free
  /\ server' = [server EXCEPT !.saved = TRUE, !.revision = @ + 1, !.writing = FALSE]
  /\ UNCHANGED <<gate, reads, latest, job, view, recorded>>

\* delete_server; the history may be left when its removal fails, which is reported.
Delete(cleaned) ==
  /\ barrier = Free /\ Settled /\ server.saved
  /\ server' = [server EXCEPT !.saved = FALSE]
  /\ recorded' = IF cleaned THEN {} ELSE recorded
  /\ UNCHANGED <<barrier, gate, reads, latest, job, view>>

\* clear_metrics_cache: the database, then the cached readings.
ClearHistory ==
  /\ barrier = Free
  /\ barrier' = "clear"
  /\ recorded' = {}
  /\ UNCHANGED <<server, gate, reads, latest, job, view>>
ClearLatest ==
  /\ barrier = "clear"
  /\ barrier' = Free
  /\ latest' = NoReading
  /\ UNCHANGED <<server, gate, reads, job, view, recorded>>

MetricsNext ==
  \/ \E j \in Job : \/ Request(j) \/ TakeGate(j) \/ Obsolete(j) \/ Check(j) \/ Share(j) \/ BeginRead(j)
                    \/ \E ok \in BOOLEAN : EndRead(j, ok)
                    \/ TakeBarrier(j) \/ Verify(j)
                    \/ \E saved \in BOOLEAN : Record(j, saved)
                    \/ Publish(j)
  \/ Reconcile
  \/ \E v \in View : Look(v) \/ Inspect(v) \/ Sleep(v) \/ GiveUp(v)
  \/ WriteSettings \/ AdvanceRevision \/ ClearHistory \/ ClearLatest
  \/ \E cleaned \in BOOLEAN : Delete(cleaned)

MetricsSpec == MetricsInit /\ [][MetricsNext]_metricsVars
-----------------------------------------------------------------------------
(* Properties *)

\* Whatever is recorded was measured with the settings and password saved now, of a
\* server that still exists (sample's second comparison, under history_guard).
RecordedCurrent ==
  [][\A s \in recorded' \ recorded : server.saved /\ s = server.settings]_metricsVars

\* A refresh is never answered with an unmarked reading that was complete before it
\* was asked for, whichever of several concurrent reads it shares.
RefreshIsFresh ==
  \A j \in Refresh : job[j].pc = "answered" /\ job[j].reading.ok /\ ~job[j].reading.marked
                       => job[j].reading.done > job[j].requested

\* A read that began earlier never replaces the outcome of a later one (sample: an older
\* background request cannot overwrite the refreshed result).
NoOlderReading ==
  [][latest.revision = latest'.revision => latest'.began >= latest.began]_metricsVars

\* A view does not sleep through a reading: when one of its settings is cached, it has
\* been woken (first_reading registers before it inspects the cache).
NoMissedReading ==
  \A v \in View : view[v].pc = "asleep" /\ Cached(view[v].revision) => view[v].woken

\* For the runs: what is recorded is current, and what is cached only gets newer.
ReadingsInOrder == RecordedCurrent /\ NoOlderReading

\* For the runs: refreshes get a fresh reading and views the first one.
ReadingsReach == RefreshIsFresh /\ NoMissedReading
=============================================================================

---------------------------- MODULE Connectivity ----------------------------
(***************************************************************************)
(* What the desktop believes about the reachability of one server, from    *)
(* attempts that overlap, are reported late and may outlive the            *)
(* configuration they were made with:                                      *)
(*                                                                         *)
(*   src-tauri/src/connectivity.rs  report, observe_at, health             *)
(*   src-tauri/src/manager.rs       connection revisions, observe_connection, *)
(*                                  connection_events, the probes          *)
(*   src-tauri/src/commands.rs      save_server, delete_server             *)
(*                                                                         *)
(* Time is a counter of clock ticks: steps of one tick read equal clocks.  *)
(***************************************************************************)
EXTENDS Naturals, Sequences

CONSTANTS Attempt,     \* connection attempts
          Profile,     \* connection settings of the server
          Deleted,     \* the profile of a server that is not configured
          MaxTime,     \* bound: clock ticks of a behaviour
          Capacity,    \* events the broadcast channel holds
          FreshFor     \* FRESH_FOR

ASSUME ProfileAssumption == Deleted \notin Profile
ASSUME BoundAssumption == {MaxTime, Capacity} \subseteq Nat \ {0} /\ FreshFor \in Nat

VARIABLES
  now,        \* the monotonic clock
  config,     \* the saved settings and how often a password was saved
  revision,   \* connection_revisions
  changedAt,  \* connection_changed_at
  attempt,    \* each attempt
  queue,      \* the broadcast channel: attempts reported and not yet handled
  belief,     \* the evidence: when it was observed, the last success, an error
  heard       \* history: attempts whose outcome was considered in this revision

evidenceVars == <<now, config, revision, changedAt, attempt, queue, belief, heard>>
-----------------------------------------------------------------------------
\* An Option<Instant>: None is before every reading.
Never == 0
Time  == 1 .. MaxTime

NotStarted == [step |-> "idle", profile |-> Deleted, revision |-> 0, password |-> 0,
         started |-> Never, finished |-> Never, ok |-> FALSE]

Unknown == [observed |-> Never, succeeded |-> Never, error |-> FALSE, by |-> {}]

EvidenceInit ==
  /\ now = 1
  /\ config \in [profile : Profile, saved : {0}]
  /\ revision = 0
  /\ changedAt = Never
  /\ attempt = [o \in Attempt |-> NotStarted]
  /\ queue = <<>>
  /\ belief = Unknown
  /\ heard = {}

Tick ==
  /\ now < MaxTime
  /\ now' = now + 1
  /\ UNCHANGED <<config, revision, changedAt, attempt, queue, belief, heard>>
-----------------------------------------------------------------------------
(* Attempts *)

\* A command, a supervisor or the probe loop takes the server and its revision.
Capture(o) ==
  /\ attempt[o].step = "idle" /\ config.profile # Deleted
  /\ attempt' = [attempt EXCEPT ![o] = [NotStarted EXCEPT !.step = "captured", !.profile = config.profile,
                                                    !.revision = revision]]
  /\ UNCHANGED <<now, config, revision, changedAt, queue, belief, heard>>

\* The clock is read, then the connection authenticates with the saved password.
Begin(o) ==
  /\ attempt[o].step = "captured"
  /\ attempt' = [attempt EXCEPT ![o].step = "running", ![o].started = now]
  /\ UNCHANGED <<now, config, revision, changedAt, queue, belief, heard>>

Authenticate(o) ==
  /\ attempt[o].step = "running"
  /\ attempt' = [attempt EXCEPT ![o].step = "open", ![o].password = config.saved]
  /\ UNCHANGED <<now, config, revision, changedAt, queue, belief, heard>>

\* report reads the clock before it sends, so two reports may be sent out of order;
\* a probe reads it only when it has the manager's lock.
Finish(o, ok) ==
  /\ attempt[o].step = "open"
  /\ \/ attempt' = [attempt EXCEPT ![o].step = "stamped", ![o].finished = now, ![o].ok = ok]
     \/ attempt' = [attempt EXCEPT ![o].step = "probed", ![o].ok = ok]
  /\ UNCHANGED <<now, config, revision, changedAt, queue, belief, heard>>

\* Variant: the channel has no limit.
SendUnbounded(o) ==
  /\ attempt[o].step = "stamped"
  /\ attempt' = [attempt EXCEPT ![o].step = "sent"]
  /\ queue' = Append(queue, o)
  /\ UNCHANGED <<now, config, revision, changedAt, belief, heard>>

\* A full channel loses its oldest event.
SendEvent(o) ==
  /\ attempt[o].step = "stamped"
  /\ attempt' = [attempt EXCEPT ![o].step = "sent"]
  /\ queue' = Append(IF Len(queue) = Capacity THEN Tail(queue) ELSE queue, o)
  /\ UNCHANGED <<now, config, revision, changedAt, belief, heard>>
-----------------------------------------------------------------------------
(* Evidence *)

\* Variant: the last report wins.
AcceptedAny(b, started, finished, ok) == TRUE

\* Variant: a failure is ordered by when it ended.
AcceptedByEnd(b, started, finished, ok) == b.observed <= finished

\* observe_at: success is evidence of when it completed, failure of when it began,
\* and success wins a tie.
Accepted(b, started, finished, ok) ==
  /\ b.observed <= (IF ok THEN finished ELSE started)
  /\ ok \/ b.succeeded = Never \/ b.succeeded < started

Observed(b, o, started, finished, ok) ==
  IF ~Accepted(b, started, finished, ok) THEN b
  ELSE [observed |-> finished, succeeded |-> IF ok THEN finished ELSE b.succeeded,
        error |-> ~ok, by |-> {o}]

\* matches_connection.
Matches(profile, rev) == revision = rev /\ config.profile = profile

Considered(o, finished) ==
  /\ belief' = Observed(belief, o, attempt[o].started, finished, attempt[o].ok)
  /\ heard' = heard \union {o}

Ignored == UNCHANGED <<belief, heard>>

\* Variant: any event of these settings counts.
HandleAnyEvent ==
  /\ queue # <<>>
  /\ queue' = Tail(queue)
  /\ LET o == Head(queue) IN
       IF attempt[o].profile = config.profile
       THEN Considered(o, attempt[o].finished)
       ELSE Ignored
  /\ UNCHANGED <<now, config, revision, changedAt, attempt>>

\* connection_events: an event carries no revision; one that began before the last
\* change is skipped.
HandleEvent ==
  /\ queue # <<>>
  /\ queue' = Tail(queue)
  /\ LET o == Head(queue) IN
       IF changedAt <= attempt[o].started /\ Matches(attempt[o].profile, revision)
       THEN Considered(o, attempt[o].finished)
       ELSE Ignored
  /\ UNCHANGED <<now, config, revision, changedAt, attempt>>

\* observe_connection, under the manager's lock.
ObserveAt(o) ==
  /\ attempt[o].step = "probed"
  /\ attempt' = [attempt EXCEPT ![o].step = "sent", ![o].finished = now]
  /\ IF Matches(attempt[o].profile, attempt[o].revision)
     THEN Considered(o, now)
     ELSE Ignored
  /\ UNCHANGED <<now, config, revision, changedAt, queue>>
-----------------------------------------------------------------------------
(* Configuration *)

\* advance_connection_revision.
Advance ==
  /\ revision' = revision + 1
  /\ changedAt' = now'
  /\ belief' = Unknown
  /\ heard' = {}

\* save_server with other settings, or with a password, or of a server that was
\* deleted.  The vault is rewritten first, which takes at least a tick.
ProfileSaved(p) ==
  /\ now < MaxTime
  /\ now' = now + 1
  /\ config' = [profile |-> p, saved |-> config.saved + 1]
  /\ Advance
  /\ UNCHANGED <<attempt, queue>>

\* delete_server; the next snapshot drops the evidence.
ProfileDeleted ==
  /\ config.profile # Deleted
  /\ config' = [config EXCEPT !.profile = Deleted]
  /\ UNCHANGED <<now, revision, changedAt, attempt, queue, belief, heard>>

Snapshot ==
  /\ config.profile = Deleted
  /\ belief' = Unknown
  /\ heard' = {}
  /\ UNCHANGED <<now, config, revision, changedAt, attempt, queue>>

\* health, as a snapshot shows it.
Health ==
  IF belief.observed = Never \/ now - belief.observed >= FreshFor THEN "unknown"
  ELSE IF belief.error THEN "error" ELSE "reachable"

EvidenceNext ==
  \/ Tick
  \/ \E o \in Attempt : \/ Capture(o) \/ Begin(o) \/ Authenticate(o)
                        \/ \E ok \in BOOLEAN : Finish(o, ok)
                        \/ SendEvent(o) \/ ObserveAt(o)
  \/ HandleEvent
  \/ \E p \in Profile : ProfileSaved(p)
  \/ ProfileDeleted \/ Snapshot

EvidenceSpec == EvidenceInit /\ [][EvidenceNext]_evidenceVars
-----------------------------------------------------------------------------
(* Properties *)

EvidenceTypeOK ==
  /\ now \in Time
  /\ config \in [profile : Profile \union {Deleted}, saved : Nat]
  /\ revision \in Nat
  /\ changedAt \in Time \union {Never}
  /\ attempt \in [Attempt -> [step : {"idle", "captured", "running", "open", "stamped", "probed", "sent"},
                              profile : Profile \union {Deleted}, revision : Nat,
                              password : Nat, started : Time \union {Never},
                              finished : Time \union {Never}, ok : BOOLEAN]]
  /\ queue \in Seq(Attempt) /\ Len(queue) <= Capacity
  /\ belief \in [observed : Time \union {Never}, succeeded : Time \union {Never},
                 error : BOOLEAN, by : SUBSET Attempt]
  /\ heard \subseteq Attempt

\* What is shown of a server was learned with its current settings and password,
\* however late an attempt with the old ones reports (reject_obsolete_credentials).
NoObsoleteEvidence ==
  config.profile # Deleted =>
    \A o \in belief.by : attempt[o].profile = config.profile /\ attempt[o].password = config.saved

\* The latest outcome of those considered, when it is a success, is believed; and a
\* failure that began after every success is: in whatever order they were reported.
EvidenceDecides ==
  /\ \A s \in heard :
       /\ attempt[s].ok
       /\ \A o \in heard : attempt[o].finished <= attempt[s].finished
       => belief.succeeded = attempt[s].finished /\ ~belief.error
  /\ \A f \in heard :
       /\ ~attempt[f].ok
       /\ \A s \in heard : attempt[s].ok => attempt[s].finished < attempt[f].started
       => belief.error

\* Evidence never becomes older, except when a change of the server discards it.
Discards == belief' = Unknown /\ (revision' # revision \/ config.profile = Deleted)
NoRewind == [][belief'.observed < belief.observed => Discards]_evidenceVars

\* Evidence is of the current settings and decided by the latest outcome.
EvidenceSound == EvidenceTypeOK /\ NoObsoleteEvidence /\ EvidenceDecides

\* observe_at: a failure cannot erase evidence obtained while that failed attempt was
\* still running.
\* The code does not keep it: no run expects it to hold (README, "What the code does
\* not keep").
FailureKeepsSuccess ==
  Health = "error" =>
    \E f \in heard : /\ ~attempt[f].ok
                     /\ \A s \in heard : attempt[s].ok => attempt[s].finished < attempt[f].started
=============================================================================

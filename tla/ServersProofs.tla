---------------------------- MODULE ServersProofs ----------------------------
(***************************************************************************)
(* What TLAPS proves of the connections to servers, for every value of the *)
(* constants: what is believed of a server is evidence of its settings and *)
(* never goes back, however many connections meet a server they learn one  *)
(* key of it, and a login offers what the settings name and no more.       *)
(***************************************************************************)
EXTENDS Connectivity, KnownHosts, Authentication, TLAPS

-----------------------------------------------------------------------------
(* Evidence *)

Stage   == {"idle", "captured", "running", "open", "stamped", "probed", "sent"}
Reading == Time \union {Never}
Record  == [step : Stage, profile : Profile \union {Deleted}, revision : Nat, password : Nat,
            started : Reading, finished : Reading, ok : BOOLEAN]
Belief  == [observed : Reading, succeeded : Reading, error : BOOLEAN, by : SUBSET Attempt]

LoggedIn == {"open", "stamped", "probed", "sent"}

\* Clock readings of an attempt are in order, and none is after now.
ClocksInOrder ==
  \A o \in Attempt :
    /\ attempt[o].started <= now /\ attempt[o].finished <= now
    /\ attempt[o].revision <= revision
    /\ attempt[o].step \notin {"idle", "captured"} => attempt[o].started \in Time
    /\ attempt[o].step \in {"stamped", "sent"} => attempt[o].started <= attempt[o].finished

\* An attempt of this revision, or begun since the last change, used the saved password.
PasswordSaved ==
  \A o \in Attempt :
    attempt[o].step \in LoggedIn /\ (attempt[o].revision = revision \/ changedAt <= attempt[o].started)
      => attempt[o].password = config.saved

\* Events are of attempts that have ended, and so is what was heard.
Reported ==
  /\ \A i \in 1 .. Len(queue) : attempt[queue[i]].step = "sent"
  /\ \A o \in heard : attempt[o].step = "sent"
  /\ belief.by \subseteq heard

\* What is believed is the outcome of one of the attempts that were considered...
FromHeard(b, among, records) ==
  /\ b.observed # Never =>
       \E o \in among : records[o].finished = b.observed /\ (records[o].ok <=> ~b.error)
  /\ ~b.error => b.succeeded = b.observed
  /\ b.observed = Never => ~b.error
\* ... and none of the others outdoes it.
LatestHeard(b, among, records) ==
  /\ b.succeeded <= b.observed
  /\ \A o \in among : /\ records[o].ok => /\ records[o].finished <= b.observed
                                          /\ b.error => records[o].finished < b.observed
                      /\ ~records[o].ok => records[o].started <= b.observed

EvidenceInv ==
  /\ EvidenceTypeOK /\ changedAt <= now /\ ClocksInOrder /\ PasswordSaved /\ Reported
  /\ NoObsoleteEvidence
  /\ FromHeard(belief, heard, attempt) /\ LatestHeard(belief, heard, attempt)
-----------------------------------------------------------------------------
(* Outcomes *)

LEMMA ErrorField ==
  ASSUME NEW ok \in BOOLEAN, NEW at, NEW succeeded, NEW by, NEW after,
         after = [observed |-> at, succeeded |-> succeeded, error |-> ~ok, by |-> by]
  PROVE  after.error <=> ~ok
OBVIOUS

\* The evidence after one more outcome, accepted or not.
LEMMA ObservedSound ==
  ASSUME NEW records \in [Attempt -> Record], NEW b \in Belief, NEW among \in SUBSET Attempt,
         NEW o \in Attempt, records[o].started \in Time, records[o].finished \in Time,
         records[o].started <= records[o].finished,
         FromHeard(b, among, records), LatestHeard(b, among, records),
         NEW after, after = Observed(b, o, records[o].started, records[o].finished, records[o].ok)
  PROVE  /\ after \in Belief /\ after.by \in {b.by, {o}} /\ b.observed <= after.observed
         /\ FromHeard(after, among \union {o}, records)
         /\ LatestHeard(after, among \union {o}, records)
<1> DEFINE started  == records[o].started
           finished == records[o].finished
           ok       == records[o].ok
<1>t. /\ ok \in BOOLEAN /\ Reading \subseteq Nat /\ Time \subseteq Nat \ {0}
      /\ b.observed \in Nat /\ b.succeeded \in Nat /\ b.error \in BOOLEAN
      /\ \A p \in Attempt : records[p].started \in Nat /\ records[p].finished \in Nat
                            /\ records[p].ok \in BOOLEAN
  BY BoundAssumption DEF Record, Belief, Reading, Time, Never
<1>1. CASE ~Accepted(b, started, finished, ok)
  <2>1. after = b  BY <1>1 DEF Observed
  <2>2. /\ ok => finished < b.observed
        /\ ~ok => started <= b.observed
    BY <1>1, <1>t DEF Accepted, LatestHeard, Never
  <2>3. FromHeard(b, among \union {o}, records)
    BY DEF FromHeard
  <2>4. LatestHeard(b, among \union {o}, records)
    BY <1>t, <2>2 DEF LatestHeard
  <2> QED  BY <1>t, <2>1, <2>3, <2>4
<1>2. CASE Accepted(b, started, finished, ok)
  <2>0. after = [observed |-> finished, succeeded |-> IF ok THEN finished ELSE b.succeeded,
                 error |-> ~ok, by |-> {o}]
    BY <1>2 DEF Observed
  <2>1. /\ after.observed = finished /\ after.by = {o}
        /\ after.succeeded = IF ok THEN finished ELSE b.succeeded
    BY <2>0
  <2>e. after.error <=> ~ok
    BY <1>t, <2>0, ErrorField
  <2>2. after \in Belief
    BY <1>t, <2>0 DEF Belief, Reading
  <2>3. b.observed <= finished
    BY <1>2, <1>t DEF Accepted
  <2>4. FromHeard(after, among \union {o}, records)
    <3>1. finished # Never  BY <1>t DEF Never
    <3>2. ~after.error => after.succeeded = after.observed  BY <2>1, <2>e
    <3> QED  BY <2>1, <2>e, <3>1, <3>2 DEF FromHeard
  <2>5. LatestHeard(after, among \union {o}, records)
    <3>1. after.succeeded <= after.observed
      BY <1>t, <2>1, <2>3 DEF LatestHeard
    <3>2. ASSUME NEW p \in among \union {o}, records[p].ok
          PROVE  records[p].finished <= finished /\ (~ok => records[p].finished < finished)
      <4>1. CASE p = o
        <5>1. ok /\ records[p].finished = finished /\ finished \in Nat  BY <4>1, <3>2, <1>t
        <5> QED  BY <5>1
      <4>2. CASE p # o /\ b.error
        BY <4>2, <3>2, <1>t, <2>3 DEF LatestHeard
      <4>3. CASE p # o /\ ~b.error
        <5>1. records[p].finished <= b.observed /\ b.succeeded = b.observed
          BY <4>3, <3>2 DEF LatestHeard, FromHeard
        <5>2. ~ok => b.succeeded = Never \/ b.succeeded < started
          BY <1>2 DEF Accepted
        <5> QED  BY <1>t, <2>3, <5>1, <5>2 DEF Never
      <4> QED  BY <1>t, <4>1, <4>2, <4>3
    <3>3. ASSUME NEW p \in among \union {o}, ~records[p].ok PROVE records[p].started <= finished
      BY <3>3, <1>t, <2>3 DEF LatestHeard
    <3> QED  BY <2>1, <2>e, <3>1, <3>2, <3>3 DEF LatestHeard
  <2> QED  BY <2>1, <2>2, <2>3, <2>4, <2>5
<1> QED  BY <1>1, <1>2

\* Nothing is believed and nothing was heard.
LEMMA UnknownSound ==
  /\ Unknown \in Belief
  /\ \A records : FromHeard(Unknown, {}, records) /\ LatestHeard(Unknown, {}, records)
BY DEF Unknown, Belief, Reading, Never, FromHeard, LatestHeard

\* The invariant is about the records of those that were heard.
LEMMA SameRecords ==
  ASSUME NEW b, NEW among, NEW r, NEW s, \A o \in among : r[o] = s[o],
         FromHeard(b, among, r), LatestHeard(b, among, r)
  PROVE  FromHeard(b, among, s) /\ LatestHeard(b, among, s)
BY DEF FromHeard, LatestHeard

LEMMA InvTypes ==
  EvidenceTypeOK => attempt \in [Attempt -> Record] /\ belief \in Belief /\ heard \in SUBSET Attempt
BY DEF EvidenceTypeOK, Record, Stage, Belief, Reading

LEMMA InvDecides == EvidenceInv => EvidenceSound
<1> SUFFICES ASSUME EvidenceInv PROVE EvidenceDecides
  BY DEF EvidenceInv, EvidenceSound
<1>r. /\ heard \subseteq Attempt /\ attempt \in [Attempt -> Record] /\ belief \in Belief
      /\ Reading \subseteq Nat
  BY InvTypes, BoundAssumption DEF EvidenceInv, Reading, Time, Never
<1>t. /\ heard \subseteq Attempt
      /\ belief.observed \in Nat /\ belief.succeeded \in Nat /\ belief.error \in BOOLEAN
      /\ \A o \in Attempt : /\ attempt[o].started \in Nat /\ attempt[o].finished \in Nat
                            /\ attempt[o].ok \in BOOLEAN
  BY <1>r DEF Record, Belief
<1>h. ASSUME NEW o \in heard
      PROVE  attempt[o].started \in Nat \ {0} /\ attempt[o].started <= attempt[o].finished
  <2>1. o \in Attempt /\ attempt[o].step = "sent"  BY <1>t DEF EvidenceInv, Reported
  <2> QED  BY <2>1, <1>t, BoundAssumption DEF EvidenceInv, ClocksInOrder, Time
<1>1. ASSUME NEW s \in heard, attempt[s].ok, \A o \in heard : attempt[o].finished <= attempt[s].finished
      PROVE  belief.succeeded = attempt[s].finished /\ ~belief.error
  <2>1. attempt[s].finished <= belief.observed /\ belief.observed # Never
    BY <1>1, <1>t, <1>h DEF EvidenceInv, LatestHeard, Never
  <2>2. belief.observed = attempt[s].finished
    BY <1>1, <1>t, <2>1 DEF EvidenceInv, FromHeard
  <2>3. ~belief.error
    BY <1>1, <1>t, <2>2 DEF EvidenceInv, LatestHeard
  <2> QED  BY <2>2, <2>3 DEF EvidenceInv, FromHeard
<1>2. ASSUME NEW f \in heard, ~attempt[f].ok,
             \A s \in heard : attempt[s].ok => attempt[s].finished < attempt[f].started
      PROVE  belief.error
  <2> SUFFICES ASSUME ~belief.error PROVE FALSE  OBVIOUS
  <2>1. attempt[f].started <= belief.observed /\ belief.observed # Never
    BY <1>2, <1>t, <1>h DEF EvidenceInv, LatestHeard, Never
  <2>2. PICK s \in heard : attempt[s].finished = belief.observed /\ attempt[s].ok
    BY <1>t, <2>1 DEF EvidenceInv, FromHeard
  <2> QED  BY <1>2, <1>t, <2>1, <2>2
<1> QED  BY <1>1, <1>2 DEF EvidenceDecides
-----------------------------------------------------------------------------
(* Steps *)

LEMMA EvidenceInitInv == EvidenceInit => EvidenceInv
<1> SUFFICES ASSUME EvidenceInit PROVE EvidenceInv  OBVIOUS
<1>1. 1 \in Time  BY BoundAssumption DEF Time
<1>2. \A o \in Attempt : attempt[o] = NotStarted  BY DEF EvidenceInit
<1>3. NotStarted \in Record  BY DEF NotStarted, Record, Stage, Reading
<1>4. EvidenceTypeOK
  <2>1. attempt \in [Attempt -> Record]  BY <1>2, <1>3 DEF EvidenceInit
  <2> QED
    BY <1>1, <2>1, UnknownSound, BoundAssumption
    DEF EvidenceInit, EvidenceTypeOK, Record, Stage, Reading, Belief
<1>5. ClocksInOrder /\ PasswordSaved
  BY <1>2 DEF EvidenceInit, NotStarted, Never, ClocksInOrder, PasswordSaved, LoggedIn
<1>6. Reported /\ NoObsoleteEvidence
  BY DEF EvidenceInit, Reported, NoObsoleteEvidence, Unknown
<1> QED
  BY <1>4, <1>5, <1>6, UnknownSound DEF EvidenceInit, EvidenceInv, Never

\* A step of an attempt that has not been reported yet.
LEMMA AttemptStep ==
  ASSUME EvidenceInv, NEW o \in Attempt, NEW record \in Record,
         attempt[o].step # "sent", attempt' = [attempt EXCEPT ![o] = record],
         UNCHANGED <<now, config, revision, changedAt, belief, heard>>,
         queue' \in Seq(Attempt), Len(queue') <= Capacity,
         \A i \in 1 .. Len(queue') : attempt'[queue'[i]].step = "sent",
         record.started <= now, record.finished <= now, record.revision <= revision,
         record.step \notin {"idle", "captured"} => record.started \in Time,
         record.step \in {"stamped", "sent"} => record.started <= record.finished,
         record.step \in LoggedIn /\ (record.revision = revision \/ changedAt <= record.started)
           => record.password = config.saved
  PROVE  EvidenceInv'
<1>r. /\ attempt \in [Attempt -> Record] /\ heard \subseteq Attempt /\ belief \in Belief
  BY InvTypes DEF EvidenceInv
<1>1. /\ attempt' \in [Attempt -> Record] /\ attempt'[o] = record
      /\ \A p \in Attempt : p # o => attempt'[p] = attempt[p]
  BY <1>r
<1>2. \A p \in heard : attempt'[p] = attempt[p] /\ p # o
  BY <1>r, <1>1 DEF EvidenceInv, Reported
<1>3. EvidenceTypeOK'
  BY <1>1 DEF EvidenceInv, EvidenceTypeOK, Record, Stage, Reading
<1>4. ClocksInOrder'
  BY <1>1 DEF EvidenceInv, ClocksInOrder
<1>5. PasswordSaved'
  BY <1>1 DEF EvidenceInv, PasswordSaved
<1>6. Reported' /\ NoObsoleteEvidence'
  BY <1>2 DEF EvidenceInv, Reported, NoObsoleteEvidence
<1>7. FromHeard(belief, heard, attempt') /\ LatestHeard(belief, heard, attempt')
  BY <1>2, SameRecords DEF EvidenceInv
<1> QED  BY <1>3, <1>4, <1>5, <1>6, <1>7 DEF EvidenceInv

\* Nothing is sent by it.
LEMMA QuietStep ==
  ASSUME EvidenceInv, NEW o \in Attempt, NEW record \in Record,
         attempt[o].step # "sent", attempt' = [attempt EXCEPT ![o] = record],
         UNCHANGED <<now, config, revision, changedAt, queue, belief, heard>>,
         record.started <= now, record.finished <= now, record.revision <= revision,
         record.step \notin {"idle", "captured"} => record.started \in Time,
         record.step \in {"stamped", "sent"} => record.started <= record.finished,
         record.step \in LoggedIn /\ (record.revision = revision \/ changedAt <= record.started)
           => record.password = config.saved
  PROVE  EvidenceInv'
<1>1. queue' \in Seq(Attempt) /\ Len(queue') <= Capacity
  BY DEF EvidenceInv, EvidenceTypeOK
<1>2. \A i \in 1 .. Len(queue') : attempt'[queue'[i]].step = "sent"
  BY InvTypes DEF EvidenceInv, Reported, EvidenceTypeOK
<1> QED  BY <1>1, <1>2, AttemptStep

\* What the invariant says of an attempt.
LEMMA AttemptFacts ==
  ASSUME EvidenceInv, NEW o \in Attempt
  PROVE  /\ attempt[o] \in Record /\ now \in Time /\ Time \subseteq Nat /\ revision \in Nat
         /\ config.saved \in Nat /\ config.profile \in Profile \union {Deleted}
         /\ attempt[o].started <= now /\ attempt[o].finished <= now /\ attempt[o].revision <= revision
         /\ attempt[o].step \notin {"idle", "captured"} => attempt[o].started \in Time
BY InvTypes DEF EvidenceInv, EvidenceTypeOK, ClocksInOrder, Time

LEMMA CaptureInv == ASSUME EvidenceInv, NEW o \in Attempt, Capture(o) PROVE EvidenceInv'
<1> DEFINE record == [NotStarted EXCEPT !.step = "captured", !.profile = config.profile, !.revision = revision]
<1>1. record \in Record
  BY AttemptFacts DEF Record, NotStarted, Stage, Reading
<1>2. /\ record.started <= now /\ record.finished <= now /\ record.revision <= revision
      /\ record.step = "captured"
  BY AttemptFacts DEF NotStarted, Never
<1>3. attempt[o].step # "sent" /\ attempt' = [attempt EXCEPT ![o] = record]
      /\ UNCHANGED <<now, config, revision, changedAt, queue, belief, heard>>
  BY DEF Capture
<1> HIDE DEF record
<1> QED  BY <1>1, <1>2, <1>3, QuietStep DEF LoggedIn

LEMMA BeginInv == ASSUME EvidenceInv, NEW o \in Attempt, Begin(o) PROVE EvidenceInv'
<1> DEFINE record == [attempt[o] EXCEPT !.step = "running", !.started = now]
<1>1. record \in Record
  BY AttemptFacts DEF Record, Stage, Reading
<1>2. /\ record.started \in Time /\ record.started <= now /\ record.finished <= now
      /\ record.revision <= revision /\ record.step = "running"
  BY AttemptFacts DEF Record
<1>3. attempt[o].step # "sent" /\ attempt' = [attempt EXCEPT ![o] = record]
      /\ UNCHANGED <<now, config, revision, changedAt, queue, belief, heard>>
  BY InvTypes DEF Begin, EvidenceInv
<1> HIDE DEF record
<1> QED  BY <1>1, <1>2, <1>3, QuietStep DEF LoggedIn

LEMMA AuthenticateInv == ASSUME EvidenceInv, NEW o \in Attempt, Authenticate(o) PROVE EvidenceInv'
<1> DEFINE record == [attempt[o] EXCEPT !.step = "open", !.password = config.saved]
<1>1. record \in Record
  BY AttemptFacts DEF Record, Stage, Reading
<1>2. /\ record.started \in Time /\ record.started <= now /\ record.finished <= now
      /\ record.revision <= revision /\ record.step = "open" /\ record.password = config.saved
  BY AttemptFacts DEF Record, Authenticate
<1>3. attempt[o].step # "sent" /\ attempt' = [attempt EXCEPT ![o] = record]
      /\ UNCHANGED <<now, config, revision, changedAt, queue, belief, heard>>
  BY InvTypes DEF Authenticate, EvidenceInv
<1> HIDE DEF record
<1> QED  BY <1>1, <1>2, <1>3, QuietStep

LEMMA FinishInv ==
  ASSUME EvidenceInv, NEW o \in Attempt, NEW ok \in BOOLEAN, Finish(o, ok)
  PROVE  EvidenceInv'
<1>1. /\ attempt[o].step = "open" /\ UNCHANGED <<now, config, revision, changedAt, queue, belief, heard>>
      /\ (attempt[o].revision = revision \/ changedAt <= attempt[o].started)
           => attempt[o].password = config.saved
  BY DEF Finish, EvidenceInv, PasswordSaved, LoggedIn
<1>2. CASE attempt' = [attempt EXCEPT ![o].step = "stamped", ![o].finished = now, ![o].ok = ok]
  <2> DEFINE record == [attempt[o] EXCEPT !.step = "stamped", !.finished = now, !.ok = ok]
  <2>1. record \in Record
    BY AttemptFacts DEF Record, Stage, Reading
  <2>2. /\ record.started \in Time /\ record.started <= now /\ record.finished = now
        /\ record.revision = attempt[o].revision /\ record.started = attempt[o].started
        /\ record.step = "stamped" /\ record.password = attempt[o].password
        /\ record.revision <= revision /\ record.finished <= now
    BY AttemptFacts, <1>1 DEF Record
  <2>3. attempt' = [attempt EXCEPT ![o] = record]  BY <1>2, InvTypes DEF EvidenceInv
  <2> HIDE DEF record
  <2> QED  BY <1>1, <2>1, <2>2, <2>3, QuietStep
<1>3. CASE attempt' = [attempt EXCEPT ![o].step = "probed", ![o].ok = ok]
  <2> DEFINE record == [attempt[o] EXCEPT !.step = "probed", !.ok = ok]
  <2>1. record \in Record
    BY AttemptFacts DEF Record, Stage, Reading
  <2>2. /\ record.started \in Time /\ record.started <= now /\ record.finished <= now
        /\ record.revision = attempt[o].revision /\ record.started = attempt[o].started
        /\ record.step = "probed" /\ record.password = attempt[o].password
        /\ record.revision <= revision
    BY AttemptFacts, <1>1 DEF Record
  <2>3. attempt' = [attempt EXCEPT ![o] = record]  BY <1>3, InvTypes DEF EvidenceInv
  <2> HIDE DEF record
  <2> QED  BY <1>1, <2>1, <2>2, <2>3, QuietStep
<1> QED  BY <1>2, <1>3 DEF Finish

LEMMA SendEventInv == ASSUME EvidenceInv, NEW o \in Attempt, SendEvent(o) PROVE EvidenceInv'
<1> DEFINE record == [attempt[o] EXCEPT !.step = "sent"]
           kept   == IF Len(queue) = Capacity THEN Tail(queue) ELSE queue
<1>1. /\ attempt[o].step = "stamped" /\ UNCHANGED <<now, config, revision, changedAt, belief, heard>>
      /\ attempt[o].started <= attempt[o].finished
      /\ (attempt[o].revision = revision \/ changedAt <= attempt[o].started)
           => attempt[o].password = config.saved
  BY DEF SendEvent, EvidenceInv, PasswordSaved, LoggedIn, ClocksInOrder
<1>2. record \in Record
  BY AttemptFacts DEF Record, Stage, Reading
<1>3. /\ record.started \in Time /\ record.started <= now /\ record.finished <= now
      /\ record.started = attempt[o].started /\ record.finished = attempt[o].finished
      /\ record.revision = attempt[o].revision /\ record.revision <= revision
      /\ record.step = "sent" /\ record.password = attempt[o].password
  BY AttemptFacts, <1>1 DEF Record
<1>4. attempt' = [attempt EXCEPT ![o] = record]  BY InvTypes DEF SendEvent, EvidenceInv
<1>5. queue \in Seq(Attempt) /\ Len(queue) <= Capacity /\ Capacity \in Nat \ {0}
  BY BoundAssumption DEF EvidenceInv, EvidenceTypeOK
<1>6. /\ kept \in Seq(Attempt) /\ Len(kept) < Capacity
      /\ \A i \in 1 .. Len(kept) : \E j \in 1 .. Len(queue) : kept[i] = queue[j]
  <2>1. CASE Len(queue) = Capacity
    <3>1. /\ Tail(queue) \in Seq(Attempt) /\ Len(Tail(queue)) = Len(queue) - 1
          /\ \A i \in 1 .. Len(Tail(queue)) : Tail(queue)[i] = queue[i + 1] /\ i + 1 \in 1 .. Len(queue)
      BY <1>5, <2>1
    <3> QED  BY <2>1, <3>1, <1>5
  <2>2. CASE Len(queue) # Capacity  BY <2>2, <1>5
  <2> QED  BY <2>1, <2>2
<1>7. queue' = Append(kept, o)  BY DEF SendEvent
<1> HIDE DEF record, kept
<1>8. queue' \in Seq(Attempt) /\ Len(queue') <= Capacity
  BY <1>5, <1>6, <1>7
<1>9. ASSUME NEW i \in 1 .. Len(queue') PROVE attempt'[queue'[i]].step = "sent"
  <2>1. queue'[i] = o \/ \E j \in 1 .. Len(queue) : queue'[i] = queue[j]
    <3>1. /\ Len(kept) \in Nat /\ Len(queue') = Len(kept) + 1 /\ queue'[Len(kept) + 1] = o
          /\ \A j \in 1 .. Len(kept) : queue'[j] = kept[j]
      BY <1>6, <1>7
    <3>2. i = Len(kept) + 1 \/ i \in 1 .. Len(kept)
      BY <3>1
    <3> QED  BY <1>6, <3>1, <3>2
  <2>2. \A j \in 1 .. Len(queue) : queue[j] \in Attempt /\ attempt[queue[j]].step = "sent"
    BY <1>5 DEF EvidenceInv, Reported
  <2> QED  BY <1>3, <1>4, <2>1, <2>2, InvTypes DEF EvidenceInv
<1> QED  BY <1>1, <1>2, <1>3, <1>4, <1>8, <1>9, AttemptStep

\* An outcome is considered: of an attempt that has been reported, with the current
\* settings and password.
LEMMA ConsideredInv ==
  ASSUME EvidenceInv, NEW o \in Attempt,
         UNCHANGED <<now, config, revision, changedAt>>,
         EvidenceTypeOK', ClocksInOrder', PasswordSaved',
         \A i \in 1 .. Len(queue') : attempt'[queue'[i]].step = "sent",
         attempt'[o].step = "sent", \A p \in heard : attempt'[p] = attempt[p],
         attempt'[o].profile = config.profile, attempt'[o].password = config.saved,
         belief' = Observed(belief, o, attempt'[o].started, attempt'[o].finished, attempt'[o].ok),
         heard' = heard \union {o}
  PROVE  EvidenceInv' /\ belief.observed <= belief'.observed
<1>r. /\ attempt \in [Attempt -> Record] /\ attempt' \in [Attempt -> Record]
      /\ belief \in Belief /\ heard \in SUBSET Attempt
  BY InvTypes DEF EvidenceInv, EvidenceTypeOK, Record, Stage, Reading
<1>1. /\ attempt'[o].started \in Time /\ attempt'[o].finished \in Time
      /\ attempt'[o].started <= attempt'[o].finished
  <2>1. attempt'[o].started \in Time /\ attempt'[o].started <= attempt'[o].finished
    BY DEF ClocksInOrder
  <2>2. attempt'[o].finished \in Reading  BY <1>r DEF Record
  <2> QED  BY <2>1, <2>2, BoundAssumption DEF Reading, Time, Never
<1>2. FromHeard(belief, heard, attempt') /\ LatestHeard(belief, heard, attempt')
  BY SameRecords DEF EvidenceInv
<1>3. /\ belief' \in Belief /\ belief'.by \in {belief.by, {o}} /\ belief.observed <= belief'.observed
      /\ FromHeard(belief', heard', attempt') /\ LatestHeard(belief', heard', attempt')
  BY <1>r, <1>1, <1>2, ObservedSound
<1>4. Reported'
  BY <1>3 DEF EvidenceInv, Reported
<1>5. NoObsoleteEvidence'
  BY <1>3 DEF EvidenceInv, Reported, NoObsoleteEvidence
<1> QED  BY <1>3, <1>4, <1>5 DEF EvidenceInv

LEMMA HandleEventInv == ASSUME EvidenceInv, HandleEvent PROVE EvidenceInv' /\ belief.observed <= belief'.observed
<1> DEFINE o == Head(queue)
<1>1. /\ queue \in Seq(Attempt) /\ queue # <<>> /\ queue' = Tail(queue)
      /\ UNCHANGED <<now, config, revision, changedAt, attempt>>
      /\ Len(queue) <= Capacity /\ Capacity \in Nat
  BY BoundAssumption DEF HandleEvent, EvidenceInv, EvidenceTypeOK
<1>2. /\ o \in Attempt /\ attempt[o].step = "sent" /\ queue' \in Seq(Attempt) /\ Len(queue') <= Capacity
      /\ \A i \in 1 .. Len(queue') : attempt[queue'[i]].step = "sent"
  <2>1. /\ o = queue[1] /\ Len(queue) \in Nat /\ Len(queue) >= 1
        /\ Tail(queue) \in Seq(Attempt) /\ Len(Tail(queue)) = Len(queue) - 1
        /\ \A i \in 1 .. Len(Tail(queue)) : Tail(queue)[i] = queue[i + 1]
    BY <1>1
  <2> QED  BY <1>1, <2>1 DEF EvidenceInv, Reported
<1>3. (ClocksInOrder /\ PasswordSaved)'
  BY <1>1 DEF EvidenceInv, ClocksInOrder, PasswordSaved
<1> HIDE DEF o
<1>4. CASE changedAt <= attempt[o].started /\ Matches(attempt[o].profile, revision)
  <2>1. belief' = Observed(belief, o, attempt[o].started, attempt[o].finished, attempt[o].ok)
        /\ heard' = heard \union {o}
    BY <1>4 DEF HandleEvent, Considered, o
  <2>2. attempt[o].profile = config.profile /\ attempt[o].password = config.saved
    BY <1>2, <1>4 DEF Matches, EvidenceInv, PasswordSaved, LoggedIn
  <2>3. EvidenceTypeOK'
    <3>1. attempt \in [Attempt -> Record] /\ belief \in Belief  BY InvTypes DEF EvidenceInv
    <3>2. /\ attempt[o].started \in Time /\ attempt[o].finished \in Time /\ Time \subseteq Nat
          /\ attempt[o].started <= attempt[o].finished
      BY <1>2, <3>1, BoundAssumption DEF EvidenceInv, ClocksInOrder, Record, Reading, Time, Never
    <3>3. belief' \in Belief
      BY <1>2, <2>1, <3>1, <3>2, ObservedSound DEF EvidenceInv, EvidenceTypeOK
    <3>4. heard' \subseteq Attempt  BY <1>2, <2>1 DEF EvidenceInv, EvidenceTypeOK
    <3> QED  BY <1>1, <1>2, <3>3, <3>4 DEF EvidenceInv, EvidenceTypeOK, Belief, Reading
  <2> QED  BY <1>1, <1>2, <1>3, <2>1, <2>2, <2>3, ConsideredInv
<1>5. CASE ~(changedAt <= attempt[o].started /\ Matches(attempt[o].profile, revision))
  <2>1. UNCHANGED <<belief, heard>>  BY <1>5 DEF HandleEvent, Ignored, o
  <2>2. (EvidenceTypeOK /\ Reported /\ NoObsoleteEvidence)'
    BY <1>1, <1>2, <2>1 DEF EvidenceInv, EvidenceTypeOK, Reported, NoObsoleteEvidence
  <2>3. belief.observed \in Nat
    BY InvTypes, BoundAssumption DEF EvidenceInv, Belief, Reading, Time, Never
  <2> QED  BY <1>1, <1>3, <2>1, <2>2, <2>3 DEF EvidenceInv
<1> QED  BY <1>4, <1>5

LEMMA ObserveAtInv ==
  ASSUME EvidenceInv, NEW o \in Attempt, ObserveAt(o)
  PROVE  EvidenceInv' /\ belief.observed <= belief'.observed
<1> DEFINE record == [attempt[o] EXCEPT !.step = "sent", !.finished = now]
<1>1. /\ attempt[o].step = "probed" /\ UNCHANGED <<now, config, revision, changedAt, queue>>
      /\ (attempt[o].revision = revision \/ changedAt <= attempt[o].started)
           => attempt[o].password = config.saved
  BY DEF ObserveAt, EvidenceInv, PasswordSaved, LoggedIn
<1>2. record \in Record
  BY AttemptFacts DEF Record, Stage, Reading
<1>3. /\ record.started \in Time /\ record.started <= now /\ record.finished = now /\ record.finished <= now
      /\ record.started = attempt[o].started /\ record.revision = attempt[o].revision
      /\ record.revision <= revision /\ record.step = "sent"
      /\ record.password = attempt[o].password /\ record.profile = attempt[o].profile
      /\ (record.ok <=> attempt[o].ok)
  BY AttemptFacts, <1>1 DEF Record
<1>4. attempt' = [attempt EXCEPT ![o] = record]  BY InvTypes DEF ObserveAt, EvidenceInv
<1>5. /\ queue' \in Seq(Attempt) /\ Len(queue') <= Capacity
      /\ \A i \in 1 .. Len(queue') : queue'[i] \in Attempt /\ attempt[queue'[i]].step = "sent"
  BY <1>1 DEF EvidenceInv, EvidenceTypeOK, Reported
<1>6. /\ attempt \in [Attempt -> Record] /\ attempt' \in [Attempt -> Record] /\ attempt'[o] = record
      /\ \A p \in Attempt : p # o => attempt'[p] = attempt[p]
  BY <1>2, <1>4, InvTypes DEF EvidenceInv
<1> HIDE DEF record
<1>7. \A i \in 1 .. Len(queue') : attempt'[queue'[i]].step = "sent"
  BY <1>3, <1>5, <1>6
<1>8. CASE Matches(attempt[o].profile, attempt[o].revision)
  <2>1. belief' = Observed(belief, o, attempt[o].started, now, attempt[o].ok) /\ heard' = heard \union {o}
    BY <1>8 DEF ObserveAt, Considered
  <2>2. attempt[o].profile = config.profile /\ attempt[o].revision = revision
    BY <1>8 DEF Matches
  <2>3. \A p \in heard : attempt'[p] = attempt[p] /\ p # o
    BY <1>1, <1>6 DEF EvidenceInv, EvidenceTypeOK, Reported
  <2>4. (ClocksInOrder /\ PasswordSaved)'
    BY <1>1, <1>3, <1>6 DEF EvidenceInv, ClocksInOrder, PasswordSaved
  <2>5. belief' = Observed(belief, o, record.started, record.finished, record.ok)
    BY <1>3, <2>1 DEF Observed, Accepted
  <2>6. EvidenceTypeOK'
    <3>1. belief \in Belief /\ heard \in SUBSET Attempt  BY InvTypes DEF EvidenceInv
    <3>2. FromHeard(belief, heard, attempt') /\ LatestHeard(belief, heard, attempt')
      BY <2>3, SameRecords DEF EvidenceInv
    <3>3. record.finished \in Time  BY <1>3 DEF EvidenceInv, EvidenceTypeOK
    <3>4. belief' \in Belief
      BY <1>3, <1>6, <2>5, <3>1, <3>2, <3>3, ObservedSound
    <3> QED
      BY <1>1, <1>5, <1>6, <2>1, <3>1, <3>4
      DEF EvidenceInv, EvidenceTypeOK, Record, Stage, Reading, Belief
  <2> QED  BY <1>1, <1>3, <1>6, <1>7, <2>1, <2>2, <2>3, <2>4, <2>5, <2>6, ConsideredInv
<1>9. CASE ~Matches(attempt[o].profile, attempt[o].revision)
  <2>1. UNCHANGED <<belief, heard>>  BY <1>9 DEF ObserveAt, Ignored
  <2>2. belief.observed \in Nat
    BY InvTypes, BoundAssumption DEF EvidenceInv, Belief, Reading, Time, Never
  <2>3. EvidenceInv'
    BY <1>1, <1>2, <1>3, <1>4, <1>5, <1>7, <2>1, AttemptStep
  <2> QED  BY <2>1, <2>2, <2>3
<1> QED  BY <1>8, <1>9

\* Nothing is believed of a server that was changed or deleted.
LEMMA DiscardedInv ==
  ASSUME EvidenceInv, UNCHANGED <<attempt, queue>>, now' \in Time, now <= now', revision <= revision',
         config' \in [profile : Profile \union {Deleted}, saved : Nat], revision' \in Nat,
         changedAt' \in Reading, changedAt' <= now', PasswordSaved', belief' = Unknown, heard' = {}
  PROVE  EvidenceInv'
<1>1. EvidenceTypeOK'
  BY UnknownSound DEF EvidenceInv, EvidenceTypeOK, Belief, Reading
<1>2. ClocksInOrder'
  <2>1. \A o \in Attempt : /\ attempt[o].started \in Nat /\ attempt[o].finished \in Nat
                            /\ attempt[o].revision \in Nat
    BY InvTypes, BoundAssumption DEF EvidenceInv, Record, Reading, Time, Never
  <2>2. now \in Nat /\ now' \in Nat /\ revision \in Nat
    BY BoundAssumption DEF EvidenceInv, EvidenceTypeOK, Time
  <2> QED  BY <2>1, <2>2 DEF EvidenceInv, ClocksInOrder
<1>3. Reported' /\ NoObsoleteEvidence'
  BY DEF EvidenceInv, Reported, NoObsoleteEvidence, Unknown
<1> QED  BY <1>1, <1>2, <1>3, UnknownSound DEF EvidenceInv

LEMMA ProfileSavedInv ==
  ASSUME EvidenceInv, NEW p \in Profile, ProfileSaved(p)
  PROVE  EvidenceInv' /\ Discards
<1>1. /\ now' = now + 1 /\ now < MaxTime /\ revision' = revision + 1 /\ changedAt' = now'
      /\ belief' = Unknown /\ heard' = {} /\ UNCHANGED <<attempt, queue>>
      /\ config' = [profile |-> p, saved |-> config.saved + 1]
  BY DEF ProfileSaved, Advance
<1>2. /\ now \in Time /\ now \in Nat /\ MaxTime \in Nat /\ revision \in Nat /\ config.saved \in Nat
  BY BoundAssumption DEF EvidenceInv, EvidenceTypeOK, Time
<1>3. /\ now' \in Time /\ now <= now' /\ revision <= revision' /\ revision' \in Nat
      /\ changedAt' \in Reading /\ changedAt' <= now' /\ revision' # revision
  BY <1>1, <1>2 DEF Time, Reading
<1>4. PasswordSaved'
  <2>1. ASSUME NEW o \in Attempt PROVE attempt'[o].revision # revision' /\ ~(changedAt' <= attempt'[o].started)
    <3>1. /\ attempt[o].revision \in Nat /\ attempt[o].started \in Nat
          /\ attempt[o].revision <= revision /\ attempt[o].started <= now
      BY InvTypes, BoundAssumption DEF EvidenceInv, ClocksInOrder, Record, Reading, Time, Never
    <3> QED  BY <1>1, <1>2, <3>1
  <2> QED  BY <2>1 DEF PasswordSaved
<1> QED  BY <1>1, <1>2, <1>3, <1>4, DiscardedInv DEF Discards

LEMMA SnapshotInv == ASSUME EvidenceInv, Snapshot PROVE EvidenceInv' /\ Discards
<1>1. /\ UNCHANGED <<now, config, revision, changedAt, attempt, queue>> /\ config.profile = Deleted
      /\ belief' = Unknown /\ heard' = {}
  BY DEF Snapshot
<1>2. now \in Time /\ now \in Nat /\ revision \in Nat /\ changedAt \in Reading /\ changedAt <= now
  BY BoundAssumption DEF EvidenceInv, EvidenceTypeOK, Time, Reading
<1>3. PasswordSaved'
  BY <1>1 DEF EvidenceInv, PasswordSaved
<1>4. config' \in [profile : Profile \union {Deleted}, saved : Nat]
  BY <1>1 DEF EvidenceInv, EvidenceTypeOK
<1> QED  BY <1>1, <1>2, <1>3, <1>4, DiscardedInv DEF Discards

\* The clock and a deletion change nothing else.
LEMMA BesidesInv ==
  ASSUME EvidenceInv, Tick \/ ProfileDeleted \/ UNCHANGED evidenceVars
  PROVE  EvidenceInv' /\ belief' = belief
<1>1. /\ UNCHANGED <<revision, changedAt, attempt, queue, belief, heard>> /\ config'.saved = config.saved
      /\ config' \in [profile : Profile \union {Deleted}, saved : Nat]
      /\ config'.profile = Deleted \/ config' = config
      /\ now' \in Time /\ now' >= now
  <2>1. now \in Time /\ config \in [profile : Profile \union {Deleted}, saved : Nat]
    BY DEF EvidenceInv, EvidenceTypeOK
  <2>2. CASE Tick  BY <2>1, <2>2, BoundAssumption DEF Tick, Time
  <2>3. CASE ProfileDeleted
    <3>1. config' = [config EXCEPT !.profile = Deleted] /\ now' = now  BY <2>3 DEF ProfileDeleted
    <3>2. /\ config' \in [profile : Profile \union {Deleted}, saved : Nat]
          /\ config'.saved = config.saved /\ config'.profile = Deleted
      BY <2>1, <3>1
    <3> QED  BY <2>1, <2>3, <3>1, <3>2, BoundAssumption DEF ProfileDeleted, Time
  <2>4. CASE UNCHANGED evidenceVars  BY <2>1, <2>4, BoundAssumption DEF evidenceVars, Time
  <2> QED  BY <2>2, <2>3, <2>4
<1>2. now \in Nat /\ now' \in Nat /\ changedAt \in Nat
      /\ \A o \in Attempt : attempt[o].started \in Nat /\ attempt[o].finished \in Nat
  <2>1. Time \subseteq Nat /\ Reading \subseteq Nat
    BY BoundAssumption DEF Reading, Time, Never
  <2>2. now \in Time /\ changedAt \in Reading /\ attempt \in [Attempt -> Record]
    BY InvTypes DEF EvidenceInv, EvidenceTypeOK, Reading
  <2> QED  BY <1>1, <2>1, <2>2 DEF Record
<1>3. EvidenceTypeOK' /\ changedAt' <= now'
  BY <1>1, <1>2 DEF EvidenceInv, EvidenceTypeOK
<1>4. ClocksInOrder'
  BY <1>1, <1>2 DEF EvidenceInv, ClocksInOrder
<1>5. (PasswordSaved /\ Reported /\ NoObsoleteEvidence)'
  BY <1>1 DEF EvidenceInv, PasswordSaved, Reported, NoObsoleteEvidence
<1> QED  BY <1>1, <1>3, <1>4, <1>5 DEF EvidenceInv

LEMMA EvidenceStep ==
  ASSUME EvidenceInv, [EvidenceNext]_evidenceVars
  PROVE  EvidenceInv' /\ (belief'.observed < belief.observed => Discards)
<1>0. belief.observed \in Nat
  BY InvTypes, BoundAssumption DEF EvidenceInv, Belief, Reading, Time, Never
<1>1. ASSUME NEW o \in Attempt, Capture(o) \/ Begin(o) \/ Authenticate(o) \/ SendEvent(o)
                                \/ \E ok \in BOOLEAN : Finish(o, ok)
      PROVE  EvidenceInv' /\ belief' = belief
  <2>1. belief' = belief  BY <1>1 DEF Capture, Begin, Authenticate, SendEvent, Finish
  <2> QED  BY <1>1, <2>1, CaptureInv, BeginInv, AuthenticateInv, SendEventInv, FinishInv
<1>2. ASSUME HandleEvent \/ \E o \in Attempt : ObserveAt(o)
      PROVE  EvidenceInv' /\ belief.observed <= belief'.observed
  BY <1>2, HandleEventInv, ObserveAtInv
<1>3. ASSUME Snapshot \/ \E p \in Profile : ProfileSaved(p) PROVE EvidenceInv' /\ Discards
  BY <1>3, SnapshotInv, ProfileSavedInv
<1>4. ASSUME EvidenceInv', belief' = belief \/ belief.observed <= belief'.observed
      PROVE  ~(belief'.observed < belief.observed)
  <2>1. belief'.observed \in Nat
    <3>1. belief' \in Belief  BY <1>4 DEF EvidenceInv, EvidenceTypeOK, Belief, Reading
    <3> QED  BY <3>1, BoundAssumption DEF Belief, Reading, Time, Never
  <2> QED  BY <1>0, <1>4, <2>1
<1> QED  BY <1>1, <1>2, <1>3, <1>4, BesidesInv DEF EvidenceNext

LEMMA EvidenceInvariance == EvidenceSpec => []EvidenceInv
<1>1. EvidenceInv /\ [EvidenceNext]_evidenceVars => EvidenceInv'  BY EvidenceStep
<1> QED  BY <1>1, EvidenceInitInv, PTL DEF EvidenceSpec

\* However attempts overlap and are reported (connectivity.rs observe_at, manager.rs
\* connection_events and observe_connection), what is shown of a server was learned with
\* its current settings and password, and the latest outcome decides it.
THEOREM EvidenceIsSound == EvidenceSpec => []EvidenceSound
BY EvidenceInvariance, InvDecides, PTL

\* A late report does not replace evidence by older evidence (connectivity.rs
\* observe_at): only a change or a deletion of the server discards it.
THEOREM EvidenceAdvances == EvidenceSpec => NoRewind
<1>1. EvidenceInv /\ [EvidenceNext]_evidenceVars
        => [belief'.observed < belief.observed => Discards]_evidenceVars
  BY EvidenceStep
<1> QED  BY <1>1, EvidenceInvariance, PTL DEF EvidenceSpec, NoRewind
-----------------------------------------------------------------------------
(* Host keys *)

Step == {"idle", "opening", "locking", "checked", "accepted", "refused"}

HostsTypeOK ==
  /\ system \subseteq Entry
  /\ files \in [File -> [entries : SUBSET Entry, torn : BOOLEAN]]
  /\ inUse \in File
  /\ flock \in [File -> Link \union {Unlocked}]
  /\ link \in [Link -> [step : Step, key : Key, file : File, read : SUBSET Entry]]
  /\ trusted \in [keys : SUBSET Key, entered : SUBSET Entry, edits : 0 .. MaxEdited, crossed : BOOLEAN]

\* Who decides holds the lock of the file it has read.
Locked == \A c \in Link : link[c].step = "checked" => flock[link[c].file] = c

\* Who is under way has not been shown a key the system's file revokes.
Unrevoked ==
  \A c \in Link : link[c].step \in {"opening", "locking", "checked"} => ~Revoked(system, link[c].key)

\* Unless the last edit crossed them, connections have the file in use open, and who
\* decides has read it as it is.
UpToDate ==
  \A c \in Link : /\ link[c].step \in {"locking", "checked"} => link[c].file = inUse
                  /\ link[c].step = "checked" => link[c].read = files[inUse].entries

\* What connections have added to a file that said `entered`.
AddedOne(held, entered) ==
  /\ entered \subseteq held
  /\ \A x \in held \ entered : x.marker = "plain"
  /\ \A x, y \in held \ entered : x.key = y.key
  /\ held \ entered # {} => ~Found(system \union entered)

\* An accepted key is known and not revoked.
AcceptedKnown(held, keys) ==
  \A k \in keys : Trusted(held \union system, k) /\ ~Revoked(held \union system, k)

InUseSound ==
  /\ AddedOne(files[inUse].entries, trusted.entered)
  /\ AcceptedKnown(files[inUse].entries, trusted.keys)

HostsInv ==
  HostsTypeOK /\ Locked /\ Unrevoked /\ (~trusted.crossed => UpToDate /\ InUseSound)
-----------------------------------------------------------------------------
\* The rest of a connection's step is well typed.
LEMMA IdleType == Idle \in [step : Step, key : Key, file : File, read : SUBSET Entry]
<1>1. (CHOOSE k \in Key : TRUE) \in Key  BY KnownHostsAssumption
<1>2. 0 \in File  BY KnownHostsAssumption DEF File
<1> QED  BY <1>1, <1>2 DEF Idle, Step

\* A file with one key more, when nothing was said of the server, has one that was added.
LEMMA AddsFirst ==
  ASSUME NEW held \in SUBSET Entry, NEW entered \in SUBSET Entry, NEW k \in Key,
         system \subseteq Entry, AddedOne(held, entered), ~Found(held \union system)
  PROVE  AddedOne(held \union {[key |-> k, marker |-> "plain"]}, entered)
<1> DEFINE line == [key |-> k, marker |-> "plain"]
<1>1. line.marker = "plain" /\ line.key = k  OBVIOUS
<1>2. held \ entered = {}
  BY DEF AddedOne, Found
<1>3. (held \union {line}) \ entered \subseteq {line}
  BY <1>2
<1>4. ~Found(system \union entered)
  BY DEF AddedOne, Found
<1> QED  BY <1>1, <1>3, <1>4 DEF AddedOne

\* A plain line neither revokes a key nor hides one that is trusted.
LEMMA PlainKeepsAccepted ==
  ASSUME NEW held \in SUBSET Entry, NEW k \in Key, NEW keys \in SUBSET Key, AcceptedKnown(held, keys)
  PROVE  AcceptedKnown(held \union {[key |-> k, marker |-> "plain"]}, keys)
<1>1. \A h : [key |-> h, marker |-> "revoked"] # [key |-> k, marker |-> "plain"]
  <2>1. [key |-> k, marker |-> "plain"].marker = "plain"  OBVIOUS
  <2>2. \A h : [key |-> h, marker |-> "revoked"].marker = "revoked"  OBVIOUS
  <2> QED  BY <2>1, <2>2
<1> QED  BY <1>1 DEF AcceptedKnown, Trusted, Revoked
-----------------------------------------------------------------------------
LEMMA HostsInitInv == HostsInit => HostsInv
<1> SUFFICES ASSUME HostsInit PROVE HostsInv  OBVIOUS
<1>1. 0 \in File /\ 0 \in 0 .. MaxEdited  BY KnownHostsAssumption DEF File
<1>2. HostsTypeOK
  BY <1>1, IdleType DEF HostsInit, HostsTypeOK, Entered
<1>3. \A c \in Link : link[c].step = "idle"  BY DEF HostsInit, Idle
<1>4. Locked /\ Unrevoked /\ UpToDate  BY <1>3 DEF Locked, Unrevoked, UpToDate
<1>5. InUseSound
  BY <1>1 DEF HostsInit, InUseSound, AddedOne, AcceptedKnown
<1> QED  BY <1>2, <1>4, <1>5 DEF HostsInv

LEMMA PresentInv ==
  ASSUME HostsInv, NEW c \in Link, NEW key \in Key, Present(c, key)
  PROVE  HostsInv'
<1>1. HostsTypeOK'
  <2>1. PICK step \in Step : link' = [link EXCEPT ![c].step = step, ![c].key = key]
    BY DEF Present, Step
  <2>2. link' \in [Link -> [step : Step, key : Key, file : File, read : SUBSET Entry]]
    <3>1. link \in [Link -> [step : Step, key : Key, file : File, read : SUBSET Entry]]
      BY DEF HostsInv, HostsTypeOK
    <3>2. [link[c] EXCEPT !.step = step, !.key = key] \in [step : Step, key : Key, file : File, read : SUBSET Entry]
      BY <2>1, <3>1
    <3> QED  BY <2>1, <3>1, <3>2
  <2> QED  BY <2>2 DEF HostsInv, HostsTypeOK, Present
<1>2. \A d \in Link : d # c => link'[d] = link[d]
  BY DEF HostsInv, HostsTypeOK, Present
<1>3. link'[c].key = key /\ link'[c].step = IF Revoked(system, key) THEN "refused" ELSE "opening"
  BY DEF HostsInv, HostsTypeOK, Present
<1>4. Locked'
  <2>1. ~(link'[c].step = "checked")  BY <1>3
  <2> QED  BY <1>2, <2>1 DEF HostsInv, Locked, Present
<1>5. Unrevoked'
  <2>1. link'[c].step = "opening" => ~Revoked(system, link'[c].key)  BY <1>3
  <2>2. link'[c].step \in {"opening", "refused"}  BY <1>3
  <2> SUFFICES ASSUME NEW d \in Link, link'[d].step \in {"opening", "locking", "checked"}
               PROVE  ~Revoked(system, link'[d].key)
    BY DEF Unrevoked, Present, Revoked
  <2>3. CASE d = c  BY <2>1, <2>2, <2>3
  <2>4. CASE d # c  BY <1>2, <2>4 DEF HostsInv, Unrevoked
  <2> QED  BY <2>3, <2>4
<1>6. UpToDate => UpToDate'
  <2>1. link'[c].step \notin {"locking", "checked"}  BY <1>3
  <2> QED  BY <1>2, <2>1 DEF UpToDate, Present
<1>7. InUseSound => InUseSound'
  BY DEF InUseSound, AddedOne, AcceptedKnown, Present, Trusted, Revoked, Found
<1> QED  BY <1>1, <1>4, <1>5, <1>6, <1>7 DEF HostsInv, Present

LEMMA OpenHostsInv ==
  ASSUME HostsInv, NEW c \in Link, OpenHosts(c)
  PROVE  HostsInv'
<1>1. HostsTypeOK'
  <2>1. /\ link \in [Link -> [step : Step, key : Key, file : File, read : SUBSET Entry]]
        /\ inUse \in File /\ "locking" \in Step
    BY DEF HostsInv, HostsTypeOK, Step
  <2>2. [link[c] EXCEPT !.step = "locking", !.file = inUse] \in
          [step : Step, key : Key, file : File, read : SUBSET Entry]
    BY <2>1
  <2>3. link' \in [Link -> [step : Step, key : Key, file : File, read : SUBSET Entry]]
    BY <2>1, <2>2 DEF OpenHosts
  <2> QED  BY <2>3 DEF HostsInv, HostsTypeOK, OpenHosts
<1>2. \A d \in Link : d # c => link'[d] = link[d]
  BY DEF HostsInv, HostsTypeOK, OpenHosts
<1>3. link'[c].key = link[c].key /\ link'[c].step = "locking" /\ link'[c].file = inUse
  BY DEF HostsInv, HostsTypeOK, OpenHosts
<1>4. Locked' /\ Unrevoked'
  <2>1. link[c].step = "opening"  BY DEF OpenHosts
  <2>2. Locked'
    BY <1>2, <1>3 DEF HostsInv, Locked, OpenHosts
  <2>3. Unrevoked'
    <3> SUFFICES ASSUME NEW d \in Link, link'[d].step \in {"opening", "locking", "checked"}
                 PROVE  ~Revoked(system, link'[d].key)
      BY DEF Unrevoked, OpenHosts, Revoked
    <3>1. CASE d = c  BY <1>3, <2>1, <3>1 DEF HostsInv, Unrevoked
    <3>2. CASE d # c  BY <1>2, <3>2 DEF HostsInv, Unrevoked
    <3> QED  BY <3>1, <3>2
  <2> QED  BY <2>2, <2>3
<1>5. UpToDate => UpToDate'
  BY <1>2, <1>3 DEF UpToDate, OpenHosts
<1>6. InUseSound => InUseSound'
  BY DEF InUseSound, AddedOne, AcceptedKnown, OpenHosts, Trusted, Revoked, Found
<1> QED  BY <1>1, <1>4, <1>5, <1>6 DEF HostsInv, OpenHosts

LEMMA LockAndReadInv ==
  ASSUME HostsInv, NEW c \in Link, LockAndRead(c)
  PROVE  HostsInv'
<1>1. HostsTypeOK'
  <2>1. PICK step \in Step : link' = [link EXCEPT ![c].step = step, ![c].read = Hosts(c).entries]
    BY DEF LockAndRead, Read, Step
  <2>2. Hosts(c).entries \in SUBSET Entry
    BY DEF HostsInv, HostsTypeOK, Hosts
  <2>3. link' \in [Link -> [step : Step, key : Key, file : File, read : SUBSET Entry]]
    <3>1. link \in [Link -> [step : Step, key : Key, file : File, read : SUBSET Entry]]
      BY DEF HostsInv, HostsTypeOK
    <3>2. [link[c] EXCEPT !.step = step, !.read = Hosts(c).entries] \in
            [step : Step, key : Key, file : File, read : SUBSET Entry]
      BY <2>1, <2>2, <3>1
    <3> QED  BY <2>1, <3>1, <3>2
  <2>4. flock' \in [File -> Link \union {Unlocked}]
    BY DEF HostsInv, HostsTypeOK, LockAndRead
  <2> QED  BY <2>3, <2>4 DEF HostsInv, HostsTypeOK, LockAndRead
<1>2. \A d \in Link : d # c => link'[d] = link[d]
  BY DEF HostsInv, HostsTypeOK, LockAndRead, Read
<1>3. /\ link'[c].key = link[c].key /\ link'[c].file = link[c].file
      /\ link'[c].step = IF Hosts(c).torn THEN "refused" ELSE "checked"
      /\ link'[c].read = Hosts(c).entries
  BY DEF HostsInv, HostsTypeOK, LockAndRead, Read
<1>4. Locked'
  <2>1. \A f \in File : flock[f] # Unlocked => flock'[f] = flock[f]
    BY DEF HostsInv, HostsTypeOK, LockAndRead
  <2>2. ~Hosts(c).torn => flock'[link[c].file] = c
    BY DEF HostsInv, HostsTypeOK, LockAndRead
  <2>3. \A d \in Link : d # Unlocked /\ link[d].file \in File
    BY KnownHostsAssumption DEF HostsInv, HostsTypeOK
  <2> QED  BY <1>2, <1>3, <2>1, <2>2, <2>3 DEF HostsInv, Locked
<1>5. Unrevoked'
  BY <1>2, <1>3 DEF HostsInv, Unrevoked, LockAndRead, Revoked
<1>6. UpToDate => UpToDate'
  BY <1>2, <1>3 DEF UpToDate, LockAndRead, Hosts
<1>7. InUseSound => InUseSound'
  BY DEF InUseSound, AddedOne, AcceptedKnown, LockAndRead, Trusted, Revoked, Found
<1> QED  BY <1>1, <1>4, <1>5, <1>6, <1>7 DEF HostsInv, LockAndRead

\* What the end of a check leaves of the parts about connections and locks, when the file
\* it worked on may have changed.
LEMMA EndsKeeps ==
  ASSUME HostsInv, NEW c \in Link, NEW step \in {"accepted", "refused"},
         link[c].step = "checked", Ends(c, step), UNCHANGED <<system, inUse>>,
         files' \in [File -> [entries : SUBSET Entry, torn : BOOLEAN]]
  PROVE  /\ flock' \in [File -> Link \union {Unlocked}]
         /\ link' \in [Link -> [step : Step, key : Key, file : File, read : SUBSET Entry]]
         /\ Locked' /\ Unrevoked'
         /\ ~trusted.crossed => UpToDate'
<1>1. flock' \in [File -> Link \union {Unlocked}]
  BY DEF HostsInv, HostsTypeOK, Ends
<1>2. [Idle EXCEPT !.step = step] \in [step : Step, key : Key, file : File, read : SUBSET Entry]
  BY IdleType DEF Step
<1>3. link' \in [Link -> [step : Step, key : Key, file : File, read : SUBSET Entry]]
  BY <1>2 DEF HostsInv, HostsTypeOK, Ends
<1>4. \A d \in Link : d # c => link'[d] = link[d]
  BY DEF HostsInv, HostsTypeOK, Ends
<1>5. link'[c].step \in {"accepted", "refused"}
  BY DEF HostsInv, HostsTypeOK, Ends, Idle
<1>6. \A f \in File, d \in Link : d # c /\ flock[f] = d => flock'[f] = d
  BY DEF HostsInv, HostsTypeOK, Ends
<1>7. Locked'
  <2> SUFFICES ASSUME NEW d \in Link, link'[d].step = "checked"
               PROVE  flock'[link'[d].file] = d
    BY DEF Locked
  <2>1. d # c /\ link'[d] = link[d]
    BY <1>4, <1>5
  <2>2. link[d].file \in File /\ flock[link[d].file] = d
    BY <2>1 DEF HostsInv, HostsTypeOK, Locked
  <2> QED  BY <1>6, <2>1, <2>2
<1>8. Unrevoked'
  BY <1>4, <1>5 DEF HostsInv, Unrevoked, Revoked
<1>9. ASSUME ~trusted.crossed PROVE UpToDate'
  <2>1. UpToDate  BY <1>9 DEF HostsInv
  <2>2. \A d \in Link : d # c => link[d].step # "checked"
    BY <2>1 DEF HostsInv, Locked, UpToDate
  <2> QED  BY <1>4, <1>5, <2>1, <2>2 DEF UpToDate
<1> QED  BY <1>1, <1>3, <1>7, <1>8, <1>9
-----------------------------------------------------------------------------
\* A line that is written to a file nothing was said in.
LEMMA WrittenSound ==
  ASSUME HostsInv, ~trusted.crossed, NEW c \in Link, link[c].step = "checked", New(c),
         files' = Written(c), UNCHANGED <<system, inUse>>
  PROVE  /\ files'[inUse].entries = files[inUse].entries \union {[key |-> link[c].key, marker |-> "plain"]}
         /\ AddedOne(files'[inUse].entries, trusted.entered)
         /\ AcceptedKnown(files'[inUse].entries, trusted.keys \union {link[c].key})
<1> DEFINE held  == files[inUse].entries
           k    == link[c].key
           line == [key |-> k, marker |-> "plain"]
<1>1. link[c].file = inUse /\ link[c].read = held
  BY DEF HostsInv, UpToDate
<1>2. held \in SUBSET Entry /\ k \in Key /\ trusted.entered \in SUBSET Entry /\ trusted.keys \in SUBSET Key
  BY DEF HostsInv, HostsTypeOK
<1>3. files'[inUse].entries = held \union {line}
  BY <1>1 DEF HostsInv, HostsTypeOK, Written
<1>4. AddedOne(held, trusted.entered) /\ AcceptedKnown(held, trusted.keys)
  BY DEF HostsInv, InUseSound
<1>5. ~Found(held \union system) /\ ~Revoked(held, k)
  BY <1>1 DEF New, Known
<1>6. AddedOne(held \union {line}, trusted.entered)
  BY <1>2, <1>4, <1>5, AddsFirst DEF HostsInv, HostsTypeOK
<1>7. AcceptedKnown(held \union {line}, trusted.keys)
  BY <1>2, <1>4, PlainKeepsAccepted
<1>8. AcceptedKnown(held \union {line}, {k})
  <2>1. [key |-> k, marker |-> "revoked"] # line
    <3>1. line.marker = "plain"  OBVIOUS
    <3>2. [key |-> k, marker |-> "revoked"].marker = "revoked"  OBVIOUS
    <3> QED  BY <3>1, <3>2
  <2>2. ~Revoked(system, k)  BY DEF HostsInv, Unrevoked
  <2> QED  BY <1>5, <2>1, <2>2 DEF AcceptedKnown, Trusted, Revoked
<1>9. AcceptedKnown(held \union {line}, trusted.keys \union {k})
  BY <1>7, <1>8 DEF AcceptedKnown
<1> QED  BY <1>3, <1>6, <1>9

LEMMA DecideInv ==
  ASSUME HostsInv, NEW c \in Link, Decide(c)
  PROVE  HostsInv'
<1>1. link[c].step = "checked" /\ UNCHANGED <<system, inUse>>  BY DEF Decide
<1>2. CASE /\ ~Revoked(link[c].read, link[c].key) /\ Trusted(Known(c), link[c].key)
           /\ Accept(c) /\ UNCHANGED files
  <2>1. /\ flock' \in [File -> Link \union {Unlocked}]
        /\ link' \in [Link -> [step : Step, key : Key, file : File, read : SUBSET Entry]]
        /\ Locked' /\ Unrevoked' /\ (~trusted.crossed => UpToDate')
    BY <1>1, <1>2, EndsKeeps DEF HostsInv, HostsTypeOK, Accept
  <2>2. trusted' = [trusted EXCEPT !.keys = @ \union {link[c].key}]
    BY <1>2 DEF Accept
  <2>3. HostsTypeOK'
    BY <1>1, <1>2, <2>1, <2>2 DEF HostsInv, HostsTypeOK
  <2>4. ASSUME ~trusted.crossed PROVE InUseSound'
    <3>1. link[c].read = files[inUse].entries
      BY <1>1, <2>4 DEF HostsInv, UpToDate
    <3>2. ~Revoked(system, link[c].key)
      BY <1>1 DEF HostsInv, Unrevoked
    <3>3. AcceptedKnown(files[inUse].entries, trusted.keys \union {link[c].key})
      BY <1>2, <2>4, <3>1, <3>2 DEF HostsInv, InUseSound, AcceptedKnown, Trusted, Revoked, Known
    <3>4. trusted'.keys = trusted.keys \union {link[c].key} /\ trusted'.entered = trusted.entered
      BY <2>2 DEF HostsInv, HostsTypeOK
    <3>5. AddedOne(files[inUse].entries, trusted.entered)
      BY <2>4 DEF HostsInv, InUseSound
    <3> QED  BY <1>1, <1>2, <3>3, <3>4, <3>5
             DEF InUseSound, AddedOne, AcceptedKnown, Trusted, Revoked, Found
  <2>5. trusted'.crossed = trusted.crossed
    BY <2>2 DEF HostsInv, HostsTypeOK
  <2> QED  BY <2>1, <2>3, <2>4, <2>5 DEF HostsInv
<1>3. CASE Ends(c, "refused") /\ UNCHANGED <<files, trusted>>
  <2>1. /\ flock' \in [File -> Link \union {Unlocked}]
        /\ link' \in [Link -> [step : Step, key : Key, file : File, read : SUBSET Entry]]
        /\ Locked' /\ Unrevoked' /\ (~trusted.crossed => UpToDate')
    BY <1>1, <1>3, EndsKeeps DEF HostsInv, HostsTypeOK
  <2>2. HostsTypeOK'
    BY <1>1, <1>3, <2>1 DEF HostsInv, HostsTypeOK
  <2>3. InUseSound => InUseSound'
    BY <1>1, <1>3 DEF InUseSound, AddedOne, AcceptedKnown, Trusted, Revoked, Found
  <2> QED  BY <1>3, <2>1, <2>2, <2>3 DEF HostsInv
<1>4. CASE New(c) /\ files' = Written(c) /\ Accept(c)
  <2>1. files' \in [File -> [entries : SUBSET Entry, torn : BOOLEAN]]
    <3>1. [key |-> link[c].key, marker |-> "plain"] \in Entry
      BY DEF HostsInv, HostsTypeOK, Entry
    <3> QED  BY <1>4, <3>1 DEF HostsInv, HostsTypeOK, Written
  <2>2. /\ flock' \in [File -> Link \union {Unlocked}]
        /\ link' \in [Link -> [step : Step, key : Key, file : File, read : SUBSET Entry]]
        /\ Locked' /\ Unrevoked' /\ (~trusted.crossed => UpToDate')
    BY <1>1, <1>4, <2>1, EndsKeeps DEF Accept
  <2>3. trusted' = [trusted EXCEPT !.keys = @ \union {link[c].key}]
    BY <1>4 DEF Accept
  <2>4. HostsTypeOK'
    <3>1. trusted' \in [keys : SUBSET Key, entered : SUBSET Entry, edits : 0 .. MaxEdited, crossed : BOOLEAN]
      <4>1. /\ trusted \in [keys : SUBSET Key, entered : SUBSET Entry, edits : 0 .. MaxEdited, crossed : BOOLEAN]
            /\ link[c].key \in Key
        BY DEF HostsInv, HostsTypeOK
      <4> QED  BY <2>3, <4>1
    <3>2. system \subseteq Entry /\ inUse \in File
      BY DEF HostsInv, HostsTypeOK
    <3> QED  BY <1>1, <2>1, <2>2, <3>1, <3>2 DEF HostsTypeOK
  <2>5. /\ trusted'.keys = trusted.keys \union {link[c].key} /\ trusted'.entered = trusted.entered
        /\ trusted'.crossed = trusted.crossed
    BY <2>3 DEF HostsInv, HostsTypeOK
  <2>6. ASSUME ~trusted.crossed PROVE InUseSound'
    <3>1. /\ AddedOne(files'[inUse].entries, trusted.entered)
          /\ AcceptedKnown(files'[inUse].entries, trusted.keys \union {link[c].key})
      BY <1>1, <1>4, <2>6, WrittenSound
    <3> QED  BY <1>1, <2>5, <3>1 DEF InUseSound, AddedOne, AcceptedKnown, Trusted, Revoked, Found
  <2> QED  BY <2>2, <2>4, <2>5, <2>6 DEF HostsInv
<1> QED  BY <1>2, <1>3, <1>4 DEF Decide

LEMMA AppendFailsInv ==
  ASSUME HostsInv, NEW c \in Link, AppendFails(c)
  PROVE  HostsInv'
<1>1. /\ link[c].step = "checked" /\ New(c) /\ Ends(c, "refused")
      /\ UNCHANGED <<system, inUse, trusted>>
  BY DEF AppendFails
<1>2. files' \in [File -> [entries : SUBSET Entry, torn : BOOLEAN]]
  <2>1. [key |-> link[c].key, marker |-> "plain"] \in Entry
    BY DEF HostsInv, HostsTypeOK, Entry
  <2>2. Written(c) \in [File -> [entries : SUBSET Entry, torn : BOOLEAN]]
    BY <2>1 DEF HostsInv, HostsTypeOK, Written
  <2>3. [files EXCEPT ![link[c].file].torn = TRUE] \in [File -> [entries : SUBSET Entry, torn : BOOLEAN]]
    BY DEF HostsInv, HostsTypeOK
  <2> QED  BY <2>2, <2>3 DEF AppendFails
<1>3. /\ flock' \in [File -> Link \union {Unlocked}]
      /\ link' \in [Link -> [step : Step, key : Key, file : File, read : SUBSET Entry]]
      /\ Locked' /\ Unrevoked' /\ (~trusted.crossed => UpToDate')
  BY <1>1, <1>2, EndsKeeps
<1>4. HostsTypeOK'
  BY <1>1, <1>2, <1>3 DEF HostsInv, HostsTypeOK
<1>5. ASSUME ~trusted.crossed PROVE InUseSound'
  <2>1. CASE files' = [files EXCEPT ![link[c].file].torn = TRUE]
    <3>1. files'[inUse].entries = files[inUse].entries
      BY <2>1 DEF HostsInv, HostsTypeOK
    <3>2. InUseSound  BY <1>5 DEF HostsInv
    <3> QED  BY <1>1, <3>1, <3>2 DEF InUseSound, AddedOne, AcceptedKnown, Trusted, Revoked, Found
  <2>2. CASE files' = Written(c)
    <3>1. /\ AddedOne(files'[inUse].entries, trusted.entered)
          /\ AcceptedKnown(files'[inUse].entries, trusted.keys \union {link[c].key})
      BY <1>1, <1>5, <2>2, WrittenSound
    <3> QED  BY <1>1, <3>1 DEF InUseSound, AddedOne, AcceptedKnown, Trusted, Revoked, Found
  <2> QED  BY <2>1, <2>2 DEF AppendFails
<1> QED  BY <1>1, <1>3, <1>4, <1>5 DEF HostsInv

LEMMA LinkEndsInv ==
  ASSUME HostsInv, NEW c \in Link, LinkEnds(c)
  PROVE  HostsInv'
<1>1. HostsTypeOK'
  BY IdleType DEF HostsInv, HostsTypeOK, LinkEnds
<1>2. \A d \in Link : d # c => link'[d] = link[d]
  BY DEF HostsInv, HostsTypeOK, LinkEnds
<1>3. link'[c].step = "idle"
  BY DEF HostsInv, HostsTypeOK, LinkEnds, Idle
<1>4. Locked' /\ Unrevoked'
  BY <1>2, <1>3 DEF HostsInv, Locked, Unrevoked, LinkEnds, Revoked
<1>5. UpToDate => UpToDate'
  BY <1>2, <1>3 DEF UpToDate, LinkEnds
<1>6. InUseSound => InUseSound'
  BY DEF InUseSound, AddedOne, AcceptedKnown, LinkEnds, Trusted, Revoked, Found
<1> QED  BY <1>1, <1>4, <1>5, <1>6 DEF HostsInv, LinkEnds

LEMMA UserEditsInv ==
  ASSUME HostsInv, NEW entries \in Entered, UserEdits(entries)
  PROVE  HostsInv'
<1>1. entries \subseteq Entry  BY DEF Entered
<1>2. inUse' \in File /\ trusted.edits + 1 \in 0 .. MaxEdited
  BY KnownHostsAssumption DEF HostsInv, HostsTypeOK, UserEdits, File
<1>3. HostsTypeOK'
  <2>1. files' \in [File -> [entries : SUBSET Entry, torn : BOOLEAN]]
    BY <1>1, <1>2 DEF HostsInv, HostsTypeOK, UserEdits
  <2>2. trusted' \in [keys : SUBSET Key, entered : SUBSET Entry, edits : 0 .. MaxEdited, crossed : BOOLEAN]
    BY <1>1, <1>2 DEF UserEdits
  <2> QED  BY <1>2, <2>1, <2>2 DEF HostsInv, HostsTypeOK, UserEdits
<1>4. Locked' /\ Unrevoked'
  BY DEF HostsInv, Locked, Unrevoked, UserEdits, Revoked
<1>5. ASSUME ~trusted'.crossed PROVE UpToDate'
  BY <1>5 DEF UpToDate, UserEdits
<1>6. InUseSound'
  <2>1. files'[inUse'].entries = entries
    BY <1>2 DEF HostsInv, HostsTypeOK, UserEdits
  <2>2. trusted'.keys = {} /\ trusted'.entered = entries
    BY DEF UserEdits
  <2> QED  BY <2>1, <2>2 DEF InUseSound, AddedOne, AcceptedKnown
<1> QED  BY <1>3, <1>4, <1>5, <1>6 DEF HostsInv
-----------------------------------------------------------------------------
\* Every step of connections, users and failures keeps the invariant.
LEMMA HostsStep == HostsInv /\ [HostsNext]_hostVars => HostsInv'
<1> SUFFICES ASSUME HostsInv, [HostsNext]_hostVars PROVE HostsInv'  OBVIOUS
<1>1. ASSUME NEW c \in Link, NEW key \in Key, Present(c, key) PROVE HostsInv'
  BY <1>1, PresentInv
<1>2. ASSUME NEW c \in Link, OpenHosts(c) PROVE HostsInv'
  BY <1>2, OpenHostsInv
<1>3. ASSUME NEW c \in Link, LockAndRead(c) PROVE HostsInv'
  BY <1>3, LockAndReadInv
<1>4. ASSUME NEW c \in Link, Decide(c) PROVE HostsInv'
  BY <1>4, DecideInv
<1>5. ASSUME NEW c \in Link, AppendFails(c) PROVE HostsInv'
  BY <1>5, AppendFailsInv
<1>6. ASSUME NEW c \in Link, LinkEnds(c) PROVE HostsInv'
  BY <1>6, LinkEndsInv
<1>7. ASSUME NEW entries \in Entered, UserEdits(entries) PROVE HostsInv'
  BY <1>7, UserEditsInv
<1>8. CASE UNCHANGED hostVars
  BY <1>8 DEF hostVars, HostsInv, HostsTypeOK, Locked, Unrevoked, UpToDate, InUseSound, AddedOne,
              AcceptedKnown, Trusted, Revoked, Found
<1> QED  BY <1>1, <1>2, <1>3, <1>4, <1>5, <1>6, <1>7, <1>8 DEF HostsNext

\* The system's file, which nobody edits meanwhile, is not gone against, whatever crosses.
SystemHeeded == \A k \in trusted.keys : ~Revoked(system, k)

LEMMA SystemHeededStep == HostsInv /\ SystemHeeded /\ [HostsNext]_hostVars => SystemHeeded'
<1> SUFFICES ASSUME HostsInv, SystemHeeded, [HostsNext]_hostVars PROVE SystemHeeded'  OBVIOUS
<1>1. system' = system
  BY DEF HostsNext, hostVars, Present, OpenHosts, LockAndRead, Decide, AppendFails, LinkEnds, UserEdits
<1>2. ASSUME NEW c \in Link, Decide(c) PROVE SystemHeeded'
  <2>1. trusted' = trusted \/ Accept(c)
    BY <1>2 DEF Decide
  <2>2. link[c].step = "checked"
    BY <1>2 DEF Decide
  <2>3. ~Revoked(system, link[c].key)
    BY <2>2 DEF HostsInv, Unrevoked
  <2>4. trusted'.keys \subseteq trusted.keys \union {link[c].key}
    BY <2>1 DEF Accept, HostsInv, HostsTypeOK
  <2> QED  BY <1>1, <2>3, <2>4 DEF SystemHeeded, Revoked
<1>3. ASSUME NEW entries \in Entered, UserEdits(entries) PROVE SystemHeeded'
  BY <1>3 DEF UserEdits, SystemHeeded
<1>4. CASE UNCHANGED trusted
  BY <1>1, <1>4 DEF SystemHeeded, Revoked
<1> QED
  BY <1>2, <1>3, <1>4 DEF HostsNext, hostVars, Present, OpenHosts, LockAndRead, AppendFails, LinkEnds

\* The invariant says of the keys what OneHostKey promises.
LEMMA HostsInvImplies == HostsInv /\ SystemHeeded => OneHostKey
<1> SUFFICES ASSUME HostsInv, SystemHeeded, ~trusted.crossed PROVE OneHostKey
  BY DEF OneHostKey, SystemHeeded
<1> DEFINE held     == files[inUse].entries
           entered == trusted.entered
           line(k) == [key |-> k, marker |-> "plain"]
<1>1. AddedOne(held, entered) /\ AcceptedKnown(held, trusted.keys)
  BY DEF HostsInv, InUseSound
<1>2. ASSUME NEW k \in Learned PROVE line(k) \in held \ entered /\ line(k).key = k
  <2>1. k \in trusted.keys /\ k \notin {e.key : e \in system \union entered}
    BY <1>2 DEF Learned
  <2>2. line(k) \in held \union system
    BY <1>1, <2>1 DEF AcceptedKnown, Trusted
  <2>3. line(k).key = k  OBVIOUS
  <2>4. line(k) \notin system \union entered
    BY <2>1, <2>3
  <2> QED  BY <2>2, <2>3, <2>4
<1>3. \A a, b \in Learned : a = b
  <2> SUFFICES ASSUME NEW a \in Learned, NEW b \in Learned PROVE a = b  OBVIOUS
  <2>1. line(a).key = line(b).key
    BY <1>1, <1>2 DEF AddedOne
  <2> QED  BY <1>2, <2>1
<1>4. Learned # {} => ~Found(system \union entered)
  BY <1>1, <1>2 DEF AddedOne
<1>5. \A k \in trusted.keys : ~Revoked(held, k)
  BY <1>1 DEF AcceptedKnown, Revoked
<1> QED  BY <1>3, <1>4, <1>5 DEF OneHostKey, SystemHeeded

\* However many connections meet a server at once: between two edits of its entries they
\* learn one key of it, only of a server nothing was said of, and accept none the file
\* revokes, when no connection had the file open at the former edit; and none ever accepts
\* a key the system's file revokes (known_hosts.rs, verify).
THEOREM HostKeyLearnedOnce == HostsSpec => []OneHostKey
<1>1. HostsSpec => []HostsInv
  BY HostsInitInv, HostsStep, PTL DEF HostsSpec
<1>2. HostsInit => SystemHeeded
  BY DEF HostsInit, SystemHeeded
<1>3. HostsSpec => []SystemHeeded
  BY <1>1, <1>2, SystemHeededStep, PTL DEF HostsSpec
<1> QED  BY <1>1, <1>3, HostsInvImplies, PTL
-----------------------------------------------------------------------------
(* A login *)

KeySteps      == {"file", "agent", "identities", "signing", "verifying", "defaults"}
PasswordSteps == {"password", "challenge"}
LoginSteps    == {"handshake"} \union KeySteps \union PasswordSteps \union Ended

LoginTypes ==
  /\ choice \in LoginSettings
  /\ login \in [step : LoginSteps, left : SUBSET (AgentKey \union {"file"}), rounds : Nat, number : Nat,
                at : LoginSteps \union {"none"}]
  /\ watchdog \in [left : Nat, awaiting : BOOLEAN, unseen : BOOLEAN]

\* Each step is one that the settings lead to.
StepChosen ==
  /\ login.step \in KeySteps => choice.method = "key"
  /\ login.step \in PasswordSteps => choice.method = "password"
  /\ login.step = "file" => choice.file = "plain"
  /\ login.step = "defaults" => choice.fingerprint = "none"
  /\ \A k \in login.left : Selected(k)

\* A prompt that is open is known to the watchdog, or its next look at the approval is due.
PromptSeen == login.step = "signing" => watchdog.awaiting \/ watchdog.unseen

LoginInv == LoginTypes /\ StepChosen /\ PromptSeen /\ OnlyChosen /\ PromptKept

\* What the settings name.
Named == (IF choice.file = "none" THEN {} ELSE {"file"})
         \union (IF choice.fingerprint = "none" THEN {} ELSE {choice.fingerprint})
MayOffer(s) == IF choice.method = "password" THEN s = "password"
               ELSE s # "password" /\ (Named # {} => s \in Named)

LEMMA OnlyChosenNamed == OnlyChosen <=> \A s \in offered : MayOffer(s)
BY DEF OnlyChosen, MayOffer, Named

LEMMA LoginInitInv == AuthenticationInit => LoginInv
BY AuthenticationAssumption
   DEF AuthenticationInit, LoginInv, LoginTypes, StepChosen, PromptSeen, OnlyChosen, PromptKept, Fresh, LoginSteps,
       KeySteps, PasswordSteps, Ended

\* A step to another point of the login.
LEMMA GoesTo ==
  ASSUME NEW step \in LoginSteps, LoginTypes, Go(step)
  PROVE  /\ login'.step = step /\ login'.left = login.left /\ login'.at = login.at
         /\ login' \in [step : LoginSteps, left : SUBSET (AgentKey \union {"file"}), rounds : Nat, number : Nat,
                        at : LoginSteps \union {"none"}]
BY DEF Go, LoginTypes

\* Any step of a login that begins nothing the settings rule out, and asks for nothing new.
LEMMA GoesOn ==
  ASSUME NEW step \in LoginSteps, LoginInv, Go(step), choice' = choice, step \notin {"signing", "timedout"},
         watchdog' \in [left : Nat, awaiting : BOOLEAN, unseen : BOOLEAN],
         step \in KeySteps => choice.method = "key",
         step \in PasswordSteps => choice.method = "password",
         step = "file" => choice.file = "plain",
         step = "defaults" => choice.fingerprint = "none",
         \/ offered' = offered
         \/ \E s : MayOffer(s) /\ offered' = offered \union {s}
  PROVE  LoginInv'
<1>1. /\ login'.step = step /\ login'.left = login.left
      /\ login' \in [step : LoginSteps, left : SUBSET (AgentKey \union {"file"}), rounds : Nat, number : Nat,
                     at : LoginSteps \union {"none"}]
  BY GoesTo DEF LoginInv
<1>2. LoginTypes'
  BY <1>1 DEF LoginInv, LoginTypes
<1>3. StepChosen'
  BY <1>1 DEF LoginInv, StepChosen, Selected
<1>4. PromptSeen' /\ PromptKept'
  BY <1>1 DEF PromptSeen, PromptKept
<1>5. OnlyChosen'
  BY OnlyChosenNamed DEF LoginInv, OnlyChosen, MayOffer, Named
<1> QED
  BY <1>2, <1>3, <1>4, <1>5 DEF LoginInv

LEMMA HandshakeInv ==
  ASSUME LoginInv, Handshake
  PROVE  LoginInv'
<1>1. PICK step \in LoginSteps :
        step = IF choice.method = "password" THEN "password"
               ELSE CASE choice.file = "unreadable" -> "failed" [] choice.file = "plain" -> "file" [] OTHER -> "agent"
  BY DEF LoginSteps, KeySteps, PasswordSteps, Ended
<1>2. Go(step) /\ choice' = choice /\ offered' = offered /\ choice.method \in {"password", "key"}
  BY <1>1 DEF Handshake, LoginInv, LoginTypes, LoginSettings
<1>3. watchdog' \in [left : Nat, awaiting : BOOLEAN, unseen : BOOLEAN]
  BY AuthenticationAssumption DEF Handshake, Fresh
<1>4. \/ choice.method = "password" /\ step = "password"
      \/ choice.method = "key" /\ step = "failed"
      \/ choice.method = "key" /\ step = "file" /\ choice.file = "plain"
      \/ choice.method = "key" /\ step = "agent"
  BY <1>1, <1>2
<1>5. /\ step \in KeySteps => choice.method = "key"
      /\ step \in PasswordSteps => choice.method = "password"
      /\ step = "file" => choice.file = "plain"
      /\ step \notin {"signing", "timedout", "defaults"}
  BY <1>4 DEF KeySteps, PasswordSteps
<1> QED
  BY <1>2, <1>3, <1>5, GoesOn

LEMMA OffersInv ==
  ASSUME LoginInv, OfferFile \/ OfferPassword \/ TryDefaults
  PROVE  LoginInv'
<1>1. /\ choice' = choice /\ watchdog' \in [left : Nat, awaiting : BOOLEAN, unseen : BOOLEAN]
      /\ choice.method \in {"password", "key"}
  BY DEF LoginInv, LoginTypes, LoginSettings, OfferFile, OfferPassword, TryDefaults
<1>2. CASE OfferFile
  <2>1. PICK step \in {"in", "agent"} : Go(step)
    BY <1>2 DEF OfferFile
  <2>2. choice.method = "key" /\ choice.file = "plain" /\ offered' = offered \union {"file"}
    BY <1>2 DEF OfferFile, Offer, LoginInv, StepChosen, KeySteps
  <2>3. MayOffer("file")
    BY <2>2 DEF MayOffer, Named
  <2>4. step \in LoginSteps /\ step \notin PasswordSteps /\ step \notin {"signing", "timedout", "file", "defaults"}
    BY <2>1 DEF LoginSteps, KeySteps, PasswordSteps, Ended
  <2> QED  BY <1>1, <2>1, <2>2, <2>3, <2>4, GoesOn
<1>3. CASE OfferPassword
  <2>1. PICK step \in {"in", "challenge"} : Go(step)
    BY <1>3 DEF OfferPassword
  <2>2. choice.method = "password" /\ offered' = offered \union {"password"}
    BY <1>3 DEF OfferPassword, Offer, LoginInv, StepChosen, PasswordSteps
  <2>3. MayOffer("password")
    BY <2>2 DEF MayOffer
  <2>4. step \in LoginSteps /\ step \notin KeySteps /\ step \notin {"signing", "timedout", "file", "defaults"}
    BY <2>1 DEF LoginSteps, KeySteps, PasswordSteps, Ended
  <2> QED  BY <1>1, <2>1, <2>2, <2>3, <2>4, GoesOn
<1>4. CASE TryDefaults
  <2>1. PICK step \in {"in", "failed"} : Go(step)
    BY <1>4 DEF TryDefaults
  <2>2. choice.method = "key" /\ choice.fingerprint = "none"
    BY <1>4 DEF TryDefaults, LoginInv, StepChosen, KeySteps
  <2>3. \/ offered' = offered
        \/ choice.file = "none" /\ offered' = offered \union {"default"}
    <3>1. CASE choice.file = "none"
      BY <1>4, <3>1 DEF TryDefaults, Offer
    <3>2. CASE choice.file # "none"
      BY <1>4, <3>2 DEF TryDefaults
    <3> QED  BY <3>1, <3>2
  <2>4. choice.file = "none" => MayOffer("default")
    BY <2>2 DEF MayOffer, Named
  <2>5. step \in LoginSteps /\ step \notin KeySteps \union PasswordSteps
        /\ step \notin {"signing", "timedout", "file", "defaults"}
    BY <2>1 DEF LoginSteps, KeySteps, PasswordSteps, Ended
  <2> QED  BY <1>1, <2>1, <2>2, <2>3, <2>4, <2>5, GoesOn
<1> QED
  BY <1>2, <1>3, <1>4

\* The agent is reached, or not; its keys are those the settings allow.
LEMMA ReachAgentInv ==
  ASSUME LoginInv, ReachAgent
  PROVE  LoginInv'
<1>1. /\ UNCHANGED <<choice, watchdog, offered>> /\ LoginTypes
      /\ watchdog' \in [left : Nat, awaiting : BOOLEAN, unseen : BOOLEAN] /\ choice.method = "key"
  BY DEF ReachAgent, LoginInv, LoginTypes, StepChosen, KeySteps
<1>2. ASSUME NEW step \in {"unavailable", "failed", "defaults"}, Go(step), step = "defaults" => choice.fingerprint = "none"
      PROVE  LoginInv'
  <2>1. step \in LoginSteps /\ step \notin PasswordSteps /\ step \notin {"signing", "timedout", "file"}
    BY <1>2 DEF LoginSteps, KeySteps, PasswordSteps, Ended
  <2> QED  BY <1>1, <1>2, <2>1, GoesOn
<1>3. ASSUME NEW held \in SUBSET (AgentKey \union {"file"}),
             login' = [login EXCEPT !.step = "identities", !.left = {k \in held : Selected(k)}]
      PROVE  LoginInv'
  <2>1. /\ login'.step = "identities" /\ login'.left = {k \in held : Selected(k)}
        /\ login' \in [step : LoginSteps, left : SUBSET (AgentKey \union {"file"}), rounds : Nat, number : Nat,
                       at : LoginSteps \union {"none"}]
    BY <1>1, <1>3 DEF LoginTypes, LoginSteps, KeySteps
  <2>2. StepChosen'
    BY <1>1, <2>1 DEF StepChosen, Selected, KeySteps, PasswordSteps
  <2>3. PromptSeen' /\ PromptKept' /\ OnlyChosen'
    BY <1>1, <2>1 DEF LoginInv, PromptSeen, PromptKept, OnlyChosen
  <2> QED  BY <1>1, <2>1, <2>2, <2>3 DEF LoginInv, LoginTypes
<1> QED
  BY <1>2, <1>3 DEF ReachAgent

LEMMA OfferIdentityInv ==
  ASSUME NEW k \in AgentKey \union {"file"}, LoginInv, OfferIdentity(k)
  PROVE  LoginInv'
<1>1. /\ LoginTypes /\ StepChosen /\ choice' = choice /\ offered' = offered \union {k}
      /\ choice.method = "key" /\ Selected(k)
  BY DEF OfferIdentity, Offer, LoginInv, StepChosen, KeySteps
<1>2. MayOffer(k)
  <2>1. k # "password" /\ choice.fingerprint \in AgentKey \union {"none", "file"}
    BY <1>1, AuthenticationAssumption DEF LoginTypes, LoginSettings
  <2> QED  BY <1>1, <2>1 DEF MayOffer, Named, Selected
<1>3. OnlyChosen'
  BY <1>1, <1>2, OnlyChosenNamed DEF LoginInv, OnlyChosen, MayOffer, Named
<1>4. CASE k \in remote
  <2>1. /\ login' = [login EXCEPT !.step = "signing", !.left = @ \ {k}]
        /\ watchdog' = [watchdog EXCEPT !.unseen = TRUE]
    BY <1>4 DEF OfferIdentity
  <2>2. "signing" \in LoginSteps
    BY DEF LoginSteps, KeySteps
  <2>3. /\ login'.step = "signing" /\ login'.left \subseteq login.left
        /\ login' \in [step : LoginSteps, left : SUBSET (AgentKey \union {"file"}), rounds : Nat, number : Nat,
                       at : LoginSteps \union {"none"}]
    BY <1>1, <2>1, <2>2 DEF LoginTypes
  <2>4. watchdog' \in [left : Nat, awaiting : BOOLEAN, unseen : BOOLEAN] /\ watchdog'.unseen
    BY <1>1, <2>1 DEF LoginTypes
  <2>5. StepChosen' /\ PromptSeen' /\ PromptKept'
    BY <1>1, <2>3, <2>4 DEF StepChosen, PromptSeen, PromptKept, Selected, PasswordSteps
  <2> QED  BY <1>1, <1>3, <2>3, <2>4, <2>5 DEF LoginInv, LoginTypes
<1>5. CASE k \notin remote
  <2>1. watchdog' = watchdog
    BY <1>5 DEF OfferIdentity
  <2>2. /\ login'.step \in {"failed", "identities"} /\ login'.left \subseteq login.left
        /\ login' \in [step : LoginSteps, left : SUBSET (AgentKey \union {"file"}), rounds : Nat, number : Nat,
                       at : LoginSteps \union {"none"}]
    <3>1. CASE choice.fingerprint # "none"
      BY <1>1, <1>5, <3>1, GoesTo DEF OfferIdentity, LoginSteps, Ended
    <3>2. CASE choice.fingerprint = "none"
      <4>1. login' = [login EXCEPT !.left = @ \ {k}] /\ login.step = "identities"
        BY <1>5, <3>2 DEF OfferIdentity
      <4> QED  BY <1>1, <4>1 DEF LoginTypes
    <3> QED  BY <3>1, <3>2
  <2>3. StepChosen' /\ PromptSeen' /\ PromptKept'
    BY <1>1, <2>2 DEF StepChosen, PromptSeen, PromptKept, Selected, PasswordSteps, KeySteps
  <2> QED  BY <1>1, <1>3, <2>1, <2>2, <2>3 DEF LoginInv, LoginTypes
<1> QED
  BY <1>4, <1>5

LEMMA FurtherInv ==
  ASSUME LoginInv, NoneLeft \/ Verified \/ Challenge \/ ConnectionDrops \/ \E approved \in BOOLEAN : Sign(approved)
  PROVE  LoginInv'
<1>1. /\ UNCHANGED <<choice, offered>> /\ LoginTypes /\ StepChosen
  BY DEF LoginInv, NoneLeft, Verified, Challenge, ConnectionDrops, Sign
<1>2. watchdog' \in [left : Nat, awaiting : BOOLEAN, unseen : BOOLEAN]
  <2>1. watchdog \in [left : Nat, awaiting : BOOLEAN, unseen : BOOLEAN]
    BY <1>1 DEF LoginTypes
  <2>2. watchdog' = watchdog \/ watchdog' = [watchdog EXCEPT !.unseen = TRUE]
    BY DEF NoneLeft, Verified, Challenge, ConnectionDrops, Sign
  <2> QED  BY <2>1, <2>2
<1>3. CASE NoneLeft \/ Verified \/ ConnectionDrops \/ \E approved \in BOOLEAN : Sign(approved)
  <2>1. PICK step \in {"unavailable", "defaults", "in", "lost", "verifying", "failed", "identities"} :
          /\ Go(step)
          /\ step \in {"defaults", "verifying", "identities"} => choice.method = "key"
          /\ step = "defaults" => choice.fingerprint = "none"
    BY <1>1, <1>3 DEF NoneLeft, Verified, ConnectionDrops, Sign, StepChosen, KeySteps
  <2>2. /\ step \in LoginSteps /\ step \notin PasswordSteps /\ step \notin {"signing", "timedout", "file"}
        /\ step \in KeySteps => choice.method = "key"
    BY <2>1 DEF LoginSteps, KeySteps, PasswordSteps, Ended
  <2> QED  BY <1>1, <1>2, <2>1, <2>2, GoesOn
<1>4. CASE Challenge /\ ~UNCHANGED login.step
  <2>1. PICK step \in {"in", "failed"} : Go(step)
    <3>1. login.step = "challenge"
      BY <1>4 DEF Challenge
    <3>2. login' = [login EXCEPT !.rounds = @ + 1] => login'.step = login.step
      BY <1>1 DEF LoginTypes
    <3> QED  BY <1>4, <3>2 DEF Challenge
  <2>2. step \in LoginSteps /\ step \notin PasswordSteps \union KeySteps
        /\ step \notin {"signing", "timedout", "file", "defaults"}
    BY <2>1 DEF LoginSteps, KeySteps, PasswordSteps, Ended
  <2> QED  BY <1>1, <1>2, <2>1, <2>2, GoesOn
<1>5. CASE Challenge /\ UNCHANGED login.step
  <2>1. login' = [login EXCEPT !.rounds = @ + 1] /\ login.step = "challenge" /\ watchdog' = watchdog
    <3>1. Go("in") \/ Go("failed") => login'.step \in {"in", "failed"}
      BY <1>1 DEF Go, LoginTypes
    <3> QED  BY <1>5, <3>1 DEF Challenge
  <2>2. /\ login'.step = login.step /\ login'.left = login.left
        /\ login' \in [step : LoginSteps, left : SUBSET (AgentKey \union {"file"}), rounds : Nat, number : Nat,
                       at : LoginSteps \union {"none"}]
    BY <1>1, <2>1 DEF LoginTypes
  <2>3. StepChosen' /\ PromptSeen' /\ PromptKept' /\ OnlyChosen'
    BY <1>1, <2>1, <2>2 DEF LoginInv, StepChosen, PromptSeen, PromptKept, OnlyChosen, Selected
  <2> QED  BY <1>1, <2>1, <2>2, <2>3 DEF LoginInv, LoginTypes
<1> QED
  BY <1>3, <1>4, <1>5

\* The watchdog of the connection, and attempts after this one.
LEMMA WatchdogInv ==
  ASSUME LoginInv, PatienceRuns \/ Notice \/ Deadline \/ RequestOver \/ TryAgain
  PROVE  LoginInv'
<1>1. /\ UNCHANGED <<choice, offered>> /\ LoginTypes /\ StepChosen /\ PromptSeen
      /\ login \in [step : LoginSteps, left : SUBSET (AgentKey \union {"file"}), rounds : Nat, number : Nat,
                    at : LoginSteps \union {"none"}]
      /\ watchdog \in [left : Nat, awaiting : BOOLEAN, unseen : BOOLEAN]
  BY DEF LoginInv, LoginTypes, PatienceRuns, Notice, Deadline, RequestOver, TryAgain
<1>2. OnlyChosen'
  BY <1>1 DEF LoginInv, OnlyChosen
<1>3. CASE PatienceRuns
  <2>1. login' = login /\ watchdog.left > 0 /\ watchdog' = [watchdog EXCEPT !.left = @ - 1]
    BY <1>3 DEF PatienceRuns
  <2>2. watchdog.left - 1 \in Nat
    BY <1>1, <2>1
  <2>3. watchdog' = [left |-> watchdog.left - 1, awaiting |-> watchdog.awaiting, unseen |-> watchdog.unseen]
    BY <1>1, <2>1, Zenon
  <2>4. /\ watchdog' \in [left : Nat, awaiting : BOOLEAN, unseen : BOOLEAN]
        /\ (watchdog'.awaiting <=> watchdog.awaiting) /\ (watchdog'.unseen <=> watchdog.unseen)
    BY <1>1, <2>2, <2>3
  <2> QED  BY <1>1, <1>2, <2>1, <2>4 DEF LoginInv, LoginTypes, StepChosen, PromptSeen, PromptKept, Selected
<1>4. CASE Notice
  <2>1. login' = login /\ watchdog' = [left |-> Patience, awaiting |-> login.step = "signing", unseen |-> FALSE]
    BY <1>4 DEF Notice
  <2>2. /\ watchdog' \in [left : Nat, awaiting : BOOLEAN, unseen : BOOLEAN]
        /\ watchdog'.awaiting <=> login.step = "signing"
    BY <2>1, AuthenticationAssumption
  <2> QED  BY <1>1, <1>2, <2>1, <2>2 DEF LoginInv, LoginTypes, StepChosen, PromptSeen, PromptKept, Selected
<1>5. CASE Deadline \/ RequestOver
  <2>1. PICK step \in {"timedout", "over"} : TimeOut(step) /\ (step = "timedout" => ~watchdog.awaiting /\ ~watchdog.unseen)
    BY <1>5 DEF Deadline, RequestOver
  <2>2. login' = [login EXCEPT !.step = step, !.at = login.step] /\ watchdog' = watchdog
    BY <1>5, <2>1 DEF TimeOut, Deadline, RequestOver
  <2>3. /\ login'.step = step /\ login'.left = login.left /\ login'.at = login.step
        /\ login' \in [step : LoginSteps, left : SUBSET (AgentKey \union {"file"}), rounds : Nat, number : Nat,
                       at : LoginSteps \union {"none"}]
    BY <1>1, <2>1, <2>2 DEF LoginSteps, Ended
  <2>4. StepChosen' /\ PromptSeen' /\ PromptKept'
    BY <1>1, <2>1, <2>3 DEF StepChosen, PromptSeen, PromptKept, Selected, KeySteps, PasswordSteps
  <2> QED  BY <1>1, <1>2, <2>2, <2>3, <2>4 DEF LoginInv, LoginTypes
<1>6. CASE TryAgain
  <2>1. /\ login' = [login EXCEPT !.step = "handshake", !.left = {}, !.rounds = 0, !.number = @ + 1, !.at = "none"]
        /\ watchdog' = Fresh
    BY <1>6 DEF TryAgain
  <2>2. login' = [step |-> "handshake", left |-> {}, rounds |-> 0, number |-> login.number + 1, at |-> "none"]
    BY <1>1, <2>1, Zenon
  <2>3. login.number + 1 \in Nat /\ "handshake" \in LoginSteps
    BY <1>1 DEF LoginSteps
  <2>4. /\ login'.step = "handshake" /\ login'.left = {}
        /\ login' \in [step : LoginSteps, left : SUBSET (AgentKey \union {"file"}), rounds : Nat, number : Nat,
                       at : LoginSteps \union {"none"}]
    BY <2>2, <2>3
  <2>5. StepChosen' /\ PromptSeen' /\ PromptKept'
    BY <2>4 DEF StepChosen, PromptSeen, PromptKept, KeySteps, PasswordSteps
  <2>6. watchdog' \in [left : Nat, awaiting : BOOLEAN, unseen : BOOLEAN]
    BY <2>1, AuthenticationAssumption DEF Fresh
  <2> QED  BY <1>1, <1>2, <2>4, <2>5, <2>6 DEF LoginInv, LoginTypes
<1> QED
  BY <1>3, <1>4, <1>5, <1>6

LEMMA LoginNextInv == LoginInv /\ [AuthenticationNext]_loginVars => LoginInv'
<1> SUFFICES ASSUME LoginInv, [AuthenticationNext]_loginVars
             PROVE  LoginInv'
  OBVIOUS
<1>1. CASE UNCHANGED loginVars
  BY <1>1 DEF loginVars, LoginInv, LoginTypes, StepChosen, PromptSeen, OnlyChosen, PromptKept, Selected
<1>2. CASE AuthenticationNext
  BY <1>2, HandshakeInv, OffersInv, ReachAgentInv, OfferIdentityInv, FurtherInv, WatchdogInv DEF AuthenticationNext
<1> QED
  BY <1>1, <1>2

\* Whatever fails, drops, is timed out or tried again, for any keys the agent holds: only
\* what the settings name is offered, and no integration is timed out while the user is
\* asked for approval (ssh/auth.rs).
THEOREM LoginIsSound == AuthenticationSpec => []LoginSound
<1>1. AuthenticationSpec => []LoginInv
  BY LoginInitInv, LoginNextInv, PTL DEF AuthenticationSpec
<1>2. LoginInv => LoginSound
  BY DEF LoginInv, LoginSound
<1> QED
  BY <1>1, <1>2, PTL
=============================================================================

-------------------------- MODULE GitSessionProofs --------------------------
(***************************************************************************)
(* Proofs about GitSession: a lane keeps no part of an answer that was cut *)
(* short, a caller is told of a write what the agent may have seen of it,  *)
(* and who loses a session under a request.                                *)
(*                                                                         *)
(* The invariant ties three kinds of state to the progress of the calls:   *)
(* the mutexes hold the calls that wait for them and nobody else, the      *)
(* access lock those on a lane, and a session that is closed has no        *)
(* streams.  Every step is a call that leaves, a call that goes on along   *)
(* its lane, or one of the few that enter, connect or close.               *)
(***************************************************************************)
EXTENDS GitSession, TLAPS, SequenceTheorems

\* Where a call is: before it has a session, with one, or on its lane.
Dialling == {"queue", "dial", "insert"}
OnLane   == {"lane", "init", "send", "sent", "settle"}
Attached == {"subscribe", "access"} \union OnLane
CallSteps == {"idle", "revision", "look", "done"} \union Dialling \union Attached

Kinds   == (UNION {KindsOf[q] : q \in Requests}) \union {Nothing}
Results == {"retry", "stale", "cancelled", "ok", "unknown", "unsupported", "channel", Nothing}
Calls   == [pc : CallSteps, kind : Kinds, rev : Nat, slot : Slots \union {Nothing},
            fate : {"unsent", "sent", "answered"}, result : Results]
SlotStates == [open : BOOLEAN, link : BOOLEAN, rev : Nat, stream : [Lanes -> {"none", "clean", "dirty", "foreign"}]]

SessionTypes ==
  /\ config \in [rev : Nat, present : BOOLEAN]
  /\ entry \in Slots \union {Nothing}
  /\ session \in [Slots -> SlotStates]
  /\ access \in [Slots -> [holders : SUBSET Requests, queue : Seq(Requests)]]
  /\ lane \in [Slots -> [Lanes -> Seq(Requests \union {"ping"})]]
  /\ connecting \in Seq(Requests)
  /\ req \in [Requests -> Calls]
  /\ read \in [Requests -> {"none", "claimed", "cancelled"}]

Waiters(mutex) == {mutex[i] : i \in DOMAIN mutex}
Once(mutex) == \A i, j \in DOMAIN mutex : mutex[i] = mutex[j] => i = j

\* A call has a session exactly while it uses one.
SlotsUsed == \A q \in Requests : SlotOf(q) \in Slots <=> Pc(q) \in Attached

\* One caller dials at a time, and nobody else enters a session meanwhile.
DialsInTurn ==
  /\ Once(connecting)
  /\ \A q \in Requests :
       /\ q \in Waiters(connecting) <=> Pc(q) \in Dialling
       /\ Pc(q) \in {"dial", "insert"} => Holds(q, connecting) /\ entry = Nothing

\* The calls of a lane wait for it, and one that does more than wait has it.
LanesInTurn ==
  /\ \A s \in Slots, l \in Lanes :
       /\ Once(lane[s][l])
       /\ \A q \in Requests :
            q \in Waiters(lane[s][l]) <=> Pc(q) \in OnLane /\ SlotOf(q) = s /\ LaneOf(req[q].kind) = l
  /\ \A q \in Requests :
       Pc(q) \in OnLane \ {"lane"} => Holds(q, lane[SlotOf(q)][LaneOf(req[q].kind)])

\* Who has access is on a lane, and a write has it alone.
AccessAlone ==
  \A s \in Slots :
    /\ access[s].holders = {q \in Requests : Pc(q) \in OnLane /\ SlotOf(q) = s}
    /\ \A p, q \in access[s].holders : Mutation(req[p].kind) => p = q

\* A session that is closed has no streams; an open one is of its calls' revision.
SessionsAgree ==
  /\ \A s \in Slots, l \in Lanes : ~session[s].open => session[s].stream[l] = "none"
  /\ \A q \in Requests : SlotOf(q) \in Slots /\ session[SlotOf(q)].open => session[SlotOf(q)].rev = req[q].rev

\* What a result may say of the fate of a write.
Told(result, fate) == /\ result = "unknown" => fate # "unsent"
                      /\ fate # "unsent" => result \in {"ok", "unknown", "unsupported"}

\* What is known of a request before its call returns.
FateKnown ==
  \A q \in Requests :
    /\ Pc(q) \notin {"sent", "settle", "done"} => req[q].fate = "unsent"
    /\ Pc(q) = "sent" => req[q].fate = "sent"
    /\ Pc(q) = "settle" => /\ req[q].fate # "unsent"
                           /\ req[q].result = "ok" => req[q].fate = "answered"
                           /\ req[q].kind = "write" => req[q].result \in {"ok", "unknown", "unsupported"}

\* Only reads are registered, and only while they are under way.
ReadsRegistered == \A q \in Requests : read[q] # "none" => req[q].kind # "write" /\ Pc(q) \notin {"idle", "done"}

SessionInv ==
  /\ SessionTypes /\ SlotsUsed /\ DialsInTurn /\ LanesInTurn /\ AccessAlone
  /\ SessionsAgree /\ FateKnown /\ ReadsRegistered /\ StreamsClean /\ HonestFate

-----------------------------------------------------------------------------
(* The fair mutexes.                                                        *)

\* Giving up a place takes exactly one waiter out, and moves nobody past the head.
LEMMA Dropped ==
  ASSUME NEW S, NEW m \in Seq(S), NEW q, Once(m)
  PROVE  /\ Drop(q, m) \in Seq(S)
         /\ Once(Drop(q, m))
         /\ Waiters(Drop(q, m)) = Waiters(m) \ {q}
         /\ \A p : p # q /\ Holds(p, m) => Holds(p, Drop(q, m))
<1>1. CASE ~ \E i \in DOMAIN m : m[i] = q
  BY <1>1 DEF Drop, Waiters
<1>2. CASE \E i \in DOMAIN m : m[i] = q
  <2> DEFINE k == PlaceOf(q, m)
             d == [i \in 1..Len(m) - 1 |-> m[IF i < k THEN i ELSE i + 1]]
  <2>1. k \in DOMAIN m /\ m[k] = q
    BY <1>2 DEF PlaceOf
  <2>2. Drop(q, m) = d
    BY <1>2 DEF Drop
  <2> HIDE DEF k
  <2>3. Len(m) \in Nat /\ DOMAIN m = 1..Len(m) /\ k \in 1..Len(m) /\ \A i \in 1..Len(m) : m[i] \in S
    BY <2>1
  <2>4. d \in Seq(S) /\ Len(d) = Len(m) - 1 /\ DOMAIN d = 1..Len(m) - 1
    <3>1. \A i \in 1..Len(m) - 1 : m[IF i < k THEN i ELSE i + 1] \in S
      BY <2>3
    <3>2. Len(m) - 1 \in Nat
      BY <2>3
    <3> QED BY <3>1, <3>2
  <2>5. \A i \in 1..Len(m) - 1 : d[i] = m[IF i < k THEN i ELSE i + 1]
    OBVIOUS
  <2> HIDE DEF d
  <2>6. Once(d)
    <3> SUFFICES ASSUME NEW i \in DOMAIN d, NEW j \in DOMAIN d, d[i] = d[j] PROVE i = j
      BY DEF Once
    <3>1. (IF i < k THEN i ELSE i + 1) = (IF j < k THEN j ELSE j + 1)
      BY <2>3, <2>4, <2>5 DEF Once
    <3> QED BY <3>1, <2>3, <2>4
  <2>7. Waiters(d) = Waiters(m) \ {q}
    <3>1. ASSUME NEW p \in Waiters(d) PROVE p \in Waiters(m) /\ p # q
      <4>1. PICK i \in DOMAIN d : d[i] = p
        BY <3>1 DEF Waiters
      <4>2. (IF i < k THEN i ELSE i + 1) \in DOMAIN m /\ (IF i < k THEN i ELSE i + 1) # k
        BY <2>3, <2>4
      <4> QED BY <4>1, <4>2, <2>1, <2>4, <2>5 DEF Waiters, Once
    <3>2. ASSUME NEW p \in Waiters(m), p # q PROVE p \in Waiters(d)
      <4>1. PICK i \in DOMAIN m : m[i] = p
        BY <3>2 DEF Waiters
      <4>2. i # k
        BY <4>1, <3>2, <2>1
      <4>3. CASE i < k
        <5>1. i \in DOMAIN d /\ d[i] = p
          BY <4>1, <4>3, <2>3, <2>4, <2>5
        <5> QED BY <5>1 DEF Waiters
      <4>4. CASE i > k
        <5>1. i - 1 \in DOMAIN d /\ d[i - 1] = p
          BY <4>1, <4>4, <2>3, <2>4, <2>5
        <5> QED BY <5>1 DEF Waiters
      <4> QED BY <4>2, <4>3, <4>4, <2>3
    <3> QED BY <3>1, <3>2
  <2>8. ASSUME NEW p, p # q, Holds(p, m) PROVE Holds(p, d)
    <3>1. m # <<>> /\ m[1] = p
      BY <2>8 DEF Holds
    <3>2. 1 < k /\ Len(m) > 1
      BY <3>1, <2>8, <2>1, <2>3
    <3>3. d[1] = p /\ d # <<>>
      BY <3>1, <3>2, <2>3, <2>4, <2>5
    <3> QED BY <3>3, <2>4 DEF Holds
  <2> QED BY <2>2, <2>4, <2>6, <2>7, <2>8
<1> QED BY <1>1, <1>2

\* The access queue: whatever it holds, a waiter that gives up leaves a queue.
LEMMA DroppedType ==
  ASSUME NEW S, NEW m \in Seq(S), NEW q
  PROVE  Drop(q, m) \in Seq(S)
<1>1. CASE ~ \E i \in DOMAIN m : m[i] = q
  BY <1>1 DEF Drop
<1>2. CASE \E i \in DOMAIN m : m[i] = q
  <2>1. PlaceOf(q, m) \in 1..Len(m) /\ Len(m) \in Nat /\ \A i \in 1..Len(m) : m[i] \in S
    BY <1>2 DEF PlaceOf
  <2>2. \A i \in 1..Len(m) - 1 : m[IF i < PlaceOf(q, m) THEN i ELSE i + 1] \in S
    BY <2>1
  <2>3. Len(m) - 1 \in Nat
    BY <2>1
  <2>4. Drop(q, m) = [i \in 1..Len(m) - 1 |-> m[IF i < PlaceOf(q, m) THEN i ELSE i + 1]]
    BY <1>2 DEF Drop
  <2> QED BY <2>2, <2>3, <2>4
<1> QED BY <1>1, <1>2

\* Queueing adds one waiter at the end.
LEMMA Queued ==
  ASSUME NEW S, NEW m \in Seq(S), NEW q \in S, Once(m), q \notin Waiters(m)
  PROVE  /\ Append(m, q) \in Seq(S)
         /\ Once(Append(m, q))
         /\ Waiters(Append(m, q)) = Waiters(m) \union {q}
         /\ \A p : Holds(p, m) => Holds(p, Append(m, q))
<1> DEFINE a == Append(m, q)
<1>1. /\ a \in Seq(S) /\ Len(m) \in Nat /\ DOMAIN m = 1..Len(m) /\ DOMAIN a = 1..Len(m) + 1
      /\ a[Len(m) + 1] = q /\ \A i \in 1..Len(m) : a[i] = m[i]
  OBVIOUS
<1> HIDE DEF a
<1>2. Once(a)
  BY <1>1 DEF Once, Waiters
<1>3. Waiters(a) = Waiters(m) \union {q}
  <2>1. ASSUME NEW p \in Waiters(a) PROVE p \in Waiters(m) \union {q}
    BY <2>1, <1>1 DEF Waiters
  <2>2. ASSUME NEW p \in Waiters(m) PROVE p \in Waiters(a)
    <3>1. PICK i \in DOMAIN m : m[i] = p
      BY DEF Waiters
    <3>2. i \in DOMAIN a /\ a[i] = p
      BY <3>1, <1>1
    <3> QED BY <3>2 DEF Waiters
  <2>3. q \in Waiters(a)
    <3>1. Len(m) + 1 \in DOMAIN a
      BY <1>1
    <3> QED BY <3>1, <1>1 DEF Waiters
  <2> QED BY <2>1, <2>2, <2>3
<1>4. ASSUME NEW p, Holds(p, m) PROVE Holds(p, a)
  <2>1. m # <<>> /\ m[1] = p
    BY <1>4 DEF Holds
  <2>2. a # <<>> /\ a[1] = p
    BY <2>1, <1>1
  <2> QED BY <2>2, <1>1 DEF Holds
<1> QED BY <1>1, <1>2, <1>3, <1>4 DEF a

\* The holder of a mutex, once it lets it go, is no longer in it.
LEMMA Released ==
  ASSUME NEW S, NEW m \in Seq(S), NEW q, Once(m), Holds(q, m)
  PROVE  /\ Tail(m) \in Seq(S)
         /\ Once(Tail(m))
         /\ Waiters(Tail(m)) = Waiters(m) \ {q}
<1> DEFINE t == Tail(m)
<1>1. /\ m # <<>> /\ m[1] = q
  BY DEF Holds
<1>2. /\ t \in Seq(S) /\ Len(m) \in Nat \ {0} /\ DOMAIN m = 1..Len(m) /\ DOMAIN t = 1..Len(m) - 1
      /\ \A i \in 1..Len(m) - 1 : t[i] = m[i + 1]
  BY <1>1
<1> HIDE DEF t
<1>3. Once(t)
  <2> SUFFICES ASSUME NEW i \in DOMAIN t, NEW j \in DOMAIN t, t[i] = t[j] PROVE i = j
    BY DEF Once
  <2>1. i + 1 \in DOMAIN m /\ j + 1 \in DOMAIN m /\ m[i + 1] = m[j + 1]
    BY <1>2
  <2> QED BY <2>1, <1>2 DEF Once
<1>4. Waiters(t) = Waiters(m) \ {q}
  <2>1. ASSUME NEW p \in Waiters(t) PROVE p \in Waiters(m) /\ p # q
    <3>1. PICK i \in DOMAIN t : t[i] = p
      BY DEF Waiters
    <3>2. i + 1 \in DOMAIN m /\ m[i + 1] = p /\ i + 1 # 1 /\ 1 \in DOMAIN m
      BY <3>1, <1>2
    <3> QED BY <3>2, <1>1 DEF Waiters, Once
  <2>2. ASSUME NEW p \in Waiters(m), p # q PROVE p \in Waiters(t)
    <3>1. PICK i \in DOMAIN m : m[i] = p
      BY DEF Waiters
    <3>2. i # 1
      BY <3>1, <2>2, <1>1
    <3>3. i - 1 \in DOMAIN t /\ t[i - 1] = p
      BY <3>1, <3>2, <1>2
    <3> QED BY <3>3 DEF Waiters
  <2> QED BY <2>1, <2>2
<1> QED BY <1>2, <1>3, <1>4 DEF t

-----------------------------------------------------------------------------
(* What a step may do to the sessions: nothing, close one, set one stream.   *)

LEMMA LaneIsLane == \A kind : LaneOf(kind) \in Lanes
  BY DEF LaneOf, Lanes

\* No session opens, and one that is closed has no streams.
Narrows ==
  /\ session' \in [Slots -> SlotStates]
  /\ \A s \in Slots : session'[s].open => session[s].open /\ session'[s].rev = session[s].rev
  /\ \A s \in Slots, l \in Lanes : ~session'[s].open => session'[s].stream[l] = "none"

LEMMA KeptNarrows ==
  ASSUME SessionTypes, SessionsAgree, UNCHANGED session
  PROVE  Narrows /\ \A s \in Slots, l \in Lanes : session'[s].stream[l] = session[s].stream[l]
  BY DEF SessionTypes, SessionsAgree, Narrows

LEMMA ClosedIsState == Closed \in SlotStates
  BY DEF Closed, SlotStates

LEMMA ShutNarrows ==
  ASSUME NEW t \in Slots, SessionTypes, SessionsAgree, Shut(t)
  PROVE  /\ Narrows
         /\ ~session'[t].open
         /\ \A s \in Slots : s # t => session'[s] = session[s]
         /\ \A s \in Slots, l \in Lanes : session'[s].stream[l] = "dirty" => s # t /\ session[s].stream[l] = "dirty"
<1>1. session \in [Slots -> SlotStates]
  BY DEF SessionTypes
<1>2. session' \in [Slots -> SlotStates] /\ session'[t] = Closed /\ \A s \in Slots : s # t => session'[s] = session[s]
  BY <1>1, ClosedIsState DEF Shut
<1>3. ~Closed.open /\ \A l \in Lanes : Closed.stream[l] = "none"
  BY DEF Closed
<1> QED BY <1>2, <1>3 DEF Narrows, SessionsAgree

LEMMA StreamNarrows ==
  ASSUME NEW t \in Slots, NEW k \in Lanes, NEW to \in {"none", "clean", "dirty", "foreign"},
         SessionTypes, SessionsAgree, SetStream(t, k, to)
  PROVE  /\ Narrows
         /\ \A s \in Slots : session'[s].open = session[s].open
         /\ \A s \in Slots, l \in Lanes : s # t \/ l # k => session'[s].stream[l] = session[s].stream[l]
         /\ session'[t].stream[k] \in {"none", to}
<1>1. session \in [Slots -> SlotStates]
  BY DEF SessionTypes
<1>2. session[t] \in SlotStates
  BY <1>1
<1>3. session[t].stream \in [Lanes -> {"none", "clean", "dirty", "foreign"}]
  BY <1>2 DEF SlotStates
<1>4. PICK now \in {"none", "clean", "dirty", "foreign"} :
        now = IF session[t].open THEN to ELSE "none"
  OBVIOUS
<1>5. session' = [session EXCEPT ![t] = [session[t] EXCEPT !.stream = [session[t].stream EXCEPT ![k] = now]]]
  BY <1>4 DEF SetStream
<1>6. PICK stream \in [Lanes -> {"none", "clean", "dirty", "foreign"}] :
        stream = [session[t].stream EXCEPT ![k] = now]
  BY <1>3
<1>7. PICK r : r = [session[t] EXCEPT !.stream = stream]
  OBVIOUS
<1>8. r \in SlotStates
  BY <1>2, <1>6, <1>7 DEF SlotStates
<1>9. r.open = session[t].open /\ r.rev = session[t].rev /\ r.stream = stream
  BY <1>2, <1>7 DEF SlotStates
<1>10. stream[k] = now /\ \A l \in Lanes : l # k => stream[l] = session[t].stream[l]
  BY <1>6, <1>3
<1>11. session' = [session EXCEPT ![t] = r]
  BY <1>5, <1>6, <1>7
<1>12. session' \in [Slots -> SlotStates] /\ session'[t] = r /\ \A s \in Slots : s # t => session'[s] = session[s]
  BY <1>1, <1>8, <1>11
<1>13. \A s \in Slots, l \in Lanes : ~session[s].open => session[s].stream[l] = "none"
  BY DEF SessionsAgree
<1>14. \A l \in Lanes : ~r.open => r.stream[l] = "none"
  BY <1>4, <1>9, <1>10, <1>13
<1> QED BY <1>4, <1>9, <1>10, <1>12, <1>13, <1>14 DEF Narrows

\* Who holds a lane is on it, with the session and the kind of the lane.
LEMMA LaneHeld ==
  ASSUME SessionTypes, LanesInTurn,
         NEW s \in Slots, NEW l \in Lanes, NEW p \in Requests, Holds(p, lane[s][l])
  PROVE  Pc(p) \in OnLane /\ SlotOf(p) = s /\ LaneOf(req[p].kind) = l
<1>1. lane[s][l] \in Seq(Requests \union {"ping"})
  BY DEF SessionTypes
<1>2. 1 \in DOMAIN lane[s][l] /\ lane[s][l][1] = p
  BY <1>1 DEF Holds
<1>3. p \in Waiters(lane[s][l])
  BY <1>2 DEF Waiters
<1> QED BY <1>3 DEF LanesInTurn

-----------------------------------------------------------------------------
(* A call that leaves.                                                       *)

\* What Leave does to each variable.
LEMMA LeaveParts ==
  ASSUME NEW q \in Requests, NEW result \in Results,
         SessionTypes, DialsInTurn, LanesInTurn, Leave(q, result)
  PROVE  /\ req' \in [Requests -> Calls]
         /\ \A p \in Requests : p # q => req'[p] = req[p]
         /\ req'[q].pc = "done" /\ req'[q].slot = Nothing /\ req'[q].kind = req[q].kind
         /\ req'[q].fate = req[q].fate /\ req'[q].result = result
         /\ access' \in [Slots -> [holders : SUBSET Requests, queue : Seq(Requests)]]
         /\ \A s \in Slots : access'[s].holders = access[s].holders \ {q}
         /\ lane' \in [Slots -> [Lanes -> Seq(Requests \union {"ping"})]]
         /\ \A s \in Slots, l \in Lanes : lane'[s][l] = Drop(q, lane[s][l])
         /\ connecting' = Drop(q, connecting) /\ connecting' \in Seq(Requests)
         /\ read' \in [Requests -> {"none", "claimed", "cancelled"}]
         /\ read'[q] = "none" /\ \A p \in Requests : p # q => read'[p] = read[p]
<1>1. req \in [Requests -> Calls] /\ req[q] \in Calls
  BY DEF SessionTypes
<1>2. PICK r : r = [req[q] EXCEPT !.pc = "done", !.slot = Nothing, !.rev = 0, !.result = result]
  OBVIOUS
<1>3. r \in Calls
  BY <1>1, <1>2 DEF Calls, CallSteps
<1>4. r.pc = "done" /\ r.slot = Nothing /\ r.kind = req[q].kind /\ r.fate = req[q].fate /\ r.result = result
  BY <1>1, <1>2 DEF Calls
<1>5. req' = [req EXCEPT ![q] = r]
  BY <1>1, <1>2 DEF Leave
<1>6. req' \in [Requests -> Calls] /\ req'[q] = r /\ \A p \in Requests : p # q => req'[p] = req[p]
  BY <1>1, <1>3, <1>5
<1>7. \A s \in Slots : access[s].holders \in SUBSET Requests /\ access[s].queue \in Seq(Requests)
  BY DEF SessionTypes
<1>8. \A s \in Slots : Drop(q, access[s].queue) \in Seq(Requests)
  BY <1>7, DroppedType
<1>9. access' = [s \in Slots |-> [holders |-> access[s].holders \ {q}, queue |-> Drop(q, access[s].queue)]]
  BY DEF Leave
<1>10. /\ access' \in [Slots -> [holders : SUBSET Requests, queue : Seq(Requests)]]
       /\ \A s \in Slots : access'[s].holders = access[s].holders \ {q}
  BY <1>7, <1>8, <1>9
<1>11. \A s \in Slots, l \in Lanes : lane[s][l] \in Seq(Requests \union {"ping"})
  BY DEF SessionTypes
<1>12. \A s \in Slots, l \in Lanes : Drop(q, lane[s][l]) \in Seq(Requests \union {"ping"})
  BY <1>11, DroppedType
<1>13. lane' = [s \in Slots |-> [l \in Lanes |-> Drop(q, lane[s][l])]]
  BY DEF Leave
<1>14. connecting' = Drop(q, connecting) /\ connecting \in Seq(Requests)
  BY DEF Leave, SessionTypes
<1>15. connecting' \in Seq(Requests)
  BY <1>14, DroppedType
<1>16. read' = [read EXCEPT ![q] = "none"] /\ read \in [Requests -> {"none", "claimed", "cancelled"}]
  BY DEF Leave, SessionTypes
<1>17. /\ read' \in [Requests -> {"none", "claimed", "cancelled"}]
       /\ read'[q] = "none" /\ \A p \in Requests : p # q => read'[p] = read[p]
  BY <1>16
<1>18. /\ lane' \in [Slots -> [Lanes -> Seq(Requests \union {"ping"})]]
       /\ \A s \in Slots, l \in Lanes : lane'[s][l] = Drop(q, lane[s][l])
  BY <1>12, <1>13
<1> QED BY <1>4, <1>6, <1>10, <1>14, <1>15, <1>17, <1>18

\* A call that leaves with an honest result, its half-read stream gone, breaks nothing.
LEMMA Leaves ==
  ASSUME NEW q \in Requests, NEW result \in Results,
         SessionInv, Leave(q, result), Narrows, UNCHANGED <<config, entry>>,
         \A s \in Slots, l \in Lanes : session'[s].stream[l] = "dirty" =>
            /\ session[s].stream[l] = "dirty"
            /\ ~(Pc(q) = "sent" /\ SlotOf(q) = s /\ LaneOf(req[q].kind) = l),
         result = "ok" => req[q].fate = "answered",
         req[q].kind = "write" => Told(result, req[q].fate)
  PROVE  SessionInv'
<1>0. /\ SessionTypes /\ SlotsUsed /\ DialsInTurn /\ LanesInTurn /\ AccessAlone
      /\ SessionsAgree /\ FateKnown /\ ReadsRegistered /\ StreamsClean /\ HonestFate
  BY DEF SessionInv
<1>1. /\ req' \in [Requests -> Calls]
      /\ \A p \in Requests : p # q => req'[p] = req[p]
      /\ req'[q].pc = "done" /\ req'[q].slot = Nothing /\ req'[q].kind = req[q].kind
      /\ req'[q].fate = req[q].fate /\ req'[q].result = result
      /\ access' \in [Slots -> [holders : SUBSET Requests, queue : Seq(Requests)]]
      /\ \A s \in Slots : access'[s].holders = access[s].holders \ {q}
      /\ lane' \in [Slots -> [Lanes -> Seq(Requests \union {"ping"})]]
      /\ \A s \in Slots, l \in Lanes : lane'[s][l] = Drop(q, lane[s][l])
      /\ connecting' = Drop(q, connecting) /\ connecting' \in Seq(Requests)
      /\ read' \in [Requests -> {"none", "claimed", "cancelled"}]
      /\ read'[q] = "none" /\ \A p \in Requests : p # q => read'[p] = read[p]
  BY <1>0, LeaveParts
<1>2. "done" \notin Attached /\ "done" \notin Dialling /\ "done" \notin OnLane
  BY DEF Attached, Dialling, OnLane
<1>3. Nothing \notin Slots
  BY NoneAssumption
<1>4. SessionTypes'
  BY <1>0, <1>1 DEF SessionTypes, Narrows
<1>5. SlotsUsed'
  <2>1. ASSUME NEW p \in Requests PROVE req'[p].slot \in Slots <=> req'[p].pc \in Attached
    <3>1. CASE p = q
      BY <3>1, <1>1, <1>2, <1>3
    <3>2. CASE p # q
      <4>1. req'[p] = req[p]
        BY <3>2, <1>1
      <4> QED BY <4>1, <1>0 DEF SlotsUsed, Pc, SlotOf
    <3> QED BY <3>1, <3>2
  <2> QED BY <2>1 DEF SlotsUsed, Pc, SlotOf
<1>6. DialsInTurn'
  <2>1. connecting \in Seq(Requests) /\ Once(connecting)
    BY <1>0 DEF SessionTypes, DialsInTurn
  <2>2. /\ Once(Drop(q, connecting))
        /\ Waiters(Drop(q, connecting)) = Waiters(connecting) \ {q}
        /\ \A p : p # q /\ Holds(p, connecting) => Holds(p, Drop(q, connecting))
    BY <2>1, Dropped
  <2>3. ASSUME NEW p \in Requests
        PROVE  /\ p \in Waiters(connecting') <=> req'[p].pc \in Dialling
               /\ req'[p].pc \in {"dial", "insert"} => Holds(p, connecting') /\ entry' = Nothing
    <3>1. CASE p = q
      BY <3>1, <1>1, <1>2, <2>2
    <3>2. CASE p # q
      BY <3>2, <1>0, <1>1, <2>2 DEF DialsInTurn, Pc
    <3> QED BY <3>1, <3>2
  <2> QED BY <2>2, <2>3, <1>1 DEF DialsInTurn, Pc
<1>7. ASSUME NEW s \in Slots, NEW l \in Lanes
      PROVE  /\ Once(lane'[s][l])
             /\ Waiters(lane'[s][l]) = Waiters(lane[s][l]) \ {q}
             /\ \A p : p # q /\ Holds(p, lane[s][l]) => Holds(p, lane'[s][l])
  <2>1. lane[s][l] \in Seq(Requests \union {"ping"}) /\ Once(lane[s][l])
    BY <1>0 DEF SessionTypes, LanesInTurn
  <2> QED BY <2>1, <1>1, Dropped
<1>8. LanesInTurn'
  <2>1. ASSUME NEW s \in Slots, NEW l \in Lanes, NEW p \in Requests
        PROVE  p \in Waiters(lane'[s][l]) <=>
                 req'[p].pc \in OnLane /\ req'[p].slot = s /\ LaneOf(req'[p].kind) = l
    <3>1. CASE p = q
      BY <3>1, <1>1, <1>2, <1>7
    <3>2. CASE p # q
      <4>1. req'[p] = req[p]
        BY <3>2, <1>1
      <4>2. p \in Waiters(lane'[s][l]) <=> p \in Waiters(lane[s][l])
        BY <3>2, <1>7
      <4>3. p \in Waiters(lane[s][l]) <=> Pc(p) \in OnLane /\ SlotOf(p) = s /\ LaneOf(req[p].kind) = l
        BY <1>0 DEF LanesInTurn
      <4> QED BY <4>1, <4>2, <4>3 DEF Pc, SlotOf
    <3> QED BY <3>1, <3>2
  <2>2. ASSUME NEW p \in Requests, req'[p].pc \in OnLane \ {"lane"}
        PROVE  Holds(p, lane'[req'[p].slot][LaneOf(req'[p].kind)])
    <3>1. p # q
      BY <1>1, <1>2, <2>2
    <3>2. req'[p] = req[p]
      BY <1>1, <3>1
    <3>3. SlotOf(p) \in Slots /\ LaneOf(req[p].kind) \in Lanes
      BY <2>2, <3>2, <1>0, LaneIsLane DEF SlotsUsed, Attached, Pc
    <3>4. Holds(p, lane[SlotOf(p)][LaneOf(req[p].kind)])
      BY <2>2, <3>2, <1>0 DEF LanesInTurn, Pc
    <3> QED BY <3>1, <3>2, <3>3, <3>4, <1>7 DEF SlotOf
  <2> QED BY <1>7, <2>1, <2>2 DEF LanesInTurn, Pc, SlotOf
<1>9. AccessAlone'
  <2>1. ASSUME NEW s \in Slots
        PROVE  access'[s].holders = {p \in Requests : req'[p].pc \in OnLane /\ req'[p].slot = s}
    <3>1. access[s].holders = {p \in Requests : Pc(p) \in OnLane /\ SlotOf(p) = s}
      BY <1>0 DEF AccessAlone
    <3>2. ASSUME NEW p \in Requests
          PROVE  p \in access'[s].holders <=> req'[p].pc \in OnLane /\ req'[p].slot = s
      <4>1. p \in access'[s].holders <=> p \in access[s].holders /\ p # q
        BY <1>1
      <4>2. CASE p = q
        BY <4>1, <4>2, <1>1, <1>2
      <4>3. CASE p # q
        <5>1. req'[p] = req[p]
          BY <4>3, <1>1
        <5> QED BY <5>1, <4>1, <4>3, <3>1 DEF Pc, SlotOf
      <4> QED BY <4>2, <4>3
    <3>3. access'[s].holders \subseteq Requests
      BY <1>1
    <3> QED BY <3>2, <3>3
  <2>2. ASSUME NEW s \in Slots, NEW p \in access'[s].holders, NEW r \in access'[s].holders, Mutation(req'[p].kind)
        PROVE  p = r
    <3>1. p \in access[s].holders /\ r \in access[s].holders /\ p # q /\ p \in Requests
      BY <1>0, <1>1 DEF AccessAlone
    <3>2. Mutation(req[p].kind)
      BY <2>2, <3>1, <1>1
    <3> QED BY <3>1, <3>2, <1>0 DEF AccessAlone
  <2> QED BY <2>1, <2>2 DEF AccessAlone, Pc, SlotOf
<1>10. SessionsAgree'
  <2>1. \A s \in Slots, l \in Lanes : ~session'[s].open => session'[s].stream[l] = "none"
    BY DEF Narrows
  <2>2. ASSUME NEW p \in Requests, req'[p].slot \in Slots, session'[req'[p].slot].open
        PROVE  session'[req'[p].slot].rev = req'[p].rev
    <3>1. p # q
      BY <2>2, <1>1, <1>3
    <3>2. req'[p] = req[p]
      BY <3>1, <1>1
    <3>3. session[SlotOf(p)].open /\ session'[SlotOf(p)].rev = session[SlotOf(p)].rev
      BY <2>2, <3>2 DEF Narrows, SlotOf
    <3> QED BY <2>2, <3>2, <3>3, <1>0 DEF SessionsAgree, SlotOf
  <2> QED BY <2>1, <2>2 DEF SessionsAgree, SlotOf
<1>11. FateKnown'
  BY <1>0, <1>1 DEF FateKnown, Pc
<1>12. ReadsRegistered'
  BY <1>0, <1>1 DEF ReadsRegistered, Pc
<1>13. StreamsClean'
  <2> SUFFICES ASSUME NEW s \in Slots, NEW l \in Lanes, session'[s].stream[l] = "dirty"
               PROVE  \E p \in Requests : Holds(p, lane'[s][l]) /\ req'[p].pc = "sent"
    BY DEF StreamsClean, Pc
  <2>1. PICK p \in Requests : Holds(p, lane[s][l]) /\ Pc(p) = "sent"
    BY <1>0 DEF StreamsClean
  <2>3. SlotOf(p) = s /\ LaneOf(req[p].kind) = l
    BY <2>1, <1>0, LaneHeld
  <2>4. p # q
    BY <2>1, <2>3
  <2> QED BY <2>1, <2>4, <1>1, <1>7 DEF Pc
<1>14. HonestFate'
  BY <1>0, <1>1 DEF HonestFate, Told, Pc
<1> QED BY <1>4, <1>5, <1>6, <1>8, <1>9, <1>10, <1>11, <1>12, <1>13, <1>14 DEF SessionInv

-----------------------------------------------------------------------------
(* A call that goes on along its lane.                                       *)

\* Only one call changes.
Only(q) == req' \in [Requests -> Calls] /\ \A p \in Requests : p # q => req'[p] = req[p]

LEMMA Works ==
  ASSUME NEW q \in Requests, SessionInv, Only(q), Narrows,
         UNCHANGED <<config, entry, access, lane, connecting, read>>,
         Pc(q) \in OnLane, Holds(q, lane[SlotOf(q)][LaneOf(req[q].kind)]),
         req'[q].pc \in OnLane \ {"lane"},
         req'[q].kind = req[q].kind, req'[q].slot = req[q].slot, req'[q].rev = req[q].rev,
         req'[q].pc \in {"init", "send"} => req'[q].fate = "unsent",
         req'[q].pc = "sent" => req'[q].fate = "sent",
         req'[q].pc = "settle" => /\ req'[q].fate # "unsent"
                                  /\ req'[q].result = "ok" => req'[q].fate = "answered"
                                  /\ req'[q].kind = "write" => req'[q].result \in {"ok", "unknown", "unsupported"},
         \A s \in Slots, l \in Lanes : session'[s].stream[l] = "dirty" =>
            IF SlotOf(q) = s /\ LaneOf(req[q].kind) = l
            THEN req'[q].pc = "sent" ELSE session[s].stream[l] = "dirty"
  PROVE  SessionInv'
<1>0. /\ SessionTypes /\ SlotsUsed /\ DialsInTurn /\ LanesInTurn /\ AccessAlone
      /\ SessionsAgree /\ FateKnown /\ ReadsRegistered /\ StreamsClean /\ HonestFate
  BY DEF SessionInv
<1>1. OnLane \subseteq Attached /\ OnLane \cap Dialling = {} /\ "done" \notin OnLane /\ "idle" \notin OnLane
      /\ "dial" \notin OnLane /\ "insert" \notin OnLane
  BY DEF OnLane, Attached, Dialling
<1>2. ASSUME NEW p \in Requests
      PROVE  /\ req'[p].kind = req[p].kind /\ req'[p].slot = req[p].slot /\ req'[p].rev = req[p].rev
             /\ req'[p].pc \in OnLane <=> req[p].pc \in OnLane
             /\ req'[p].pc \in Attached <=> req[p].pc \in Attached
             /\ req'[p].pc \in Dialling <=> req[p].pc \in Dialling
             /\ req'[p].pc \in {"idle", "done"} <=> req[p].pc \in {"idle", "done"}
             /\ req'[p].pc \in {"dial", "insert"} <=> req[p].pc \in {"dial", "insert"}
  <2>1. CASE p = q
    BY <2>1, <1>1 DEF Pc
  <2>2. CASE p # q
    BY <2>2 DEF Only
  <2> QED BY <2>1, <2>2
<1>3. /\ config' = config /\ entry' = entry /\ access' = access /\ lane' = lane
      /\ connecting' = connecting /\ read' = read
  OBVIOUS
<1>4. SessionTypes'
  BY <1>0, <1>3 DEF SessionTypes, Narrows, Only
<1>5. SlotsUsed'
  BY <1>0, <1>2 DEF SlotsUsed, Pc, SlotOf
<1>6. DialsInTurn'
  BY <1>0, <1>2, <1>3 DEF DialsInTurn, Pc
<1>7. LanesInTurn'
  <2>1. ASSUME NEW s \in Slots, NEW l \in Lanes
        PROVE  /\ Once(lane'[s][l])
               /\ \A p \in Requests : p \in Waiters(lane'[s][l]) <=>
                    req'[p].pc \in OnLane /\ req'[p].slot = s /\ LaneOf(req'[p].kind) = l
    BY <1>0, <1>2, <1>3 DEF LanesInTurn, Pc, SlotOf
  <2>2. ASSUME NEW p \in Requests, req'[p].pc \in OnLane \ {"lane"}
        PROVE  Holds(p, lane'[req'[p].slot][LaneOf(req'[p].kind)])
    <3>1. CASE p = q
      BY <3>1, <1>3 DEF SlotOf
    <3>2. CASE p # q
      BY <3>2, <2>2, <1>0, <1>3 DEF Only, LanesInTurn, Pc, SlotOf
    <3> QED BY <3>1, <3>2
  <2> QED BY <2>1, <2>2 DEF LanesInTurn, Pc, SlotOf
<1>8. AccessAlone'
  <2>1. ASSUME NEW s \in Slots
        PROVE  access'[s].holders = {p \in Requests : req'[p].pc \in OnLane /\ req'[p].slot = s}
    BY <1>0, <1>2, <1>3 DEF AccessAlone, Pc, SlotOf
  <2>2. ASSUME NEW s \in Slots, NEW p \in access'[s].holders, NEW r \in access'[s].holders, Mutation(req'[p].kind)
        PROVE  p = r
    <3>1. p \in Requests
      BY <1>0, <1>3 DEF AccessAlone
    <3> QED BY <3>1, <2>2, <1>0, <1>2, <1>3 DEF AccessAlone
  <2> QED BY <2>1, <2>2 DEF AccessAlone, Pc, SlotOf
<1>9. SessionsAgree'
  BY <1>0, <1>2 DEF SessionsAgree, Narrows, SlotOf
<1>10. FateKnown'
  <2> SUFFICES ASSUME NEW p \in Requests
               PROVE  /\ req'[p].pc \notin {"sent", "settle", "done"} => req'[p].fate = "unsent"
                      /\ req'[p].pc = "sent" => req'[p].fate = "sent"
                      /\ req'[p].pc = "settle" => /\ req'[p].fate # "unsent"
                                                  /\ req'[p].result = "ok" => req'[p].fate = "answered"
                                                  /\ req'[p].kind = "write" => req'[p].result \in {"ok", "unknown", "unsupported"}
    BY DEF FateKnown, Pc
  <2>1. CASE p = q
    BY <2>1 DEF OnLane
  <2>2. CASE p # q
    BY <2>2, <1>0 DEF Only, FateKnown, Pc
  <2> QED BY <2>1, <2>2
<1>11. ReadsRegistered'
  BY <1>0, <1>2, <1>3 DEF ReadsRegistered, Pc
<1>12. StreamsClean'
  <2> SUFFICES ASSUME NEW s \in Slots, NEW l \in Lanes, session'[s].stream[l] = "dirty"
               PROVE  \E p \in Requests : Holds(p, lane'[s][l]) /\ req'[p].pc = "sent"
    BY DEF StreamsClean, Pc
  <2>1. CASE SlotOf(q) = s /\ LaneOf(req[q].kind) = l
    BY <2>1, <1>3
  <2>2. CASE ~(SlotOf(q) = s /\ LaneOf(req[q].kind) = l)
    <3>1. PICK p \in Requests : Holds(p, lane[s][l]) /\ Pc(p) = "sent"
      BY <2>2, <1>0 DEF StreamsClean
    <3>2. p # q
      BY <3>1, <2>2, <1>0, LaneHeld
    <3> QED BY <3>1, <3>2, <1>3 DEF Only, Pc
  <2> QED BY <2>1, <2>2
<1>13. HonestFate'
  <2> SUFFICES ASSUME NEW p \in Requests, req'[p].pc = "done"
               PROVE  /\ req'[p].result = "ok" => req'[p].fate = "answered"
                      /\ req'[p].kind = "write" =>
                           Told(req'[p].result, req'[p].fate)
    BY DEF HonestFate, Told, Pc
  <2>1. p # q
    BY <1>1
  <2> QED BY <2>1, <1>0 DEF Only, HonestFate, Told, Pc
<1> QED BY <1>4, <1>5, <1>6, <1>7, <1>8, <1>9, <1>10, <1>11, <1>12, <1>13 DEF SessionInv

-----------------------------------------------------------------------------
(* A call that is on no lane, before and after, and the steps of nobody's.   *)

\* The calls keep their places in the lanes, whatever a ping does there.
LanesKept ==
  /\ lane' \in [Slots -> [Lanes -> Seq(Requests \union {"ping"})]]
  /\ \A s \in Slots, l \in Lanes :
       /\ Once(lane'[s][l])
       /\ \A p \in Requests : /\ p \in Waiters(lane'[s][l]) <=> p \in Waiters(lane[s][l])
                              /\ Holds(p, lane[s][l]) => Holds(p, lane'[s][l])

\* No stream is left half read that was not before.
NoneDirtier == \A s \in Slots, l \in Lanes : session'[s].stream[l] = "dirty" => session[s].stream[l] = "dirty"

\* The sessions the calls have stay those they have, or close.
SessionsKept ==
  /\ session' \in [Slots -> SlotStates]
  /\ \A s \in Slots, l \in Lanes : ~session'[s].open => session'[s].stream[l] = "none"
  /\ \A p \in Requests : SlotOf(p) \in Slots /\ session'[SlotOf(p)].open =>
       session[SlotOf(p)].open /\ session'[SlotOf(p)].rev = session[SlotOf(p)].rev

LEMMA NarrowsKeeps == ASSUME Narrows PROVE SessionsKept
  BY DEF Narrows, SessionsKept

LEMMA Around ==
  ASSUME SessionInv, SessionsKept, NoneDirtier, LanesKept,
         UNCHANGED <<access, connecting, req>>,
         config' \in [rev : Nat, present : BOOLEAN], entry' \in {entry, Nothing},
         read' \in [Requests -> {"none", "claimed", "cancelled"}],
         \A q \in Requests : read'[q] # "none" => read[q] # "none"
  PROVE  SessionInv'
<1>0. /\ SessionTypes /\ SlotsUsed /\ DialsInTurn /\ LanesInTurn /\ AccessAlone
      /\ SessionsAgree /\ FateKnown /\ ReadsRegistered /\ StreamsClean /\ HonestFate
  BY DEF SessionInv
<1>1. access' = access /\ connecting' = connecting /\ req' = req
  OBVIOUS
<1>2. SessionTypes'
  BY <1>0, <1>1 DEF SessionTypes, SessionsKept, LanesKept
<1>3. SlotsUsed' /\ FateKnown' /\ HonestFate' /\ AccessAlone'
  BY <1>0, <1>1 DEF SlotsUsed, FateKnown, HonestFate, AccessAlone, Pc, SlotOf
<1>4. DialsInTurn'
  BY <1>0, <1>1 DEF DialsInTurn, Pc
<1>5. LanesInTurn'
  <2>1. \A q \in Requests : Pc(q) \in OnLane \ {"lane"} => SlotOf(q) \in Slots /\ LaneOf(req[q].kind) \in Lanes
    BY <1>0, LaneIsLane DEF SlotsUsed, Attached
  <2>2. ASSUME NEW s \in Slots, NEW l \in Lanes
        PROVE  /\ Once(lane'[s][l])
               /\ \A q \in Requests : q \in Waiters(lane'[s][l]) <=>
                    req'[q].pc \in OnLane /\ req'[q].slot = s /\ LaneOf(req'[q].kind) = l
    BY <1>0, <1>1 DEF LanesInTurn, LanesKept, Pc, SlotOf
  <2>3. ASSUME NEW q \in Requests, req'[q].pc \in OnLane \ {"lane"}
        PROVE  Holds(q, lane'[req'[q].slot][LaneOf(req'[q].kind)])
    <3>1. Holds(q, lane[SlotOf(q)][LaneOf(req[q].kind)])
      BY <2>3, <1>0, <1>1 DEF LanesInTurn, Pc
    <3> QED BY <3>1, <2>1, <2>3, <1>1 DEF LanesKept, Pc, SlotOf
  <2> QED BY <2>2, <2>3 DEF LanesInTurn, Pc, SlotOf
<1>6. SessionsAgree'
  BY <1>0, <1>1 DEF SessionsAgree, SessionsKept, SlotOf
<1>7. ReadsRegistered'
  BY <1>0, <1>1 DEF ReadsRegistered, Pc
<1>8. StreamsClean'
  BY <1>0, <1>1 DEF StreamsClean, NoneDirtier, LanesKept, Pc
<1> QED BY <1>2, <1>3, <1>4, <1>5, <1>6, <1>7, <1>8 DEF SessionInv

\* The connecting lock: the others keep their turns, and who connects has it.
TurnsKept(q) ==
  /\ connecting' \in Seq(Requests) /\ Once(connecting')
  /\ \A p \in Requests : p # q =>
       /\ p \in Waiters(connecting') <=> p \in Waiters(connecting)
       /\ Holds(p, connecting) => Holds(p, connecting')
  /\ q \in Waiters(connecting') <=> req'[q].pc \in Dialling
  /\ req'[q].pc \in {"dial", "insert"} => Holds(q, connecting') /\ entry' = Nothing
  /\ \A p \in Requests : p # q /\ Pc(p) \in {"dial", "insert"} => entry' = Nothing

LEMMA Apart ==
  ASSUME NEW q \in Requests, SessionInv, Only(q), SessionsKept, NoneDirtier, LanesKept, TurnsKept(q),
         UNCHANGED config, entry' \in Slots \union {Nothing},
         access' \in [Slots -> [holders : SUBSET Requests, queue : Seq(Requests)]],
         \A s \in Slots : access'[s].holders = access[s].holders,
         read' \in [Requests -> {"none", "claimed", "cancelled"}],
         \A p \in Requests : p # q => read'[p] = read[p],
         read'[q] # "none" => req'[q].kind # "write" /\ req'[q].pc \notin {"idle", "done"},
         Pc(q) \notin OnLane, req'[q].pc \notin OnLane,
         req'[q].slot \in Slots <=> req'[q].pc \in Attached,
         req'[q].slot \in Slots /\ session'[req'[q].slot].open => session'[req'[q].slot].rev = req'[q].rev,
         req'[q].fate = "unsent",
         req'[q].pc = "done" => req'[q].result \notin {"ok", "unknown"}
  PROVE  SessionInv'
<1>0. /\ SessionTypes /\ SlotsUsed /\ DialsInTurn /\ LanesInTurn /\ AccessAlone
      /\ SessionsAgree /\ FateKnown /\ ReadsRegistered /\ StreamsClean /\ HonestFate
  BY DEF SessionInv
<1>1. \A p \in Requests : p # q => req'[p] = req[p]
  BY DEF Only
<1>2. "sent" \in OnLane /\ "settle" \in OnLane
  BY DEF OnLane
<1>3. SessionTypes'
  BY <1>0 DEF SessionTypes, SessionsKept, LanesKept, TurnsKept, Only
<1>4. SlotsUsed'
  BY <1>0, <1>1 DEF SlotsUsed, Pc, SlotOf
<1>5. DialsInTurn'
  <2>1. ASSUME NEW p \in Requests
        PROVE  /\ p \in Waiters(connecting') <=> req'[p].pc \in Dialling
               /\ req'[p].pc \in {"dial", "insert"} => Holds(p, connecting') /\ entry' = Nothing
    <3>1. CASE p = q
      BY <3>1 DEF TurnsKept
    <3>2. CASE p # q
      BY <3>2, <1>0, <1>1 DEF TurnsKept, DialsInTurn, Pc
    <3> QED BY <3>1, <3>2
  <2> QED BY <2>1 DEF DialsInTurn, TurnsKept, Pc
<1>6. LanesInTurn'
  <2>1. ASSUME NEW s \in Slots, NEW l \in Lanes, NEW p \in Requests
        PROVE  p \in Waiters(lane'[s][l]) <=>
                 req'[p].pc \in OnLane /\ req'[p].slot = s /\ LaneOf(req'[p].kind) = l
    <3>1. p \in Waiters(lane'[s][l]) <=> p \in Waiters(lane[s][l])
      BY DEF LanesKept
    <3>2. p \in Waiters(lane[s][l]) <=> Pc(p) \in OnLane /\ SlotOf(p) = s /\ LaneOf(req[p].kind) = l
      BY <1>0 DEF LanesInTurn
    <3>3. CASE p = q
      BY <3>1, <3>2, <3>3
    <3>4. CASE p # q
      BY <3>1, <3>2, <3>4, <1>1 DEF Pc, SlotOf
    <3> QED BY <3>3, <3>4
  <2>2. ASSUME NEW p \in Requests, req'[p].pc \in OnLane \ {"lane"}
        PROVE  Holds(p, lane'[req'[p].slot][LaneOf(req'[p].kind)])
    <3>1. p # q
      BY <2>2
    <3>2. req'[p] = req[p]
      BY <3>1, <1>1
    <3>3. SlotOf(p) \in Slots /\ LaneOf(req[p].kind) \in Lanes
      BY <2>2, <3>2, <1>0, LaneIsLane DEF SlotsUsed, Attached, Pc
    <3>4. Holds(p, lane[SlotOf(p)][LaneOf(req[p].kind)])
      BY <2>2, <3>2, <1>0 DEF LanesInTurn, Pc
    <3> QED BY <3>2, <3>3, <3>4 DEF LanesKept, SlotOf
  <2> QED BY <2>1, <2>2 DEF LanesInTurn, LanesKept, Pc, SlotOf
<1>7. AccessAlone'
  <2>1. ASSUME NEW s \in Slots
        PROVE  access'[s].holders = {p \in Requests : req'[p].pc \in OnLane /\ req'[p].slot = s}
    <3>1. access'[s].holders = {p \in Requests : Pc(p) \in OnLane /\ SlotOf(p) = s}
      BY <1>0 DEF AccessAlone
    <3>2. ASSUME NEW p \in Requests
          PROVE  Pc(p) \in OnLane /\ SlotOf(p) = s <=> req'[p].pc \in OnLane /\ req'[p].slot = s
      BY <1>1 DEF Pc, SlotOf
    <3> QED BY <3>1, <3>2
  <2>2. ASSUME NEW s \in Slots, NEW p \in access'[s].holders, NEW r \in access'[s].holders, Mutation(req'[p].kind)
        PROVE  p = r
    <3>1. p \in Requests /\ p \in access[s].holders /\ r \in access[s].holders /\ p # q
      BY <1>0 DEF AccessAlone
    <3>2. Mutation(req[p].kind)
      BY <2>2, <3>1, <1>1
    <3> QED BY <3>1, <3>2, <1>0 DEF AccessAlone
  <2> QED BY <2>1, <2>2 DEF AccessAlone, Pc, SlotOf
<1>8. SessionsAgree'
  <2>1. ASSUME NEW p \in Requests, req'[p].slot \in Slots, session'[req'[p].slot].open
        PROVE  session'[req'[p].slot].rev = req'[p].rev
    <3>1. CASE p = q
      BY <2>1, <3>1
    <3>2. CASE p # q
      BY <2>1, <3>2, <1>0, <1>1 DEF SessionsKept, SessionsAgree, SlotOf
    <3> QED BY <3>1, <3>2
  <2> QED BY <2>1 DEF SessionsAgree, SessionsKept, SlotOf
<1>9. FateKnown'
  <2> SUFFICES ASSUME NEW p \in Requests
               PROVE  /\ req'[p].pc \notin {"sent", "settle", "done"} => req'[p].fate = "unsent"
                      /\ req'[p].pc = "sent" => req'[p].fate = "sent"
                      /\ req'[p].pc = "settle" => /\ req'[p].fate # "unsent"
                                                  /\ req'[p].result = "ok" => req'[p].fate = "answered"
                                                  /\ req'[p].kind = "write" => req'[p].result \in {"ok", "unknown", "unsupported"}
    BY DEF FateKnown, Pc
  <2>1. CASE p = q
    BY <2>1, <1>2
  <2>2. CASE p # q
    BY <2>2, <1>0, <1>1 DEF FateKnown, Pc
  <2> QED BY <2>1, <2>2
<1>10. ReadsRegistered'
  <2> SUFFICES ASSUME NEW p \in Requests, read'[p] # "none"
               PROVE  req'[p].kind # "write" /\ req'[p].pc \notin {"idle", "done"}
    BY DEF ReadsRegistered, Pc
  <2>1. CASE p = q
    BY <2>1
  <2>2. CASE p # q
    BY <2>2, <1>0, <1>1 DEF ReadsRegistered, Pc
  <2> QED BY <2>1, <2>2
<1>11. StreamsClean'
  <2> SUFFICES ASSUME NEW s \in Slots, NEW l \in Lanes, session'[s].stream[l] = "dirty"
               PROVE  \E p \in Requests : Holds(p, lane'[s][l]) /\ req'[p].pc = "sent"
    BY DEF StreamsClean, Pc
  <2>1. PICK p \in Requests : Holds(p, lane[s][l]) /\ Pc(p) = "sent"
    BY <1>0 DEF StreamsClean, NoneDirtier
  <2>2. p # q
    BY <2>1, <1>2
  <2> QED BY <2>1, <2>2, <1>1 DEF LanesKept, Pc
<1>12. HonestFate'
  <2> SUFFICES ASSUME NEW p \in Requests, req'[p].pc = "done"
               PROVE  /\ req'[p].result = "ok" => req'[p].fate = "answered"
                      /\ req'[p].kind = "write" =>
                           Told(req'[p].result, req'[p].fate)
    BY DEF HonestFate, Told, Pc
  <2>1. CASE p = q
    BY <2>1 DEF Told
  <2>2. CASE p # q
    BY <2>2, <1>0, <1>1 DEF HonestFate, Told, Pc
  <2> QED BY <2>1, <2>2
<1> QED BY <1>3, <1>4, <1>5, <1>6, <1>7, <1>8, <1>9, <1>10, <1>11, <1>12 DEF SessionInv

-----------------------------------------------------------------------------
(* The steps of a call that has no lane yet.                                 *)

LEMMA OneChanged ==
  ASSUME NEW q \in Requests, NEW r \in Calls, SessionTypes, req' = [req EXCEPT ![q] = r]
  PROVE  Only(q) /\ req'[q] = r
  BY DEF SessionTypes, Only

LEMMA LanesSame == ASSUME SessionTypes, LanesInTurn, UNCHANGED lane PROVE LanesKept
  BY DEF SessionTypes, LanesInTurn, LanesKept

LEMMA SessionsSame == ASSUME SessionTypes, SessionsAgree, UNCHANGED session PROVE SessionsKept /\ NoneDirtier
  BY KeptNarrows, NarrowsKeeps DEF NoneDirtier

\* Two callers never both have the connecting lock.
LEMMA OneHolder == \A p, q, m : Holds(p, m) /\ Holds(q, m) => p = q
  BY DEF Holds

\* A call that has not asked the agent yet, and connects nothing.
LEMMA Quiet ==
  ASSUME NEW q \in Requests, SessionInv, Only(q),
         UNCHANGED <<config, entry, session, lane, connecting>>,
         access' \in [Slots -> [holders : SUBSET Requests, queue : Seq(Requests)]],
         \A s \in Slots : access'[s].holders = access[s].holders,
         read' \in [Requests -> {"none", "claimed", "cancelled"}],
         \A p \in Requests : p # q => read'[p] = read[p],
         read'[q] # "none" => req'[q].kind # "write" /\ req'[q].pc \notin {"idle", "done"},
         Pc(q) \notin OnLane, req'[q].pc \notin OnLane,
         req'[q].pc \in Dialling <=> Pc(q) \in Dialling,
         req'[q].pc \in {"dial", "insert"} => Pc(q) \in {"dial", "insert"},
         req'[q].slot \in Slots <=> req'[q].pc \in Attached,
         req'[q].slot \in Slots /\ session[req'[q].slot].open => session[req'[q].slot].rev = req'[q].rev,
         req'[q].fate = "unsent",
         req'[q].pc = "done" => req'[q].result \notin {"ok", "unknown"}
  PROVE  SessionInv'
<1>0. SessionTypes /\ SlotsUsed /\ DialsInTurn /\ LanesInTurn /\ SessionsAgree
  BY DEF SessionInv
<1>1. LanesKept
  BY <1>0, LanesSame
<1>2. SessionsKept /\ NoneDirtier
  BY <1>0, SessionsSame
<1>3. TurnsKept(q)
  BY <1>0 DEF TurnsKept, DialsInTurn, SessionTypes, Pc
<1>4. entry' \in Slots \union {Nothing} /\ UNCHANGED config
  BY <1>0 DEF SessionTypes
<1>5. req'[q].slot \in Slots /\ session'[req'[q].slot].open => session'[req'[q].slot].rev = req'[q].rev
  OBVIOUS
<1> QED BY <1>1, <1>2, <1>3, <1>4, <1>5, Apart

LEMMA IdleIsCall == Idle \in Calls
<1>1. "idle" \in CallSteps
  BY DEF CallSteps
<1>2. Nothing \in Kinds
  BY DEF Kinds
<1>3. Nothing \in Results
  BY DEF Results
<1> QED BY <1>1, <1>2, <1>3 DEF Idle, Calls

LEMMA Classes ==
  /\ {"idle", "revision", "look", "done"} \cap (OnLane \union Dialling \union Attached) = {}
  /\ Dialling \cap Attached = {} /\ OnLane \subseteq Attached
  /\ {"subscribe", "access"} \subseteq Attached \ OnLane
  BY DEF OnLane, Dialling, Attached

\* A call that begins: with a registration or without, or answered at once.
LEMMA Begins ==
  ASSUME NEW q \in Requests, SessionInv, Register(q) \/ Invoke(q)
  PROVE  SessionInv'
<1>0. SessionTypes /\ ReadsRegistered /\ Nothing \notin Slots
  BY NoneAssumption DEF SessionInv
<1>1. PICK r \in Calls :
        /\ req' = [req EXCEPT ![q] = r]
        /\ r.slot = Nothing /\ r.fate = "unsent" /\ r.pc \in {"revision", "done"}
        /\ r.pc = "done" => r.result = "cancelled"
        /\ read' = read \/ (r.pc = "revision" /\ r.kind # "write" /\ read' = [read EXCEPT ![q] = "claimed"])
  <2>1. ASSUME NEW kind \in KindsOf[q]
        PROVE  [Idle EXCEPT !.pc = "revision", !.kind = kind] \in Calls
    <3>1. "revision" \in CallSteps /\ kind \in Kinds
      BY DEF CallSteps, Kinds
    <3> QED BY <3>1, IdleIsCall DEF Calls
  <2>2. ASSUME NEW kind \in KindsOf[q]
        PROVE  [Idle EXCEPT !.pc = "done", !.kind = kind, !.result = "cancelled"] \in Calls
    <3>1. "done" \in CallSteps /\ kind \in Kinds /\ "cancelled" \in Results
      BY DEF CallSteps, Kinds, Results
    <3> QED BY <3>1, IdleIsCall DEF Calls
  <2>3. ASSUME NEW kind
        PROVE  LET r == [Idle EXCEPT !.pc = "revision", !.kind = kind]
               IN  r.slot = Nothing /\ r.fate = "unsent" /\ r.pc = "revision" /\ r.kind = kind
    BY DEF Idle
  <2>4. ASSUME NEW kind
        PROVE  LET r == [Idle EXCEPT !.pc = "done", !.kind = kind, !.result = "cancelled"]
               IN  r.slot = Nothing /\ r.fate = "unsent" /\ r.pc = "done" /\ r.result = "cancelled"
    BY DEF Idle
  <2>5. CASE Invoke(q)
    <3>1. PICK kind \in KindsOf[q] : req' = [req EXCEPT ![q] = [Idle EXCEPT !.pc = "revision", !.kind = kind]]
      BY <2>5 DEF Invoke
    <3>2. read' = read
      BY <2>5 DEF Invoke
    <3> QED BY <3>1, <3>2, <2>1, <2>3
  <2>6. CASE Register(q)
    <3>1. PICK kind \in KindsOf[q] \ {"write"} :
            \/ /\ req' = [req EXCEPT ![q] = [Idle EXCEPT !.pc = "revision", !.kind = kind]]
               /\ read' = [read EXCEPT ![q] = "claimed"]
            \/ /\ req' = [req EXCEPT ![q] = [Idle EXCEPT !.pc = "done", !.kind = kind, !.result = "cancelled"]]
               /\ UNCHANGED read
      BY <2>6 DEF Register
    <3>2. CASE /\ req' = [req EXCEPT ![q] = [Idle EXCEPT !.pc = "revision", !.kind = kind]]
               /\ read' = [read EXCEPT ![q] = "claimed"]
      BY <3>1, <3>2, <2>1, <2>3
    <3>3. CASE /\ req' = [req EXCEPT ![q] = [Idle EXCEPT !.pc = "done", !.kind = kind, !.result = "cancelled"]]
               /\ UNCHANGED read
      BY <3>1, <3>3, <2>2, <2>4
    <3> QED BY <3>1, <3>2, <3>3
  <2> QED BY <2>5, <2>6
<1>5. Only(q) /\ req'[q] = r
  BY <1>0, <1>1, OneChanged
<1>6. /\ Pc(q) = "idle" /\ read[q] = "none"
      /\ UNCHANGED <<config, entry, session, access, lane, connecting>>
  BY <1>0 DEF Register, Invoke, ReadsRegistered
<1>7. /\ read' \in [Requests -> {"none", "claimed", "cancelled"}]
      /\ \A p \in Requests : p # q => read'[p] = read[p]
      /\ read'[q] # "none" => req'[q].kind # "write" /\ req'[q].pc \notin {"idle", "done"}
  BY <1>0, <1>1, <1>5, <1>6 DEF SessionTypes
<1>8. /\ access' \in [Slots -> [holders : SUBSET Requests, queue : Seq(Requests)]]
      /\ \A s \in Slots : access'[s].holders = access[s].holders
  BY <1>0, <1>6 DEF SessionTypes
<1>9. /\ Pc(q) \notin OnLane /\ Pc(q) \notin Dialling
      /\ r.pc \notin OnLane /\ r.pc \notin Dialling /\ r.pc \notin Attached /\ r.pc \notin {"dial", "insert"}
  BY <1>1, <1>6, Classes
<1>10. UNCHANGED <<config, entry, session, lane, connecting>>
  BY <1>6
<1>11. req'[q].pc = "done" => req'[q].result \notin {"ok", "unknown"}
  BY <1>1, <1>5
<1> QED BY <1>0, <1>1, <1>5, <1>7, <1>8, <1>9, <1>10, <1>11, Quiet

LEMMA Delivers ==
  ASSUME NEW q \in Requests, SessionInv, Deliver(q)
  PROVE  SessionInv'
<1>0. SessionTypes /\ ReadsRegistered /\ Nothing \notin Slots
  BY NoneAssumption DEF SessionInv
<1>1. Only(q) /\ req'[q] = Idle
  BY <1>0, IdleIsCall, OneChanged DEF Deliver
<1>2. Idle.pc = "idle" /\ Idle.slot = Nothing /\ Idle.fate = "unsent"
  BY DEF Idle
<1>3. Pc(q) = "done" /\ UNCHANGED <<config, entry, session, access, lane, connecting, read>>
  BY DEF Deliver
<1>4. read'[q] = "none"
  BY <1>0, <1>3 DEF ReadsRegistered
<1>5. /\ access' \in [Slots -> [holders : SUBSET Requests, queue : Seq(Requests)]]
      /\ \A s \in Slots : access'[s].holders = access[s].holders
      /\ read' \in [Requests -> {"none", "claimed", "cancelled"}]
      /\ \A p \in Requests : p # q => read'[p] = read[p]
  BY <1>0, <1>3 DEF SessionTypes
<1>6. Pc(q) \notin OnLane /\ Pc(q) \notin Dialling /\ "idle" \notin OnLane /\ "idle" \notin Dialling /\ "idle" \notin Attached
  BY <1>3, Classes
<1>7. UNCHANGED <<config, entry, session, lane, connecting>>
  BY <1>3
<1> QED BY <1>0, <1>1, <1>2, <1>4, <1>5, <1>6, <1>7, Quiet

\* A step of a call: its progress, and nothing else.
LEMMA CallGoes ==
  ASSUME NEW q \in Requests, NEW pc \in CallSteps, SessionTypes,
         req' = [req EXCEPT ![q].pc = pc]
  PROVE  /\ Only(q) /\ req'[q].pc = pc /\ req'[q].rev = req[q].rev /\ req'[q].slot = req[q].slot
         /\ req'[q].kind = req[q].kind /\ req'[q].fate = req[q].fate /\ req'[q].result = req[q].result
<1>1. req \in [Requests -> Calls] /\ req[q] \in Calls
  BY DEF SessionTypes
<1>2. PICK r : r = [req[q] EXCEPT !.pc = pc]
  OBVIOUS
<1>3. r \in Calls
  BY <1>1, <1>2 DEF Calls
<1>4. /\ r.pc = pc /\ r.rev = req[q].rev /\ r.slot = req[q].slot
      /\ r.kind = req[q].kind /\ r.fate = req[q].fate /\ r.result = req[q].result
  BY <1>1, <1>2 DEF Calls
<1>5. req' = [req EXCEPT ![q] = r]
  BY <1>1, <1>2
<1> QED BY <1>3, <1>4, <1>5, OneChanged

\* A call that learns the revision of the configuration.
LEMMA CallReads ==
  ASSUME NEW q \in Requests, NEW pc \in CallSteps, NEW rev \in Nat, SessionTypes,
         req' = [req EXCEPT ![q].pc = pc, ![q].rev = rev]
  PROVE  /\ Only(q) /\ req'[q].pc = pc /\ req'[q].rev = rev /\ req'[q].slot = req[q].slot
         /\ req'[q].kind = req[q].kind /\ req'[q].fate = req[q].fate /\ req'[q].result = req[q].result
<1>1. req \in [Requests -> Calls] /\ req[q] \in Calls
  BY DEF SessionTypes
<1>2. PICK r : r = [req[q] EXCEPT !.pc = pc, !.rev = rev]
  OBVIOUS
<1>3. r \in Calls
  BY <1>1, <1>2 DEF Calls
<1>4. /\ r.pc = pc /\ r.rev = rev /\ r.slot = req[q].slot
      /\ r.kind = req[q].kind /\ r.fate = req[q].fate /\ r.result = req[q].result
  BY <1>1, <1>2 DEF Calls
<1>5. req' = [req EXCEPT ![q] = r]
  BY <1>1, <1>2
<1> QED BY <1>3, <1>4, <1>5, OneChanged

\* A call that gets a session.
LEMMA CallJoins ==
  ASSUME NEW q \in Requests, NEW pc \in CallSteps, NEW slot \in Slots, SessionTypes,
         req' = [req EXCEPT ![q].pc = pc, ![q].slot = slot]
  PROVE  /\ Only(q) /\ req'[q].pc = pc /\ req'[q].rev = req[q].rev /\ req'[q].slot = slot
         /\ req'[q].kind = req[q].kind /\ req'[q].fate = req[q].fate /\ req'[q].result = req[q].result
<1>1. req \in [Requests -> Calls] /\ req[q] \in Calls
  BY DEF SessionTypes
<1>2. PICK r : r = [req[q] EXCEPT !.pc = pc, !.slot = slot]
  OBVIOUS
<1>3. r \in Calls
  BY <1>1, <1>2 DEF Calls
<1>4. /\ r.pc = pc /\ r.rev = req[q].rev /\ r.slot = slot
      /\ r.kind = req[q].kind /\ r.fate = req[q].fate /\ r.result = req[q].result
  BY <1>1, <1>2 DEF Calls
<1>5. req' = [req EXCEPT ![q] = r]
  BY <1>1, <1>2
<1> QED BY <1>3, <1>4, <1>5, OneChanged

\* While a call is on its way to a session nobody has been asked anything, and its
\* registration stands.
LEMMA OnItsWay ==
  ASSUME NEW q \in Requests, SessionInv, Pc(q) \notin OnLane, Pc(q) \notin {"idle", "done"}
  PROVE  req[q].fate = "unsent" /\ (read[q] # "none" => req[q].kind # "write")
  BY DEF SessionInv, FateKnown, ReadsRegistered, OnLane

LEMMA AccessSame ==
  ASSUME SessionTypes, UNCHANGED <<access, read>>
  PROVE  /\ access' \in [Slots -> [holders : SUBSET Requests, queue : Seq(Requests)]]
         /\ \A s \in Slots : access'[s].holders = access[s].holders
         /\ read' \in [Requests -> {"none", "claimed", "cancelled"}]
         /\ \A q, p \in Requests : p # q => read'[p] = read[p]
  BY DEF SessionTypes

LEMMA Steps == /\ OnLane \subseteq CallSteps /\ Attached \subseteq CallSteps /\ Dialling \subseteq CallSteps
               /\ {"idle", "revision", "look", "done", "queue", "dial", "insert", "subscribe", "access"} \subseteq CallSteps
  BY DEF CallSteps, Attached, OnLane, Dialling

LEMMA LooksAtRevision ==
  ASSUME NEW q \in Requests, SessionInv, Pc(q) = "revision", UNCHANGED <<config, entry, session, access, lane, connecting, read>>,
         req' = [req EXCEPT ![q].pc = "look", ![q].rev = config.rev]
  PROVE  SessionInv'
<1>0. SessionTypes /\ SlotsUsed /\ config.rev \in Nat /\ req[q].slot \in Slots \union {Nothing}
  BY DEF SessionInv, SessionTypes, Calls
<1>1. /\ Only(q) /\ req'[q].pc = "look" /\ req'[q].slot = req[q].slot
      /\ req'[q].kind = req[q].kind /\ req'[q].fate = req[q].fate
  BY <1>0, Steps, CallReads
<1>2. req[q].fate = "unsent" /\ (read[q] # "none" => req[q].kind # "write") /\ req[q].slot \notin Slots
  BY <1>0, OnItsWay, Classes DEF SlotsUsed, SlotOf
<1>3. Pc(q) \notin OnLane /\ Pc(q) \notin Dialling /\ "look" \notin OnLane /\ "look" \notin Dialling /\ "look" \notin Attached
  BY Classes
<1>4. /\ access' \in [Slots -> [holders : SUBSET Requests, queue : Seq(Requests)]]
      /\ \A s \in Slots : access'[s].holders = access[s].holders
      /\ read' \in [Requests -> {"none", "claimed", "cancelled"}]
      /\ \A p \in Requests : p # q => read'[p] = read[p]
  BY <1>0, AccessSame
<1>5. UNCHANGED <<config, entry, session, lane, connecting>> /\ read' = read
  OBVIOUS
<1> QED BY <1>1, <1>2, <1>3, <1>4, <1>5, Quiet

\* The entry, found alive, is a session of the revision the call looked up.
LEMMA JoinsEntry ==
  ASSUME NEW q \in Requests, SessionInv, Live(req[q].rev), Join(q)
  PROVE  /\ Only(q) /\ req'[q].pc = "subscribe" /\ req'[q].rev = req[q].rev /\ req'[q].slot = entry
         /\ req'[q].kind = req[q].kind /\ req'[q].fate = req[q].fate
         /\ entry \in Slots /\ session[entry].rev = req[q].rev
<1>0. SessionTypes /\ req[q].rev \in Nat
  BY DEF SessionInv, SessionTypes, Calls
<1>1. entry \in Slots /\ session[entry].rev = req[q].rev
  BY <1>0 DEF Live, SessionTypes
<1>2. req' = [req EXCEPT ![q].pc = "subscribe", ![q].slot = entry]
  BY DEF Join
<1>3. "subscribe" \in CallSteps
  BY Steps
<1> QED BY <1>0, <1>1, <1>2, <1>3, CallJoins

LEMMA LooksUp ==
  ASSUME NEW q \in Requests, SessionInv, LookUp(q)
  PROVE  SessionInv'
<1>0. SessionTypes /\ SlotsUsed /\ DialsInTurn /\ LanesInTurn /\ SessionsAgree
  BY DEF SessionInv
<1>1. Pc(q) = "look" /\ UNCHANGED <<config, entry, session, access, lane, read>>
  BY DEF LookUp
<1>2. Pc(q) \notin OnLane /\ Pc(q) \notin Dialling /\ Pc(q) \notin Attached
  BY <1>1, Classes
<1>3. req[q].fate = "unsent" /\ (read[q] # "none" => req[q].kind # "write") /\ req[q].slot \notin Slots
  BY <1>0, <1>1, <1>2, OnItsWay DEF SlotsUsed, SlotOf
<1>4. /\ access' \in [Slots -> [holders : SUBSET Requests, queue : Seq(Requests)]]
      /\ \A s \in Slots : access'[s].holders = access[s].holders
      /\ read' \in [Requests -> {"none", "claimed", "cancelled"}]
      /\ \A p \in Requests : p # q => read'[p] = read[p]
  BY <1>0, <1>1, AccessSame
<1>5. CASE Live(req[q].rev)
  <2>1. Join(q) /\ UNCHANGED connecting
    BY <1>5 DEF LookUp
  <2>2. /\ Only(q) /\ req'[q].pc = "subscribe" /\ req'[q].rev = req[q].rev /\ req'[q].slot = entry
        /\ req'[q].kind = req[q].kind /\ req'[q].fate = req[q].fate
        /\ entry \in Slots /\ session[entry].rev = req[q].rev
    BY <1>5, <2>1, JoinsEntry
  <2>3. "subscribe" \notin OnLane /\ "subscribe" \notin Dialling /\ "subscribe" \in Attached
    BY Classes
  <2>4. UNCHANGED <<config, entry, session, lane, connecting>>
    BY <1>1, <2>1
  <2> QED BY <1>1, <1>2, <1>3, <1>4, <2>2, <2>3, <2>4, Quiet
<1>6. CASE ~Live(req[q].rev)
  <2>1. req' = [req EXCEPT ![q].pc = "queue"] /\ connecting' = Append(connecting, q)
    BY <1>6 DEF LookUp, Step
  <2>2. req[q].rev \in Nat /\ req[q].slot \in Slots \union {Nothing} /\ "queue" \in CallSteps
    BY <1>0, Steps DEF SessionTypes, Calls
  <2>3. /\ Only(q) /\ req'[q].pc = "queue" /\ req'[q].slot = req[q].slot
        /\ req'[q].kind = req[q].kind /\ req'[q].fate = req[q].fate
    BY <1>0, <2>1, <2>2, CallGoes
  <2>4. connecting \in Seq(Requests) /\ Once(connecting) /\ q \notin Waiters(connecting)
    BY <1>0, <1>2 DEF SessionTypes, DialsInTurn
  <2>5. /\ connecting' \in Seq(Requests) /\ Once(connecting')
        /\ Waiters(connecting') = Waiters(connecting) \union {q}
        /\ \A p : Holds(p, connecting) => Holds(p, connecting')
    BY <2>1, <2>4, Queued
  <2>6. "queue" \notin OnLane /\ "queue" \in Dialling /\ "queue" \notin Attached
    BY DEF OnLane, Dialling, Attached
  <2>7. TurnsKept(q)
    BY <1>0, <1>1, <2>3, <2>5, <2>6 DEF TurnsKept, DialsInTurn
  <2>8. LanesKept /\ SessionsKept /\ NoneDirtier
    BY <1>0, <1>1, LanesSame, SessionsSame
  <2>9. entry' \in Slots \union {Nothing} /\ UNCHANGED config
    BY <1>0, <1>1 DEF SessionTypes
  <2> QED BY <1>1, <1>2, <1>3, <1>4, <2>3, <2>6, <2>7, <2>8, <2>9, Apart
<1> QED BY <1>5, <1>6

LEMMA Rechecks ==
  ASSUME NEW q \in Requests, SessionInv, Recheck(q)
  PROVE  SessionInv'
<1>0. SessionTypes /\ SlotsUsed /\ DialsInTurn /\ LanesInTurn /\ SessionsAgree
  BY DEF SessionInv
<1>1. Pc(q) = "queue" /\ Holds(q, connecting) /\ UNCHANGED <<config, access, lane, read>>
  BY DEF Recheck
<1>2. Pc(q) \notin OnLane /\ Pc(q) \in Dialling /\ Pc(q) \notin Attached
  BY <1>1 DEF OnLane, Dialling, Attached
<1>3. req[q].fate = "unsent" /\ (read[q] # "none" => req[q].kind # "write") /\ req[q].slot \notin Slots
  BY <1>0, <1>1, <1>2, OnItsWay DEF SlotsUsed, SlotOf
<1>4. /\ access' \in [Slots -> [holders : SUBSET Requests, queue : Seq(Requests)]]
      /\ \A s \in Slots : access'[s].holders = access[s].holders
      /\ read' \in [Requests -> {"none", "claimed", "cancelled"}]
      /\ \A p \in Requests : p # q => read'[p] = read[p]
  BY <1>0, <1>1, AccessSame
<1>5. \A p \in Requests : p # q => Pc(p) \notin {"dial", "insert"}
  BY <1>0, <1>1, OneHolder DEF DialsInTurn
<1>6. LanesKept
  BY <1>0, <1>1, LanesSame
<1>7. connecting \in Seq(Requests) /\ Once(connecting)
  BY <1>0 DEF SessionTypes, DialsInTurn
<1>8. CASE Live(req[q].rev)
  <2>1. Join(q) /\ connecting' = Drop(q, connecting) /\ UNCHANGED <<entry, session>>
    BY <1>8 DEF Recheck
  <2>2. /\ Only(q) /\ req'[q].pc = "subscribe" /\ req'[q].rev = req[q].rev /\ req'[q].slot = entry
        /\ req'[q].kind = req[q].kind /\ req'[q].fate = req[q].fate
        /\ entry \in Slots /\ session[entry].rev = req[q].rev
    BY <1>8, <2>1, JoinsEntry
  <2>3. "subscribe" \notin OnLane /\ "subscribe" \notin Dialling /\ "subscribe" \in Attached
    BY Classes
  <2>4. /\ connecting' \in Seq(Requests) /\ Once(connecting')
        /\ Waiters(connecting') = Waiters(connecting) \ {q}
        /\ \A p : p # q /\ Holds(p, connecting) => Holds(p, connecting')
    BY <1>7, <2>1, Dropped
  <2>5. TurnsKept(q)
    BY <1>5, <2>2, <2>3, <2>4 DEF TurnsKept
  <2>6. SessionsKept /\ NoneDirtier
    BY <1>0, <2>1, SessionsSame
  <2>7. entry' \in Slots \union {Nothing} /\ UNCHANGED config
    BY <1>1, <2>1, <2>2
  <2>8. req'[q].slot \in Slots /\ session'[req'[q].slot].open => session'[req'[q].slot].rev = req'[q].rev
    BY <2>1, <2>2
  <2> QED BY <1>1, <1>2, <1>3, <1>4, <1>6, <2>2, <2>3, <2>5, <2>6, <2>7, <2>8, Apart
<1>9. CASE ~Live(req[q].rev)
  <2>1. /\ req' = [req EXCEPT ![q].pc = "dial"] /\ entry' = Nothing /\ UNCHANGED connecting
        /\ IF entry = Nothing THEN UNCHANGED session ELSE Shut(entry)
    BY <1>9 DEF Recheck, Step
  <2>2. req[q].rev \in Nat /\ req[q].slot \in Slots \union {Nothing} /\ "dial" \in CallSteps
    BY <1>0, Steps DEF SessionTypes, Calls
  <2>3. /\ Only(q) /\ req'[q].pc = "dial" /\ req'[q].slot = req[q].slot
        /\ req'[q].kind = req[q].kind /\ req'[q].fate = req[q].fate
    BY <1>0, <2>1, <2>2, CallGoes
  <2>4. SessionsKept /\ NoneDirtier
    <3>1. CASE entry = Nothing
      BY <3>1, <1>0, <2>1, SessionsSame
    <3>2. CASE entry # Nothing
      <4>1. entry \in Slots /\ Shut(entry)
        BY <3>2, <1>0, <2>1 DEF SessionTypes
      <4> QED BY <4>1, <1>0, ShutNarrows, NarrowsKeeps DEF NoneDirtier
    <3> QED BY <3>1, <3>2
  <2>5. "dial" \notin OnLane /\ "dial" \in Dialling /\ "dial" \notin Attached
    BY DEF OnLane, Dialling, Attached
  <2>6. q \in Waiters(connecting)
    BY <1>0, <1>2 DEF DialsInTurn
  <2>7. TurnsKept(q)
    BY <1>1, <1>7, <2>1, <2>3, <2>5, <2>6 DEF TurnsKept
  <2>8. entry' \in Slots \union {Nothing} /\ UNCHANGED config
    BY <1>1, <2>1
  <2> QED BY <1>1, <1>2, <1>3, <1>4, <1>6, <2>3, <2>4, <2>5, <2>7, <2>8, Apart
<1> QED BY <1>8, <1>9

LEMMA DialsCurrent ==
  ASSUME NEW q \in Requests, SessionInv, Pc(q) = "dial", req' = [req EXCEPT ![q].pc = "insert"],
         UNCHANGED <<config, entry, session, access, lane, connecting, read>>
  PROVE  SessionInv'
<1>0. SessionTypes /\ SlotsUsed /\ "insert" \in CallSteps
  BY Steps DEF SessionInv
<1>1. /\ Only(q) /\ req'[q].pc = "insert" /\ req'[q].slot = req[q].slot
      /\ req'[q].kind = req[q].kind /\ req'[q].fate = req[q].fate
  BY <1>0, CallGoes
<1>2. /\ Pc(q) \notin OnLane /\ Pc(q) \in Dialling /\ Pc(q) \notin Attached
      /\ "insert" \notin OnLane /\ "insert" \in Dialling /\ "insert" \notin Attached
  BY DEF OnLane, Dialling, Attached
<1>3. req[q].fate = "unsent" /\ (read[q] # "none" => req[q].kind # "write") /\ req[q].slot \notin Slots
  BY <1>0, <1>2, OnItsWay DEF SlotsUsed, SlotOf
<1>4. /\ access' \in [Slots -> [holders : SUBSET Requests, queue : Seq(Requests)]]
      /\ \A s \in Slots : access'[s].holders = access[s].holders
      /\ read' \in [Requests -> {"none", "claimed", "cancelled"}]
      /\ \A p \in Requests : p # q => read'[p] = read[p]
  BY <1>0, AccessSame
<1>5. UNCHANGED <<config, entry, session, lane, connecting>> /\ read' = read
  OBVIOUS
<1> QED BY <1>1, <1>2, <1>3, <1>4, <1>5, Quiet

LEMMA Waiting ==
  ASSUME NEW q \in Requests, NEW s \in Slots, SessionInv, Subscribe(q), SlotOf(q) = s, session[s].open
  PROVE  SessionInv'
<1>0. SessionTypes /\ SlotsUsed /\ SessionsAgree /\ "access" \in CallSteps
  BY Steps DEF SessionInv
<1>1. /\ Pc(q) = "subscribe" /\ req' = [req EXCEPT ![q].pc = "access"]
      /\ access' = [access EXCEPT ![s].queue = Append(@, q)]
      /\ UNCHANGED <<config, entry, session, lane, connecting, read>>
  BY DEF Subscribe
<1>2. /\ Only(q) /\ req'[q].pc = "access" /\ req'[q].slot = s /\ req'[q].rev = req[q].rev
      /\ req'[q].kind = req[q].kind /\ req'[q].fate = req[q].fate
  BY <1>0, <1>1, CallGoes DEF SlotOf
<1>3. /\ Pc(q) \notin OnLane /\ Pc(q) \notin Dialling /\ Pc(q) \in Attached
      /\ "access" \notin OnLane /\ "access" \notin Dialling /\ "access" \in Attached
  BY <1>1 DEF OnLane, Dialling, Attached
<1>4. req[q].fate = "unsent" /\ (read[q] # "none" => req[q].kind # "write")
  BY <1>1, <1>3, OnItsWay
<1>5. /\ access' \in [Slots -> [holders : SUBSET Requests, queue : Seq(Requests)]]
      /\ \A t \in Slots : access'[t].holders = access[t].holders
  <2>1. access \in [Slots -> [holders : SUBSET Requests, queue : Seq(Requests)]]
    BY <1>0 DEF SessionTypes
  <2>6. access[s].queue \in Seq(Requests)
    BY <2>1
  <2>7. Append(access[s].queue, q) \in Seq(Requests)
    BY <2>6
  <2>2. PICK queue \in Seq(Requests) : queue = Append(access[s].queue, q)
    BY <2>7
  <2>3. access' = [access EXCEPT ![s] = [access[s] EXCEPT !.queue = queue]]
    BY <1>1, <2>1, <2>2
  <2>4. [access[s] EXCEPT !.queue = queue] \in [holders : SUBSET Requests, queue : Seq(Requests)]
    BY <2>1, <2>2
  <2>5. [access[s] EXCEPT !.queue = queue].holders = access[s].holders
    BY <2>1
  <2> QED BY <2>1, <2>3, <2>4, <2>5
<1>6. /\ read' \in [Requests -> {"none", "claimed", "cancelled"}]
      /\ \A p \in Requests : p # q => read'[p] = read[p]
  BY <1>0, <1>1 DEF SessionTypes
<1>7. session[s].rev = req[q].rev
  BY <1>0 DEF SessionsAgree
<1>8. UNCHANGED <<config, entry, session, lane, connecting>> /\ read' = read
  BY <1>1
<1> QED BY <1>1, <1>2, <1>3, <1>4, <1>5, <1>6, <1>7, <1>8, Quiet

\* A new session goes where no call is, so that nothing of an old one is left in it.
LEMMA Inserts ==
  ASSUME NEW q \in Requests, SessionInv, Insert(q)
  PROVE  SessionInv'
<1>0. SessionTypes /\ SlotsUsed /\ DialsInTurn /\ LanesInTurn /\ SessionsAgree /\ "subscribe" \in CallSteps
  BY Steps DEF SessionInv
<1>1. PICK s \in Unused :
        /\ entry' = s
        /\ session' = [session EXCEPT ![s] = Opened(req[q].rev)]
        /\ req' = [req EXCEPT ![q].pc = "subscribe", ![q].slot = s]
        /\ lane' = [lane EXCEPT ![s] = [l \in Lanes |-> <<>>]]
  BY DEF Insert
<1>2. s \in Slots /\ s # entry /\ \A p \in Requests : SlotOf(p) # s
  BY <1>1 DEF Unused
<1>3. /\ Pc(q) = "insert" /\ connecting' = Drop(q, connecting) /\ UNCHANGED <<config, access, read>>
  BY DEF Insert
<1>4. /\ Only(q) /\ req'[q].pc = "subscribe" /\ req'[q].slot = s /\ req'[q].rev = req[q].rev
      /\ req'[q].kind = req[q].kind /\ req'[q].fate = req[q].fate
  BY <1>0, <1>1, <1>2, CallJoins
<1>5. /\ Pc(q) \notin OnLane /\ Pc(q) \in Dialling /\ Pc(q) \notin Attached
      /\ "subscribe" \notin OnLane /\ "subscribe" \notin Dialling /\ "subscribe" \in Attached
  BY <1>3 DEF OnLane, Dialling, Attached
<1>6. req[q].fate = "unsent" /\ (read[q] # "none" => req[q].kind # "write")
  BY <1>3, <1>5, OnItsWay
<1>7. /\ access' \in [Slots -> [holders : SUBSET Requests, queue : Seq(Requests)]]
      /\ \A t \in Slots : access'[t].holders = access[t].holders
      /\ read' \in [Requests -> {"none", "claimed", "cancelled"}]
      /\ \A p \in Requests : p # q => read'[p] = read[p]
  BY <1>0, <1>3, AccessSame
<1>8. TurnsKept(q)
  <2>1. connecting \in Seq(Requests) /\ Once(connecting) /\ Holds(q, connecting)
    BY <1>0, <1>3 DEF SessionTypes, DialsInTurn
  <2>2. \A p \in Requests : p # q => Pc(p) \notin {"dial", "insert"}
    BY <1>0, <2>1, OneHolder DEF DialsInTurn
  <2>3. /\ connecting' \in Seq(Requests) /\ Once(connecting')
        /\ Waiters(connecting') = Waiters(connecting) \ {q}
        /\ \A p : p # q /\ Holds(p, connecting) => Holds(p, connecting')
    BY <1>3, <2>1, Dropped
  <2> QED BY <1>4, <1>5, <2>2, <2>3 DEF TurnsKept
<1>9. /\ Opened(req[q].rev) \in SlotStates /\ Opened(req[q].rev).open /\ Opened(req[q].rev).rev = req[q].rev
      /\ \A l \in Lanes : Opened(req[q].rev).stream[l] # "dirty"
  <2>1. req[q].rev \in Nat
    BY <1>0 DEF SessionTypes, Calls
  <2> QED BY <2>1 DEF Opened, SlotStates
<1>10. /\ session' \in [Slots -> SlotStates]
       /\ session'[s] = Opened(req[q].rev)
       /\ \A t \in Slots : t # s => session'[t] = session[t]
  <2>1. session \in [Slots -> SlotStates]
    BY <1>0 DEF SessionTypes
  <2> QED BY <2>1, <1>1, <1>2, <1>9
<1>11. SessionsKept /\ NoneDirtier
  BY <1>0, <1>2, <1>9, <1>10 DEF SessionsKept, NoneDirtier, SessionsAgree
<1>12. LanesKept
  <2>1. lane \in [Slots -> [Lanes -> Seq(Requests \union {"ping"})]]
    BY <1>0 DEF SessionTypes
  <2>2. /\ lane' \in [Slots -> [Lanes -> Seq(Requests \union {"ping"})]]
        /\ \A l \in Lanes : lane'[s][l] = <<>>
        /\ \A t \in Slots : t # s => lane'[t] = lane[t]
    BY <2>1, <1>1, <1>2
  <2>3. Once(<<>>) /\ Waiters(<<>>) = {}
    BY DEF Once, Waiters
  <2>4. ASSUME NEW t \in Slots, NEW l \in Lanes
        PROVE  /\ Once(lane'[t][l])
               /\ \A p \in Requests : /\ p \in Waiters(lane'[t][l]) <=> p \in Waiters(lane[t][l])
                                      /\ Holds(p, lane[t][l]) => Holds(p, lane'[t][l])
    <3>1. CASE t = s
      <4>1. \A p \in Requests : p \notin Waiters(lane[s][l])
        BY <1>0, <1>2 DEF LanesInTurn
      <4>2. \A p \in Requests : ~Holds(p, lane[s][l])
        BY <1>0, <1>2, LaneHeld
      <4> QED BY <3>1, <4>1, <4>2, <2>2, <2>3
    <3>2. CASE t # s
      BY <3>2, <2>2, <1>0 DEF LanesInTurn
    <3> QED BY <3>1, <3>2
  <2> QED BY <2>2, <2>4 DEF LanesKept
<1>13. UNCHANGED config /\ entry' \in Slots \union {Nothing}
  BY <1>1, <1>2, <1>3
<1>14. session'[req'[q].slot].rev = req'[q].rev
  BY <1>4, <1>9, <1>10
<1> QED BY <1>2, <1>3, <1>4, <1>5, <1>6, <1>7, <1>8, <1>11, <1>12, <1>13, <1>14, Apart

-----------------------------------------------------------------------------
(* Getting access, and with it a place in the lane.                          *)

LEMMA Enters ==
  ASSUME NEW q \in Requests, SessionInv, Access(q)
  PROVE  SessionInv'
<1>0. /\ SessionTypes /\ SlotsUsed /\ DialsInTurn /\ LanesInTurn /\ AccessAlone
      /\ SessionsAgree /\ FateKnown /\ ReadsRegistered /\ StreamsClean /\ HonestFate
  BY DEF SessionInv
<1>1. /\ Pc(q) = "access" /\ MayEnter(q) /\ UNCHANGED <<config, entry, session, connecting, read>>
      /\ access' = [access EXCEPT ![SlotOf(q)] = [holders |-> @.holders \cup {q}, queue |-> Tail(@.queue)]]
      /\ lane' = [lane EXCEPT ![SlotOf(q)][LaneOf(req[q].kind)] = Append(@, q)]
      /\ req' = [req EXCEPT ![q].pc = "lane"]
  BY DEF Access, Step
<1>2. PICK t \in Slots : SlotOf(q) = t
  BY <1>0, <1>1 DEF SlotsUsed, Attached
<1>3. PICK k \in Lanes : LaneOf(req[q].kind) = k
  BY LaneIsLane
<1>4. /\ Pc(q) \notin OnLane /\ Pc(q) \notin Dialling /\ Pc(q) \in Attached
      /\ "lane" \in OnLane /\ "lane" \notin Dialling /\ "lane" \in Attached /\ "lane" \in CallSteps
  BY <1>1 DEF OnLane, Dialling, Attached, CallSteps
<1>5. /\ Only(q) /\ req'[q].pc = "lane" /\ req'[q].rev = req[q].rev /\ req'[q].slot = req[q].slot
      /\ req'[q].kind = req[q].kind /\ req'[q].fate = req[q].fate
  BY <1>0, <1>1, <1>4, CallGoes
<1>6. req[q].fate = "unsent" /\ (read[q] # "none" => req[q].kind # "write")
  BY <1>1, <1>4, OnItsWay
<1>7. \A p \in Requests : p # q => req'[p] = req[p]
  BY <1>5 DEF Only
<1>8. /\ access' \in [Slots -> [holders : SUBSET Requests, queue : Seq(Requests)]]
      /\ access'[t].holders = access[t].holders \union {q}
      /\ \A s \in Slots : s # t => access'[s] = access[s]
  <2>1. access \in [Slots -> [holders : SUBSET Requests, queue : Seq(Requests)]]
    BY <1>0 DEF SessionTypes
  <2>2. access[t].queue \in Seq(Requests) /\ access[t].queue # <<>>
    BY <2>1, <1>1, <1>2 DEF MayEnter
  <2>3. PICK a : a = [holders |-> access[t].holders \union {q}, queue |-> Tail(access[t].queue)]
    OBVIOUS
  <2>4. a \in [holders : SUBSET Requests, queue : Seq(Requests)] /\ a.holders = access[t].holders \union {q}
    BY <2>1, <2>2, <2>3
  <2>5. access' = [access EXCEPT ![t] = a]
    BY <1>1, <1>2, <2>3
  <2> QED BY <2>1, <2>4, <2>5
<1>9. /\ lane' \in [Slots -> [Lanes -> Seq(Requests \union {"ping"})]]
      /\ lane'[t][k] = Append(lane[t][k], q)
      /\ \A s \in Slots, l \in Lanes : s # t \/ l # k => lane'[s][l] = lane[s][l]
  <2>1. lane \in [Slots -> [Lanes -> Seq(Requests \union {"ping"})]]
    BY <1>0 DEF SessionTypes
  <2>4. lane[t][k] \in Seq(Requests \union {"ping"}) /\ q \in Requests \union {"ping"}
    BY <2>1
  <2>5. Append(lane[t][k], q) \in Seq(Requests \union {"ping"})
    BY <2>4
  <2>2. PICK m \in Seq(Requests \union {"ping"}) : m = Append(lane[t][k], q)
    BY <2>5
  <2>3. lane' = [lane EXCEPT ![t] = [lane[t] EXCEPT ![k] = m]]
    BY <1>1, <1>2, <1>3, <2>1, <2>2
  <2> QED BY <2>1, <2>2, <2>3
<1>10. /\ Once(lane'[t][k])
       /\ Waiters(lane'[t][k]) = Waiters(lane[t][k]) \union {q}
       /\ \A p : Holds(p, lane[t][k]) => Holds(p, lane'[t][k])
  <2>1. lane[t][k] \in Seq(Requests \union {"ping"}) /\ Once(lane[t][k]) /\ q \notin Waiters(lane[t][k])
    BY <1>0, <1>4 DEF SessionTypes, LanesInTurn
  <2>2. q \in Requests \union {"ping"}
    OBVIOUS
  <2> QED BY <2>1, <2>2, <1>9, Queued
<1>11. SessionTypes'
  BY <1>0, <1>1, <1>5, <1>8, <1>9 DEF SessionTypes, Only
<1>12. SlotsUsed'
  BY <1>0, <1>4, <1>5, <1>7 DEF SlotsUsed, Pc, SlotOf
<1>13. DialsInTurn'
  BY <1>0, <1>1, <1>4, <1>5, <1>7 DEF DialsInTurn, Pc
<1>14. LanesInTurn'
  <2>1. ASSUME NEW s \in Slots, NEW l \in Lanes
        PROVE  /\ Once(lane'[s][l])
               /\ \A p \in Requests : p # q =>
                    (p \in Waiters(lane'[s][l]) <=> p \in Waiters(lane[s][l]))
               /\ q \in Waiters(lane'[s][l]) <=> s = t /\ l = k
               /\ \A p : Holds(p, lane[s][l]) => Holds(p, lane'[s][l])
    <3>1. CASE s = t /\ l = k
      BY <3>1, <1>10
    <3>2. CASE s # t \/ l # k
      <4>1. lane'[s][l] = lane[s][l]
        BY <3>2, <1>9
      <4>2. q \notin Waiters(lane[s][l]) /\ Once(lane[s][l])
        BY <1>0, <1>4 DEF LanesInTurn
      <4> QED BY <3>2, <4>1, <4>2
    <3> QED BY <3>1, <3>2
  <2>2. ASSUME NEW s \in Slots, NEW l \in Lanes, NEW p \in Requests
        PROVE  p \in Waiters(lane'[s][l]) <=>
                 req'[p].pc \in OnLane /\ req'[p].slot = s /\ LaneOf(req'[p].kind) = l
    <3>1. CASE p = q
      BY <3>1, <2>1, <1>2, <1>3, <1>4, <1>5 DEF SlotOf
    <3>2. CASE p # q
      <4>1. p \in Waiters(lane[s][l]) <=> Pc(p) \in OnLane /\ SlotOf(p) = s /\ LaneOf(req[p].kind) = l
        BY <1>0 DEF LanesInTurn
      <4> QED BY <3>2, <4>1, <2>1, <1>7 DEF Pc, SlotOf
    <3> QED BY <3>1, <3>2
  <2>3. ASSUME NEW p \in Requests, req'[p].pc \in OnLane \ {"lane"}
        PROVE  Holds(p, lane'[req'[p].slot][LaneOf(req'[p].kind)])
    <3>1. req'[p] = req[p]
      BY <2>3, <1>5, <1>7
    <3>2. SlotOf(p) \in Slots /\ LaneOf(req[p].kind) \in Lanes
      BY <2>3, <3>1, <1>0, LaneIsLane DEF SlotsUsed, Attached, Pc
    <3>3. Holds(p, lane[SlotOf(p)][LaneOf(req[p].kind)])
      BY <2>3, <3>1, <1>0 DEF LanesInTurn, Pc
    <3> QED BY <3>1, <3>2, <3>3, <2>1 DEF SlotOf
  <2> QED BY <2>1, <2>2, <2>3 DEF LanesInTurn, Pc, SlotOf
<1>15. AccessAlone'
  <2>1. ASSUME NEW s \in Slots
        PROVE  access'[s].holders = {p \in Requests : req'[p].pc \in OnLane /\ req'[p].slot = s}
    <3>1. access[s].holders = {p \in Requests : Pc(p) \in OnLane /\ SlotOf(p) = s}
      BY <1>0 DEF AccessAlone
    <3>2. ASSUME NEW p \in Requests
          PROVE  p \in access'[s].holders <=> req'[p].pc \in OnLane /\ req'[p].slot = s
      <4>1. CASE p = q
        <5>1. q \notin access[s].holders
          BY <3>1, <1>4
        <5>2. q \in access'[s].holders <=> s = t
          BY <5>1, <1>8
        <5> QED BY <4>1, <5>2, <1>2, <1>4, <1>5 DEF SlotOf
      <4>2. CASE p # q
        <5>1. p \in access'[s].holders <=> p \in access[s].holders
          BY <4>2, <1>8
        <5> QED BY <4>2, <5>1, <3>1, <1>7 DEF Pc, SlotOf
      <4> QED BY <4>1, <4>2
    <3>3. access'[s].holders \subseteq Requests
      BY <1>8
    <3> QED BY <3>2, <3>3
  <2>2. ASSUME NEW s \in Slots, NEW p \in access'[s].holders, NEW r \in access'[s].holders, Mutation(req'[p].kind)
        PROVE  p = r
    <3>1. p \in Requests /\ r \in Requests /\ Mutation(req[p].kind)
      BY <2>1, <2>2, <1>5, <1>7
    <3>2. CASE s # t
      BY <3>1, <3>2, <1>0, <1>8 DEF AccessAlone
    <3>3. CASE s = t
      <4>1. p \in access[t].holders \/ p = q
        BY <3>3, <1>8
      <4>2. r \in access[t].holders \/ r = q
        BY <3>3, <1>8
      <4>3. IF Mutation(req[q].kind) THEN access[t].holders = {}
                                     ELSE \A x \in access[t].holders : ~Mutation(req[x].kind)
        BY <1>1, <1>2 DEF MayEnter
      <4> QED BY <3>1, <4>1, <4>2, <4>3
    <3> QED BY <3>2, <3>3
  <2> QED BY <2>1, <2>2 DEF AccessAlone, Pc, SlotOf
<1>16. SessionsAgree'
  <2>1. ASSUME NEW p \in Requests PROVE req'[p].slot = req[p].slot /\ req'[p].rev = req[p].rev
    BY <1>5, <1>7
  <2> QED BY <2>1, <1>0, <1>1 DEF SessionsAgree, SlotOf
<1>17. FateKnown'
  BY <1>0, <1>5, <1>6, <1>7 DEF FateKnown, Pc
<1>18. ReadsRegistered'
  BY <1>0, <1>1, <1>5, <1>6, <1>7 DEF ReadsRegistered, Pc
<1>19. StreamsClean'
  <2> SUFFICES ASSUME NEW s \in Slots, NEW l \in Lanes, session[s].stream[l] = "dirty"
               PROVE  \E p \in Requests : Holds(p, lane'[s][l]) /\ req'[p].pc = "sent"
    BY <1>1 DEF StreamsClean, Pc
  <2>1. PICK p \in Requests : Holds(p, lane[s][l]) /\ Pc(p) = "sent"
    BY <1>0 DEF StreamsClean
  <2>2. p # q
    BY <2>1, <1>1
  <2>3. Holds(p, lane'[s][l])
    <3>1. CASE s = t /\ l = k
      BY <3>1, <2>1, <1>10
    <3>2. CASE s # t \/ l # k
      BY <3>2, <2>1, <1>9
    <3> QED BY <3>1, <3>2
  <2> QED BY <2>1, <2>2, <2>3, <1>7 DEF Pc
<1>20. HonestFate'
  BY <1>0, <1>5, <1>7 DEF HonestFate, Told, Pc
<1> QED BY <1>11, <1>12, <1>13, <1>14, <1>15, <1>16, <1>17, <1>18, <1>19, <1>20 DEF SessionInv

-----------------------------------------------------------------------------
(* The steps of a call that leaves.                                          *)

\* What a caller may be told: of a write, whether the agent may have seen it.
Honest(q, result) ==
  /\ result = "ok" => req[q].fate = "answered"
  /\ req[q].kind = "write" => Told(result, req[q].fate)

\* Nothing sent, or nothing to say of a write: any error that invites a retry is honest.
LEMMA HonestUnsent ==
  ASSUME NEW q \in Requests, NEW result \in {"retry", "stale", "channel", "cancelled", "unsupported"},
         FateKnown, Pc(q) \notin {"sent", "settle", "done"} \/ req[q].kind # "write"
  PROVE  result \in Results /\ Honest(q, result)
  BY DEF Honest, Told, Results, FateKnown

LEMMA LeavesQuietly ==
  ASSUME NEW q \in Requests, NEW result \in Results, SessionInv, Leave(q, result), Honest(q, result),
         UNCHANGED <<config, entry, session>>, Pc(q) # "sent"
  PROVE  SessionInv'
<1>1. SessionTypes /\ SessionsAgree /\ UNCHANGED session
  BY DEF SessionInv
<1>2. Narrows /\ \A s \in Slots, l \in Lanes : session'[s].stream[l] = session[s].stream[l]
  BY <1>1, KeptNarrows
<1>3. UNCHANGED <<config, entry>>
  OBVIOUS
<1> QED BY <1>2, <1>3, Leaves DEF Honest

LEMMA LeavesShut ==
  ASSUME NEW q \in Requests, NEW result \in Results, SessionInv, Leave(q, result), Honest(q, result),
         UNCHANGED <<config, entry>>, SlotOf(q) \in Slots, Shut(SlotOf(q))
  PROVE  SessionInv'
<1>1. SessionTypes /\ SessionsAgree
  BY DEF SessionInv
<1>2. /\ Narrows
      /\ \A s \in Slots, l \in Lanes : session'[s].stream[l] = "dirty" => s # SlotOf(q) /\ session[s].stream[l] = "dirty"
  BY <1>1, ShutNarrows
<1> QED BY <1>2, Leaves DEF Honest

LEMMA LeavesCancelled ==
  ASSUME NEW q \in Requests, SessionInv, CancelSeen(q)
  PROVE  SessionInv'
<1>0. SessionTypes /\ SlotsUsed /\ SessionsAgree /\ FateKnown /\ ReadsRegistered
  BY DEF SessionInv
<1>1. req[q].kind # "write" /\ Leave(q, "cancelled") /\ UNCHANGED <<config, entry>>
  BY <1>0 DEF CancelSeen, ReadsRegistered
<1>2. "cancelled" \in Results /\ Honest(q, "cancelled")
  BY <1>0, <1>1, HonestUnsent
<1>3. CASE Pc(q) = "sent"
  <2>1. SlotOf(q) \in Slots /\ LaneOf(req[q].kind) \in Lanes
    BY <1>3, <1>0, LaneIsLane DEF SlotsUsed, Attached, OnLane
  <2>2. SetStream(SlotOf(q), LaneOf(req[q].kind), "none")
    BY <1>3 DEF CancelSeen, Retire
  <2>3. /\ Narrows
        /\ \A s \in Slots, l \in Lanes : s # SlotOf(q) \/ l # LaneOf(req[q].kind) =>
             session'[s].stream[l] = session[s].stream[l]
        /\ session'[SlotOf(q)].stream[LaneOf(req[q].kind)] = "none"
    BY <2>1, <2>2, <1>0, StreamNarrows
  <2> QED BY <2>3, <1>1, <1>2, Leaves DEF Honest
<1>4. CASE Pc(q) # "sent"
  <2>1. UNCHANGED <<config, entry, session>>
    BY <1>4, <1>1 DEF CancelSeen
  <2> QED BY <2>1, <1>1, <1>2, <1>4, LeavesQuietly
<1> QED BY <1>3, <1>4

\* Every other return of a call.
Returns(q) ==
  \/ Pc(q) = "revision" /\ Leave(q, "retry") /\ UNCHANGED session
  \/ Pc(q) = "dial" /\ (Leave(q, "stale") \/ Leave(q, "retry") \/ Leave(q, "unsupported")) /\ UNCHANGED session
  \/ Pc(q) = "subscribe" /\ Leave(q, "retry") /\ UNCHANGED session
  \/ CloseSeen(q)
  \/ Pc(q) = "lane" /\ Leave(q, "retry") /\ UNCHANGED session
  \/ StartFails(q)
  \/ RecordFails(q)
  \/ Pc(q) = "sent" /\ ~Mutation(req[q].kind) /\ Leave(q, "retry") /\ Shut(SlotOf(q))
  \/ Settle(q)
  \/ ObserveFails(q)

LEMMA LeavesHonestly ==
  ASSUME NEW q \in Requests, SessionInv, Returns(q), UNCHANGED <<config, entry>>
  PROVE  SessionInv'
<1>0. SessionTypes /\ SlotsUsed /\ SessionsAgree /\ FateKnown
  BY DEF SessionInv
<1>1. ASSUME NEW result \in {"retry", "stale", "channel", "unsupported"}, Leave(q, result), UNCHANGED session,
             Pc(q) \notin {"sent", "settle", "done"}
      PROVE  SessionInv'
  <2>1. result \in Results /\ Honest(q, result)
    BY <1>0, <1>1, HonestUnsent
  <2>2. UNCHANGED <<config, entry, session>> /\ Pc(q) # "sent"
    BY <1>1
  <2> QED BY <1>1, <2>1, <2>2, LeavesQuietly
<1>2. ASSUME Pc(q) \in {"init", "sent", "settle"} PROVE SlotOf(q) \in Slots
  BY <1>2, <1>0 DEF SlotsUsed, Attached, OnLane
<1>3. CASE Pc(q) = "revision" /\ Leave(q, "retry") /\ UNCHANGED session
  BY <1>3, <1>1
<1>4. CASE Pc(q) = "dial" /\ (Leave(q, "stale") \/ Leave(q, "retry") \/ Leave(q, "unsupported")) /\ UNCHANGED session
  BY <1>4, <1>1
<1>5. CASE Pc(q) = "subscribe" /\ Leave(q, "retry") /\ UNCHANGED session
  BY <1>5, <1>1
<1>6. CASE CloseSeen(q)
  <2>1. Leave(q, "retry") /\ UNCHANGED session /\ Pc(q) \notin {"sent", "settle", "done"}
    BY <1>6 DEF CloseSeen
  <2> QED BY <2>1, <1>1
<1>7. CASE Pc(q) = "lane" /\ Leave(q, "retry") /\ UNCHANGED session
  BY <1>7, <1>1
<1>8. CASE StartFails(q)
  <2>1. Pc(q) = "init"
    BY <1>8 DEF StartFails
  <2>2. CASE Leave(q, "channel") /\ UNCHANGED session
    BY <2>1, <2>2, <1>1
  <2>3. ASSUME NEW result \in {"retry", "unsupported"}, Leave(q, result), Shut(SlotOf(q)) PROVE SessionInv'
    <3>1. result \in Results /\ Honest(q, result)
      BY <2>1, <1>0, HonestUnsent
    <3>2. SlotOf(q) \in Slots
      BY <2>1, <1>2
    <3> QED BY <2>3, <3>1, <3>2, LeavesShut
  <2> QED BY <1>8, <2>2, <2>3 DEF StartFails
<1>9. CASE RecordFails(q)
  <2>1. Leave(q, "retry") /\ UNCHANGED session /\ Pc(q) \notin {"sent", "settle", "done"}
    BY <1>9 DEF RecordFails
  <2> QED BY <2>1, <1>1
<1>10. CASE Pc(q) = "sent" /\ ~Mutation(req[q].kind) /\ Leave(q, "retry") /\ Shut(SlotOf(q))
  <2>1. req[q].kind # "write"
    BY <1>10 DEF Mutation
  <2>2. "retry" \in Results /\ Honest(q, "retry")
    BY <2>1, <1>0, HonestUnsent
  <2>3. SlotOf(q) \in Slots
    BY <1>10, <1>2
  <2> QED BY <1>10, <2>2, <2>3, LeavesShut
<1>11. CASE Settle(q)
  <2>1. Pc(q) = "settle" /\ Pc(q) # "sent" /\ SlotOf(q) \in Slots /\ req[q].result \in Results
    BY <1>11, <1>0, <1>2 DEF Settle, SessionTypes, Calls
  <2>2. CASE Current(req[q].rev)
    <3>1. Leave(q, req[q].result) /\ UNCHANGED <<config, entry, session>>
      BY <1>11, <2>2 DEF Settle
    <3>2. Honest(q, req[q].result)
      BY <2>1, <1>0 DEF FateKnown, Honest, Told
    <3> QED BY <2>1, <3>1, <3>2, LeavesQuietly
  <2>3. CASE ~Current(req[q].rev)
    <3>1. Leave(q, Uncertain(q, "stale")) /\ Shut(SlotOf(q))
      BY <1>11, <2>3 DEF Settle
    <3>2. Uncertain(q, "stale") \in Results /\ Honest(q, Uncertain(q, "stale"))
      BY <2>1, <1>0 DEF FateKnown, Honest, Told, Uncertain, Mutation, Results
    <3>3. UNCHANGED <<config, entry>>
      OBVIOUS
    <3> QED BY <2>1, <3>1, <3>2, <3>3, LeavesShut
  <2> QED BY <2>2, <2>3
<1>12. CASE ObserveFails(q)
  <2>1. Pc(q) = "settle" /\ Leave(q, "unknown") /\ UNCHANGED <<config, entry, session>> /\ Pc(q) # "sent"
    BY <1>12 DEF ObserveFails
  <2>2. "unknown" \in Results /\ Honest(q, "unknown")
    BY <2>1, <1>0 DEF FateKnown, Honest, Told, Results
  <2> QED BY <2>1, <2>2, LeavesQuietly
<1> QED BY <1>3, <1>4, <1>5, <1>6, <1>7, <1>8, <1>9, <1>10, <1>11, <1>12 DEF Returns

-----------------------------------------------------------------------------
(* The steps of a call on its lane.                                          *)

\* Its stream is half read by nobody but itself.
LEMMA OwnStream ==
  ASSUME NEW q \in Requests, SessionInv, Pc(q) \in OnLane, Holds(q, lane[SlotOf(q)][LaneOf(req[q].kind)])
  PROVE  /\ SlotOf(q) \in Slots /\ LaneOf(req[q].kind) \in Lanes
         /\ Stream(q) = "dirty" => Pc(q) = "sent"
<1>1. SlotOf(q) \in Slots /\ LaneOf(req[q].kind) \in Lanes
  BY LaneIsLane DEF SessionInv, SlotsUsed, Attached
<1> QED BY <1>1, OneHolder DEF SessionInv, StreamsClean, Stream

LEMMA TakesLane ==
  ASSUME NEW q \in Requests, SessionInv, TakeLane(q), session[SlotOf(q)].open
  PROVE  SessionInv'
<1>0. SessionTypes /\ SessionsAgree /\ FateKnown
  BY DEF SessionInv
<1>1. PICK to \in {"init", "send"} : req' = [req EXCEPT ![q].pc = to]
  BY DEF TakeLane
<1>2. /\ Pc(q) = "lane" /\ Holds(q, lane[SlotOf(q)][LaneOf(req[q].kind)])
      /\ UNCHANGED <<config, entry, session, access, lane, connecting, read>>
  BY DEF TakeLane
<1>3. Pc(q) \in OnLane /\ to \in OnLane \ {"lane"} /\ to \in CallSteps
  BY <1>2 DEF OnLane, CallSteps, Attached
<1>4. /\ Only(q) /\ req'[q].pc = to /\ req'[q].rev = req[q].rev /\ req'[q].slot = req[q].slot
      /\ req'[q].kind = req[q].kind /\ req'[q].fate = req[q].fate
  BY <1>0, <1>1, <1>3, CallGoes
<1>5. req[q].fate = "unsent"
  BY <1>0, <1>2 DEF FateKnown
<1>6. Narrows /\ \A s \in Slots, l \in Lanes : session'[s].stream[l] = session[s].stream[l]
  BY <1>0, <1>2, KeptNarrows
<1>7. Stream(q) # "dirty"
  BY <1>2, <1>3, OwnStream
<1>8. \A s \in Slots, l \in Lanes : session'[s].stream[l] = "dirty" =>
        IF SlotOf(q) = s /\ LaneOf(req[q].kind) = l
        THEN req'[q].pc = "sent" ELSE session[s].stream[l] = "dirty"
  BY <1>6, <1>7 DEF Stream
<1>9. UNCHANGED <<config, entry, access, lane, connecting, read>>
  BY <1>2
<1> QED BY <1>1, <1>2, <1>3, <1>4, <1>5, <1>6, <1>8, <1>9, Works

LEMMA StartsAgent ==
  ASSUME NEW q \in Requests, SessionInv, StartAgent(q)
  PROVE  SessionInv'
<1>0. SessionTypes /\ SessionsAgree /\ FateKnown /\ LanesInTurn
  BY DEF SessionInv
<1>1. /\ Pc(q) = "init" /\ req' = [req EXCEPT ![q].pc = "send"]
      /\ SetStream(SlotOf(q), LaneOf(req[q].kind), "clean")
      /\ UNCHANGED <<config, entry, access, lane, connecting, read>>
  BY DEF StartAgent, Step
<1>2. Pc(q) \in OnLane \ {"lane"} /\ "send" \in OnLane \ {"lane"} /\ "send" \in CallSteps
  BY <1>1 DEF OnLane, CallSteps, Attached
<1>3. Holds(q, lane[SlotOf(q)][LaneOf(req[q].kind)])
  BY <1>0, <1>2 DEF LanesInTurn
<1>4. SlotOf(q) \in Slots /\ LaneOf(req[q].kind) \in Lanes
  BY <1>2, <1>3, OwnStream
<1>5. /\ Only(q) /\ req'[q].pc = "send" /\ req'[q].rev = req[q].rev /\ req'[q].slot = req[q].slot
      /\ req'[q].kind = req[q].kind /\ req'[q].fate = req[q].fate
  BY <1>0, <1>1, <1>2, CallGoes
<1>6. req[q].fate = "unsent"
  BY <1>0, <1>1 DEF FateKnown
<1>7. /\ Narrows
      /\ \A s \in Slots, l \in Lanes : s # SlotOf(q) \/ l # LaneOf(req[q].kind) =>
           session'[s].stream[l] = session[s].stream[l]
      /\ session'[SlotOf(q)].stream[LaneOf(req[q].kind)] \in {"none", "clean"}
  BY <1>0, <1>1, <1>4, StreamNarrows
<1>8. \A s \in Slots, l \in Lanes : session'[s].stream[l] = "dirty" =>
        IF SlotOf(q) = s /\ LaneOf(req[q].kind) = l
        THEN req'[q].pc = "sent" ELSE session[s].stream[l] = "dirty"
  BY <1>7
<1> QED BY <1>1, <1>2, <1>3, <1>5, <1>6, <1>7, <1>8, Works

\* A request goes out.
LEMMA CallSent ==
  ASSUME NEW q \in Requests, NEW pc \in CallSteps, NEW fate \in {"unsent", "sent", "answered"}, SessionTypes,
         req' = [req EXCEPT ![q].pc = pc, ![q].fate = fate]
  PROVE  /\ Only(q) /\ req'[q].pc = pc /\ req'[q].fate = fate
         /\ req'[q].kind = req[q].kind /\ req'[q].rev = req[q].rev /\ req'[q].slot = req[q].slot
<1>1. req \in [Requests -> Calls] /\ req[q] \in Calls
  BY DEF SessionTypes
<1>2. PICK r : r = [req[q] EXCEPT !.pc = pc, !.fate = fate]
  OBVIOUS
<1>3. r \in Calls
  BY <1>1, <1>2 DEF Calls
<1>4. /\ r.pc = pc /\ r.fate = fate
      /\ r.kind = req[q].kind /\ r.rev = req[q].rev /\ r.slot = req[q].slot
  BY <1>1, <1>2 DEF Calls
<1>5. req' = [req EXCEPT ![q] = r]
  BY <1>1, <1>2
<1> QED BY <1>3, <1>4, <1>5, OneChanged

\* Its answer is read.
LEMMA CallAnswered ==
  ASSUME NEW q \in Requests, NEW pc \in CallSteps, NEW result \in Results, NEW fate \in {"unsent", "sent", "answered"}, SessionTypes,
         req' = [req EXCEPT ![q].pc = pc, ![q].result = result, ![q].fate = fate]
  PROVE  /\ Only(q) /\ req'[q].pc = pc /\ req'[q].result = result /\ req'[q].fate = fate
         /\ req'[q].kind = req[q].kind /\ req'[q].rev = req[q].rev /\ req'[q].slot = req[q].slot
<1>1. req \in [Requests -> Calls] /\ req[q] \in Calls
  BY DEF SessionTypes
<1>2. PICK r : r = [req[q] EXCEPT !.pc = pc, !.result = result, !.fate = fate]
  OBVIOUS
<1>3. r \in Calls
  BY <1>1, <1>2 DEF Calls
<1>4. /\ r.pc = pc /\ r.result = result /\ r.fate = fate
      /\ r.kind = req[q].kind /\ r.rev = req[q].rev /\ r.slot = req[q].slot
  BY <1>1, <1>2 DEF Calls
<1>5. req' = [req EXCEPT ![q] = r]
  BY <1>1, <1>2
<1> QED BY <1>3, <1>4, <1>5, OneChanged

\* Or it is given up.
LEMMA CallJudged ==
  ASSUME NEW q \in Requests, NEW pc \in CallSteps, NEW result \in Results, SessionTypes,
         req' = [req EXCEPT ![q].pc = pc, ![q].result = result]
  PROVE  /\ Only(q) /\ req'[q].pc = pc /\ req'[q].result = result /\ req'[q].fate = req[q].fate
         /\ req'[q].kind = req[q].kind /\ req'[q].rev = req[q].rev /\ req'[q].slot = req[q].slot
<1>1. req \in [Requests -> Calls] /\ req[q] \in Calls
  BY DEF SessionTypes
<1>2. PICK r : r = [req[q] EXCEPT !.pc = pc, !.result = result]
  OBVIOUS
<1>3. r \in Calls
  BY <1>1, <1>2 DEF Calls
<1>4. /\ r.pc = pc /\ r.result = result /\ r.fate = req[q].fate
      /\ r.kind = req[q].kind /\ r.rev = req[q].rev /\ r.slot = req[q].slot
  BY <1>1, <1>2 DEF Calls
<1>5. req' = [req EXCEPT ![q] = r]
  BY <1>1, <1>2
<1> QED BY <1>3, <1>4, <1>5, OneChanged

LEMMA Sends ==
  ASSUME NEW q \in Requests, SessionInv, Send(q)
  PROVE  SessionInv'
<1>0. SessionTypes /\ SessionsAgree /\ LanesInTurn
  BY DEF SessionInv
<1>1. /\ Pc(q) = "send" /\ req' = [req EXCEPT ![q].pc = "sent", ![q].fate = "sent"]
      /\ SetStream(SlotOf(q), LaneOf(req[q].kind), IF Stream(q) = "clean" THEN "dirty" ELSE Stream(q))
      /\ UNCHANGED <<config, entry, access, lane, connecting, read>>
  BY DEF Send
<1>2. Pc(q) \in OnLane \ {"lane"} /\ "sent" \in OnLane \ {"lane"} /\ "sent" \in CallSteps
  BY <1>1 DEF OnLane, CallSteps, Attached
<1>3. Holds(q, lane[SlotOf(q)][LaneOf(req[q].kind)])
  BY <1>0, <1>2 DEF LanesInTurn
<1>4. SlotOf(q) \in Slots /\ LaneOf(req[q].kind) \in Lanes
  BY <1>2, <1>3, OwnStream
<1> DEFINE to == IF Stream(q) = "clean" THEN "dirty" ELSE Stream(q)
<1>8. to \in {"none", "clean", "dirty", "foreign"} /\ SetStream(SlotOf(q), LaneOf(req[q].kind), to)
  <2>1. session[SlotOf(q)] \in SlotStates
    BY <1>0, <1>4 DEF SessionTypes
  <2>2. Stream(q) \in {"none", "clean", "dirty", "foreign"}
    BY <2>1, <1>4 DEF SlotStates, Stream
  <2> QED BY <2>2, <1>1
<1> HIDE DEF to
<1>5. /\ Only(q) /\ req'[q].pc = "sent" /\ req'[q].fate = "sent"
      /\ req'[q].kind = req[q].kind /\ req'[q].rev = req[q].rev /\ req'[q].slot = req[q].slot
  BY <1>0, <1>1, <1>2, CallSent
<1>6. /\ Narrows
      /\ \A s \in Slots, l \in Lanes : s # SlotOf(q) \/ l # LaneOf(req[q].kind) =>
           session'[s].stream[l] = session[s].stream[l]
  BY <1>0, <1>4, <1>8, StreamNarrows
<1>7. \A s \in Slots, l \in Lanes : session'[s].stream[l] = "dirty" =>
        IF SlotOf(q) = s /\ LaneOf(req[q].kind) = l
        THEN req'[q].pc = "sent" ELSE session[s].stream[l] = "dirty"
  BY <1>5, <1>6
<1> QED BY <1>1, <1>2, <1>3, <1>5, <1>6, <1>7, Works

\* The ends of a request that is on the wire: what is read to its end, or given up,
\* leaves its stream clean or gone, and a result the agent can have given.
LEMMA Ends ==
  ASSUME NEW q \in Requests, NEW result \in Results, NEW fate \in {"sent", "answered"},
         SessionInv, Pc(q) = "sent", Only(q),
         req'[q].pc = "settle", req'[q].result = result, req'[q].fate = fate,
         req'[q].kind = req[q].kind, req'[q].rev = req[q].rev, req'[q].slot = req[q].slot,
         result = "ok" => fate = "answered",
         req[q].kind = "write" => result \in {"ok", "unknown", "unsupported"},
         UNCHANGED <<config, entry, access, lane, connecting, read>>,
         Narrows,
         \A s \in Slots, l \in Lanes : session'[s].stream[l] = "dirty" =>
            session[s].stream[l] = "dirty" /\ ~(SlotOf(q) = s /\ LaneOf(req[q].kind) = l)
  PROVE  SessionInv'
<1>1. Pc(q) \in OnLane \ {"lane"} /\ "settle" \in OnLane \ {"lane"}
  BY DEF OnLane
<1>2. Holds(q, lane[SlotOf(q)][LaneOf(req[q].kind)])
  BY <1>1 DEF SessionInv, LanesInTurn
<1>3. \A s \in Slots, l \in Lanes : session'[s].stream[l] = "dirty" =>
        IF SlotOf(q) = s /\ LaneOf(req[q].kind) = l
        THEN req'[q].pc = "sent" ELSE session[s].stream[l] = "dirty"
  OBVIOUS
<1> QED BY <1>1, <1>2, <1>3, Works

LEMMA Returned ==
  ASSUME NEW q \in Requests, SessionInv,
         \/ Answer(q) \/ Misread(q) \/ WriteInterrupted(q) \/ Disconnected(q)
         \/ ReadInterrupted(q) /\ session[SlotOf(q)].link
  PROVE  SessionInv'
<1>0. SessionTypes /\ SessionsAgree /\ LanesInTurn /\ FateKnown
  BY DEF SessionInv
<1>1. Pc(q) = "sent" /\ UNCHANGED <<config, entry, access, lane, connecting, read>>
  BY DEF Answer, Misread, WriteInterrupted, Disconnected, ReadInterrupted
<1>2. Pc(q) \in OnLane \ {"lane"} /\ "settle" \in CallSteps /\ req[q].fate = "sent"
  BY <1>0, <1>1 DEF OnLane, CallSteps, Attached, FateKnown
<1>3. Holds(q, lane[SlotOf(q)][LaneOf(req[q].kind)])
  BY <1>0, <1>2 DEF LanesInTurn
<1>4. SlotOf(q) \in Slots /\ LaneOf(req[q].kind) \in Lanes
  BY <1>2, <1>3, OwnStream
<1>5. CASE Answer(q)
  <2>1. /\ req' = [req EXCEPT ![q].pc = "settle", ![q].result = "ok", ![q].fate = "answered"]
        /\ SetStream(SlotOf(q), LaneOf(req[q].kind), "clean")
    BY <1>5 DEF Answer
  <2>2. "ok" \in Results
    BY DEF Results
  <2>3. /\ Only(q) /\ req'[q].pc = "settle" /\ req'[q].result = "ok" /\ req'[q].fate = "answered"
        /\ req'[q].kind = req[q].kind /\ req'[q].rev = req[q].rev /\ req'[q].slot = req[q].slot
    BY <1>0, <1>2, <2>1, <2>2, CallAnswered
  <2>4. /\ Narrows
        /\ \A s \in Slots, l \in Lanes : s # SlotOf(q) \/ l # LaneOf(req[q].kind) =>
             session'[s].stream[l] = session[s].stream[l]
        /\ session'[SlotOf(q)].stream[LaneOf(req[q].kind)] \in {"none", "clean"}
    BY <1>0, <1>4, <2>1, StreamNarrows
  <2>5. \A s \in Slots, l \in Lanes : session'[s].stream[l] = "dirty" =>
          session[s].stream[l] = "dirty" /\ ~(SlotOf(q) = s /\ LaneOf(req[q].kind) = l)
    BY <2>4
  <2> QED BY <1>1, <2>2, <2>3, <2>4, <2>5, Ends
<1>6. ASSUME NEW result \in {"unknown", "channel", "retry", "unsupported"}, Outcome(q, result),
             req[q].kind = "write" => result \in {"unknown", "unsupported"}, Narrows,
             \A s \in Slots, l \in Lanes : session'[s].stream[l] = "dirty" =>
               session[s].stream[l] = "dirty" /\ ~(SlotOf(q) = s /\ LaneOf(req[q].kind) = l)
      PROVE  SessionInv'
  <2>1. result \in Results /\ req' = [req EXCEPT ![q].pc = "settle", ![q].result = result]
    BY <1>6 DEF Results, Outcome
  <2>2. /\ Only(q) /\ req'[q].pc = "settle" /\ req'[q].result = result /\ req'[q].fate = "sent"
        /\ req'[q].kind = req[q].kind /\ req'[q].rev = req[q].rev /\ req'[q].slot = req[q].slot
    BY <1>0, <1>2, <2>1, CallJudged
  <2>3. result = "ok" => "sent" = "answered"
    BY <1>6
  <2>4. req[q].kind = "write" => result \in {"ok", "unknown", "unsupported"}
    BY <1>6
  <2> QED BY <1>1, <1>6, <2>1, <2>2, <2>3, <2>4, Ends
<1>7. CASE WriteInterrupted(q)
  <2>1. Outcome(q, "unknown") /\ Shut(SlotOf(q))
    BY <1>7 DEF WriteInterrupted
  <2>2. /\ Narrows
        /\ \A s \in Slots, l \in Lanes : session'[s].stream[l] = "dirty" => s # SlotOf(q) /\ session[s].stream[l] = "dirty"
    BY <1>0, <1>4, <2>1, ShutNarrows
  <2> QED BY <2>1, <2>2, <1>6
<1>8. CASE Disconnected(q)
  <2>1. Outcome(q, Uncertain(q, "retry")) /\ UNCHANGED session /\ ~session[SlotOf(q)].open
    BY <1>8 DEF Disconnected
  <2>2. Narrows /\ \A s \in Slots, l \in Lanes : session'[s].stream[l] = session[s].stream[l]
    BY <1>0, <2>1, KeptNarrows
  <2>3. session[SlotOf(q)].stream[LaneOf(req[q].kind)] = "none"
    BY <1>0, <1>4, <2>1 DEF SessionsAgree
  <2>4. Uncertain(q, "retry") \in {"unknown", "channel", "retry", "unsupported"}
        /\ (req[q].kind = "write" => Uncertain(q, "retry") \in {"unknown", "unsupported"})
    BY DEF Uncertain, Mutation
  <2> QED BY <2>1, <2>2, <2>3, <2>4, <1>6
<1>9. CASE ReadInterrupted(q) /\ session[SlotOf(q)].link
  <2>1. Outcome(q, "channel") /\ SetStream(SlotOf(q), LaneOf(req[q].kind), "none") /\ req[q].kind # "write"
    BY <1>9 DEF ReadInterrupted, Retire, Mutation
  <2>2. /\ Narrows
        /\ \A s \in Slots, l \in Lanes : s # SlotOf(q) \/ l # LaneOf(req[q].kind) =>
             session'[s].stream[l] = session[s].stream[l]
        /\ session'[SlotOf(q)].stream[LaneOf(req[q].kind)] = "none"
    BY <1>0, <1>4, <2>1, StreamNarrows
  <2> QED BY <2>1, <2>2, <1>6
<1>10. CASE Misread(q)
  <2>1. Outcome(q, "unsupported") /\ SetStream(SlotOf(q), LaneOf(req[q].kind), "foreign")
    BY <1>10 DEF Misread
  <2>2. /\ Narrows
        /\ \A s \in Slots, l \in Lanes : s # SlotOf(q) \/ l # LaneOf(req[q].kind) =>
             session'[s].stream[l] = session[s].stream[l]
        /\ session'[SlotOf(q)].stream[LaneOf(req[q].kind)] \in {"none", "foreign"}
    BY <1>0, <1>4, <2>1, StreamNarrows
  <2>3. \A s \in Slots, l \in Lanes : session'[s].stream[l] = "dirty" =>
          session[s].stream[l] = "dirty" /\ ~(SlotOf(q) = s /\ LaneOf(req[q].kind) = l)
    BY <2>2
  <2> QED BY <2>1, <2>2, <2>3, <1>6
<1> QED BY <1>5, <1>7, <1>8, <1>9, <1>10

-----------------------------------------------------------------------------
(* The session's own task, and what happens from outside.                    *)

LEMMA Closes ==
  ASSUME NEW s \in Slots, SessionInv, Shut(s), entry' \in {entry, Nothing},
         UNCHANGED <<config, access, lane, connecting, req, read>>
  PROVE  SessionInv'
<1>0. SessionTypes /\ SessionsAgree /\ LanesInTurn
  BY DEF SessionInv
<1>1. SessionsKept /\ NoneDirtier
  BY <1>0, ShutNarrows, NarrowsKeeps DEF NoneDirtier
<1>2. LanesKept
  BY <1>0, LanesSame
<1>3. /\ config' \in [rev : Nat, present : BOOLEAN]
      /\ read' \in [Requests -> {"none", "claimed", "cancelled"}]
      /\ \A q \in Requests : read'[q] # "none" => read[q] # "none"
  BY <1>0 DEF SessionTypes
<1>4. UNCHANGED <<access, connecting, req>>
  OBVIOUS
<1> QED BY <1>1, <1>2, <1>3, <1>4, Around

LEMMA LosesLink ==
  ASSUME NEW s \in Slots, SessionInv, LinkLost(s)
  PROVE  SessionInv'
<1>0. SessionTypes /\ SessionsAgree /\ LanesInTurn
  BY DEF SessionInv
<1>1. session' = [session EXCEPT ![s].link = FALSE] /\ UNCHANGED <<config, entry, access, lane, connecting, req, read>>
  BY DEF LinkLost
<1>2. Narrows /\ NoneDirtier
  <2>1. session \in [Slots -> SlotStates] /\ session[s] \in SlotStates
    BY <1>0 DEF SessionTypes
  <2>2. PICK r : r = [session[s] EXCEPT !.link = FALSE]
    OBVIOUS
  <2>3. r \in SlotStates
    BY <2>1, <2>2 DEF SlotStates
  <2>4. r.open = session[s].open /\ r.rev = session[s].rev /\ r.stream = session[s].stream
    BY <2>1, <2>2 DEF SlotStates
  <2>5. session' = [session EXCEPT ![s] = r]
    BY <1>1, <2>1, <2>2
  <2>6. session' \in [Slots -> SlotStates] /\ session'[s] = r /\ \A t \in Slots : t # s => session'[t] = session[t]
    BY <2>1, <2>3, <2>5
  <2> QED BY <1>0, <2>4, <2>6 DEF Narrows, NoneDirtier, SessionsAgree
<1>3. SessionsKept
  BY <1>2, NarrowsKeeps
<1>4. LanesKept
  BY <1>0, <1>1, LanesSame
<1>5. /\ config' \in [rev : Nat, present : BOOLEAN] /\ entry' \in {entry, Nothing}
      /\ read' \in [Requests -> {"none", "claimed", "cancelled"}]
      /\ \A q \in Requests : read'[q] # "none" => read[q] # "none"
      /\ UNCHANGED <<access, connecting, req>>
  BY <1>0, <1>1 DEF SessionTypes
<1> QED BY <1>2, <1>3, <1>4, <1>5, Around

LEMMA Reconfigures ==
  ASSUME SessionInv, config' \in [rev : Nat, present : BOOLEAN],
         read' \in [Requests -> {"none", "claimed", "cancelled"}],
         \A q \in Requests : read'[q] # "none" => read[q] # "none",
         UNCHANGED <<entry, session, access, lane, connecting, req>>
  PROVE  SessionInv'
<1>0. SessionTypes /\ SessionsAgree /\ LanesInTurn
  BY DEF SessionInv
<1>1. SessionsKept /\ NoneDirtier
  BY <1>0, SessionsSame
<1>2. LanesKept
  BY <1>0, LanesSame
<1>3. UNCHANGED <<access, connecting, req>> /\ entry' \in {entry, Nothing}
  OBVIOUS
<1> QED BY <1>1, <1>2, <1>3, Around

\* A ping is in a lane of its own accord, and takes nobody's place.
LEMMA PingsStart ==
  ASSUME NEW s \in Slots, NEW l \in Lanes, SessionInv, PingStart(s, l)
  PROVE  SessionInv'
<1>0. SessionTypes /\ SessionsAgree /\ LanesInTurn
  BY DEF SessionInv
<1>1. /\ lane[s][l] = <<>> /\ lane' = [lane EXCEPT ![s][l] = <<"ping">>]
      /\ UNCHANGED <<config, entry, session, access, connecting, req, read>>
  BY DEF PingStart
<1>2. SessionsKept /\ NoneDirtier
  BY <1>0, <1>1, SessionsSame
<1>3. LanesKept
  <2>1. lane \in [Slots -> [Lanes -> Seq(Requests \union {"ping"})]]
    BY <1>0 DEF SessionTypes
  <2>2. PICK m : m = <<"ping">>
    OBVIOUS
  <2>3. m \in Seq(Requests \union {"ping"})
    BY <2>2
  <2>4. /\ lane' \in [Slots -> [Lanes -> Seq(Requests \union {"ping"})]]
        /\ lane'[s][l] = m
        /\ \A t \in Slots, k \in Lanes : t # s \/ k # l => lane'[t][k] = lane[t][k]
    BY <1>1, <2>1, <2>2, <2>3
  <2>5. Once(m) /\ Waiters(m) = {"ping"} /\ Waiters(<<>>) = {}
    BY <2>2 DEF Once, Waiters
  <2>6. "ping" \notin Requests
    BY NoneAssumption
  <2>7. ASSUME NEW t \in Slots, NEW k \in Lanes
        PROVE  /\ Once(lane'[t][k])
               /\ \A p \in Requests : /\ p \in Waiters(lane'[t][k]) <=> p \in Waiters(lane[t][k])
                                      /\ Holds(p, lane[t][k]) => Holds(p, lane'[t][k])
    <3>1. CASE t = s /\ k = l
      BY <3>1, <1>1, <2>4, <2>5, <2>6 DEF Holds
    <3>2. CASE t # s \/ k # l
      BY <3>2, <2>4, <1>0 DEF LanesInTurn
    <3> QED BY <3>1, <3>2
  <2> QED BY <2>4, <2>7 DEF LanesKept
<1>4. /\ config' \in [rev : Nat, present : BOOLEAN] /\ entry' \in {entry, Nothing}
      /\ read' \in [Requests -> {"none", "claimed", "cancelled"}]
      /\ \A q \in Requests : read'[q] # "none" => read[q] # "none"
      /\ UNCHANGED <<access, connecting, req>>
  BY <1>0, <1>1 DEF SessionTypes
<1> QED BY <1>2, <1>3, <1>4, Around

LEMMA PingsEnd ==
  ASSUME NEW s \in Slots, NEW l \in Lanes, SessionInv, PingEnd(s, l)
  PROVE  SessionInv'
<1>0. SessionTypes /\ SessionsAgree /\ LanesInTurn
  BY DEF SessionInv
<1>1. /\ Holds("ping", lane[s][l]) /\ lane' = [lane EXCEPT ![s][l] = Tail(@)]
      /\ SetStream(s, l, "clean") \/ SetStream(s, l, "none")
      /\ UNCHANGED <<config, entry, access, connecting, req, read>>
  BY DEF PingEnd
<1>2. SessionsKept /\ NoneDirtier
  <2>1. PICK to \in {"none", "clean"} : SetStream(s, l, to)
    BY <1>1
  <2>2. /\ Narrows
        /\ \A t \in Slots, k \in Lanes : t # s \/ k # l => session'[t].stream[k] = session[t].stream[k]
        /\ session'[s].stream[l] \in {"none", "clean"}
    BY <2>1, <1>0, StreamNarrows
  <2> QED BY <2>2, NarrowsKeeps DEF NoneDirtier
<1>3. LanesKept
  <2>1. lane \in [Slots -> [Lanes -> Seq(Requests \union {"ping"})]]
    BY <1>0 DEF SessionTypes
  <2>2. lane[s][l] \in Seq(Requests \union {"ping"}) /\ Once(lane[s][l])
    BY <2>1, <1>0 DEF LanesInTurn
  <2>3. PICK m \in Seq(Requests \union {"ping"}) :
          m = Tail(lane[s][l]) /\ Once(m) /\ Waiters(m) = Waiters(lane[s][l]) \ {"ping"}
    BY <1>1, <2>2, Released
  <2>4. /\ lane' \in [Slots -> [Lanes -> Seq(Requests \union {"ping"})]]
        /\ lane'[s][l] = m
        /\ \A t \in Slots, k \in Lanes : t # s \/ k # l => lane'[t][k] = lane[t][k]
    <3>1. lane' = [lane EXCEPT ![s] = [lane[s] EXCEPT ![l] = m]]
      BY <1>1, <2>1, <2>3
    <3> QED BY <3>1, <2>1
  <2>5. "ping" \notin Requests
    BY NoneAssumption
  <2>6. \A p \in Requests : ~Holds(p, lane[s][l])
    BY <1>1, <2>5, OneHolder
  <2>7. ASSUME NEW t \in Slots, NEW k \in Lanes
        PROVE  /\ Once(lane'[t][k])
               /\ \A p \in Requests : /\ p \in Waiters(lane'[t][k]) <=> p \in Waiters(lane[t][k])
                                      /\ Holds(p, lane[t][k]) => Holds(p, lane'[t][k])
    <3>1. CASE t = s /\ k = l
      BY <3>1, <2>3, <2>4, <2>5, <2>6
    <3>2. CASE t # s \/ k # l
      BY <3>2, <2>4, <1>0 DEF LanesInTurn
    <3> QED BY <3>1, <3>2
  <2> QED BY <2>4, <2>7 DEF LanesKept
<1>4. /\ config' \in [rev : Nat, present : BOOLEAN] /\ entry' \in {entry, Nothing}
      /\ read' \in [Requests -> {"none", "claimed", "cancelled"}]
      /\ \A q \in Requests : read'[q] # "none" => read[q] # "none"
      /\ UNCHANGED <<access, connecting, req>>
  BY <1>0, <1>1 DEF SessionTypes
<1> QED BY <1>2, <1>3, <1>4, Around

-----------------------------------------------------------------------------
(* The theorem.                                                              *)

LEMMA SessionStarts == SessionInit => SessionInv
<1> SUFFICES ASSUME SessionInit PROVE SessionInv
  OBVIOUS
<1>1. Once(<<>>) /\ Waiters(<<>>) = {} /\ Nothing \notin Slots
  BY NoneAssumption DEF Once, Waiters
<1>2. Idle.pc = "idle" /\ Idle.slot = Nothing /\ Idle.fate = "unsent"
  BY DEF Idle
<1>3. /\ "idle" \notin Attached /\ "idle" \notin OnLane /\ "idle" \notin Dialling
  BY Classes
<1>4. Closed.open = FALSE /\ \A l \in Lanes : Closed.stream[l] = "none"
  BY DEF Closed
<1>5. SessionTypes
  BY IdleIsCall, ClosedIsState DEF SessionInit, SessionTypes
<1>6. SlotsUsed /\ FateKnown /\ HonestFate /\ ReadsRegistered
  BY <1>1, <1>2, <1>3 DEF SessionInit, SlotsUsed, FateKnown, HonestFate, ReadsRegistered, Pc, SlotOf
<1>7. DialsInTurn
  BY <1>1, <1>2, <1>3 DEF SessionInit, DialsInTurn, Pc
<1>8. LanesInTurn
  BY <1>1, <1>2, <1>3 DEF SessionInit, LanesInTurn, Pc
<1>9. AccessAlone
  BY <1>2, <1>3 DEF SessionInit, AccessAlone, Pc
<1>10. SessionsAgree /\ StreamsClean
  BY <1>1, <1>2, <1>4 DEF SessionInit, SessionsAgree, StreamsClean, SlotOf
<1> QED BY <1>5, <1>6, <1>7, <1>8, <1>9, <1>10 DEF SessionInv

LEMMA ProgressStep ==
  ASSUME NEW q \in Requests, SessionInv, Progress(q)
  PROVE  SessionInv'
<1>1. CASE ReadRevision(q)
  <2>1. CASE config.present
    BY <1>1, <2>1, LooksAtRevision DEF ReadRevision
  <2>2. CASE ~config.present
    <3>1. Returns(q) /\ UNCHANGED <<config, entry>>
      BY <1>1, <2>2 DEF ReadRevision, Returns
    <3> QED BY <3>1, LeavesHonestly
  <2> QED BY <2>1, <2>2
<1>2. CASE LookUp(q)
  BY <1>2, LooksUp
<1>3. CASE Recheck(q)
  BY <1>3, Rechecks
<1>4. CASE Dial(q)
  <2>1. CASE Current(req[q].rev)
    BY <1>4, <2>1, DialsCurrent DEF Dial, Step
  <2>2. CASE ~Current(req[q].rev)
    <3>1. Returns(q) /\ UNCHANGED <<config, entry>>
      BY <1>4, <2>2 DEF Dial, Returns
    <3> QED BY <3>1, LeavesHonestly
  <2> QED BY <2>1, <2>2
<1>5. CASE DialFails(q)
  <2>1. Returns(q) /\ UNCHANGED <<config, entry>>
    BY <1>5 DEF DialFails, Returns
  <2> QED BY <2>1, LeavesHonestly
<1>6. CASE Insert(q)
  BY <1>6, Inserts
<1>7. CASE Subscribe(q)
  <2>1. CASE session[SlotOf(q)].open
    <3>1. SlotOf(q) \in Slots
      BY <1>7 DEF Subscribe, SessionInv, SlotsUsed, Attached
    <3> QED BY <1>7, <2>1, <3>1, Waiting
  <2>2. CASE ~session[SlotOf(q)].open
    <3>1. Returns(q) /\ UNCHANGED <<config, entry>>
      BY <1>7, <2>2 DEF Subscribe, Returns
    <3> QED BY <3>1, LeavesHonestly
  <2> QED BY <2>1, <2>2
<1>8. CASE Access(q)
  BY <1>8, Enters
<1>9. CASE TakeLane(q)
  <2>1. CASE session[SlotOf(q)].open
    BY <1>9, <2>1, TakesLane
  <2>2. CASE ~session[SlotOf(q)].open
    <3>1. Returns(q) /\ UNCHANGED <<config, entry>>
      BY <1>9, <2>2 DEF TakeLane, Returns
    <3> QED BY <3>1, LeavesHonestly
  <2> QED BY <2>1, <2>2
<1>10. CASE CloseSeen(q) \/ StartFails(q) \/ RecordFails(q) \/ Settle(q) \/ ObserveFails(q)
  <2>1. Returns(q) /\ UNCHANGED <<config, entry>>
    BY <1>10 DEF Returns, CloseSeen, StartFails, RecordFails, Settle, ObserveFails
  <2> QED BY <2>1, LeavesHonestly
<1>11. CASE StartAgent(q)
  BY <1>11, StartsAgent
<1>12. CASE Send(q)
  BY <1>12, Sends
<1>13. CASE ReadInterrupted(q) /\ ~session[SlotOf(q)].link
  <2>1. Returns(q) /\ UNCHANGED <<config, entry>>
    BY <1>13 DEF ReadInterrupted, Returns
  <2> QED BY <2>1, LeavesHonestly
<1>14. CASE \/ Answer(q) \/ Misread(q) \/ WriteInterrupted(q) \/ Disconnected(q)
            \/ ReadInterrupted(q) /\ session[SlotOf(q)].link
  BY <1>14, Returned
<1> QED BY <1>1, <1>2, <1>3, <1>4, <1>5, <1>6, <1>7, <1>8, <1>9, <1>10, <1>11, <1>12, <1>13, <1>14 DEF Progress

LEMMA OutsideStep ==
  ASSUME SessionInv, Environment \/ Pings
  PROVE  SessionInv'
<1>0. SessionTypes
  BY DEF SessionInv
<1>1. ASSUME NEW s \in Slots, IdleClose(s) PROVE SessionInv'
  BY <1>1, Closes DEF IdleClose
<1>2. ASSUME NEW s \in Slots, LinkLost(s) PROVE SessionInv'
  BY <1>2, LosesLink
<1>3. ASSUME NEW s \in Slots, NEW l \in Lanes, PingStart(s, l) \/ PingEnd(s, l) PROVE SessionInv'
  BY <1>3, PingsStart, PingsEnd
<1>4. ASSUME Edit \/ RemoveServer PROVE SessionInv'
  <2>1. UNCHANGED <<entry, session, access, lane, connecting, req, read>>
    BY <1>4 DEF Edit, RemoveServer
  <2>2. config' \in [rev : Nat, present : BOOLEAN]
    <3>1. config \in [rev : Nat, present : BOOLEAN]
      BY <1>0 DEF SessionTypes
    <3>2. CASE Edit
      <4>1. config.rev + 1 \in Nat /\ config' = [config EXCEPT !.rev = config.rev + 1]
        BY <3>1, <3>2 DEF Edit
      <4> QED BY <3>1, <4>1
    <3>3. CASE RemoveServer
      BY <3>1, <3>3 DEF RemoveServer
    <3> QED BY <1>4, <3>2, <3>3
  <2>3. /\ read' \in [Requests -> {"none", "claimed", "cancelled"}]
        /\ \A q \in Requests : read'[q] # "none" => read[q] # "none"
        /\ UNCHANGED <<entry, session, access, lane, connecting, req>>
    BY <2>1, <1>0 DEF SessionTypes
  <2> QED BY <2>2, <2>3, Reconfigures
<1>5. ASSUME Disconnect PROVE SessionInv'
  <2>1. entry \in Slots
    BY <1>5, <1>0 DEF Disconnect, SessionTypes
  <2> QED BY <1>5, <2>1, Closes DEF Disconnect
<1> QED BY <1>1, <1>2, <1>3, <1>4, <1>5 DEF Environment, Pings

LEMMA SessionStep == SessionInv /\ [SessionNext]_sessionVars => SessionInv'
<1> SUFFICES ASSUME SessionInv, [SessionNext]_sessionVars PROVE SessionInv'
  OBVIOUS
<1>0. SessionTypes
  BY DEF SessionInv
<1>1. ASSUME NEW q \in Requests, Register(q) \/ Invoke(q) PROVE SessionInv'
  BY <1>1, Begins
<1>2. ASSUME NEW q \in Requests, CancelRead(q) PROVE SessionInv'
  <2>1. UNCHANGED <<entry, session, access, lane, connecting, req>> /\ config' \in [rev : Nat, present : BOOLEAN]
    BY <1>2, <1>0 DEF CancelRead, SessionTypes
  <2>2. /\ read' \in [Requests -> {"none", "claimed", "cancelled"}]
        /\ \A p \in Requests : read'[p] # "none" => read[p] # "none"
    BY <1>2, <1>0 DEF CancelRead, SessionTypes
  <2> QED BY <2>1, <2>2, Reconfigures
<1>3. ASSUME NEW q \in Requests, CancelSeen(q) PROVE SessionInv'
  BY <1>3, LeavesCancelled
<1>4. ASSUME NEW q \in Requests, Deliver(q) PROVE SessionInv'
  BY <1>4, Delivers
<1>5. ASSUME NEW q \in Requests, Progress(q) PROVE SessionInv'
  BY <1>5, ProgressStep
<1>6. CASE Environment \/ Pings
  BY <1>6, OutsideStep
<1>7. CASE UNCHANGED sessionVars
  <2>1. /\ config' \in [rev : Nat, present : BOOLEAN]
        /\ read' \in [Requests -> {"none", "claimed", "cancelled"}]
        /\ \A p \in Requests : read'[p] # "none" => read[p] # "none"
        /\ UNCHANGED <<entry, session, access, lane, connecting, req>>
    BY <1>7, <1>0 DEF sessionVars, SessionTypes
  <2> QED BY <2>1, Reconfigures
<1> QED BY <1>1, <1>2, <1>3, <1>4, <1>5, <1>6, <1>7 DEF SessionNext

LEMMA InvariantSuffices == SessionInv => SessionSound
<1> SUFFICES ASSUME SessionInv PROVE SessionSound
  OBVIOUS
<1>0. SessionTypes /\ DialsInTurn /\ LanesInTurn /\ StreamsClean /\ HonestFate
  BY DEF SessionInv
<1>1. \A s \in Slots, l \in Lanes : session[s].stream[l] \in {"none", "clean", "dirty", "foreign"}
  BY <1>0 DEF SessionTypes, SlotStates
<1>2. \A s \in Slots, l \in Lanes, q \in Requests :
        Holds(q, lane[s][l]) => SlotOf(q) = s /\ LaneOf(req[q].kind) = l
  BY <1>0, LaneHeld
<1>3. SessionTypeOK
  BY <1>0, <1>1, <1>2 DEF SessionTypeOK, SessionTypes, DialsInTurn
<1> QED BY <1>0, <1>3 DEF SessionSound

LEMMA SessionInvariance == SessionSpec => []SessionInv
  BY SessionStarts, SessionStep, PTL DEF SessionSpec

\* For any number of requests that share a server's session: what is cancelled, times
\* out, loses its channel or gets another request's frame leaves no part of its answer
\* in its lane.  Of a write, an outcome came from the agent, an unknown one means that
\* it was sent, and an error that invites a retry that it was not.  What is no frame of
\* the protocol at all is outside both: the lane keeps that stream, and the error says
\* nothing of a write (git/mod.rs git_request; git/reads.rs response; git/client.rs
\* receive).
THEOREM SessionIsSound == SessionSpec => []SessionSound
  BY SessionInvariance, InvariantSuffices, PTL

-----------------------------------------------------------------------------
(* Who closes a session.                                                     *)

LEMMA StreamsStayOpen ==
  ASSUME NEW s \in Slots, NEW t, NEW l, NEW to, SessionTypes, SetStream(t, l, to)
  PROVE  session'[s].open = session[s].open
<1>1. session \in [Slots -> SlotStates] /\ session[s] \in SlotStates
  BY DEF SessionTypes
<1>2. CASE s = t
  BY <1>1, <1>2 DEF SetStream, SlotStates
<1>3. CASE s # t
  BY <1>1, <1>3 DEF SetStream
<1> QED BY <1>2, <1>3

LEMMA ShutIsOther ==
  ASSUME NEW s \in Slots, NEW t, SessionTypes, Shut(t), t # s
  PROVE  session'[s] = session[s]
  BY DEF SessionTypes, Shut

\* The steps that close a session, and whose it was.
LEMMA Closers ==
  ASSUME NEW s \in Slots, SessionTypes, SessionNext, session[s].open, ~session'[s].open
  PROVE  \/ \E p \in Requests : Recheck(p) /\ entry = s /\ ~Live(req[p].rev)
         \/ \E p \in Requests : StartFails(p) /\ SlotOf(p) = s /\ (Mutation(req[p].kind) \/ ~session[s].link)
         \/ \E p \in Requests : WriteInterrupted(p) /\ SlotOf(p) = s
         \/ \E p \in Requests : ReadInterrupted(p) /\ SlotOf(p) = s /\ ~session[s].link
         \/ \E p \in Requests : Settle(p) /\ SlotOf(p) = s /\ ~Current(req[p].rev)
         \/ IdleClose(s)
         \/ Disconnect /\ entry = s
<1>1. ASSUME UNCHANGED session PROVE FALSE
  BY <1>1
<1>2. ASSUME NEW t, NEW l, NEW to, SetStream(t, l, to) PROVE FALSE
  BY <1>2, StreamsStayOpen
<1>3. ASSUME NEW t, Shut(t) PROVE t = s
  BY <1>3, ShutIsOther
<1>4. ASSUME NEW p \in Requests,
             \/ Register(p) \/ CancelRead(p) \/ Deliver(p) \/ Invoke(p)
             \/ ReadRevision(p) \/ LookUp(p) \/ Dial(p) \/ DialFails(p)
             \/ Subscribe(p) \/ Access(p) \/ TakeLane(p) \/ CloseSeen(p)
             \/ RecordFails(p) \/ Disconnected(p) \/ ObserveFails(p)
      PROVE  FALSE
  <2>1. UNCHANGED session
    BY <1>4 DEF Register, CancelRead, Deliver, Invoke, ReadRevision, LookUp, Dial, DialFails,
                Subscribe, Access, TakeLane, CloseSeen, RecordFails, Disconnected, ObserveFails
  <2> QED BY <2>1, <1>1
<1>5. ASSUME NEW p \in Requests, CancelSeen(p) \/ StartAgent(p) \/ Send(p) \/ Answer(p) \/ Misread(p)
      PROVE  FALSE
  <2>1. UNCHANGED session \/ \E to : SetStream(SlotOf(p), LaneOf(req[p].kind), to)
    BY <1>5 DEF CancelSeen, Retire, StartAgent, Send, Answer, Misread
  <2> QED BY <2>1, <1>1, <1>2
<1>6. ASSUME NEW p \in Requests, Recheck(p)
      PROVE  Recheck(p) /\ entry = s /\ ~Live(req[p].rev)
  <2>1. CASE Live(req[p].rev)
    BY <2>1, <1>6, <1>1 DEF Recheck
  <2>2. CASE ~Live(req[p].rev) /\ entry = Nothing
    BY <2>2, <1>6, <1>1 DEF Recheck
  <2>3. CASE ~Live(req[p].rev) /\ entry # Nothing
    BY <2>3, <1>6, <1>3 DEF Recheck
  <2> QED BY <2>1, <2>2, <2>3
<1>7. ASSUME NEW p \in Requests, Insert(p) PROVE FALSE
  <2>1. PICK t \in Unused : session' = [session EXCEPT ![t] = Opened(req[p].rev)]
    BY <1>7 DEF Insert
  <2>2. session \in [Slots -> SlotStates] /\ Opened(req[p].rev).open
    BY DEF SessionTypes, Opened
  <2>3. session'[s] = session[s] \/ session'[s] = Opened(req[p].rev)
    BY <2>1, <2>2
  <2> QED BY <2>2, <2>3
<1>8. ASSUME NEW p \in Requests, StartFails(p)
      PROVE  StartFails(p) /\ SlotOf(p) = s /\ (Mutation(req[p].kind) \/ ~session[s].link)
  <2>1. CASE ~Mutation(req[p].kind) /\ session[SlotOf(p)].link
    BY <2>1, <1>8, <1>1 DEF StartFails
  <2>2. CASE ~(~Mutation(req[p].kind) /\ session[SlotOf(p)].link)
    BY <2>2, <1>8, <1>3 DEF StartFails
  <2> QED BY <2>1, <2>2
<1>9. ASSUME NEW p \in Requests, WriteInterrupted(p)
      PROVE  WriteInterrupted(p) /\ SlotOf(p) = s
  BY <1>9, <1>3 DEF WriteInterrupted
<1>10. ASSUME NEW p \in Requests, ReadInterrupted(p)
       PROVE  ReadInterrupted(p) /\ SlotOf(p) = s /\ ~session[s].link
  <2>1. CASE session[SlotOf(p)].link
    BY <2>1, <1>10, <1>2 DEF ReadInterrupted, Retire
  <2>2. CASE ~session[SlotOf(p)].link
    BY <2>2, <1>10, <1>3 DEF ReadInterrupted
  <2> QED BY <2>1, <2>2
<1>11. ASSUME NEW p \in Requests, Settle(p)
       PROVE  Settle(p) /\ SlotOf(p) = s /\ ~Current(req[p].rev)
  <2>1. CASE Current(req[p].rev)
    BY <2>1, <1>11, <1>1 DEF Settle
  <2>2. CASE ~Current(req[p].rev)
    BY <2>2, <1>11, <1>3 DEF Settle
  <2> QED BY <2>1, <2>2
<1>12. ASSUME NEW t \in Slots, IdleClose(t) PROVE IdleClose(s)
  BY <1>12, <1>3 DEF IdleClose
<1>13. ASSUME NEW t \in Slots, LinkLost(t) PROVE FALSE
  <2>1. session \in [Slots -> SlotStates] /\ session[s] \in SlotStates
    BY DEF SessionTypes
  <2>2. session'[s].open = session[s].open
    BY <2>1, <1>13 DEF LinkLost, SlotStates
  <2> QED BY <2>2
<1>14. ASSUME NEW t \in Slots, NEW l \in Lanes, PingStart(t, l) \/ PingEnd(t, l) PROVE FALSE
  BY <1>14, <1>1, <1>2 DEF PingStart, PingEnd
<1>15. ASSUME Edit \/ RemoveServer PROVE FALSE
  BY <1>15, <1>1 DEF Edit, RemoveServer
<1>16. ASSUME Disconnect PROVE Disconnect /\ entry = s
  BY <1>16, <1>3 DEF Disconnect
<1>17. CASE \E p \in Requests : \/ Register(p) \/ CancelRead(p) \/ CancelSeen(p) \/ Deliver(p)
                                \/ Invoke(p) \/ Progress(p)
  BY <1>17, <1>4, <1>5, <1>6, <1>7, <1>8, <1>9, <1>10, <1>11 DEF Progress
<1>18. CASE Environment \/ Pings
  BY <1>18, <1>12, <1>13, <1>14, <1>15, <1>16 DEF Environment, Pings
<1> QED BY <1>17, <1>18 DEF SessionNext

LEMMA NobodyLoses == SessionInv /\ [SessionNext]_sessionVars => [LosesNobody]_sessionVars
<1> SUFFICES ASSUME SessionInv, SessionNext, NEW q \in Requests,
                    OnTheWire(q), session[SlotOf(q)].link, ~session'[SlotOf(q)].open, req'[q] = req[q]
             PROVE  \/ ~Current(req[q].rev)
                    \/ \E p \in Requests : Pc(p) = "queue" /\ req[p].rev # req[q].rev
                    \/ entry = SlotOf(q) /\ entry' = Nothing /\ req' = req
  BY DEF LosesNobody
<1>0. SessionTypes /\ SlotsUsed /\ AccessAlone /\ SessionsAgree
  BY DEF SessionInv
<1>1. /\ Pc(q) = "sent" /\ SlotOf(q) \in Slots /\ session[SlotOf(q)].open
      /\ q \in access[SlotOf(q)].holders /\ session[SlotOf(q)].rev = req[q].rev
  <2>1. Pc(q) = "sent" /\ session[SlotOf(q)].open
    BY DEF OnTheWire
  <2>2. "sent" \in OnLane /\ SlotOf(q) \in Slots
    BY <2>1, <1>0 DEF SlotsUsed, Attached, OnLane
  <2> QED BY <2>1, <2>2, <1>0 DEF AccessAlone, SessionsAgree
<1>2. ASSUME NEW p \in Requests, Pc(p) \in OnLane, SlotOf(p) = SlotOf(q), Mutation(req[p].kind)
      PROVE  p = q
  <2>1. p \in access[SlotOf(q)].holders
    BY <1>0, <1>1, <1>2 DEF AccessAlone
  <2> QED BY <2>1, <1>0, <1>1, <1>2 DEF AccessAlone
<1>3. ASSUME NEW p \in Requests, Recheck(p), entry = SlotOf(q), ~Live(req[p].rev)
      PROVE  Pc(p) = "queue" /\ req[p].rev # req[q].rev
  <2>1. entry # Nothing
    BY <1>1, <1>3, NoneAssumption
  <2> QED BY <2>1, <1>1, <1>3 DEF Recheck, Live
<1>4. ASSUME NEW p \in Requests, StartFails(p), SlotOf(p) = SlotOf(q),
             Mutation(req[p].kind) \/ ~session[SlotOf(q)].link
      PROVE  FALSE
  <2>1. Pc(p) = "init" /\ Pc(p) \in OnLane
    BY <1>4 DEF StartFails, OnLane
  <2> QED BY <2>1, <1>1, <1>2, <1>4
<1>5. ASSUME NEW p \in Requests, WriteInterrupted(p), SlotOf(p) = SlotOf(q)
      PROVE  FALSE
  <2>1. Pc(p) \in OnLane /\ Mutation(req[p].kind) /\ Outcome(p, "unknown")
    BY <1>5 DEF WriteInterrupted, OnLane
  <2>2. p = q
    BY <2>1, <1>2, <1>5
  <2>3. req' = [req EXCEPT ![q].pc = "settle", ![q].result = "unknown"]
    BY <2>1, <2>2 DEF Outcome
  <2>4. "settle" \in CallSteps /\ "unknown" \in Results
    BY DEF CallSteps, Attached, OnLane, Results
  <2>5. req'[q].pc = "settle"
    BY <2>3, <2>4, <1>0, CallJudged
  <2> QED BY <2>5, <1>1 DEF Pc
<1>6. ASSUME NEW p \in Requests, Settle(p), SlotOf(p) = SlotOf(q), ~Current(req[p].rev)
      PROVE  ~Current(req[q].rev)
  BY <1>0, <1>1, <1>6 DEF SessionsAgree
<1>7. ASSUME IdleClose(SlotOf(q)) PROVE FALSE
  BY <1>7, <1>1 DEF IdleClose
<1>8. ASSUME Disconnect, entry = SlotOf(q) PROVE entry = SlotOf(q) /\ entry' = Nothing /\ req' = req
  BY <1>8 DEF Disconnect
<1> QED BY <1>0, <1>1, <1>3, <1>4, <1>5, <1>6, <1>7, <1>8, Closers

\* A request that is on the wire of a live link keeps its session, but for a disconnect
\* the user asks for or a change of the configuration: idle closing, other calls that
\* fail, are cancelled or connect never take it away (git/mod.rs; git/reads.rs).
THEOREM CallsUndisturbed == SessionSpec => Undisturbed
  BY SessionInvariance, NobodyLoses, PTL DEF SessionSpec, Undisturbed
=============================================================================

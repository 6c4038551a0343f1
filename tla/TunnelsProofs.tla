--------------------------- MODULE TunnelsProofs ---------------------------
(***************************************************************************)
(* What the tunnels of the desktop keep to, for any number of tunnels,     *)
(* servers, port ranges and edits: two supervisors never work on the same  *)
(* local ports, none outlives the settings it was made with, and what is   *)
(* shown of a tunnel is true.  TunnelInv is inductive: it says in addition *)
(* what the steps that a command has still to do make up for.              *)
(***************************************************************************)
EXTENDS Tunnels, FiniteSetTheorems, TLAPS

Active   == {"connecting", "connected", "reconnecting"}

\* Working, and not about to end.
Works(t) == task[t].at \in Live \ {"end"}

Pending(step, t) == \E i \in 1 .. Len(todo) : todo[i] = Do(step, t)

\* What a stop is followed by is about the same tunnel.
Paired(q) == \A i \in 2 .. Len(q) : q[i].do # "stop" => q[i - 1] = Do("stop", q[i].tunnel)

\* What is started before the last step of a command is saved.
Startable == \A i \in 1 .. (Len(todo) - 1) : todo[i].do = "start" => saved[todo[i].tunnel] # NoConfig

Shape ==
  /\ Paired(todo)
  /\ Startable
  /\ \A t \in Tunnel : Doing("forget", t) => task[t].at = "none"

\* A supervisor that works on what is not saved any more is going to be stopped before
\* anything is started.
Obsolete(t) == Works(t) /\ (task[t].config # saved[t])
Outdated(t) == Works(t) /\ saved[t] # NoConfig /\ task[t].settings # settings[saved[t].server]
SavedInv(t) ==
  /\ Obsolete(t) => Pending("stop", t) /\ (\A i \in 1 .. Len(todo) : todo[i].do = "start" => i = 2 /\ todo[1] = Do("stop", t))
  /\ Outdated(t) => Pending("stop", t)
  /\ saved[t] = NoConfig => status[t] \in {"none", "disconnected"} \/ Pending("stop", t)

TaskInv(t) ==
  /\ task[t].at = "none" => ~task[t].cancel
  /\ task[t].cancel => Doing("stop", t)
  /\ task[t].at = "close" /\ ~task[t].retry => task[t].cancel
  /\ Works(t) => status[t] \in Active
  /\ task[t].at = "serve" => status[t] = "connected"
  /\ status[t] \in Active => Works(t) \/ task[t].cancel
  /\ status[t] \in {"none", "disconnected"} => task[t].at = "none"
  /\ t \in health => status[t] = "connected"

\* Of two tunnels with one range of saved ports one does not run; and what a command
\* starts before its last step can be started.
PortsInv(t, u) ==
  /\ Alive(t) /\ Alive(u) /\ NoConfig \notin {saved[t], saved[u]} => saved[t].port # saved[u].port
  /\ Works(t) /\ Works(u) => task[t].config.port # task[u].config.port
  /\ \A i \in 1 .. (Len(todo) - 1) :
       todo[i] = Do("start", t) /\ (Alive(u) \/ Pending("start", u)) /\ saved[u] # NoConfig
         => saved[t].port # saved[u].port

TunnelInv ==
  /\ TunnelTypeOK
  /\ \A s \in Server : settings[s] <= edits
  /\ Shape
  /\ \A t \in Tunnel : SavedInv(t) /\ TaskInv(t)
  /\ \A t, u \in Tunnel : t # u => PortsInv(t, u)
-----------------------------------------------------------------------------
(* The steps of a command *)

\* What is left after the first step: commands are worked off from the front.
LEMMA HeadTail ==
  ASSUME NEW q \in Seq(Steps), q # <<>>
  PROVE  /\ Head(q) = q[1] /\ Len(q) \in Nat \ {0} /\ q[1] \in Steps
         /\ Tail(q) \in Seq(Steps) /\ Len(Tail(q)) = Len(q) - 1
         /\ \A i \in 1 .. (Len(q) - 1) : Tail(q)[i] = q[i + 1]
OBVIOUS

\* The two places of each tunnel in a sequence of restarts or removals.
LEMMA EachPlaces ==
  ASSUME NEW S \in SUBSET Tunnel, NEW order \in Seq(S), NEW step \in {"start", "forget"}
  PROVE  /\ Each(order, step) \in Seq(Steps)
         /\ Len(Each(order, step)) = 2 * Len(order)
         /\ \A k \in 1 .. Len(order) : /\ Each(order, step)[2 * k - 1] = Do("stop", order[k])
                                       /\ Each(order, step)[2 * k] = Do(step, order[k])
<1> DEFINE q == Each(order, step)
           n == 2 * Len(order)
<1>1. Len(order) \in Nat /\ n \in Nat
  OBVIOUS
<1>2. ASSUME NEW i \in 1 .. n
      PROVE  \/ i % 2 = 1 /\ (i + 1) \div 2 \in 1 .. Len(order)
             \/ i % 2 # 1 /\ i \div 2 \in 1 .. Len(order)
  BY <1>1, <1>2
<1>3. \A i \in 1 .. n : q[i] \in Steps
  BY <1>1, <1>2 DEF Each, Do, Steps
<1>4. q \in Seq(Steps) /\ Len(q) = n
  BY <1>1, <1>3 DEF Each
<1>5. ASSUME NEW k \in 1 .. Len(order)
      PROVE  /\ 2 * k - 1 \in 1 .. n /\ (2 * k - 1) % 2 = 1 /\ ((2 * k - 1) + 1) \div 2 = k
             /\ 2 * k \in 1 .. n /\ (2 * k) % 2 # 1 /\ (2 * k) \div 2 = k
  BY <1>1, <1>5
<1>6. \A k \in 1 .. Len(order) : q[2 * k - 1] = Do("stop", order[k]) /\ q[2 * k] = Do(step, order[k])
  BY <1>1, <1>5 DEF Each
<1> QED
  BY <1>4, <1>6

\* Tunnels in any order are each stopped once, before something else is done with them.
LEMMA EachTunnel ==
  ASSUME NEW S \in SUBSET Tunnel, NEW order \in Orders(S), NEW step \in {"start", "forget"}
  PROVE  /\ Each(order, step) \in Seq(Steps)
         /\ Paired(Each(order, step))
         /\ Each(order, step) # <<>> => Each(order, step)[1].do = "stop"
         /\ \A i \in 1 .. Len(Each(order, step)) :
              Each(order, step)[i].do \in {"stop", step} /\ Each(order, step)[i].tunnel \in S
         /\ \A t \in S : \E i \in 1 .. Len(Each(order, step)) : Each(order, step)[i] = Do("stop", t)
<1>1. PICK q : q = Each(order, step)
  OBVIOUS
<1>2. Cardinality(S) \in Nat
  BY TunnelAssumption, FS_Subset, FS_CardinalityType
<1>3. order \in Seq(S) /\ order \in Seq(Tunnel) /\ \A t \in S : \E k \in 1 .. Len(order) : order[k] = t
  BY <1>2 DEF Orders, Bijection, Injection, Surjection
<1>4. /\ q \in Seq(Steps)
      /\ Len(q) = 2 * Len(order)
      /\ \A k \in 1 .. Len(order) : q[2 * k - 1] = Do("stop", order[k]) /\ q[2 * k] = Do(step, order[k])
  BY <1>1, <1>3, EachPlaces
<1>5. Len(order) \in Nat
  BY <1>3
<1>6. ASSUME NEW i \in 1 .. Len(q)
      PROVE  \E k \in 1 .. Len(order) : i = 2 * k - 1 \/ i = 2 * k
  <2>1. i \in Nat /\ i >= 1 /\ i <= 2 * Len(order)
    BY <1>4, <1>5
  <2>2. CASE i % 2 = 1
    <3>1. (i + 1) \div 2 \in 1 .. Len(order) /\ i = 2 * ((i + 1) \div 2) - 1
      BY <2>1, <2>2, <1>5
    <3> QED  BY <3>1
  <2>3. CASE i % 2 # 1
    <3>1. i \div 2 \in 1 .. Len(order) /\ i = 2 * (i \div 2)
      BY <2>1, <2>3, <1>5
    <3> QED  BY <3>1
  <2> QED  BY <2>2, <2>3
<1>7. Paired(q)
  <2> SUFFICES ASSUME NEW i \in 2 .. Len(q), q[i].do # "stop"
               PROVE  q[i - 1] = Do("stop", q[i].tunnel)
    BY DEF Paired
  <2>1. i \in 1 .. Len(q)
    BY <1>4, <1>5
  <2>2. PICK k \in 1 .. Len(order) : i = 2 * k - 1 \/ i = 2 * k
    BY <2>1, <1>6
  <2>3. q[2 * k - 1] = Do("stop", order[k]) /\ q[2 * k] = Do(step, order[k])
    BY <1>4
  <2>4. i # 2 * k - 1
    BY <2>3 DEF Do
  <2>5. i = 2 * k /\ i - 1 = 2 * k - 1
    BY <2>2, <2>4, <1>5
  <2> QED  BY <2>3, <2>5 DEF Do
<1>8. q # <<>> => q[1].do = "stop"
  <2>1. q # <<>> => 1 \in 1 .. Len(order) /\ 2 * 1 - 1 = 1
    BY <1>4, <1>5
  <2>2. q # <<>> => q[2 * 1 - 1] = Do("stop", order[1])
    BY <2>1, <1>4
  <2> QED  BY <2>1, <2>2 DEF Do
<1>9. \A i \in 1 .. Len(q) : q[i].do \in {"stop", step} /\ q[i].tunnel \in S
  <2> SUFFICES ASSUME NEW i \in 1 .. Len(q)
               PROVE  q[i].do \in {"stop", step} /\ q[i].tunnel \in S
    OBVIOUS
  <2>1. PICK k \in 1 .. Len(order) : i = 2 * k - 1 \/ i = 2 * k
    BY <1>6
  <2>2. q[2 * k - 1] = Do("stop", order[k]) /\ q[2 * k] = Do(step, order[k])
    BY <1>4
  <2>3. order[k] \in S
    BY <1>3
  <2> QED  BY <2>1, <2>2, <2>3 DEF Do
<1>10. ASSUME NEW t \in S
       PROVE  \E i \in 1 .. Len(q) : q[i] = Do("stop", t)
  <2>1. PICK k \in 1 .. Len(order) : order[k] = t
    BY <1>3
  <2>2. 2 * k - 1 \in 1 .. Len(q)
    BY <1>4, <1>5
  <2> QED  BY <2>1, <2>2, <1>4
<1> QED
  BY <1>1, <1>4, <1>7, <1>8, <1>9, <1>10
-----------------------------------------------------------------------------
(* A step of a supervisor *)

\* It works on with the copies it was spawned with, or has ended; nothing else changes.
Supervises(t) ==
  /\ UNCHANGED <<saved, servers, settings, edits, todo, world>>
  /\ task' \in [Tunnel -> Task]
  /\ status' \in [Tunnel -> Statuses]
  /\ health' \subseteq Tunnel
  /\ \A u \in Tunnel \ {t} : task'[u] = task[u] /\ status'[u] = status[u] /\ (u \in health' => u \in health)
  /\ task'[t].config = task[t].config
  /\ task'[t].settings = task[t].settings
  /\ task[t].at # "none" /\ task'[t].at # "none"
  /\ Alive(t)' => Alive(t)
  /\ Works(t)' => Works(t)

LEMMA SupervisorStep ==
  ASSUME NEW t \in Tunnel, TunnelInv, Supervises(t), TaskInv(t)'
  PROVE  TunnelInv'
<1>1. TunnelTypeOK'
  <2>1. ASSUME NEW u \in Tunnel, Alive(u)'
        PROVE  task'[u].config # NoConfig
    BY <2>1 DEF TunnelInv, TunnelTypeOK, Supervises, Alive
  <2> QED  BY <2>1 DEF TunnelInv, TunnelTypeOK, Supervises
<1>2. \A s \in Server : settings'[s] <= edits'
  BY DEF TunnelInv, Supervises
<1>3. Shape'
  BY DEF TunnelInv, Supervises, Shape, Startable, Paired, Doing
<1>4. ASSUME NEW u \in Tunnel
      PROVE  SavedInv(u)'
  <2>1. (Works(u)' => Works(u)) /\ task'[u].config = task[u].config /\ task'[u].settings = task[u].settings
    BY DEF Supervises, Works
  <2>2. saved[u] = NoConfig => status'[u] \in {"none", "disconnected"} \/ Pending("stop", u)
    BY DEF TunnelInv, Supervises, SavedInv, TaskInv
  <2> QED  BY <2>1, <2>2 DEF TunnelInv, Supervises, SavedInv, Obsolete, Outdated, Pending
<1>5. ASSUME NEW u \in Tunnel
      PROVE  TaskInv(u)'
  <2>1. CASE u = t
    BY <2>1
  <2>2. CASE u # t
    BY <2>2 DEF TunnelInv, Supervises, TaskInv, Works, Doing
  <2> QED  BY <2>1, <2>2
<1>6. ASSUME NEW u \in Tunnel, NEW w \in Tunnel, u # w
      PROVE  PortsInv(u, w)'
  <2>1. \A v \in {u, w} : (Alive(v)' => Alive(v)) /\ (Works(v)' => Works(v)) /\ task'[v].config = task[v].config
    BY DEF Supervises, Works, Alive
  <2>2. PortsInv(u, w)
    BY <1>6 DEF TunnelInv
  <2> QED  BY <2>1, <2>2 DEF Supervises, PortsInv, Pending
<1> QED
  BY <1>1, <1>2, <1>3, <1>4, <1>5, <1>6 DEF TunnelInv

\* The fields of a supervisor that a move leaves alone.
LEMMA Moved ==
  ASSUME NEW t \in Tunnel, NEW at \in Points, task \in [Tunnel -> Task],
         task' = [task EXCEPT ![t].at = at]
  PROVE  /\ task' \in [Tunnel -> Task]
         /\ \A u \in Tunnel \ {t} : task'[u] = task[u]
         /\ task'[t].config = task[t].config /\ task'[t].settings = task[t].settings
         /\ task'[t].at = at
         /\ task'[t].cancel = task[t].cancel /\ task'[t].retry = task[t].retry
BY DEF Task

LEMMA MovedRetry ==
  ASSUME NEW t \in Tunnel, NEW at \in Points, NEW retry \in BOOLEAN, task \in [Tunnel -> Task],
         task' = [task EXCEPT ![t].at = at, ![t].retry = retry]
  PROVE  /\ task' \in [Tunnel -> Task]
         /\ \A u \in Tunnel \ {t} : task'[u] = task[u]
         /\ task'[t].config = task[t].config /\ task'[t].settings = task[t].settings
         /\ task'[t].at = at
         /\ task'[t].cancel = task[t].cancel /\ task'[t].retry = retry
BY DEF Task

\* A move between the points of a supervisor's work, with what it shows.
LEMMA MoveInv ==
  ASSUME NEW t \in Tunnel, NEW at \in Points \ {"none"}, TunnelInv, Quiet,
         task' \in [Tunnel -> Task],
         \A u \in Tunnel \ {t} : task'[u] = task[u],
         task'[t].config = task[t].config, task'[t].settings = task[t].settings,
         task'[t].at = at, task'[t].cancel = task[t].cancel,
         Works(t) \/ (task[t].at = "end" /\ at = "finished"),
         at = "close" /\ ~task'[t].retry => task[t].cancel,
         \/ /\ UNCHANGED <<status, health>>
            /\ at = "serve" => task[t].at = "serve"
            /\ at \in {"end", "finished"} => task[t].cancel \/ task[t].at = "end"
         \/ /\ SetState(t, "connected") /\ at = "serve"
         \/ /\ SetState(t, "error") /\ at = "end"
         \/ /\ SetState(t, "reconnecting") /\ at = "backoff"
  PROVE  TunnelInv'
<1>1. TaskInv(t) /\ status \in [Tunnel -> Statuses] /\ health \subseteq Tunnel
  BY DEF TunnelInv, TunnelTypeOK
<1>2. /\ status' \in [Tunnel -> Statuses]
      /\ health' \subseteq Tunnel
      /\ \A u \in Tunnel \ {t} : status'[u] = status[u] /\ (u \in health' => u \in health)
  BY <1>1 DEF SetState, Statuses
<1>3. Alive(t) /\ (Works(t)' => Works(t))
  BY DEF Works, Alive, Live
<1>4. Supervises(t)
  BY <1>2, <1>3 DEF Supervises, Quiet, Alive, Live
<1>5. TaskInv(t)'
  <2>1. Doing("stop", t)' <=> Doing("stop", t)
    BY DEF Doing, Quiet
  <2>2. CASE /\ UNCHANGED <<status, health>>
             /\ at = "serve" => task[t].at = "serve"
             /\ at \in {"end", "finished"} => task[t].cancel \/ task[t].at = "end"
    BY <1>1, <1>3, <2>1, <2>2 DEF TaskInv, Works, Active, Live, Points
  <2>3. CASE SetState(t, "connected") /\ at = "serve"
    BY <1>1, <1>3, <2>1, <2>3 DEF TaskInv, Works, Active, Live, SetState
  <2>4. CASE SetState(t, "error") /\ at = "end"
    BY <1>1, <1>3, <2>1, <2>4 DEF TaskInv, Works, Active, Live, SetState
  <2>5. CASE SetState(t, "reconnecting") /\ at = "backoff"
    BY <1>1, <1>3, <2>1, <2>5 DEF TaskInv, Works, Active, Live, SetState
  <2> QED  BY <2>2, <2>3, <2>4, <2>5
<1> QED
  BY <1>4, <1>5, SupervisorStep

LEMMA PlainMove ==
  ASSUME NEW t \in Tunnel, NEW at \in Points \ {"none", "close"}, TunnelInv, Quiet,
         task' = [task EXCEPT ![t].at = at],
         Works(t) \/ (task[t].at = "end" /\ at = "finished"),
         \/ /\ UNCHANGED <<status, health>>
            /\ at # "serve"
            /\ at \in {"end", "finished"} => task[t].cancel \/ task[t].at = "end"
         \/ /\ SetState(t, "connected") /\ at = "serve"
         \/ /\ SetState(t, "error") /\ at = "end"
         \/ /\ SetState(t, "reconnecting") /\ at = "backoff"
  PROVE  TunnelInv'
<1>1. task \in [Tunnel -> Task] /\ at \in Points \ {"none"}
  BY DEF TunnelInv, TunnelTypeOK
<1>2. /\ task' \in [Tunnel -> Task]
      /\ \A u \in Tunnel \ {t} : task'[u] = task[u]
      /\ task'[t].config = task[t].config /\ task'[t].settings = task[t].settings
      /\ task'[t].at = at
      /\ task'[t].cancel = task[t].cancel
  BY <1>1, Moved
<1>3. ~(at = "close" /\ ~task'[t].retry)
  OBVIOUS
<1> QED
  BY <1>1, <1>2, <1>3, MoveInv

LEMMA RetryMove ==
  ASSUME NEW t \in Tunnel, NEW at \in Points \ {"none", "end", "finished", "serve"},
         NEW retry \in BOOLEAN, TunnelInv, Quiet, Works(t),
         task' = [task EXCEPT ![t].at = at, ![t].retry = retry],
         at = "close" => retry,
         UNCHANGED <<status, health>>
  PROVE  TunnelInv'
<1>1. task \in [Tunnel -> Task] /\ at \in Points \ {"none"}
  BY DEF TunnelInv, TunnelTypeOK
<1>2. /\ task' \in [Tunnel -> Task]
      /\ \A u \in Tunnel \ {t} : task'[u] = task[u]
      /\ task'[t].config = task[t].config /\ task'[t].settings = task[t].settings
      /\ task'[t].at = at
      /\ task'[t].cancel = task[t].cancel
      /\ task'[t].retry = retry
  BY <1>1, MovedRetry
<1>3. ~(at = "close" /\ ~task'[t].retry)
  BY <1>2
<1> QED
  BY <1>1, <1>2, <1>3, MoveInv

\* The points of a supervisor, as the set they are.
LEMMA PointsIn ==
  /\ Points = {"none", "finished", "ready", "bind", "connect", "serve", "close", "failed", "backoff", "end"}
  /\ \A t : Works(t) <=> task[t].at \in {"ready", "bind", "connect", "serve", "close", "failed", "backoff"}
BY DEF Points, Live, Works

\* Every step of a supervisor.
LEMMA SuperviseInv ==
  ASSUME NEW t \in Tunnel, TunnelInv, Supervise(t)
  PROVE  TunnelInv'
<1>1. CASE Ready(t)
  BY <1>1, PlainMove, PointsIn DEF Ready, Move
<1>2. CASE Bind(t)
  <2>1. CASE Move(t, "bind", "connect")
    BY <1>2, <2>1, PlainMove, PointsIn DEF Bind, Move
  <2>2. CASE task' = [task EXCEPT ![t].at = "failed", ![t].retry = FALSE]
    BY <1>2, <2>2, RetryMove, PointsIn DEF Bind
  <2> QED  BY <1>2, <2>1, <2>2 DEF Bind
<1>3. CASE ConnectFails(t)
  <2>1. PICK retry \in BOOLEAN : task' = [task EXCEPT ![t].at = "failed", ![t].retry = retry]
    BY <1>3 DEF ConnectFails
  <2> QED  BY <1>3, <2>1, RetryMove, PointsIn DEF ConnectFails
<1>4. CASE Connected(t)
  BY <1>4, PlainMove, PointsIn DEF Connected, Move
<1>5. CASE Lost(t)
  BY <1>5, RetryMove, PointsIn DEF Lost
<1>6. CASE Closed(t)
  <2>1. TaskInv(t) /\ UNCHANGED <<status, health>> /\ Quiet
    BY <1>6 DEF TunnelInv, Closed
  <2>2. CASE task[t].retry /\ Move(t, "close", "failed")
    BY <2>1, <2>2, PlainMove, PointsIn DEF Move
  <2>3. CASE ~task[t].retry /\ Ends(t, "close")
    <3>1. task[t].cancel
      BY <2>1, <2>3 DEF TaskInv, Ends
    <3> QED  BY <2>1, <2>3, <3>1, PlainMove, PointsIn DEF Ends
  <2> QED  BY <1>6, <2>2, <2>3 DEF Closed
<1>7. CASE Failed(t)
  <2>1. CASE task[t].cancel /\ Ends(t, "failed") /\ UNCHANGED <<status, health>>
    BY <1>7, <2>1, PlainMove, PointsIn DEF Failed, Ends
  <2>2. CASE Move(t, "failed", "end") /\ SetState(t, "error")
    BY <1>7, <2>2, PlainMove, PointsIn DEF Failed, Move
  <2>3. CASE Move(t, "failed", "backoff") /\ SetState(t, "reconnecting")
    BY <1>7, <2>3, PlainMove, PointsIn DEF Failed, Move
  <2> QED  BY <1>7, <2>1, <2>2, <2>3 DEF Failed
<1>8. CASE End(t)
  BY <1>8, PlainMove, PointsIn DEF End, Ends
<1>9. CASE Retry(t)
  BY <1>9, RetryMove, PointsIn DEF Retry
<1> QED
  BY <1>1, <1>2, <1>3, <1>4, <1>5, <1>6, <1>7, <1>8, <1>9 DEF Supervise

\* A cancelled supervisor ends, or first closes its listeners.
LEMMA InterruptedInv ==
  ASSUME NEW t \in Tunnel, TunnelInv, Interrupted(t)
  PROVE  TunnelInv'
<1>1. task[t].cancel /\ UNCHANGED <<status, health>> /\ Quiet
  BY DEF Interrupted
<1>2. CASE \E p \in {"ready", "bind", "connect", "backoff"} : Ends(t, p)
  BY <1>1, <1>2, PlainMove, PointsIn DEF Ends
<1>3. CASE Move(t, "serve", "close")
  <2>1. task \in [Tunnel -> Task] /\ task' = [task EXCEPT ![t].at = "close"] /\ "close" \in Points \ {"none"}
    BY <1>3, PointsIn DEF TunnelInv, TunnelTypeOK, Move
  <2>2. /\ task' \in [Tunnel -> Task]
        /\ \A u \in Tunnel \ {t} : task'[u] = task[u]
        /\ task'[t].config = task[t].config /\ task'[t].settings = task[t].settings
        /\ task'[t].at = "close"
        /\ task'[t].cancel = task[t].cancel
    BY <2>1, Moved
  <2>3. Works(t)
    BY <1>3, PointsIn DEF Move
  <2> QED  BY <1>1, <2>1, <2>2, <2>3, MoveInv
<1> QED
  BY <1>2, <1>3 DEF Interrupted

\* Health is reported while a tunnel serves, and then it shows as connected.
LEMMA WatchInv ==
  ASSUME NEW t \in Tunnel, TunnelInv, Watch(t)
  PROVE  TunnelInv'
<1>1. TunnelTypeOK'
  BY DEF TunnelInv, TunnelTypeOK, Watch, Quiet, Alive
<1>2. \A u \in Tunnel : SavedInv(u)' /\ TaskInv(u)'
  BY DEF TunnelInv, Watch, Quiet, SavedInv, TaskInv, Obsolete, Outdated, Works, Pending, Doing
<1>3. \A u, w \in Tunnel : u # w => PortsInv(u, w)'
  BY DEF TunnelInv, Watch, Quiet, PortsInv, Works, Alive, Pending
<1>4. (\A s \in Server : settings'[s] <= edits') /\ Shape'
  BY DEF TunnelInv, Watch, Quiet, Shape, Startable, Paired, Doing
<1> QED
  BY <1>1, <1>2, <1>3, <1>4 DEF TunnelInv

\* Nothing of the tunnels changes with the system's state.
LEMMA SystemInv ==
  ASSUME TunnelInv, System
  PROVE  TunnelInv'
<1>1. TunnelTypeOK'
  BY DEF TunnelInv, TunnelTypeOK, System, Alive
<1>2. \A u \in Tunnel : SavedInv(u)' /\ TaskInv(u)'
  BY DEF TunnelInv, System, SavedInv, TaskInv, Obsolete, Outdated, Works, Pending, Doing
<1>3. \A u, w \in Tunnel : u # w => PortsInv(u, w)'
  BY DEF TunnelInv, System, PortsInv, Works, Alive, Pending
<1>4. (\A s \in Server : settings'[s] <= edits') /\ Shape'
  BY DEF TunnelInv, System, Shape, Startable, Paired, Doing
<1> QED
  BY <1>1, <1>2, <1>3, <1>4 DEF TunnelInv
-----------------------------------------------------------------------------
(* A step of a command *)

\* The first step is done, and the others come nearer.
LEMMA WorkOff ==
  ASSUME todo \in Seq(Steps), Paired(todo), todo # <<>>, todo' = Tail(todo)
  PROVE  /\ todo' \in Seq(Steps) /\ Paired(todo)'
         /\ Len(todo') = Len(todo) - 1 /\ Len(todo) \in Nat \ {0} /\ Len(todo') \in Nat
         /\ Head(todo) = todo[1] /\ todo[1] \in Steps
         /\ \A i \in 1 .. Len(todo') : todo'[i] = todo[i + 1] /\ i + 1 \in 2 .. Len(todo)
         /\ \A step : \A t : Pending(step, t)' => Pending(step, t)
         /\ \A step : \A t : Pending(step, t) => Pending(step, t)' \/ Head(todo) = Do(step, t)
<1>1. /\ Head(todo) = todo[1] /\ Len(todo) \in Nat \ {0} /\ todo[1] \in Steps
      /\ Tail(todo) \in Seq(Steps) /\ Len(Tail(todo)) = Len(todo) - 1
      /\ \A i \in 1 .. (Len(todo) - 1) : Tail(todo)[i] = todo[i + 1]
  BY HeadTail
<1>2. Len(todo') = Len(todo) - 1 /\ \A i \in 1 .. Len(todo') : todo'[i] = todo[i + 1] /\ i + 1 \in 2 .. Len(todo)
  BY <1>1
<1>3. Paired(todo)'
  <2> SUFFICES ASSUME NEW i \in 2 .. Len(todo'), todo'[i].do # "stop"
               PROVE  todo'[i - 1] = Do("stop", todo'[i].tunnel)
    BY DEF Paired
  <2>1. /\ i \in 1 .. Len(todo') /\ i - 1 \in 1 .. Len(todo') /\ (i - 1) + 1 = i
        /\ i + 1 \in 2 .. Len(todo) /\ (i + 1) - 1 = i
    BY <1>1, <1>2
  <2>2. todo'[i] = todo[i + 1] /\ todo'[i - 1] = todo[i]
    BY <1>2, <2>1
  <2>3. todo[(i + 1) - 1] = Do("stop", todo[i + 1].tunnel)
    BY <2>1, <2>2 DEF Paired
  <2> QED  BY <2>1, <2>2, <2>3
<1>4. ASSUME NEW step, NEW t, Pending(step, t)'
      PROVE  Pending(step, t)
  <2>1. PICK i \in 1 .. Len(todo') : todo'[i] = Do(step, t)
    BY <1>4 DEF Pending
  <2>2. i + 1 \in 1 .. Len(todo) /\ todo[i + 1] = Do(step, t)
    BY <1>1, <1>2, <2>1
  <2> QED  BY <2>2 DEF Pending
<1>5. ASSUME NEW step, NEW t, Pending(step, t), Head(todo) # Do(step, t)
      PROVE  Pending(step, t)'
  <2>1. PICK i \in 1 .. Len(todo) : todo[i] = Do(step, t)
    BY <1>5 DEF Pending
  <2>2. i - 1 \in 1 .. Len(todo') /\ (i - 1) + 1 = i
    BY <1>1, <1>2, <1>5, <2>1
  <2>3. todo'[i - 1] = Do(step, t)
    BY <1>2, <2>1, <2>2
  <2> QED  BY <2>2, <2>3 DEF Pending
<1> QED
  BY <1>1, <1>2, <1>3, <1>4, <1>5

\* The cancel of a supervisor that is to be stopped.
LEMMA CancelInv ==
  ASSUME NEW t \in Tunnel, TunnelInv, Cancel(t)
  PROVE  TunnelInv'
<1>1. /\ task \in [Tunnel -> Task] /\ TunnelTypeOK
      /\ UNCHANGED <<saved, servers, settings, edits, status, health, todo, world>>
      /\ Doing("stop", t) /\ Alive(t)
  BY DEF TunnelInv, TunnelTypeOK, Cancel
<1>2. /\ task' \in [Tunnel -> Task]
      /\ \A u \in Tunnel \ {t} : task'[u] = task[u]
      /\ \A u \in Tunnel : /\ task'[u].at = task[u].at /\ task'[u].config = task[u].config
                           /\ task'[u].settings = task[u].settings /\ task'[u].retry = task[u].retry
      /\ task'[t].cancel
  BY <1>1 DEF Cancel, Task
<1>3. \A u \in Tunnel : (Alive(u)' <=> Alive(u)) /\ (Works(u)' <=> Works(u)) /\ task'[u].config = task[u].config
  BY <1>2 DEF Alive, Works
<1>4. TunnelTypeOK'
  <2>1. \A u \in Tunnel : Alive(u)' => task'[u].config # NoConfig
    BY <1>1, <1>3 DEF TunnelTypeOK
  <2> QED  BY <1>1, <1>2, <2>1 DEF TunnelTypeOK
<1>5. (\A s \in Server : settings'[s] <= edits') /\ Shape'
  BY <1>1, <1>2 DEF TunnelInv, Shape, Startable, Paired, Doing
<1>6. ASSUME NEW u \in Tunnel
      PROVE  SavedInv(u)' /\ TaskInv(u)'
  <2>1. SavedInv(u) /\ TaskInv(u) /\ (Doing("stop", u)' <=> Doing("stop", u))
    BY <1>1 DEF TunnelInv, Doing
  <2>2. SavedInv(u)'
    BY <1>1, <1>2, <1>3, <2>1 DEF SavedInv, Obsolete, Outdated, Pending
  <2>3. TaskInv(u)'
    BY <1>1, <1>2, <1>3, <2>1 DEF TaskInv, Alive, Live
  <2> QED  BY <2>2, <2>3
<1>7. \A u, w \in Tunnel : u # w => PortsInv(u, w)'
  BY <1>1, <1>3 DEF TunnelInv, PortsInv, Pending
<1> QED
  BY <1>4, <1>5, <1>6, <1>7 DEF TunnelInv

\* The supervisor has ended, and the tunnel shows as stopped.
LEMMA StoppedInv ==
  ASSUME NEW t \in Tunnel, TunnelInv, Stopped(t)
  PROVE  TunnelInv'
<1>1. /\ task \in [Tunnel -> Task] /\ TunnelTypeOK /\ todo \in Seq(Steps) /\ Paired(todo) /\ todo # <<>>
      /\ UNCHANGED <<saved, servers, settings, edits, world>>
      /\ todo' = Tail(todo) /\ Head(todo) = Do("stop", t) /\ ~Alive(t)
      /\ status' = [status EXCEPT ![t] = "disconnected"] /\ health' = health \ {t}
  BY DEF TunnelInv, TunnelTypeOK, Stopped, Doing, Shape, SetState
<1>2. /\ todo' \in Seq(Steps) /\ Paired(todo)'
      /\ Len(todo') = Len(todo) - 1 /\ Len(todo) \in Nat \ {0} /\ Len(todo') \in Nat
      /\ Head(todo) = todo[1] /\ todo[1] \in Steps
      /\ \A i \in 1 .. Len(todo') : todo'[i] = todo[i + 1] /\ i + 1 \in 2 .. Len(todo)
      /\ \A step : \A u : Pending(step, u)' => Pending(step, u)
      /\ \A step : \A u : Pending(step, u) => Pending(step, u)' \/ Head(todo) = Do(step, u)
  BY <1>1, WorkOff
<1>3. /\ task' \in [Tunnel -> Task] /\ task'[t] = NoTask
      /\ \A u \in Tunnel \ {t} : task'[u] = task[u] /\ status'[u] = status[u] /\ (u \in health' => u \in health)
      /\ status' \in [Tunnel -> Statuses] /\ status'[t] = "disconnected" /\ t \notin health' /\ health' \subseteq Tunnel
  BY <1>1, MaxEditsAssumption DEF Stopped, TunnelTypeOK, Task, NoTask, Points, Statuses
<1>4. ~Alive(t)' /\ ~Works(t)' /\ \A u \in Tunnel \ {t} : (Alive(u)' <=> Alive(u)) /\ (Works(u)' <=> Works(u))
  BY <1>3 DEF Alive, Works, NoTask, Live
<1>5. TunnelTypeOK'
  <2>1. \A u \in Tunnel : Alive(u)' => task'[u].config # NoConfig
    BY <1>1, <1>3, <1>4 DEF TunnelTypeOK
  <2> QED  BY <1>1, <1>2, <1>3, <2>1 DEF TunnelTypeOK
<1>6. Shape'
  <2>5. Startable'
    BY <1>1, <1>2 DEF TunnelInv, Shape, Startable
  <2> SUFFICES ASSUME NEW u \in Tunnel, Doing("forget", u)'
               PROVE  task'[u].at = "none"
    BY <1>2, <2>5 DEF Shape
  <2>1. todo' # <<>> /\ Head(todo') = Do("forget", u)
    BY DEF Doing
  <2>2. 1 \in 1 .. Len(todo') /\ Head(todo') = todo'[1] /\ todo'[1] = todo[2] /\ 2 \in 2 .. Len(todo)
    BY <1>2, <2>1
  <2>3. todo[2 - 1] = Do("stop", u)
    BY <1>1, <2>1, <2>2 DEF Paired, Do
  <2>4. u = t
    BY <1>1, <1>2, <2>3 DEF Do
  <2> QED  BY <1>3, <2>4 DEF NoTask
<1>7. ASSUME NEW u \in Tunnel
      PROVE  SavedInv(u)' /\ TaskInv(u)'
  <2>1. CASE u = t
    <3>1. SavedInv(u)'
      BY <1>3, <1>4, <2>1 DEF SavedInv, Obsolete, Outdated
    <3>2. TaskInv(u)'
      BY <1>3, <1>4, <2>1 DEF TaskInv, NoTask, Active
    <3> QED  BY <3>1, <3>2
  <2>2. CASE u # t
    <3>1. SavedInv(u) /\ TaskInv(u) /\ Head(todo) # Do("stop", u)
      BY <1>1, <2>2 DEF TunnelInv, Do
    <3>2. Pending("stop", u) => Pending("stop", u)'
      BY <1>2, <3>1
    <3>3. ASSUME Obsolete(u)
          PROVE  \A i \in 1 .. Len(todo') : todo'[i].do # "start"
      <4>1. \A i \in 1 .. Len(todo) : todo[i].do = "start" => i = 2 /\ todo[1] = Do("stop", u)
        BY <3>1, <3>3 DEF SavedInv
      <4> QED  BY <1>2, <3>1, <4>1
    <3>4. SavedInv(u)'
      BY <1>1, <1>3, <1>4, <2>2, <3>1, <3>2, <3>3 DEF SavedInv, Obsolete, Outdated
    <3>5. TaskInv(u)'
      BY <1>1, <1>3, <1>4, <2>2, <3>1 DEF TaskInv, Doing
    <3> QED  BY <3>4, <3>5
  <2> QED  BY <2>1, <2>2
<1>8. ASSUME NEW u \in Tunnel, NEW w \in Tunnel, u # w
      PROVE  PortsInv(u, w)'
  <2>1. PortsInv(u, w) /\ \A v \in {u, w} : (Alive(v)' => Alive(v)) /\ (Works(v)' => Works(v) /\ task'[v] = task[v])
    BY <1>3, <1>4, <1>8 DEF TunnelInv
  <2>2. \A i \in 1 .. (Len(todo') - 1) : todo'[i] = todo[i + 1] /\ i + 1 \in 1 .. (Len(todo) - 1)
    BY <1>2
  <2> QED  BY <1>1, <1>2, <2>1, <2>2 DEF PortsInv
<1>9. \A s \in Server : settings'[s] <= edits'
  BY <1>1 DEF TunnelInv
<1> QED
  BY <1>5, <1>6, <1>7, <1>8, <1>9 DEF TunnelInv

\* What a first step that is no stop leaves of the steps: nothing that it should
\* have been stopped for is open.
LEMMA NoStopFirst ==
  ASSUME TunnelInv, todo # <<>>, Head(todo).do # "stop", todo' = Tail(todo)
  PROVE  /\ \A u \in Tunnel : ~task[u].cancel
         /\ ~ \E u \in Tunnel : Doing("forget", u)'
<1>1. todo \in Seq(Steps) /\ Paired(todo)
  BY DEF TunnelInv, TunnelTypeOK, Shape
<1>2. /\ Len(todo') = Len(todo) - 1 /\ Len(todo) \in Nat \ {0} /\ todo' \in Seq(Steps)
      /\ Head(todo) = todo[1]
      /\ \A i \in 1 .. Len(todo') : todo'[i] = todo[i + 1] /\ i + 1 \in 2 .. Len(todo)
  BY <1>1, WorkOff
<1>3. \A u \in Tunnel : ~task[u].cancel
  BY DEF TunnelInv, TaskInv, Doing, Do
<1>4. ASSUME NEW u \in Tunnel, Doing("forget", u)'
      PROVE  FALSE
  <2>1. todo' # <<>> /\ Head(todo') = Do("forget", u)
    BY <1>4 DEF Doing
  <2>2. 1 \in 1 .. Len(todo') /\ Head(todo') = todo'[1] /\ todo'[1] = todo[2] /\ 2 \in 2 .. Len(todo)
    BY <1>2, <2>1
  <2>3. todo[2 - 1] = Do("stop", u)
    BY <1>1, <2>1, <2>2 DEF Paired, Do
  <2> QED  BY <1>2, <2>3 DEF Do
<1> QED
  BY <1>3, <1>4

\* A deleted tunnel is not shown any more.
LEMMA ForgetInv ==
  ASSUME NEW t \in Tunnel, TunnelInv, ForgetTunnel(t)
  PROVE  TunnelInv'
<1>1. /\ TunnelTypeOK /\ todo \in Seq(Steps) /\ Paired(todo) /\ todo # <<>>
      /\ UNCHANGED <<saved, servers, settings, edits, task, health, world>>
      /\ todo' = Tail(todo) /\ Head(todo) = Do("forget", t) /\ task[t].at = "none"
      /\ status' = [status EXCEPT ![t] = "none"]
  BY DEF TunnelInv, TunnelTypeOK, ForgetTunnel, Doing, Shape
<1>2. /\ todo' \in Seq(Steps) /\ Paired(todo)'
      /\ Len(todo') = Len(todo) - 1 /\ Len(todo) \in Nat \ {0} /\ Len(todo') \in Nat
      /\ Head(todo) = todo[1]
      /\ \A i \in 1 .. Len(todo') : todo'[i] = todo[i + 1] /\ i + 1 \in 2 .. Len(todo)
      /\ \A step : \A u : Pending(step, u)' => Pending(step, u)
      /\ \A step : \A u : Pending(step, u) => Pending(step, u)' \/ Head(todo) = Do(step, u)
  BY <1>1, WorkOff
<1>3. (\A u \in Tunnel : ~task[u].cancel) /\ ~ \E u \in Tunnel : Doing("forget", u)'
  BY <1>1, NoStopFirst DEF Do
<1>4. /\ \A u \in Tunnel \ {t} : status'[u] = status[u]
      /\ status' \in [Tunnel -> Statuses] /\ status'[t] = "none"
      /\ \A u \in Tunnel : (Alive(u)' <=> Alive(u)) /\ (Works(u)' <=> Works(u))
  BY <1>1 DEF TunnelTypeOK, Statuses, Alive, Works
<1>5. TunnelTypeOK'
  BY <1>1, <1>2, <1>4 DEF TunnelTypeOK
<1>6. Shape'
  <2>1. Startable'
    BY <1>1, <1>2 DEF TunnelInv, Shape, Startable
  <2> QED  BY <1>2, <1>3, <2>1 DEF Shape
<1>7. ~Works(t) /\ t \notin health
  <2>1. TaskInv(t) /\ ~Works(t)
    BY <1>1 DEF TunnelInv, Works, Live
  <2> QED  BY <1>3, <2>1 DEF TaskInv, Active
<1>8. ASSUME NEW u \in Tunnel
      PROVE  SavedInv(u)' /\ TaskInv(u)'
  <2>1. SavedInv(u) /\ TaskInv(u) /\ Head(todo) # Do("stop", u) /\ ~task[u].cancel
    BY <1>1, <1>3 DEF TunnelInv, Do
  <2>2. Pending("stop", u) => Pending("stop", u)'
    BY <1>2, <2>1
  <2>3. ASSUME Obsolete(u)
        PROVE  \A i \in 1 .. Len(todo') : todo'[i].do # "start"
    <3>1. \A i \in 1 .. Len(todo) : todo[i].do = "start" => i = 2 /\ todo[1] = Do("stop", u)
      BY <2>1, <2>3 DEF SavedInv
    <3> QED  BY <1>2, <2>1, <3>1
  <2>4. status[u] \in {"none", "disconnected"} => status'[u] \in {"none", "disconnected"}
    BY <1>4
  <2>5. SavedInv(u)'
    BY <1>1, <1>4, <2>1, <2>2, <2>3, <2>4 DEF SavedInv, Obsolete, Outdated
  <2>6. CASE u = t
    <3>1. TaskInv(u)'
      BY <1>1, <1>4, <1>7, <2>1, <2>6 DEF TaskInv, Active, Works, Live
    <3> QED  BY <2>5, <3>1
  <2>7. CASE u # t
    <3>1. TaskInv(u)'
      BY <1>1, <1>4, <2>1, <2>7 DEF TaskInv
    <3> QED  BY <2>5, <3>1
  <2> QED  BY <2>6, <2>7
<1>9. ASSUME NEW u \in Tunnel, NEW w \in Tunnel, u # w
      PROVE  PortsInv(u, w)'
  <2>1. PortsInv(u, w)
    BY <1>9 DEF TunnelInv
  <2>2. \A i \in 1 .. (Len(todo') - 1) : todo'[i] = todo[i + 1] /\ i + 1 \in 1 .. (Len(todo) - 1)
    BY <1>2
  <2> QED  BY <1>1, <1>2, <1>4, <2>1, <2>2 DEF PortsInv
<1>10. \A s \in Server : settings'[s] <= edits'
  BY <1>1 DEF TunnelInv
<1> QED
  BY <1>5, <1>6, <1>8, <1>9, <1>10 DEF TunnelInv

\* A supervisor starts with what is saved.
LEMMA Spawned ==
  ASSUME NEW t \in Tunnel, TunnelInv, todo # <<>>, Head(todo) = Do("start", t),
         UNCHANGED <<saved, servers, settings, edits, world>>,
         ~Alive(t), saved[t] # NoConfig, ~Overlaps(t),
         status' = [status EXCEPT ![t] = "connecting"], health' = health \ {t},
         task' = [task EXCEPT ![t] = [NoTask EXCEPT !.at = "ready", !.config = saved[t],
                                                    !.settings = settings[saved[t].server]]],
         todo' = Tail(todo)
  PROVE  TunnelInv'
<1>1. /\ TunnelTypeOK /\ todo \in Seq(Steps) /\ Paired(todo)
      /\ \A u \in Tunnel : ~task[u].cancel
      /\ ~ \E u \in Tunnel : Doing("forget", u)'
  BY NoStopFirst DEF TunnelInv, TunnelTypeOK, Shape, Do
<1>2. /\ todo' \in Seq(Steps) /\ Paired(todo)'
      /\ Len(todo') = Len(todo) - 1 /\ Len(todo) \in Nat \ {0} /\ Len(todo') \in Nat
      /\ Head(todo) = todo[1]
      /\ \A i \in 1 .. Len(todo') : todo'[i] = todo[i + 1] /\ i + 1 \in 2 .. Len(todo)
      /\ \A step : \A u : Pending(step, u)' => Pending(step, u)
      /\ \A step : \A u : Pending(step, u) => Pending(step, u)' \/ Head(todo) = Do(step, u)
  BY <1>1, WorkOff
<1>3. \A u \in Tunnel : ~Obsolete(u)
  <2> SUFFICES ASSUME NEW u \in Tunnel, Obsolete(u)
               PROVE  FALSE
    OBVIOUS
  <2>1. \A i \in 1 .. Len(todo) : todo[i].do = "start" => i = 2
    BY DEF TunnelInv, SavedInv
  <2>2. 1 \in 1 .. Len(todo) /\ todo[1].do = "start"
    BY <1>2 DEF Do
  <2> QED  BY <2>1, <2>2
<1>4. saved[t] \in Config /\ saved[t].server \in Server /\ settings[saved[t].server] \in 0 .. MaxEdits
  BY <1>1 DEF TunnelTypeOK, Config
<1>5. /\ task' \in [Tunnel -> Task]
      /\ \A u \in Tunnel \ {t} : task'[u] = task[u]
      /\ task'[t].at = "ready" /\ task'[t].config = saved[t] /\ ~task'[t].cancel
      /\ task'[t].settings = settings[saved[t].server]
  BY <1>1, <1>4 DEF TunnelTypeOK, Task, NoTask, Points, Live
<1>6. /\ \A u \in Tunnel \ {t} : status'[u] = status[u] /\ (u \in health' => u \in health)
      /\ status' \in [Tunnel -> Statuses] /\ status'[t] = "connecting"
      /\ t \notin health' /\ health' \subseteq Tunnel
  BY <1>1 DEF TunnelTypeOK, Statuses
<1>7. Alive(t)' /\ Works(t)' /\ \A u \in Tunnel \ {t} : (Alive(u)' <=> Alive(u)) /\ (Works(u)' <=> Works(u))
  BY <1>5 DEF Alive, Works, Live
<1>8. TunnelTypeOK'
  <2>1. \A u \in Tunnel : Alive(u)' => task'[u].config # NoConfig
    BY <1>1, <1>5, <1>7 DEF TunnelTypeOK
  <2> QED  BY <1>1, <1>2, <1>5, <1>6, <2>1 DEF TunnelTypeOK
<1>9. Shape'
  <2>1. Startable'
    BY <1>2 DEF TunnelInv, Shape, Startable
  <2> QED  BY <1>1, <1>2, <2>1 DEF Shape
<1>10. ASSUME NEW u \in Tunnel
       PROVE  SavedInv(u)' /\ TaskInv(u)'
  <2>1. CASE u = t
    <3>1. SavedInv(u)'
      BY <1>5, <1>6, <1>7, <2>1 DEF SavedInv, Obsolete, Outdated
    <3>2. TaskInv(u)'
      BY <1>5, <1>6, <1>7, <2>1 DEF TaskInv, Active
    <3> QED  BY <3>1, <3>2
  <2>2. CASE u # t
    <3>1. SavedInv(u) /\ TaskInv(u) /\ (Pending("stop", u) => Pending("stop", u)')
      BY <1>2 DEF TunnelInv, Do
    <3>2. SavedInv(u)'
      BY <1>3, <1>5, <1>6, <1>7, <2>2, <3>1 DEF SavedInv, Obsolete, Outdated
    <3>3. TaskInv(u)'
      BY <1>1, <1>5, <1>6, <1>7, <2>2, <3>1 DEF TaskInv
    <3> QED  BY <3>2, <3>3
  <2> QED  BY <2>1, <2>2
<1>11. ASSUME NEW u \in Tunnel, u # t
       PROVE  /\ Alive(u) /\ saved[u] # NoConfig => saved[u].port # saved[t].port
              /\ Works(u) => task[u].config = saved[u] /\ task[u].config # NoConfig /\ Alive(u)
  BY <1>1, <1>3, <1>11 DEF Overlaps, Obsolete, TunnelTypeOK, Works, Alive
<1>12. ASSUME NEW u \in Tunnel, NEW w \in Tunnel, u # w
       PROVE  PortsInv(u, w)'
  <2>1. PortsInv(u, w)
    BY <1>12 DEF TunnelInv
  <2>2. Alive(u)' /\ Alive(w)' /\ NoConfig \notin {saved[u], saved[w]} => saved[u].port # saved[w].port
    BY <1>7, <1>11, <1>12, <2>1 DEF PortsInv
  <2>3. Works(u)' /\ Works(w)' => task'[u].config.port # task'[w].config.port
    BY <1>5, <1>7, <1>11, <1>12, <2>1 DEF PortsInv
  <2>4. ASSUME NEW i \in 1 .. (Len(todo') - 1), todo'[i] = Do("start", u)
        PROVE  (Alive(w)' \/ Pending("start", w)') /\ saved[w] # NoConfig => saved[u].port # saved[w].port
    <3>1. i + 1 \in 1 .. (Len(todo) - 1) /\ todo[i + 1] = Do("start", u)
      BY <1>2, <2>4
    <3>2. Alive(w)' => Alive(w) \/ Pending("start", w)
      <4>1. Pending("start", t)
        BY <1>2 DEF Pending
      <4> QED  BY <1>7, <4>1
    <3> QED  BY <1>2, <2>1, <3>1, <3>2 DEF PortsInv
  <2> QED  BY <2>2, <2>3, <2>4 DEF PortsInv
<1>13. \A s \in Server : settings'[s] <= edits'
  BY DEF TunnelInv
<1> QED
  BY <1>8, <1>9, <1>10, <1>12, <1>13 DEF TunnelInv

\* A start: of a tunnel that runs, that cannot be started, or that starts.
LEMMA StartInv ==
  ASSUME NEW t \in Tunnel, TunnelInv, Start(t)
  PROVE  TunnelInv'
<1>1. /\ TunnelTypeOK /\ todo \in Seq(Steps) /\ Paired(todo) /\ todo # <<>>
      /\ UNCHANGED <<saved, servers, settings, edits, world>>
      /\ Head(todo) = Do("start", t)
  BY DEF TunnelInv, TunnelTypeOK, Start, Doing, Shape
<1>2. Head(todo) = todo[1] /\ Len(todo) \in Nat \ {0}
  BY <1>1, HeadTail
<1>3. \A u \in Tunnel : ~task[u].cancel /\ ~Obsolete(u)
  <2>1. \A u \in Tunnel : ~task[u].cancel
    BY <1>1 DEF TunnelInv, TaskInv, Doing, Do
  <2>2. ASSUME NEW u \in Tunnel, Obsolete(u)
        PROVE  FALSE
    <3>1. \A i \in 1 .. Len(todo) : todo[i].do = "start" => i = 2
      BY <2>2 DEF TunnelInv, SavedInv
    <3>2. 1 \in 1 .. Len(todo) /\ todo[1].do = "start"
      BY <1>1, <1>2 DEF Do
    <3> QED  BY <3>1, <3>2
  <2> QED  BY <2>1, <2>2
<1>4. CASE UNCHANGED <<task, status, health>> /\ todo' = Tail(todo) /\ Alive(t)
  <2>1. /\ todo' \in Seq(Steps) /\ Paired(todo)'
        /\ Len(todo') = Len(todo) - 1 /\ Len(todo') \in Nat
        /\ \A i \in 1 .. Len(todo') : todo'[i] = todo[i + 1] /\ i + 1 \in 2 .. Len(todo)
        /\ \A step : \A u : Pending(step, u)' => Pending(step, u)
        /\ \A step : \A u : Pending(step, u) => Pending(step, u)' \/ Head(todo) = Do(step, u)
    BY <1>1, <1>4, WorkOff
  <2>2. ~ \E u \in Tunnel : Doing("forget", u)'
    BY <1>1, <1>4, NoStopFirst DEF Do
  <2>3. \A u \in Tunnel : (Alive(u)' <=> Alive(u)) /\ (Works(u)' <=> Works(u))
    BY <1>4 DEF Alive, Works
  <2>4. TunnelTypeOK'
    BY <1>1, <1>4, <2>1, <2>3 DEF TunnelTypeOK
  <2>5. Shape'
    <3>2. \A i \in 1 .. (Len(todo') - 1) : todo'[i] = todo[i + 1] /\ i + 1 \in 1 .. (Len(todo) - 1)
      BY <1>2, <2>1
    <3>1. Startable'
      BY <1>1, <3>2 DEF TunnelInv, Shape, Startable
    <3> QED  BY <2>1, <2>2, <3>1 DEF Shape
  <2>6. ASSUME NEW u \in Tunnel
        PROVE  SavedInv(u)' /\ TaskInv(u)'
    <3>1. SavedInv(u) /\ TaskInv(u) /\ (Pending("stop", u) => Pending("stop", u)')
      BY <1>1, <2>1 DEF TunnelInv, Do
    <3>4. ~Obsolete(u)' /\ (Outdated(u)' <=> Outdated(u)) /\ (Outdated(u) => Pending("stop", u))
      BY <1>1, <1>3, <1>4, <2>3, <3>1 DEF SavedInv, Obsolete, Outdated
    <3>2. SavedInv(u)'
      BY <1>1, <1>3, <1>4, <3>1, <3>4 DEF SavedInv
    <3>3. TaskInv(u)'
      BY <1>3, <1>4, <2>3, <3>1 DEF TaskInv
    <3> QED  BY <3>2, <3>3
  <2>7. ASSUME NEW u \in Tunnel, NEW w \in Tunnel, u # w
        PROVE  PortsInv(u, w)'
    <3>1. PortsInv(u, w)
      BY <2>7 DEF TunnelInv
    <3>2. \A i \in 1 .. (Len(todo') - 1) : todo'[i] = todo[i + 1] /\ i + 1 \in 1 .. (Len(todo) - 1)
      BY <1>2, <2>1
    <3> QED  BY <1>1, <1>4, <2>1, <2>3, <3>1, <3>2 DEF PortsInv
  <2>8. \A s \in Server : settings'[s] <= edits'
    BY <1>1 DEF TunnelInv
  <2> QED  BY <2>4, <2>5, <2>6, <2>7, <2>8 DEF TunnelInv
<1>5. CASE UNCHANGED <<task, status, health>> /\ todo' = <<>> /\ (saved[t] = NoConfig \/ Overlaps(t))
  <2>1. Len(todo) = 1
    <3> SUFFICES ASSUME Len(todo) # 1
                 PROVE  FALSE
      OBVIOUS
    <3>1. 1 \in 1 .. (Len(todo) - 1) /\ todo[1] = Do("start", t)
      BY <1>1, <1>2
    <3>2. saved[t] # NoConfig
      BY <3>1 DEF TunnelInv, Shape, Startable, Do
    <3>3. PICK u \in Tunnel \ {t} : Alive(u) /\ NoConfig \notin {saved[t], saved[u]} /\ saved[u].port = saved[t].port
      BY <1>5, <3>2 DEF Overlaps
    <3>4. PortsInv(t, u)
      BY <3>3 DEF TunnelInv
    <3> QED  BY <3>1, <3>3, <3>4 DEF PortsInv
  <2>2. \A u \in Tunnel : ~Pending("stop", u)
    BY <1>1, <1>2, <2>1 DEF Pending, Do
  <2>3. \A u \in Tunnel : (Alive(u)' <=> Alive(u)) /\ (Works(u)' <=> Works(u))
    BY <1>5 DEF Alive, Works
  <2>4. TunnelTypeOK'
    BY <1>1, <1>5, <2>3 DEF TunnelTypeOK
  <2>5. Shape'
    <3>1. Len(todo') = 0 /\ todo' = <<>>
      BY <1>5
    <3>2. Paired(todo)' /\ Startable'
      BY <3>1 DEF Startable, Paired
    <3> QED  BY <3>1, <3>2 DEF Shape, Doing
  <2>6. ASSUME NEW u \in Tunnel
        PROVE  SavedInv(u)' /\ TaskInv(u)'
    <3>1. SavedInv(u) /\ TaskInv(u)
      BY DEF TunnelInv
    <3>4. ~Obsolete(u)' /\ (Outdated(u)' <=> Outdated(u)) /\ (Outdated(u) => Pending("stop", u))
      BY <1>1, <1>3, <1>5, <2>3, <3>1 DEF SavedInv, Obsolete, Outdated
    <3>2. SavedInv(u)'
      BY <1>1, <1>3, <1>5, <2>2, <3>1, <3>4 DEF SavedInv
    <3>3. TaskInv(u)'
      BY <1>3, <1>5, <2>3, <3>1 DEF TaskInv
    <3> QED  BY <3>2, <3>3
  <2>7. \A u, w \in Tunnel : u # w => PortsInv(u, w)'
    BY <1>1, <1>5, <2>3 DEF TunnelInv, PortsInv
  <2>8. \A s \in Server : settings'[s] <= edits'
    BY <1>1 DEF TunnelInv
  <2> QED  BY <2>4, <2>5, <2>6, <2>7, <2>8 DEF TunnelInv
<1>6. CASE /\ ~Alive(t) /\ saved[t] # NoConfig /\ ~Overlaps(t)
           /\ status' = [status EXCEPT ![t] = "connecting"] /\ health' = health \ {t}
           /\ task' = [task EXCEPT ![t] = [NoTask EXCEPT !.at = "ready", !.config = saved[t],
                                                         !.settings = settings[saved[t].server]]]
           /\ todo' = Tail(todo)
  BY <1>1, <1>6, Spawned
<1> QED
  BY <1>1, <1>4, <1>5, <1>6 DEF Start, SetState
-----------------------------------------------------------------------------
(* Commands *)

\* Between commands nothing is left to make up for.
LEMMA AtRest ==
  ASSUME TunnelInv, todo = <<>>
  PROVE  \A t \in Tunnel :
           /\ ~task[t].cancel /\ ~Obsolete(t) /\ ~Outdated(t)
           /\ saved[t] = NoConfig => status[t] \in {"none", "disconnected"}
           /\ Works(t) <=> status[t] \in Active
           /\ status[t] \in {"none", "disconnected"} => task[t].at = "none"
<1> SUFFICES ASSUME NEW t \in Tunnel
             PROVE  /\ ~task[t].cancel /\ ~Obsolete(t) /\ ~Outdated(t)
                    /\ saved[t] = NoConfig => status[t] \in {"none", "disconnected"}
                    /\ Works(t) <=> status[t] \in Active
                    /\ status[t] \in {"none", "disconnected"} => task[t].at = "none"
  OBVIOUS
<1>1. SavedInv(t) /\ TaskInv(t)
  BY DEF TunnelInv
<1>2. ~Pending("stop", t) /\ ~Doing("stop", t)
  BY DEF Pending, Doing
<1> QED
  BY <1>1, <1>2 DEF SavedInv, TaskInv

\* What a command has to leave: steps that make up for what it saves.
LEMMA CommandInv ==
  ASSUME TunnelInv, todo = <<>>, UNCHANGED <<task, status, health, world>>,
         saved' \in [Tunnel -> Config \union {NoConfig}], servers' \subseteq Server,
         settings' \in [Server -> 0 .. MaxEdits], edits' \in 0 .. MaxEdits,
         \A s \in Server : settings'[s] <= edits',
         todo' \in Seq(Steps), Paired(todo)', Startable',
         ~ \E t \in Tunnel : Doing("forget", t)',
         \A t \in Tunnel : SavedInv(t)',
         \A t, u \in Tunnel : t # u => PortsInv(t, u)'
  PROVE  TunnelInv'
<1>1. TunnelTypeOK'
  BY DEF TunnelInv, TunnelTypeOK, Alive
<1>2. Shape'
  BY DEF Shape
<1>3. ASSUME NEW t \in Tunnel
      PROVE  TaskInv(t)'
  <2>1. TaskInv(t) /\ ~task[t].cancel
    BY AtRest DEF TunnelInv
  <2> QED  BY <2>1 DEF TaskInv, Works
<1> QED
  BY <1>1, <1>2, <1>3 DEF TunnelInv

LEMMA SetConnectedInv ==
  ASSUME NEW t \in Tunnel, NEW on \in BOOLEAN, TunnelInv, SetConnected(t, on)
  PROVE  TunnelInv'
<1>1. /\ todo = <<>> /\ todo' = <<Do(IF on THEN "start" ELSE "stop", t)>>
      /\ UNCHANGED <<saved, servers, settings, edits, task, status, health, world>>
  BY DEF SetConnected, Command
<1>2. Len(todo') = 1 /\ todo' \in Seq(Steps) /\ Head(todo') = Do(IF on THEN "start" ELSE "stop", t)
  BY <1>1 DEF Steps, Do
<1>3. Paired(todo)' /\ Startable' /\ ~ \E u \in Tunnel : Doing("forget", u)'
  BY <1>2 DEF Paired, Startable, Doing, Do
<1>4. \A u \in Tunnel : SavedInv(u)'
  BY <1>1, AtRest DEF SavedInv, Obsolete, Outdated, Works
<1>5. ASSUME NEW u \in Tunnel, NEW w \in Tunnel, u # w
      PROVE  PortsInv(u, w)'
  <2>1. PortsInv(u, w)
    BY <1>5 DEF TunnelInv
  <2> QED  BY <1>1, <1>2, <2>1 DEF PortsInv, Alive, Works
<1>6. /\ saved' \in [Tunnel -> Config \union {NoConfig}] /\ servers' \subseteq Server
      /\ settings' \in [Server -> 0 .. MaxEdits] /\ edits' \in 0 .. MaxEdits
      /\ \A s \in Server : settings'[s] <= edits'
  BY <1>1 DEF TunnelInv, TunnelTypeOK
<1> QED
  BY <1>1, <1>2, <1>3, <1>4, <1>5, <1>6, CommandInv

\* The steps of a command that stops every tunnel of S, and then starts or forgets it.
StopsAll(S, step) ==
  /\ todo \in Seq(Steps)
  /\ Paired(todo)
  /\ todo # <<>> => todo[1].do = "stop"
  /\ \A i \in 1 .. Len(todo) : todo[i].do \in {"stop", step} /\ todo[i].tunnel \in S
  /\ \A t \in S : Pending("stop", t)

LEMMA StopsEach ==
  ASSUME NEW S \in SUBSET Tunnel, NEW order \in Orders(S), NEW step \in {"start", "forget"},
         todo' = Each(order, step)
  PROVE  StopsAll(S, step)'
<1>1. PICK q : q = Each(order, step)
  OBVIOUS
<1>2. /\ q \in Seq(Steps)
      /\ Paired(q)
      /\ q # <<>> => q[1].do = "stop"
      /\ \A i \in 1 .. Len(q) : q[i].do \in {"stop", step} /\ q[i].tunnel \in S
      /\ \A t \in S : \E i \in 1 .. Len(q) : q[i] = Do("stop", t)
  BY <1>1, EachTunnel
<1>3. todo' = q
  BY <1>1
<1> QED
  BY <1>2, <1>3 DEF StopsAll, Paired, Pending

LEMMA StopsNone ==
  ASSUME todo' = <<>>
  PROVE  StopsAll({}, "start")'
BY DEF StopsAll, Paired, Pending

\* One tunnel is in order.
LEMMA OneTunnel ==
  ASSUME NEW t \in Tunnel
  PROVE  {t} \in SUBSET Tunnel /\ <<t>> \in Orders({t})
<1>1. Cardinality({t}) = 1
  BY FS_Singleton
<1>2. <<t>> \in [1 .. 1 -> {t}]
  OBVIOUS
<1>3. (\A a, b \in 1 .. 1 : a = b) /\ 1 \in 1 .. 1 /\ <<t>>[1] = t
  OBVIOUS
<1> QED
  BY <1>1, <1>2, <1>3 DEF Orders, Bijection, Injection, Surjection, IsInjective

\* A stop comes first, so that no tunnel is forgotten before.
LEMMA StopFirst ==
  ASSUME NEW S \in SUBSET Tunnel, NEW step, StopsAll(S, step)'
  PROVE  ~ \E t \in Tunnel : Doing("forget", t)'
<1> SUFFICES ASSUME NEW t \in Tunnel, Doing("forget", t)'
             PROVE  FALSE
  OBVIOUS
<1>3. todo' # <<>> /\ Head(todo') = Do("forget", t)
  BY DEF Doing
<1>1. todo' \in Seq(Steps) /\ todo'[1].do = "stop"
  BY <1>3 DEF StopsAll
<1>2. Head(todo') = todo'[1]
  BY <1>1, <1>3
<1> QED
  BY <1>1, <1>2, <1>3 DEF Do

\* Tunnels that are deleted are stopped and forgotten.
LEMMA DismantleInv ==
  ASSUME NEW S \in SUBSET Tunnel, TunnelInv, todo = <<>>, StopsAll(S, "forget")',
         UNCHANGED <<task, status, health, world>>,
         saved' = [t \in Tunnel |-> IF t \in S THEN NoConfig ELSE saved[t]],
         servers' \subseteq Server, UNCHANGED settings, Edit
  PROVE  TunnelInv'
<1>1. TunnelTypeOK /\ todo' \in Seq(Steps) /\ Paired(todo)'
  BY DEF TunnelInv, StopsAll
<1>2. /\ saved' \in [Tunnel -> Config \union {NoConfig}] /\ servers' \subseteq Server
      /\ settings' \in [Server -> 0 .. MaxEdits] /\ edits' \in 0 .. MaxEdits
  BY <1>1, MaxEditsAssumption DEF TunnelTypeOK, Edit
<1>3. ASSUME NEW s \in Server
      PROVE  settings'[s] <= edits'
  <2>1. settings[s] <= edits /\ settings[s] \in Nat /\ edits \in Nat
    BY <1>1, MaxEditsAssumption DEF TunnelInv, TunnelTypeOK
  <2> QED  BY <2>1 DEF Edit
<1>4. \A i \in 1 .. Len(todo') : todo'[i].do # "start"
  BY DEF StopsAll
<1>5. Startable'
  <2>1. \A i \in 1 .. (Len(todo') - 1) : i \in 1 .. Len(todo')
    BY <1>1
  <2> QED  BY <1>4, <2>1 DEF Startable
<1>6. ~ \E t \in Tunnel : Doing("forget", t)'
  BY StopFirst
<1>7. ASSUME NEW t \in Tunnel
      PROVE  SavedInv(t)'
  <2>1. CASE t \in S
    <3>1. Pending("stop", t)' /\ saved'[t] = NoConfig
      BY <2>1 DEF StopsAll
    <3> QED  BY <1>4, <3>1 DEF SavedInv, Outdated
  <2>2. CASE t \notin S
    BY <2>2, AtRest DEF SavedInv, Obsolete, Outdated, Works
  <2> QED  BY <2>1, <2>2
<1>8. ASSUME NEW t \in Tunnel, NEW u \in Tunnel, t # u
      PROVE  PortsInv(t, u)'
  <2>1. PortsInv(t, u) /\ (\A w \in {t, u} : saved'[w] # NoConfig => saved'[w] = saved[w])
    BY <1>8 DEF TunnelInv
  <2>2. \A i \in 1 .. (Len(todo') - 1) : todo'[i] # Do("start", t)
    <3>1. \A i \in 1 .. (Len(todo') - 1) : i \in 1 .. Len(todo')
      BY <1>1
    <3> QED  BY <1>4, <3>1 DEF Do
  <2> QED  BY <2>1, <2>2 DEF PortsInv, Alive, Works
<1> QED
  BY <1>1, <1>2, <1>3, <1>5, <1>6, <1>7, <1>8, CommandInv

\* Tunnels that are stopped and started again, with what is saved now.
LEMMA RestartInv ==
  ASSUME NEW S \in SUBSET Tunnel, TunnelInv, todo = <<>>, StopsAll(S, "start")',
         UNCHANGED <<task, status, health, world>>,
         saved' \in [Tunnel -> Config \union {NoConfig}], servers' \subseteq Server,
         settings' \in [Server -> 0 .. MaxEdits], edits' \in 0 .. MaxEdits,
         \A s \in Server : settings'[s] <= edits',
         \A t \in S : saved'[t] # NoConfig,
         \A t \in Tunnel : saved'[t] = NoConfig => saved[t] = NoConfig,
         \A t \in Tunnel \ S : ~Obsolete(t)' /\ ~Outdated(t)',
         \A t \in S : Obsolete(t)' => todo' = <<Do("stop", t), Do("start", t)>>,
         \A t, u \in Tunnel : t # u /\ (Alive(t) \/ t \in S) /\ (Alive(u) \/ u \in S)
                                /\ NoConfig \notin {saved'[t], saved'[u]}
                                => saved'[t].port # saved'[u].port
  PROVE  TunnelInv'
<1>1. todo' \in Seq(Steps) /\ Paired(todo)' /\ Len(todo') \in Nat
  BY DEF StopsAll
<1>2. \A i \in 1 .. Len(todo') : todo'[i].do \in {"stop", "start"} /\ todo'[i].tunnel \in S
  BY DEF StopsAll
<1>3. \A i \in 1 .. (Len(todo') - 1) : i \in 1 .. Len(todo')
  BY <1>1
<1>4. Startable'
  BY <1>2, <1>3 DEF Startable
<1>5. ~ \E t \in Tunnel : Doing("forget", t)'
  BY StopFirst
<1>6. ASSUME NEW t \in Tunnel
      PROVE  SavedInv(t)'
  <2>1. t \in S => Pending("stop", t)'
    BY DEF StopsAll
  <2>2. saved'[t] = NoConfig => status'[t] \in {"none", "disconnected"}
    BY AtRest
  <2>3. ASSUME todo' = <<Do("stop", t), Do("start", t)>>
        PROVE  \A i \in 1 .. Len(todo') : todo'[i].do = "start" => i = 2 /\ todo'[1] = Do("stop", t)
    BY <2>3 DEF Do
  <2> QED  BY <2>1, <2>2, <2>3 DEF SavedInv
<1>7. ASSUME NEW t \in Tunnel, NEW u \in Tunnel, t # u
      PROVE  PortsInv(t, u)'
  <2>1. (Alive(t)' <=> Alive(t)) /\ (Alive(u)' <=> Alive(u))
    BY DEF Alive
  <2>2. Works(t)' /\ Works(u)' => task'[t].config.port # task'[u].config.port
    BY <1>7 DEF TunnelInv, PortsInv, Works
  <2>3. Pending("start", u)' => u \in S
    BY <1>2 DEF Pending, Do
  <2>4. \A i \in 1 .. (Len(todo') - 1) : todo'[i] = Do("start", t) => t \in S /\ saved'[t] # NoConfig
    BY <1>2, <1>3 DEF Do
  <2> QED  BY <1>7, <2>1, <2>2, <2>3, <2>4 DEF PortsInv
<1> QED
  BY <1>1, <1>4, <1>5, <1>6, <1>7, CommandInv

LEMMA SaveTunnelInv ==
  ASSUME NEW t \in Tunnel, NEW c \in Config, TunnelInv, SaveTunnel(t, c)
  PROVE  TunnelInv'
<1>1. /\ TunnelTypeOK /\ todo = <<>> /\ Allowed(t, c) /\ Edit
      /\ saved' = [saved EXCEPT ![t] = c]
      /\ UNCHANGED <<servers, settings, task, status, health, world>>
      /\ todo' = IF status[t] \in Active THEN Restart(<<t>>) ELSE <<>>
  BY DEF TunnelInv, SaveTunnel, Command, Active
<1>2. PICK S \in {{}, {t}} : S = IF status[t] \in Active THEN {t} ELSE {}
  OBVIOUS
<1>3. S \in SUBSET Tunnel /\ StopsAll(S, "start")'
  <2>1. CASE status[t] \in Active
    BY <1>1, <1>2, <2>1, OneTunnel, StopsEach DEF Restart
  <2>2. CASE status[t] \notin Active
    BY <1>1, <1>2, <2>2, StopsNone
  <2> QED  BY <2>1, <2>2
<1>4. /\ saved' \in [Tunnel -> Config \union {NoConfig}]
      /\ saved'[t] = c /\ c # NoConfig /\ \A u \in Tunnel \ {t} : saved'[u] = saved[u]
  BY <1>1, NoConfigAssumption DEF TunnelTypeOK
<1>5. /\ servers' \subseteq Server /\ settings' \in [Server -> 0 .. MaxEdits] /\ edits' \in 0 .. MaxEdits
      /\ \A s \in Server : settings'[s] <= edits'
  <2>1. servers' \subseteq Server /\ settings' \in [Server -> 0 .. MaxEdits]
    BY <1>1 DEF TunnelTypeOK
  <2>2. edits \in 0 .. MaxEdits /\ edits' = edits + 1 /\ edits < MaxEdits
    BY <1>1 DEF TunnelTypeOK, Edit
  <2>3. \A s \in Server : settings[s] <= edits /\ settings[s] \in Nat
    BY <1>1, MaxEditsAssumption DEF TunnelInv, TunnelTypeOK
  <2> QED  BY <1>1, <2>1, <2>2, <2>3, MaxEditsAssumption
<1>6. \A u \in Tunnel \ S : ~Obsolete(u)' /\ ~Outdated(u)'
  <2> SUFFICES ASSUME NEW u \in Tunnel \ S
               PROVE  ~Obsolete(u)' /\ ~Outdated(u)'
    OBVIOUS
  <2>1. ~Obsolete(u) /\ ~Outdated(u) /\ (Works(u) <=> status[u] \in Active)
    BY <1>1, AtRest
  <2>2. CASE u = t
    <3>1. ~Works(u)
      BY <1>2, <2>1, <2>2
    <3> QED  BY <1>1, <3>1 DEF Obsolete, Outdated, Works
  <2>3. CASE u # t
    BY <1>1, <1>4, <2>1, <2>3 DEF Obsolete, Outdated, Works
  <2> QED  BY <2>2, <2>3
<1>7. \A u \in S : todo' = <<Do("stop", u), Do("start", u)>>
  <2> SUFFICES ASSUME NEW u \in S
               PROVE  todo' = <<Do("stop", u), Do("start", u)>>
    OBVIOUS
  <2>1. u = t /\ todo' = Each(<<t>>, "start")
    BY <1>1, <1>2 DEF Restart
  <2>2. /\ Each(<<t>>, "start") \in Seq(Steps) /\ Len(Each(<<t>>, "start")) = 2 * Len(<<t>>)
        /\ \A k \in 1 .. Len(<<t>>) : /\ Each(<<t>>, "start")[2 * k - 1] = Do("stop", <<t>>[k])
                                      /\ Each(<<t>>, "start")[2 * k] = Do("start", <<t>>[k])
    <3>1. Tunnel \in SUBSET Tunnel /\ <<t>> \in Seq(Tunnel) /\ "start" \in {"start", "forget"}
      OBVIOUS
    <3> QED  BY <3>1, EachPlaces
  <2>3. /\ Len(<<t>>) = 1 /\ 1 \in 1 .. Len(<<t>>) /\ 2 * 1 - 1 = 1 /\ 2 * 1 = 2 /\ <<t>>[1] = t
    OBVIOUS
  <2>4. todo' \in Seq(Steps) /\ Len(todo') = 2 /\ todo'[1] = Do("stop", t) /\ todo'[2] = Do("start", t)
    BY <2>1, <2>2, <2>3
  <2> QED  BY <2>1, <2>4
<1>8. ASSUME NEW u \in Tunnel, NEW w \in Tunnel, u # w,
             Alive(u) \/ u \in S, Alive(w) \/ w \in S, NoConfig \notin {saved'[u], saved'[w]}
      PROVE  saved'[u].port # saved'[w].port
  <2>1. CASE t \in {u, w}
    BY <1>1, <1>4, <1>8, <2>1 DEF Allowed
  <2>2. CASE t \notin {u, w}
    <3>1. Alive(u) /\ Alive(w)
      BY <1>2, <1>8, <2>2
    <3> QED  BY <1>4, <1>8, <2>2, <3>1 DEF TunnelInv, PortsInv
  <2> QED  BY <2>1, <2>2
<1>9. (\A u \in S : saved'[u] # NoConfig) /\ (\A u \in Tunnel : saved'[u] = NoConfig => saved[u] = NoConfig)
  BY <1>2, <1>4
<1>10. \A u \in S : Obsolete(u)' => todo' = <<Do("stop", u), Do("start", u)>>
  BY <1>7
<1>11. \A u, w \in Tunnel : u # w /\ (Alive(u) \/ u \in S) /\ (Alive(w) \/ w \in S)
                               /\ NoConfig \notin {saved'[u], saved'[w]}
                               => saved'[u].port # saved'[w].port
  BY <1>8
<1>12. todo = <<>> /\ UNCHANGED <<task, status, health, world>>
  BY <1>1
<1> QED
  BY <1>3, <1>4, <1>5, <1>6, <1>9, <1>10, <1>11, <1>12, RestartInv

LEMMA SaveServerInv ==
  ASSUME NEW s \in Server, TunnelInv, SaveServer(s)
  PROVE  TunnelInv'
<1>0. PICK S \in SUBSET Tunnel : S = {t \in OfServer(s) : Alive(t)}
  BY DEF OfServer
<1>1. PICK order \in Orders(S) : Command(Restart(order))
  BY <1>0 DEF SaveServer
<1>2. /\ TunnelTypeOK /\ todo = <<>> /\ Edit
      /\ UNCHANGED <<saved, task, status, health, world>>
      /\ servers' = servers \union {s} /\ settings' = [settings EXCEPT ![s] = @ + 1]
  BY <1>1 DEF TunnelInv, SaveServer, Command
<1>3. S \in SUBSET Tunnel /\ StopsAll(S, "start")'
  <2>1. todo' = Each(order, "start") /\ "start" \in {"start", "forget"}
    BY <1>1 DEF Command, Restart
  <2> QED  BY <2>1, StopsEach
<1>4. /\ saved' \in [Tunnel -> Config \union {NoConfig}] /\ servers' \subseteq Server
  BY <1>2 DEF TunnelTypeOK
<1>5. /\ settings' \in [Server -> 0 .. MaxEdits] /\ edits' \in 0 .. MaxEdits
      /\ \A r \in Server : settings'[r] <= edits'
      /\ \A r \in Server \ {s} : settings'[r] = settings[r]
  <2>1. edits \in 0 .. MaxEdits /\ edits' = edits + 1 /\ edits < MaxEdits
    BY <1>2 DEF TunnelTypeOK, Edit
  <2>2. \A r \in Server : settings[r] <= edits /\ settings[r] \in Nat
    BY <1>2, MaxEditsAssumption DEF TunnelInv, TunnelTypeOK
  <2>3. settings \in [Server -> 0 .. MaxEdits]
    BY <1>2 DEF TunnelTypeOK
  <2>4. \A r \in Server : settings'[r] = IF r = s THEN settings[r] + 1 ELSE settings[r]
    BY <1>2, <2>3
  <2>5. \A r \in Server : settings'[r] <= edits' /\ settings'[r] \in 0 .. MaxEdits
    BY <2>1, <2>2, <2>4, MaxEditsAssumption
  <2> QED  BY <1>2, <2>1, <2>3, <2>4, <2>5, MaxEditsAssumption
<1>6. \A u \in Tunnel : ~Obsolete(u)'
  BY <1>2, AtRest DEF Obsolete, Works
<1>7. ASSUME NEW u \in Tunnel \ S, Outdated(u)'
      PROVE  FALSE
  <2>1. Works(u) /\ saved[u] # NoConfig /\ task[u].settings # settings'[saved[u].server] /\ ~Outdated(u)
    BY <1>2, <1>7, AtRest DEF Outdated, Works
  <2>2. saved[u].server \in Server /\ settings'[saved[u].server] # settings[saved[u].server]
    BY <1>2, <2>1 DEF Outdated, TunnelTypeOK, Config
  <2>3. saved[u].server = s
    BY <1>5, <2>2
  <2> QED  BY <1>0, <2>1, <2>3 DEF OfServer, Works, Alive
<1>8. ASSUME NEW u \in Tunnel, NEW w \in Tunnel, u # w,
             Alive(u) \/ u \in S, Alive(w) \/ w \in S, NoConfig \notin {saved'[u], saved'[w]}
      PROVE  saved'[u].port # saved'[w].port
  BY <1>0, <1>2, <1>8 DEF TunnelInv, PortsInv
<1>9. (\A u \in S : saved'[u] # NoConfig) /\ (\A u \in Tunnel : saved'[u] = NoConfig => saved[u] = NoConfig)
  BY <1>0, <1>2 DEF OfServer
<1>10. /\ \A u \in Tunnel \ S : ~Obsolete(u)' /\ ~Outdated(u)'
       /\ \A u \in S : Obsolete(u)' => todo' = <<Do("stop", u), Do("start", u)>>
  BY <1>6, <1>7
<1> QED
  BY <1>2, <1>3, <1>4, <1>5, <1>8, <1>9, <1>10, RestartInv

LEMMA DeleteServerInv ==
  ASSUME NEW s \in Server, TunnelInv, DeleteServer(s)
  PROVE  TunnelInv'
<1>0. PICK S \in SUBSET Tunnel : S = OfServer(s)
  BY DEF OfServer
<1>1. PICK order \in Orders(S) : Command(Dismantle(order))
  BY <1>0 DEF DeleteServer
<1>2. /\ todo = <<>> /\ Edit
      /\ UNCHANGED <<settings, task, status, health, world>>
      /\ saved' = [t \in Tunnel |-> IF t \in S THEN NoConfig ELSE saved[t]]
      /\ servers' \subseteq Server
  BY <1>0, <1>1 DEF TunnelInv, TunnelTypeOK, DeleteServer, Command
<1>3. S \in SUBSET Tunnel /\ StopsAll(S, "forget")'
  <2>1. todo' = Each(order, "forget") /\ "forget" \in {"start", "forget"}
    BY <1>1 DEF Command, Dismantle
  <2> QED  BY <2>1, StopsEach
<1> QED
  BY <1>2, <1>3, DismantleInv

LEMMA DeleteTunnelInv ==
  ASSUME NEW t \in Tunnel, TunnelInv, DeleteTunnel(t)
  PROVE  TunnelInv'
<1>1. /\ todo = <<>> /\ Edit /\ todo' = Each(<<t>>, "forget")
      /\ UNCHANGED <<servers, settings, task, status, health, world>>
      /\ saved' = [saved EXCEPT ![t] = NoConfig]
  BY DEF DeleteTunnel, Command, Dismantle
<1>2. saved \in [Tunnel -> Config \union {NoConfig}] /\ servers' \subseteq Server
  BY <1>1 DEF TunnelInv, TunnelTypeOK
<1>3. saved' = [u \in Tunnel |-> IF u \in {t} THEN NoConfig ELSE saved[u]]
  BY <1>1, <1>2
<1>4. {t} \in SUBSET Tunnel /\ StopsAll({t}, "forget")'
  BY <1>1, OneTunnel, StopsEach
<1> QED
  BY <1>1, <1>2, <1>3, <1>4, DismantleInv
-----------------------------------------------------------------------------
(* The theorem *)

LEMMA TunnelInitInv == TunnelInit => TunnelInv
<1> SUFFICES ASSUME TunnelInit
             PROVE  TunnelInv
  OBVIOUS
<1>1. \A t \in Tunnel : ~Alive(t) /\ ~Works(t) /\ task[t].at = "none" /\ ~task[t].cancel
  BY DEF TunnelInit, NoTask, Alive, Works, Live
<1>2. TunnelTypeOK
  <2>1. NoTask \in Task
    BY MaxEditsAssumption DEF NoTask, Task, Points
  <2> QED  BY <1>1, <2>1, MaxEditsAssumption DEF TunnelInit, TunnelTypeOK, Statuses, Worlds
<1>3. \A s \in Server : settings[s] <= edits
  BY DEF TunnelInit
<1>4. Shape
  BY DEF TunnelInit, Shape, Paired, Startable, Doing
<1>5. \A t \in Tunnel : SavedInv(t) /\ TaskInv(t)
  BY <1>1, NoConfigAssumption DEF TunnelInit, SavedInv, TaskInv, Obsolete, Outdated, Active, NoTask
<1>6. \A t, u \in Tunnel : PortsInv(t, u)
  BY <1>1 DEF TunnelInit, PortsInv
<1> QED
  BY <1>2, <1>3, <1>4, <1>5, <1>6 DEF TunnelInv

LEMMA TunnelNextInv == TunnelInv /\ [TunnelNext]_tunnelVars => TunnelInv'
<1> SUFFICES ASSUME TunnelInv, [TunnelNext]_tunnelVars
             PROVE  TunnelInv'
  OBVIOUS
<1>1. CASE UNCHANGED tunnelVars
  <2>1. TunnelTypeOK' /\ Shape'
    BY <1>1 DEF TunnelInv, tunnelVars, TunnelTypeOK, Alive, Shape, Paired, Startable, Doing
  <2>2. \A u \in Tunnel : SavedInv(u)' /\ TaskInv(u)'
    BY <1>1 DEF TunnelInv, tunnelVars, SavedInv, TaskInv, Obsolete, Outdated, Works, Pending, Doing
  <2>3. \A u, w \in Tunnel : u # w => PortsInv(u, w)'
    BY <1>1 DEF TunnelInv, tunnelVars, PortsInv, Works, Alive, Pending
  <2>4. \A s \in Server : settings'[s] <= edits'
    BY <1>1 DEF TunnelInv, tunnelVars
  <2> QED  BY <2>1, <2>2, <2>3, <2>4 DEF TunnelInv
<1>2. ASSUME NEW t \in Tunnel, NEW on \in BOOLEAN, SetConnected(t, on)
      PROVE  TunnelInv'
  BY <1>2, SetConnectedInv
<1>3. ASSUME NEW t \in Tunnel, NEW c \in Config, SaveTunnel(t, c)
      PROVE  TunnelInv'
  BY <1>3, SaveTunnelInv
<1>4. ASSUME NEW t \in Tunnel, DeleteTunnel(t)
      PROVE  TunnelInv'
  BY <1>4, DeleteTunnelInv
<1>5. ASSUME NEW t \in Tunnel, Manage(t)
      PROVE  TunnelInv'
  BY <1>5, StartInv, CancelInv, StoppedInv, ForgetInv DEF Manage
<1>6. ASSUME NEW t \in Tunnel, Supervise(t) \/ Interrupted(t) \/ Watch(t)
      PROVE  TunnelInv'
  BY <1>6, SuperviseInv, InterruptedInv, WatchInv
<1>7. ASSUME NEW s \in Server, SaveServer(s) \/ DeleteServer(s)
      PROVE  TunnelInv'
  BY <1>7, SaveServerInv, DeleteServerInv
<1>8. CASE System
  BY <1>8, SystemInv
<1> QED
  BY <1>1, <1>2, <1>3, <1>4, <1>5, <1>6, <1>7, <1>8 DEF TunnelNext

\* Between commands there is nothing to do, and what the invariant excuses is excused no more.
LEMMA TunnelInvSafe == TunnelInv => TunnelsSafe
<1> SUFFICES ASSUME TunnelInv
             PROVE  TunnelsSafe
  OBVIOUS
<1>1. \A t \in Tunnel : Works(t) <=> Alive(t) /\ task[t].at # "end"
  BY DEF Works, Alive, Live
<1>2. PortsApart
  BY <1>1 DEF TunnelInv, PortsInv, PortsApart
<1>3. ASSUME todo = <<>>, NEW t \in Tunnel, Works(t)
      PROVE  task[t].config = saved[t] /\ task[t].settings = settings[saved[t].server]
  <2>1. task[t].config = saved[t] /\ ~Outdated(t)
    BY <1>3, AtRest DEF Obsolete
  <2>2. saved[t] # NoConfig
    BY <1>1, <1>3, <2>1 DEF TunnelInv, TunnelTypeOK
  <2> QED  BY <1>3, <2>1, <2>2 DEF Outdated
<1>4. RunsAsSaved
  BY <1>1, <1>3 DEF RunsAsSaved
<1>5. StatusTruth
  <2>1. \A t \in health : status[t] = "connected"
    BY DEF TunnelInv, TunnelTypeOK, TaskInv
  <2>2. ASSUME todo = <<>>, NEW t \in Tunnel
        PROVE  /\ status[t] \in {"connecting", "connected", "reconnecting"} <=> Alive(t) /\ task[t].at # "end"
               /\ status[t] \in {"none", "disconnected"} => task[t].at = "none"
               /\ saved[t] = NoConfig => status[t] \in {"none", "disconnected"}
    BY <1>1, <2>2, AtRest DEF Active
  <2> QED  BY <2>1, <2>2 DEF StatusTruth
<1> QED
  BY <1>2, <1>4, <1>5 DEF TunnelInv, TunnelsSafe

\* In every behaviour the ports, the settings and what is shown of the tunnels agree: no
\* two supervisors work on one range of ports, and between commands each works on what
\* is saved and each status is true (manager.rs, commands.rs).
THEOREM TunnelsAreSafe == TunnelSpec => []TunnelsSafe
<1>1. TunnelSpec => []TunnelInv
  BY TunnelInitInv, TunnelNextInv, PTL DEF TunnelSpec
<1> QED
  BY <1>1, TunnelInvSafe, PTL
=============================================================================

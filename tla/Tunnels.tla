------------------------------ MODULE Tunnels ------------------------------
(***************************************************************************)
(* The desktop's manager and the supervisor task of each tunnel:           *)
(*                                                                         *)
(*   src-tauri/src/manager.rs        connect, disconnect, spawn            *)
(*   src-tauri/src/commands.rs       save/delete of tunnels and servers    *)
(*   src-tauri/src/ssh.rs            Forwarding: listeners, then SSH       *)
(*   src-tauri/src/system_events.rs  Recovery: no retry while asleep       *)
(*                                                                         *)
(* A command holds the manager's lock to its end, also while it waits for  *)
(* a supervisor to stop; supervisors run meanwhile.                        *)
(***************************************************************************)
EXTENDS Naturals, Sequences, FiniteSets, Functions

CONSTANTS Tunnel,    \* saved tunnels
          Server,
          Port,      \* local port ranges: two tunnels overlap when theirs are equal
          MaxEdits,  \* bound: saves and deletes of a behaviour
          NoConfig   \* a tunnel that is not saved

ASSUME MaxEditsAssumption == MaxEdits \in Nat
ASSUME TunnelAssumption == IsFiniteSet(Tunnel)

VARIABLES
  saved,     \* config.tunnels
  servers,   \* config.servers
  settings,  \* how often the connection settings or the password of each have changed
  edits,     \* saves and deletes so far
  task,      \* the manager's map of supervisors
  status,    \* runtime.tunnels
  health,    \* runtime.tunnel_health: tunnels with an entry
  todo,      \* what is left of the command that holds the manager's lock
  world      \* "up": servers can be reached, and an SSH agent signs where a login is tied to it;
             \* "locked": that agent is locked or gone, or the user declines; "down": no network;
             \* "asleep": the system goes to sleep or sleeps

Worlds == {"up", "locked", "down", "asleep"}

tunnelVars == <<saved, servers, settings, edits, task, status, health, todo, world>>
-----------------------------------------------------------------------------
Config == [server : Server, port : Port, auto : BOOLEAN]
ASSUME NoConfigAssumption == NoConfig \notin Config

\* Where a supervisor is.  "finished" is a task that has ended and is still in the map.
Live   == {"ready", "bind", "connect", "serve", "close", "failed", "backoff", "end"}
Points == {"none", "finished"} \union Live

Statuses == {"none", "disconnected", "connecting", "connected", "reconnecting", "error"}

\* What a supervisor has: it works on the copies it was spawned with.
Task == [at : Points, config : Config \union {NoConfig}, settings : 0 .. MaxEdits,
         cancel : BOOLEAN, retry : BOOLEAN]
NoTask == [at |-> "none", config |-> NoConfig, settings |-> 0, cancel |-> FALSE, retry |-> FALSE]

\* Between the bind and the end of the shutdown the listeners are open.
Listens(t) == task[t].at \in {"connect", "serve", "close"}
Alive(t)   == task[t].at \in Live

TunnelInit ==
  /\ saved \in [Tunnel -> Config]
  /\ servers = Server
  /\ settings = [s \in Server |-> 0]
  /\ edits = 0
  /\ task = [t \in Tunnel |-> NoTask]
  /\ status = [t \in Tunnel |-> "disconnected"]
  /\ health = {}
  /\ todo = <<>>
  /\ world = "up"
-----------------------------------------------------------------------------
(* Commands: each takes the lock, saves the profiles, and leaves steps to do *)

Steps == [do : {"start", "stop", "forget"}, tunnel : Tunnel]

Do(step, t) == [do |-> step, tunnel |-> t]

\* Each tunnel is stopped, and then something else is done with it.
Each(order, step) ==
  [i \in 1..(2 * Len(order)) |-> IF i % 2 = 1 THEN Do("stop", order[(i + 1) \div 2])
                                              ELSE Do(step, order[i \div 2])]
Restart(order)   == Each(order, "start")
Dismantle(order) == Each(order, "forget")

\* The saved order of some tunnels is any.
Orders(S) == Bijection(1..Cardinality(S), S)

Command(steps) ==
  /\ todo = <<>>
  /\ todo' = steps
  /\ UNCHANGED <<task, status, health, world>>

Edit == edits < MaxEdits /\ edits' = edits + 1

SetConnected(t, on) ==
  /\ Command(<<Do(IF on THEN "start" ELSE "stop", t)>>)
  /\ UNCHANGED <<saved, servers, settings, edits>>

\* save_tunnel's checks: an edited tunnel may not overlap a saved one; profiles saved before that rule may.
Allowed(t, c) ==
  /\ c.server \in servers
  /\ \A u \in Tunnel \ {t} : saved[u] # NoConfig => saved[u].port # c.port

SaveTunnel(t, c) ==
  /\ Allowed(t, c)
  /\ saved' = [saved EXCEPT ![t] = c]
  /\ Edit
  /\ Command(IF status[t] \in {"connecting", "connected", "reconnecting"} THEN Restart(<<t>>) ELSE <<>>)
  /\ UNCHANGED <<servers, settings>>

DeleteTunnel(t) ==
  /\ saved' = [saved EXCEPT ![t] = NoConfig]
  /\ Edit
  /\ Command(Dismantle(<<t>>))
  /\ UNCHANGED <<servers, settings>>

OfServer(s) == {t \in Tunnel : saved[t] # NoConfig /\ saved[t].server = s}

\* Variant: only a tunnel that is connected is restarted.
SaveServerConnected(s) ==
  /\ servers' = servers \union {s}
  /\ settings' = [settings EXCEPT ![s] = @ + 1]
  /\ Edit
  /\ \E order \in Orders({t \in OfServer(s) : status[t] = "connected"}) : Command(Restart(order))
  /\ UNCHANGED saved

\* save_server with other connection settings or a password: what is active restarts.
SaveServer(s) ==
  /\ servers' = servers \union {s}
  /\ settings' = [settings EXCEPT ![s] = @ + 1]
  /\ Edit
  /\ \E order \in Orders({t \in OfServer(s) : Alive(t)}) : Command(Restart(order))
  /\ UNCHANGED saved

DeleteServer(s) ==
  /\ s \in servers
  /\ servers' = servers \ {s}
  /\ saved' = [t \in Tunnel |-> IF t \in OfServer(s) THEN NoConfig ELSE saved[t]]
  /\ Edit
  /\ \E order \in Orders(OfServer(s)) : Command(Dismantle(order))
  /\ UNCHANGED settings
-----------------------------------------------------------------------------
(* Steps of a command *)

Doing(step, t) == todo # <<>> /\ Head(todo) = Do(step, t)

\* set_state: leaving "connected" drops the destinations' health.
SetState(t, s) ==
  /\ status' = [status EXCEPT ![t] = s]
  /\ health' = IF s = "connected" THEN health ELSE health \ {t}

\* Variant: an overlap is left for the bind to find out.
OverlapsNone(t) == FALSE

\* The check is against the saved ranges of running tunnels.
Overlaps(t) ==
  \E u \in Tunnel \ {t} : /\ Alive(u)
                          /\ NoConfig \notin {saved[t], saved[u]}
                          /\ saved[u].port = saved[t].port

\* Variant: it is not checked that the tunnel is still saved.
StartDeleted(t) ==
  /\ Doing("start", t)
  /\ \/ /\ Alive(t)
        /\ UNCHANGED <<task, status, health>>
     \/ /\ ~Alive(t) /\ ~Overlaps(t)
        /\ SetState(t, "connecting")
        /\ task' = [task EXCEPT ![t] = [NoTask EXCEPT !.at = "ready", !.config = saved[t]]]
  /\ todo' = Tail(todo)
  /\ UNCHANGED <<saved, servers, settings, edits, world>>

\* Running already, even if only about to end: nothing to do.  An error ends the command.
Start(t) ==
  /\ Doing("start", t)
  /\ \/ /\ Alive(t)
        /\ todo' = Tail(todo)
        /\ UNCHANGED <<task, status, health>>
     \/ /\ ~Alive(t) /\ (saved[t] = NoConfig \/ Overlaps(t))
        /\ todo' = <<>>
        /\ UNCHANGED <<task, status, health>>
     \/ /\ ~Alive(t) /\ saved[t] # NoConfig /\ ~Overlaps(t)
        /\ SetState(t, "connecting")
        /\ task' = [task EXCEPT ![t] = [NoTask EXCEPT !.at = "ready", !.config = saved[t],
                                                      !.settings = settings[saved[t].server]]]
        /\ todo' = Tail(todo)
  /\ UNCHANGED <<saved, servers, settings, edits, world>>

Cancel(t) ==
  /\ Doing("stop", t) /\ Alive(t) /\ ~task[t].cancel
  /\ task' = [task EXCEPT ![t].cancel = TRUE]
  /\ UNCHANGED <<saved, servers, settings, edits, status, health, todo, world>>

\* Variant: the supervisor is told to stop, and not waited for.
StoppedEarly(t) ==
  /\ Doing("stop", t) /\ (Alive(t) => task[t].cancel)
  /\ SetState(t, "disconnected")
  /\ todo' = Tail(todo)
  /\ UNCHANGED <<saved, servers, settings, edits, task, world>>

Stopped(t) ==
  /\ Doing("stop", t) /\ ~Alive(t)
  /\ task' = [task EXCEPT ![t] = NoTask]
  /\ SetState(t, "disconnected")
  /\ todo' = Tail(todo)
  /\ UNCHANGED <<saved, servers, settings, edits, world>>

ForgetTunnel(t) ==
  /\ Doing("forget", t)
  /\ status' = [status EXCEPT ![t] = "none"]
  /\ todo' = Tail(todo)
  /\ UNCHANGED <<saved, servers, settings, edits, task, health, world>>
-----------------------------------------------------------------------------
(* A supervisor *)

Move(t, from, to) == task[t].at = from /\ task' = [task EXCEPT ![t].at = to]
Ends(t, from)     == task[t].at = from /\ task' = [task EXCEPT ![t].at = "finished"]
Quiet             == UNCHANGED <<saved, servers, settings, edits, todo, world>>

\* Variant: a supervisor that waits for the system to wake does not hear the cancel.
InterruptedAwake(t) ==
  /\ task[t].cancel
  /\ \/ \E p \in {"bind", "connect"} : Ends(t, p)
     \/ \E p \in {"ready", "backoff"} : world # "asleep" /\ Ends(t, p)
     \/ Move(t, "serve", "close")
  /\ UNCHANGED <<status, health>> /\ Quiet

\* A cancelled supervisor ends wherever it waits; listeners close behind it.
Interrupted(t) ==
  /\ task[t].cancel
  /\ \/ \E p \in {"ready", "bind", "connect", "backoff"} : Ends(t, p)
     \/ Move(t, "serve", "close")
  /\ UNCHANGED <<status, health>> /\ Quiet

\* The cancel is looked at first.
Ready(t) ==
  /\ world # "asleep" /\ ~task[t].cancel
  /\ Move(t, "ready", "bind")
  /\ UNCHANGED <<status, health>> /\ Quiet

\* Any other program may hold the port, as may a tunnel of ours.
Bind(t) ==
  /\ task[t].at = "bind"
  /\ \/ /\ \A u \in Tunnel : Listens(u) => task[u].config.port # task[t].config.port
        /\ Move(t, "bind", "connect")
     \/ task' = [task EXCEPT ![t].at = "failed", ![t].retry = FALSE]
  /\ UNCHANGED <<status, health>> /\ Quiet

\* A refused login or host key is not retried.  A lost network is, and so is an agent
\* that does not sign, the network up or not (is_transient_connection_error).
ConnectFails(t) ==
  /\ task[t].at = "connect"
  /\ \E retry \in BOOLEAN : /\ retry => world # "up"
                            /\ task' = [task EXCEPT ![t].at = "failed", ![t].retry = retry]
  /\ UNCHANGED <<status, health>> /\ Quiet

\* Also with an agent locked: not every login is tied to one.
Connected(t) ==
  /\ world # "down"
  /\ Move(t, "connect", "serve")
  /\ SetState(t, "connected")
  /\ Quiet

\* Every 250 ms.
Watch(t) ==
  /\ task[t].at = "serve"
  /\ health' = health \union {t}
  /\ UNCHANGED <<task, status>> /\ Quiet

\* A locked agent does not end a connection.
Lost(t) ==
  /\ world \in {"down", "asleep"} /\ task[t].at = "serve"
  /\ task' = [task EXCEPT ![t].at = "close", ![t].retry = TRUE]
  /\ UNCHANGED <<status, health>> /\ Quiet

\* The shutdown is waited for; only a failure goes on, if not cancelled meanwhile.
Closed(t) ==
  /\ IF task[t].retry THEN Move(t, "close", "failed") ELSE Ends(t, "close")
  /\ UNCHANGED <<status, health>> /\ Quiet

Failed(t) ==
  /\ task[t].at = "failed"
  /\ \/ /\ task[t].cancel /\ Ends(t, "failed")
        /\ UNCHANGED <<status, health>>
     \/ /\ ~task[t].cancel /\ ~(task[t].retry /\ task[t].config.auto)
        /\ Move(t, "failed", "end")
        /\ SetState(t, "error")
     \/ /\ ~task[t].cancel /\ task[t].retry /\ task[t].config.auto
        /\ Move(t, "failed", "backoff")
        /\ SetState(t, "reconnecting")
  /\ Quiet

End(t) == Ends(t, "end") /\ UNCHANGED <<status, health>> /\ Quiet

\* Variant: the delay alone does not end the backoff, only a wake-up does.
RetryOnWake(t) ==
  /\ world = "asleep" /\ ~task[t].cancel
  /\ task[t].at = "backoff"
  /\ task' = [task EXCEPT ![t].at = "ready", ![t].retry = FALSE]
  /\ UNCHANGED <<status, health>> /\ Quiet

\* The delay, or an event that shortens it; then the loop's top.
Retry(t) ==
  /\ world # "asleep" /\ ~task[t].cancel
  /\ task[t].at = "backoff"
  /\ task' = [task EXCEPT ![t].at = "ready", ![t].retry = FALSE]
  /\ UNCHANGED <<status, health>> /\ Quiet
-----------------------------------------------------------------------------
System ==
  /\ world' \in Worlds \ {world}
  /\ UNCHANGED <<saved, servers, settings, edits, task, status, health, todo>>

Manage(t) == Start(t) \/ Cancel(t) \/ Stopped(t) \/ ForgetTunnel(t)

Supervise(t) == \/ Ready(t) \/ Bind(t) \/ ConnectFails(t) \/ Connected(t) \/ Lost(t)
                \/ Closed(t) \/ Failed(t) \/ End(t) \/ Retry(t)

TunnelNext ==
  \/ \E t \in Tunnel :
       \/ \E on \in BOOLEAN : SetConnected(t, on)
       \/ \E c \in Config : SaveTunnel(t, c)
       \/ DeleteTunnel(t)
       \/ Manage(t) \/ Supervise(t) \/ Interrupted(t) \/ Watch(t)
  \/ \E s \in Server : SaveServer(s) \/ DeleteServer(s)
  \/ System

TunnelSpec == TunnelInit /\ [][TunnelNext]_tunnelVars

\* Tasks run; of the branches a select finds ready, none is passed over for ever.
TunnelFairSpec ==
  /\ TunnelSpec
  /\ \A t \in Tunnel : WF_tunnelVars(Manage(t)) /\ WF_tunnelVars(Supervise(t)) /\ WF_tunnelVars(Interrupted(t))
-----------------------------------------------------------------------------
(* Properties *)

TunnelTypeOK ==
  /\ saved \in [Tunnel -> Config \union {NoConfig}]
  /\ servers \subseteq Server
  /\ settings \in [Server -> 0 .. MaxEdits]
  /\ edits \in 0 .. MaxEdits
  /\ task \in [Tunnel -> Task]
  /\ \A t \in Tunnel : Alive(t) => task[t].config # NoConfig
  /\ status \in [Tunnel -> Statuses]
  /\ health \subseteq Tunnel
  /\ todo \in Seq(Steps)
  /\ world \in Worlds

\* Two supervisors never work on the same local ports, so that a tunnel of ours is
\* never the reason why another one's bind fails.
PortsApart ==
  \A t, u \in Tunnel : t # u /\ Alive(t) /\ Alive(u) /\ task[t].at # "end" /\ task[u].at # "end"
                         => task[t].config.port # task[u].config.port

\* Between commands, every supervisor works on what is saved: no connection outlives
\* the settings or the password it was made with.
RunsAsSaved ==
  todo = <<>> =>
    \A t \in Tunnel : Alive(t) /\ task[t].at # "end" =>
      /\ task[t].config = saved[t]
      /\ task[t].settings = settings[saved[t].server]

\* Between commands, a tunnel that shows as connecting, connected or reconnecting has
\* a supervisor, one that shows as stopped has none that will change it, and a deleted
\* one is not shown as running.  Destination health is shown of connected tunnels only.
StatusTruth ==
  /\ \A t \in health : status[t] = "connected"
  /\ todo = <<>> => \A t \in Tunnel :
      /\ status[t] \in {"connecting", "connected", "reconnecting"} <=> Alive(t) /\ task[t].at # "end"
      /\ status[t] \in {"none", "disconnected"} => task[t].at = "none"
      /\ saved[t] = NoConfig => status[t] \in {"none", "disconnected"}

\* The three for the runs: ports, settings and what is shown agree between commands.
TunnelsSafe == TunnelTypeOK /\ PortsApart /\ RunsAsSaved /\ StatusTruth

\* A command that stops a supervisor returns, and with it the manager's lock: also
\* while the system sleeps, and whatever the supervisor is waiting for.
CommandsReturn == todo # <<>> ~> todo = <<>>

\* Once servers can be reached, the system is awake and the agents that logins are tied
\* to sign, all for good, no tunnel stays reconnecting.  While such an agent is locked or
\* declines, its tunnels reconnect for ever: the code calls that failure transient.
Recovers ==
  <>[](world = "up") =>
    \A t \in Tunnel : []<>(status[t] # "reconnecting")
=============================================================================

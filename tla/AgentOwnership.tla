--------------------------- MODULE AgentOwnership ---------------------------
(***************************************************************************)
(* Who owns the clipboard of a server account.  Each desktop installation  *)
(* (client) that has the integration on starts an agent over SSH; the      *)
(* agent takes the lock of the endpoint agent.sock, starts its displays    *)
(* (the Wayland one has an endpoint and a lock of its own, which a         *)
(* standalone `newport-agent display --service` may hold), writes its      *)
(* files (agent-client, features, display), and serves until its input     *)
(* ends, 45 seconds pass without one, or it is killed.  The desktop retries *)
(* what the agent calls temporary and stops at anything else.              *)
(*                                                                         *)
(* The locks are flock locks on files that are never unlinked: they go     *)
(* with their process.  A socket at a path is known by its process; one    *)
(* whose process is gone is "stale".  Helpers of older versions, which     *)
(* hold the file "lock", are not modelled; nor is a file that is no socket *)
(* at a path, which makes every start fail.                                *)
(***************************************************************************)
EXTENDS Integers, FiniteSets

CONSTANTS
    Client,      \* installations of the desktop
    Process,     \* slots of processes on the server
    Nobody, StaleSocket, \* no process; a socket file whose process is gone
    MaxOwnerFaults    \* bound: connections lost and processes killed

ASSUME OwnershipAssumption ==
    Nobody \notin Process \cup Client /\ StaleSocket \notin Process /\ MaxOwnerFaults \in Nat

Paths == {"agent", "wayland"}

VARIABLES
    proc,      \* proc[p]: where the process is, for whom it runs
    flock,      \* flock[path]: the process that holds the endpoint's lock
    sock,      \* sock[path]: whose socket is at the path
    naming,     \* the client named by agent-client and features, or Nobody
    desktop,    \* what each desktop does: its state and the process of its session
    faults

ownerVars == <<proc, flock, sock, naming, desktop, faults>>

NoProcess == [pc |-> "none", for |-> Nobody, refusal |-> "none"]
Held(p) == {path \in Paths : flock[path] = p}
LiveProc(p) == proc[p].pc # "none"
ProcGoes(p, pc) == proc' = [proc EXCEPT ![p].pc = pc]

OwnerInit ==
    /\ proc = [p \in Process |-> NoProcess]
    /\ flock = [path \in Paths |-> Nobody]
    /\ sock \in [Paths -> {Nobody, StaleSocket}]
    /\ naming \in {Nobody} \cup Client          \* what a killed agent left
    /\ desktop = [c \in Client |-> [state |-> "retrying", proc |-> Nobody]]
    /\ faults = 0

-----------------------------------------------------------------------------
(* The desktop (recover_connection, run_once) *)

\* An attempt connects and launches an agent.
Launch(c, p) ==
    /\ desktop[c].state = "retrying" /\ ~LiveProc(p)
    /\ proc' = [proc EXCEPT ![p] = [pc |-> "agent", for |-> c, refusal |-> "none"]]
    /\ desktop' = [desktop EXCEPT ![c] = [state |-> "starting", proc |-> p]]
    /\ UNCHANGED <<flock, sock, naming, faults>>

\* The agent's ready frame, or its error: temporary (T) is retried, any other
\* (E) stops the integration.
DesktopHears(c) ==
    LET p == desktop[c].proc
        told == proc[p].refusal
    IN  /\ desktop[c].state = "starting"
        /\ \/ proc[p].pc = "serving" /\ desktop' = [desktop EXCEPT ![c].state = "connected"] /\ UNCHANGED proc
           \/ /\ proc[p].pc = "refused"
              /\ desktop' = [desktop EXCEPT ![c] = [state |-> IF told = "T" THEN "retrying" ELSE "stopped", proc |-> Nobody]]
              /\ proc' = [proc EXCEPT ![p] = NoProcess]
    /\ UNCHANGED <<flock, sock, naming, faults>>

\* The connection is lost: the desktop retries, the agent has yet to notice.
LoseLink(c) ==
    /\ desktop[c].state \in {"starting", "connected"} /\ faults < MaxOwnerFaults
    /\ desktop' = [desktop EXCEPT ![c] = [state |-> "retrying", proc |-> Nobody]]
    /\ faults' = faults + 1
    /\ UNCHANGED <<proc, flock, sock, naming>>

-----------------------------------------------------------------------------
(* Endpoint::fixed *)

TakeLock(p, path) == flock' = [flock EXCEPT ![path] = p]

\* Under the lock: a stale socket is unlinked, a live one is refused.
\* Mutant: any socket at the path is in the way.
BindableEmpty(path) == sock[path] = Nobody
Bindable(path) == sock[path] \in {Nobody, StaleSocket}
Bind(p, path) == sock' = [sock EXCEPT ![path] = p]

\* Endpoint::drop unlinks the path if its own socket is there; the lock goes
\* with the file it is on.
Unlinked(p, path) == IF sock[path] = p THEN Nobody ELSE sock[path]
ReleaseEndpoint(p, path) ==
    /\ sock' = [sock EXCEPT ![path] = Unlinked(p, path)]
    /\ flock' = [flock EXCEPT ![path] = Nobody]

-----------------------------------------------------------------------------
(* Session::start.  A display has its own, which takes one endpoint. *)

Refuse(p, kind) == proc' = [proc EXCEPT ![p].pc = "refused", ![p].refusal = kind]

LockAgent(p) ==
    /\ proc[p].pc = "agent"
    /\ IF flock["agent"] = Nobody
       THEN TakeLock(p, "agent") /\ ProcGoes(p, "binding")
       ELSE ProcGoes(p, "asking") /\ UNCHANGED flock
    /\ UNCHANGED <<sock, naming, desktop, faults>>

\* Somebody holds the endpoint: agent-client tells whether it is an agent of
\* this client, which is closing, or that of another installation.
AskWho(p) ==
    /\ proc[p].pc = "asking"
    /\ Refuse(p, IF naming = proc[p].for THEN "T" ELSE "E")
    /\ UNCHANGED <<flock, sock, naming, desktop, faults>>

BindAgent(p) ==
    /\ proc[p].pc = "binding"
    /\ IF Bindable("agent") THEN Bind(p, "agent") /\ ProcGoes(p, "displays")
       ELSE ProcGoes(p, "asking") /\ UNCHANGED sock
    /\ UNCHANGED <<flock, naming, desktop, faults>>

\* The Wayland display needs its endpoint too; if it cannot have it, what was
\* taken is given back (the files first, as at the end) and the start fails.
LockWayland(p) ==
    /\ proc[p].pc = "displays"
    /\ IF flock["wayland"] = Nobody
       THEN TakeLock(p, "wayland") /\ ProcGoes(p, "wayland")
       ELSE proc' = [proc EXCEPT ![p].pc = "cleanup", ![p].refusal = "E"] /\ UNCHANGED flock
    /\ UNCHANGED <<sock, naming, desktop, faults>>

BindWayland(p) ==
    /\ proc[p].pc = "wayland"
    /\ IF Bindable("wayland") THEN Bind(p, "wayland") /\ ProcGoes(p, "writing") /\ UNCHANGED flock
       ELSE /\ proc' = [proc EXCEPT ![p].pc = "cleanup", ![p].refusal = "E"]
            /\ flock' = [flock EXCEPT !["wayland"] = Nobody] /\ UNCHANGED sock
    /\ UNCHANGED <<naming, desktop, faults>>

\* X11, then agent-client and the other files; if one of them fails, those
\* written so far, agent-client included, are removed as at the end.
WriteFiles(p) ==
    /\ proc[p].pc = "writing"
    /\ \/ naming' = proc[p].for /\ ProcGoes(p, "serving")
       \/ /\ naming' \in {naming, proc[p].for}
          /\ \E kind \in {"T", "E"} : proc' = [proc EXCEPT ![p].pc = "closing", ![p].refusal = kind]
    /\ UNCHANGED <<flock, sock, desktop, faults>>

-----------------------------------------------------------------------------
(* The end of a session: its fields are dropped in order *)

\* The input ends or is silent too long, or a display has stopped.
EndSession(p) ==
    /\ proc[p].pc = "serving"
    /\ ProcGoes(p, "closing")
    /\ desktop' = [c \in Client |-> IF desktop[c].proc = p THEN [state |-> "retrying", proc |-> Nobody] ELSE desktop[c]]
    /\ \A c \in Client : desktop[c].proc = p => faults < MaxOwnerFaults
    /\ faults' = IF \E c \in Client : desktop[c].proc = p THEN faults + 1 ELSE faults
    /\ UNCHANGED <<flock, sock, naming>>

\* Mutant: the endpoints are given back before the files are removed.
ReleaseFirst(p) ==
    /\ proc[p].pc = "closing" /\ ProcGoes(p, "cleanup")
    /\ sock' = [path \in Paths |-> Unlinked(p, path)]
    /\ flock' = [path \in Paths |-> Nobody]
    /\ UNCHANGED <<naming, desktop, faults>>
DropWayland(p) ==
    /\ proc[p].pc = "closing"
    /\ ReleaseEndpoint(p, "wayland") /\ ProcGoes(p, "cleanup")
    /\ UNCHANGED <<naming, desktop, faults>>

DropFiles(p) ==
    /\ proc[p].pc = "cleanup"
    /\ naming' = Nobody
    /\ ProcGoes(p, "releasing")
    /\ UNCHANGED <<flock, sock, desktop, faults>>

\* Last the endpoint; a start that failed then reports why.
DropAgent(p) ==
    /\ proc[p].pc = "releasing"
    /\ ReleaseEndpoint(p, "agent")
    /\ proc' = [proc EXCEPT ![p] = IF @.refusal # "none" THEN [@ EXCEPT !.pc = "refused"] ELSE NoProcess]
    /\ UNCHANGED <<naming, desktop, faults>>

\* A refused agent whose desktop has gone ends unheard.
EndUnheard(p) ==
    /\ proc[p].pc = "refused" /\ \A c \in Client : desktop[c].proc # p
    /\ proc' = [proc EXCEPT ![p] = NoProcess]
    /\ UNCHANGED <<flock, sock, naming, desktop, faults>>

\* The process is killed or the machine restarts under it: its locks go, its
\* files and sockets stay.
Kill(p) ==
    /\ LiveProc(p) /\ faults < MaxOwnerFaults
    /\ proc' = [proc EXCEPT ![p] = NoProcess]
    /\ flock' = [path \in Paths |-> IF flock[path] = p THEN Nobody ELSE flock[path]]
    /\ sock' = [path \in Paths |-> IF sock[path] = p THEN StaleSocket ELSE sock[path]]
    /\ desktop' = [c \in Client |-> IF desktop[c].proc = p THEN [state |-> "retrying", proc |-> Nobody] ELSE desktop[c]]
    /\ faults' = faults + 1
    /\ UNCHANGED naming

-----------------------------------------------------------------------------
(* newport-agent display --backend wayland --service *)

StartDisplay(p) ==
    /\ ~LiveProc(p) /\ flock["wayland"] = Nobody /\ faults < MaxOwnerFaults
    /\ TakeLock(p, "wayland")
    /\ proc' = [proc EXCEPT ![p] = [NoProcess EXCEPT !.pc = "display"]]
    /\ faults' = faults + 1
    /\ UNCHANGED <<sock, naming, desktop>>
BindDisplay(p) ==
    /\ proc[p].pc = "display" /\ Bindable("wayland")
    /\ Bind(p, "wayland") /\ ProcGoes(p, "shown")
    /\ UNCHANGED <<flock, naming, desktop, faults>>
StopDisplay(p) ==
    /\ proc[p].pc = "shown"
    /\ ReleaseEndpoint(p, "wayland")
    /\ proc' = [proc EXCEPT ![p] = NoProcess]
    /\ UNCHANGED <<naming, desktop, faults>>

-----------------------------------------------------------------------------
OwnerNext ==
    \/ \E c \in Client : DesktopHears(c) \/ LoseLink(c) \/ \E p \in Process : Launch(c, p)
    \/ \E p \in Process :
          \/ LockAgent(p) \/ AskWho(p) \/ BindAgent(p) \/ LockWayland(p) \/ BindWayland(p) \/ WriteFiles(p)
          \/ EndSession(p) \/ DropWayland(p) \/ DropFiles(p) \/ DropAgent(p) \/ EndUnheard(p) \/ Kill(p)
          \/ StartDisplay(p) \/ BindDisplay(p) \/ StopDisplay(p)

OwnerSpec == OwnerInit /\ [][OwnerNext]_ownerVars

-----------------------------------------------------------------------------
\* While an agent serves, both sockets at their paths are its own and the files
\* name its client: what an earlier agent cleans up late, a start that fails,
\* or a stale socket never touches them (the order of Session's fields, the
\* identity check of Endpoint::drop, the lock that is never unlinked).
PublishedTruth ==
    \A p \in Process : proc[p].pc = "serving" => (\A path \in Paths : sock[path] = p) /\ naming = proc[p].for

\* A start is turned away only by another process that lives: nothing that a
\* killed one leaves behind, locks or sockets, keeps the next from starting.
Trying(q) == q.pc \in {"agent", "binding", "displays", "wayland"}
TurnedAway(q) == q.pc \in {"asking", "cleanup"}
RefusedByLive ==
    [][\A p \in Process : Trying(proc[p]) /\ TurnedAway(proc'[p]) => \E q \in Process \ {p} : LiveProc(q)]_ownerVars

\* An integration stops as "active in another Newport installation" only if
\* another installation's process is there.
\* The code does not keep it: no run expects it to hold (README, "What the code does
\* not keep").
StoppedForCause ==
    [][\A c \in Client : (desktop[c].state # "stopped" /\ desktop'[c].state = "stopped")
                             => \E p \in Process : LiveProc(p) /\ proc[p].for # c]_ownerVars
=============================================================================

----------------------------- MODULE Lifecycle -----------------------------
(***************************************************************************)
(* Processes of the application: one owns the profile, an exit closes its  *)
(* services first, and an update is downloaded, installed and started:     *)
(*                                                                         *)
(*   src-tauri/src/app.rs      run, stop_services                          *)
(*   src-tauri/src/updates.rs  check, install_update, background           *)
(*                                                                         *)
(* The updater may stop the services itself, from its hook, before it      *)
(* starts an installer and ends the process (Windows).                     *)
(***************************************************************************)
EXTENDS Naturals, FiniteSets

CONSTANTS Instance,   \* processes
          Unowned     \* nobody holds the instance lock

ASSUME LifecycleAssumption == Unowned \notin Instance

VARIABLES
  owner,    \* the instance lock
  process,  \* each: step, whether its shutdown has begun, whether it is to start again
  alive,    \* services of each that work on the profile or on files
  stopping, \* stop_services of each, called by the exit and by the hook
  update    \* Updates of each: who holds "pending", phase, a download, by whom it is checked

appVars == <<owner, process, alive, stopping, update>>

Services == {"workers", "terminals", "files", "connections"}
NoUpdate == [held |-> "free", phase |-> "idle", pending |-> FALSE]

LifecycleInit ==
  /\ owner = Unowned
  /\ process = [p \in Instance |-> [step |-> "off", leaving |-> FALSE, restart |-> FALSE]]
  /\ alive = [p \in Instance |-> {}]
  /\ stopping = [p \in Instance |-> [exit |-> "none", hook |-> "none"]]
  /\ update = [p \in Instance |-> NoUpdate]

Running(p) == process[p].step = "running"
-----------------------------------------------------------------------------
(* run *)

Launch(p) ==
  /\ process[p].step = "off"
  /\ process' = [process EXCEPT ![p].step = "locking"]
  /\ UNCHANGED <<owner, alive, stopping, update>>

\* try_lock_exclusive; a second process says so and ends.
TryLock(p) ==
  /\ process[p].step = "locking"
  /\ IF owner = Unowned
     THEN /\ owner' = p
          /\ process' = [process EXCEPT ![p].step = "running"]
          /\ alive' = [alive EXCEPT ![p] = {"workers"}]
     ELSE process' = [process EXCEPT ![p].step = "ended"] /\ UNCHANGED <<owner, alive>>
  /\ UNCHANGED <<stopping, update>>

\* A command begins a transfer; they are refused once they are being stopped.  Terminals
\* and connections that commands open meanwhile end with the process and are left out.
Transfer(p) ==
  /\ Running(p)
  /\ \A by \in {"exit", "hook"} : stopping[p][by] \in {"none", "workers", "terminals", "files"}
  /\ alive' = [alive EXCEPT ![p] = @ \union {"files"}]
  /\ UNCHANGED <<owner, process, stopping, update>>

\* The process ends; the system drops its lock.
ProcessEnds(p) ==
  /\ process' = [process EXCEPT ![p].step = "ended"]
  /\ alive' = [alive EXCEPT ![p] = {}]
  /\ owner' = IF owner = p THEN Unowned ELSE owner

ProcessCrashes(p) ==
  /\ process[p].step \in {"running", "replacing"}
  /\ ProcessEnds(p)
  /\ UNCHANGED <<stopping, update>>
-----------------------------------------------------------------------------
(* Leaving *)

\* ExitRequested: the first one begins the shutdown, the others are prevented.
ExitRequested(p) ==
  stopping' = IF process[p].leaving THEN stopping ELSE [stopping EXCEPT ![p].exit = "workers"]

Quit(p) ==
  /\ Running(p)
  /\ ExitRequested(p)
  /\ process' = [process EXCEPT ![p].leaving = TRUE]
  /\ UNCHANGED <<owner, alive, update>>

After(stage) == CASE stage = "workers" -> "terminals" [] stage = "terminals" -> "files"
                  [] stage = "files" -> "connections" [] stage = "connections" -> "done"

\* One step of stop_services.  An aborted worker lets go of the update it was checking;
\* the removal of a staging file may outlast the time the transfers are given.
StopService(p, by) ==
  /\ Running(p) /\ stopping[p][by] \in Services
  /\ \E late \in SUBSET (IF stopping[p][by] = "files" THEN alive[p] \intersect {"files"} ELSE {}) :
       alive' = [alive EXCEPT ![p] = (@ \ {stopping[p][by]}) \union {"removals" : f \in late}]
  /\ update' = IF stopping[p][by] = "workers" /\ update[p].held = "worker"
               THEN [update EXCEPT ![p].held = "free"] ELSE update
  /\ stopping' = [stopping EXCEPT ![p][by] = After(@)]
  /\ UNCHANGED <<owner, process>>

\* Variant: a restart does not wait for the services.
LeaveAtOnce(p) ==
  /\ Running(p) /\ process[p].leaving
  /\ IF process[p].restart THEN /\ owner' = Unowned
                                /\ process' = [process EXCEPT ![p].step = "replacing"]
                                /\ UNCHANGED alive
     ELSE ProcessEnds(p)
  /\ UNCHANGED <<stopping, update>>

\* The services have stopped: the lock is released before the replacement is started.
Leave(p) ==
  /\ Running(p) /\ stopping[p].exit = "done"
  /\ IF process[p].restart THEN /\ owner' = Unowned
                                /\ process' = [process EXCEPT ![p].step = "replacing"]
                                /\ UNCHANGED alive
     ELSE ProcessEnds(p)
  /\ UNCHANGED <<stopping, update>>

\* request_restart: the replacement is started, then this process exits.
Replace(p) ==
  /\ process[p].step = "replacing"
  /\ \/ \E q \in Instance : /\ process[q].step = "off"
                            /\ process' = [process EXCEPT ![q].step = "locking", ![p].step = "replaced"]
     \/ (\A q \in Instance : process[q].step # "off") /\ process' = [process EXCEPT ![p].step = "replaced"]
  /\ UNCHANGED <<owner, alive, stopping, update>>
Exit(p) ==
  /\ process[p].step = "replaced"
  /\ ProcessEnds(p)
  /\ UNCHANGED <<stopping, update>>
-----------------------------------------------------------------------------
(* Updates *)

\* check, by the background worker or by a command; a download that is ready is kept.
CheckUpdate(p, by) ==
  /\ Running(p) /\ update[p].held = "free" /\ ~update[p].pending
  /\ by = "worker" => "workers" \in alive[p]
  /\ update' = [update EXCEPT ![p].held = by, ![p].phase = "checking"]
  /\ UNCHANGED <<owner, process, alive, stopping>>

CheckEnds(p, phase) ==
  /\ Running(p) /\ update[p].held \in {"worker", "command"}
  /\ update' = [update EXCEPT ![p] = [held |-> "free", phase |-> phase, pending |-> phase = "ready"]]
  /\ UNCHANGED <<owner, process, alive, stopping>>

InstallUpdate(p) ==
  /\ Running(p) /\ update[p].held = "free" /\ update[p].pending
  /\ update' = [update EXCEPT ![p].held = "install", ![p].phase = "installing"]
  /\ UNCHANGED <<owner, process, alive, stopping>>

\* on_before_exit: the updater stops the services and ends the process.
Hook(p) ==
  /\ Running(p) /\ update[p].held = "install" /\ stopping[p].hook = "none"
  /\ stopping' = [stopping EXCEPT ![p].hook = "workers"]
  /\ UNCHANGED <<owner, process, alive, update>>
InstallerTakesOver(p) ==
  /\ Running(p) /\ update[p].held = "install" /\ stopping[p].hook = "done"
  /\ ProcessEnds(p)
  /\ UNCHANGED <<stopping, update>>

Installed(p) ==
  /\ Running(p) /\ update[p].held = "install" /\ stopping[p].hook = "none"
  /\ update' = [update EXCEPT ![p] = NoUpdate]
  /\ process' = [process EXCEPT ![p].restart = TRUE, ![p].leaving = TRUE]
  /\ ExitRequested(p)
  /\ UNCHANGED <<owner, alive>>

\* Variant: the application goes on after its hook.
StayAfterHook(p) == process' = process /\ stopping' = stopping

\* The services cannot be started again in this process.
RestartAfterHook(p) ==
  IF stopping[p].hook = "none" THEN UNCHANGED <<process, stopping>>
  ELSE /\ process' = [process EXCEPT ![p].restart = TRUE, ![p].leaving = TRUE]
       /\ ExitRequested(p)

\* The download is kept for another try.
InstallFails(p) ==
  /\ Running(p) /\ update[p].held = "install" /\ stopping[p].hook \in {"none", "done"}
  /\ update' = [update EXCEPT ![p].held = "free", ![p].phase = "ready"]
  /\ RestartAfterHook(p)
  /\ UNCHANGED <<owner, alive>>

LifecycleNext ==
  \E p \in Instance :
    \/ Launch(p) \/ TryLock(p) \/ ProcessCrashes(p) \/ Quit(p) \/ Leave(p) \/ Replace(p) \/ Exit(p)
    \/ Transfer(p)
    \/ \E by \in {"exit", "hook"} : StopService(p, by)
    \/ \E by \in {"worker", "command"} : CheckUpdate(p, by)
    \/ \E phase \in {"current", "error", "ready"} : CheckEnds(p, phase)
    \/ InstallUpdate(p) \/ Hook(p) \/ InstallerTakesOver(p) \/ Installed(p) \/ InstallFails(p)

LifecycleSpec == LifecycleInit /\ [][LifecycleNext]_appVars
-----------------------------------------------------------------------------
(* Properties *)

\* Two processes never work on the profile at the same time: what a process that is being
\* replaced has left, when another owns the lock, are no workers and no transfers.
OneOwner ==
  /\ Cardinality({p \in Instance : "workers" \in alive[p]}) <= 1
  /\ \A p \in Instance : owner # p => alive[p] \subseteq {"removals"}

\* A process whose workers were stopped is on its way out or still in the hands of the
\* installer (install_update: "not left with stopped workers").
NotLeftStopped ==
  \A p \in Instance : Running(p) /\ "workers" \notin alive[p] => process[p].leaving \/ update[p].held = "install"

\* "ready" is shown exactly when there is a download to install, whatever failed before.
ReadyIsHeld ==
  \A p \in Instance : Running(p) /\ update[p].held = "free" => (update[p].phase = "ready" <=> update[p].pending)

LifecycleSound == OneOwner /\ NotLeftStopped /\ ReadyIsHeld
=============================================================================

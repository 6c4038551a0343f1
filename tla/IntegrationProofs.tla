-------------------------- MODULE IntegrationProofs --------------------------
(***************************************************************************)
(* What TLAPS proves of the clipboard and browser integration, for any     *)
(* number of installations, processes, programs, copies and requests: who  *)
(* owns the account of a server, what is said of a link, that the displays *)
(* and the exchange of the clipboard hand on what was copied, whole.       *)
(***************************************************************************)
EXTENDS MCIntegration, FiniteSetTheorems, SequenceTheorems, TLAPS

-----------------------------------------------------------------------------
(* Who owns the account *)

ProcessSteps == {"none", "agent", "binding", "asking", "displays", "wayland", "writing", "serving", "closing",
                 "cleanup", "releasing", "refused", "display", "shown"}
Processes == [pc : ProcessSteps, for : Client \union {Nobody}, refusal : {"none", "T", "E"}]
Desktops  == [state : {"retrying", "starting", "connected", "stopped"}, proc : Process \union {Nobody}]

OwnerTypes ==
  /\ proc \in [Process -> Processes]
  /\ flock \in [Paths -> Process \union {Nobody}]
  /\ sock \in [Paths -> Process \union {Nobody, StaleSocket}]
  /\ naming \in Client \union {Nobody}
  /\ desktop \in [Client -> Desktops]
  /\ \A c \in Client : desktop[c].state = "starting" => desktop[c].proc \in Process

\* Where a process holds the lock of a path, and where its socket is there.
Locking(path) == IF path = "agent"
                 THEN {"binding", "displays", "wayland", "writing", "serving", "closing", "cleanup", "releasing"}
                 ELSE {"wayland", "writing", "serving", "closing", "display", "shown"}
Listening(path) == IF path = "agent"
                   THEN {"displays", "wayland", "writing", "serving", "closing", "cleanup", "releasing"}
                   ELSE {"writing", "serving", "closing", "shown"}

LocksHeld   == \A p \in Process, path \in Paths : flock[path] = p <=> proc[p].pc \in Locking(path)
SocketsThere == \A p \in Process, path \in Paths : sock[path] = p <=> proc[p].pc \in Listening(path)
FilesName   == \A p \in Process : proc[p].pc = "serving" => naming = proc[p].for

OwnerInv == OwnerTypes /\ LocksHeld /\ SocketsThere /\ FilesName

LEMMA OwnerInitInv == OwnerInit => OwnerInv
<1> SUFFICES ASSUME OwnerInit PROVE OwnerInv
  OBVIOUS
<1>1. OwnerTypes
  BY DEF OwnerInit, OwnerTypes, NoProcess, Processes, ProcessSteps, Desktops
<1>2. \A p \in Process : proc[p].pc = "none"
  BY DEF OwnerInit, NoProcess
<1>3. LocksHeld /\ SocketsThere /\ FilesName
  BY <1>2, OwnershipAssumption
     DEF OwnerInit, LocksHeld, SocketsThere, FilesName, Locking, Listening, Paths
<1> QED  BY <1>1, <1>3 DEF OwnerInv

\* A process that holds the lock of the endpoint is the only one.
LEMMA OneHolder ==
  ASSUME OwnerInv, NEW path \in Paths, NEW p \in Process, NEW q \in Process,
         proc[p].pc \in Locking(path), proc[q].pc \in Locking(path)
  PROVE  p = q
BY DEF OwnerInv, LocksHeld

\* What is free to bind: no process listens there.
LEMMA FreeToBind ==
  ASSUME OwnerInv, NEW path \in Paths, flock[path] \notin Process
  PROVE  sock[path] \in {Nobody, StaleSocket}
<1>1. \A p \in Process : proc[p].pc \notin Locking(path)
  BY DEF OwnerInv, LocksHeld
<1>2. \A p \in Process : proc[p].pc \notin Listening(path)
  BY <1>1 DEF Locking, Listening
<1> QED  BY <1>2 DEF OwnerInv, SocketsThere, OwnerTypes

LEMMA HolderBinds ==
  ASSUME OwnerInv, NEW path \in Paths, NEW p \in Process, proc[p].pc \in Locking(path) \ Listening(path)
  PROVE  Bindable(path)
<1>1. \A q \in Process : proc[q].pc \in Listening(path) => proc[q].pc \in Locking(path)
  BY DEF Locking, Listening
<1>2. \A q \in Process : proc[q].pc \notin Listening(path)
  BY <1>1, OneHolder
<1>3. sock[path] \notin Process
  BY <1>2 DEF OwnerInv, SocketsThere
<1> QED  BY <1>3 DEF Bindable, OwnerInv, OwnerTypes

\* One process moves on, or begins, or ends; the others stay where they are.
LEMMA OthersStay ==
  ASSUME OwnerInv, NEW p \in Process, NEW r \in Processes, proc' = [proc EXCEPT ![p] = r],
         flock' \in [Paths -> Process \union {Nobody}], sock' \in [Paths -> Process \union {Nobody, StaleSocket}],
         naming' \in Client \union {Nobody}, desktop' \in [Client -> Desktops],
         \A c \in Client : desktop'[c].state = "starting" => desktop'[c].proc \in Process,
         \A path \in Paths : flock'[path] = p <=> r.pc \in Locking(path),
         \A path \in Paths : sock'[path] = p <=> r.pc \in Listening(path),
         \A path \in Paths, q \in Process \ {p} : flock'[path] = q <=> flock[path] = q,
         \A path \in Paths, q \in Process \ {p} : sock'[path] = q <=> sock[path] = q,
         r.pc = "serving" => naming' = r.for,
         \/ naming' = naming
         \/ \A q \in Process \ {p} : proc[q].pc # "serving"
  PROVE  OwnerInv'
<1>1. proc' \in [Process -> Processes] /\ proc'[p] = r /\ \A q \in Process \ {p} : proc'[q] = proc[q]
  BY DEF OwnerInv, OwnerTypes
<1>2. OwnerTypes'
  BY <1>1 DEF OwnerTypes
<1>3. LocksHeld'
  BY <1>1 DEF OwnerInv, LocksHeld
<1>4. SocketsThere'
  BY <1>1 DEF OwnerInv, SocketsThere
<1>5. FilesName'
  BY <1>1 DEF OwnerInv, FilesName
<1> QED  BY <1>2, <1>3, <1>4, <1>5 DEF OwnerInv

\* A step of the desktop.
LEMMA DesktopInv ==
  ASSUME OwnerInv, NEW c \in Client, DesktopHears(c) \/ LoseLink(c) \/ \E p \in Process : Launch(c, p)
  PROVE  OwnerInv'
<1>1. /\ OwnerTypes /\ desktop[c] \in Desktops
      /\ \A p \in Process : proc[p] \in Processes
      /\ \A s \in {"retrying", "stopped"} : [state |-> s, proc |-> Nobody] \in Desktops
  BY DEF OwnerInv, OwnerTypes, Desktops
<1>2. CASE LoseLink(c)
  <2>1. UNCHANGED <<proc, flock, sock, naming>> /\ desktop' = [desktop EXCEPT ![c] = [state |-> "retrying", proc |-> Nobody]]
    BY <1>2 DEF LoseLink
  <2>2. OwnerTypes'
    BY <1>1, <2>1 DEF OwnerTypes
  <2> QED  BY <2>1, <2>2 DEF OwnerInv, LocksHeld, SocketsThere, FilesName
<1>3. ASSUME NEW p \in Process, Launch(c, p) PROVE OwnerInv'
  <2> DEFINE r == [pc |-> "agent", for |-> c, refusal |-> "none"]
  <2>1. r \in Processes /\ proc' = [proc EXCEPT ![p] = r] /\ UNCHANGED <<flock, sock, naming>> /\ proc[p].pc = "none"
    BY <1>3 DEF Launch, LiveProc, Processes, ProcessSteps
  <2>2. \A path \in Paths : flock[path] # p /\ sock[path] # p
    BY <2>1 DEF OwnerInv, LocksHeld, SocketsThere, Locking, Listening
  <2>3. \A path \in Paths : r.pc \notin Locking(path) /\ r.pc \notin Listening(path)
    BY DEF Locking, Listening
  <2>4. [state |-> "starting", proc |-> p] \in Desktops
    BY DEF Desktops
  <2>5. /\ desktop' \in [Client -> Desktops]
        /\ \A d \in Client : desktop'[d].state = "starting" => desktop'[d].proc \in Process
    BY <1>1, <1>3, <2>4 DEF Launch, OwnerTypes
  <2> QED  BY <1>1, <2>1, <2>2, <2>3, <2>5, OthersStay DEF OwnerTypes
<1>4. CASE DesktopHears(c)
  <2> DEFINE p == desktop[c].proc
  <2>1. p \in Process /\ UNCHANGED <<flock, sock, naming>> /\ desktop[c].state = "starting"
    BY <1>1, <1>4 DEF DesktopHears, OwnerTypes
  <2>2. CASE desktop' = [desktop EXCEPT ![c].state = "connected"] /\ UNCHANGED proc
    <3>1. OwnerTypes'
      BY <1>1, <2>1, <2>2 DEF OwnerTypes, Desktops
    <3> QED  BY <2>1, <2>2, <3>1 DEF OwnerInv, LocksHeld, SocketsThere, FilesName
  <2>3. CASE /\ proc[p].pc = "refused" /\ proc' = [proc EXCEPT ![p] = NoProcess]
             /\ desktop' = [desktop EXCEPT ![c] = [state |-> IF proc[p].refusal = "T" THEN "retrying" ELSE "stopped",
                                                   proc |-> Nobody]]
    <3>1. NoProcess \in Processes /\ NoProcess.pc = "none"
      BY DEF NoProcess, Processes, ProcessSteps
    <3>2. \A path \in Paths : flock[path] # p /\ sock[path] # p
      BY <2>1, <2>3 DEF OwnerInv, LocksHeld, SocketsThere, Locking, Listening
    <3>3. \A path \in Paths : NoProcess.pc \notin Locking(path) /\ NoProcess.pc \notin Listening(path)
      BY <3>1 DEF Locking, Listening
    <3>4. /\ desktop' \in [Client -> Desktops]
          /\ \A d \in Client : desktop'[d].state = "starting" => desktop'[d].proc \in Process
      BY <1>1, <2>3 DEF OwnerTypes
    <3> QED  BY <1>1, <2>1, <2>3, <3>1, <3>2, <3>3, <3>4, OthersStay DEF OwnerTypes
  <2> QED  BY <1>4, <2>2, <2>3 DEF DesktopHears
<1> QED  BY <1>2, <1>3, <1>4

\* What a step to another point makes of a process, and what a refusal makes of it.
LEMMA GoesThere ==
  ASSUME NEW p \in Process, NEW pc \in ProcessSteps, OwnerInv, ProcGoes(p, pc)
  PROVE  \E r \in Processes : r.pc = pc /\ r.for = proc[p].for /\ proc' = [proc EXCEPT ![p] = r]
<1>1. proc[p] \in Processes /\ proc \in [Process -> Processes]
  BY DEF OwnerInv, OwnerTypes
<1>2. PICK r : r = [proc[p] EXCEPT !.pc = pc]
  OBVIOUS
<1>3. r \in Processes /\ r.pc = pc /\ r.for = proc[p].for
  BY <1>1, <1>2 DEF Processes
<1>4. proc' = [proc EXCEPT ![p] = r]
  BY <1>1, <1>2 DEF ProcGoes
<1> QED  BY <1>3, <1>4

LEMMA TurnsAway ==
  ASSUME NEW p \in Process, NEW pc \in ProcessSteps, NEW kind \in {"T", "E"}, OwnerInv,
         proc' = [proc EXCEPT ![p].pc = pc, ![p].refusal = kind]
  PROVE  \E r \in Processes : r.pc = pc /\ proc' = [proc EXCEPT ![p] = r]
<1>1. proc[p] \in Processes /\ proc \in [Process -> Processes]
  BY DEF OwnerInv, OwnerTypes
<1>2. PICK r : r = [proc[p] EXCEPT !.pc = pc, !.refusal = kind]
  OBVIOUS
<1>3. r \in Processes /\ r.pc = pc
  BY <1>1, <1>2 DEF Processes
<1>4. proc' = [proc EXCEPT ![p] = r]
  BY <1>1, <1>2
<1> QED  BY <1>3, <1>4

LEMMA NoProcessType == NoProcess \in Processes /\ NoProcess.pc = "none"
BY DEF NoProcess, Processes, ProcessSteps

\* What a step that leaves the desktops alone leaves of their type.
LEMMA DesktopSame ==
  ASSUME OwnerInv, desktop' = desktop
  PROVE  /\ desktop' \in [Client -> Desktops]
         /\ \A c \in Client : desktop'[c].state = "starting" => desktop'[c].proc \in Process
BY DEF OwnerInv, OwnerTypes

\* Two points of the program with the same locks and sockets.
Alike(a, b) == \A path \in Paths : /\ a \in Locking(path) <=> b \in Locking(path)
                                   /\ a \in Listening(path) <=> b \in Listening(path)

LEMMA AlikeSteps ==
  /\ Alike("asking", "agent") /\ Alike("cleanup", "displays") /\ Alike("refused", "asking")
  /\ Alike("releasing", "cleanup") /\ Alike("serving", "writing") /\ Alike("closing", "writing")
  /\ Alike("closing", "serving") /\ Alike("none", "refused")
BY DEF Alike, Locking, Listening

\* A step that touches neither locks nor sockets.
LEMMA MovesOn ==
  ASSUME OwnerInv, NEW p \in Process, NEW r \in Processes, proc' = [proc EXCEPT ![p] = r],
         UNCHANGED <<flock, sock, desktop>>, naming' \in Client \union {Nobody},
         Alike(r.pc, proc[p].pc), r.pc = "serving" => naming' = r.for,
         naming' = naming \/ \A q \in Process \ {p} : proc[q].pc # "serving"
  PROVE  OwnerInv'
<1>1. /\ \A path \in Paths : flock'[path] = p <=> r.pc \in Locking(path)
      /\ \A path \in Paths : sock'[path] = p <=> r.pc \in Listening(path)
  BY DEF OwnerInv, LocksHeld, SocketsThere, Alike
<1>2. /\ flock' \in [Paths -> Process \union {Nobody}] /\ sock' \in [Paths -> Process \union {Nobody, StaleSocket}]
      /\ desktop' \in [Client -> Desktops]
      /\ \A c \in Client : desktop'[c].state = "starting" => desktop'[c].proc \in Process
  BY DEF OwnerInv, OwnerTypes
<1> QED  BY <1>1, <1>2, OthersStay

LEMMA LocksInv ==
  ASSUME OwnerInv, NEW p \in Process, LockAgent(p) \/ LockWayland(p)
  PROVE  OwnerInv'
<1>1. /\ UNCHANGED <<sock, naming, desktop>> /\ OwnerTypes /\ proc[p] \in Processes
      /\ proc[p].pc \in {"agent", "displays"}
  BY DEF OwnerInv, OwnerTypes, LockAgent, LockWayland
<1>2. ASSUME NEW path \in Paths, NEW pc \in ProcessSteps, flock[path] = Nobody, TakeLock(p, path), ProcGoes(p, pc),
             Locking(path) \intersect {pc, proc[p].pc} = {pc}, pc # "serving",
             \A other \in Paths \ {path} : pc \in Locking(other) <=> proc[p].pc \in Locking(other),
             \A other \in Paths : pc \in Listening(other) <=> proc[p].pc \in Listening(other)
      PROVE  OwnerInv'
  <2>1. PICK r \in Processes : r.pc = pc /\ proc' = [proc EXCEPT ![p] = r]
    BY <1>2, GoesThere
  <2>2. flock' \in [Paths -> Process \union {Nobody}] /\ flock'[path] = p
        /\ \A other \in Paths \ {path} : flock'[other] = flock[other]
    BY <1>1, <1>2 DEF TakeLock, OwnerTypes
  <2>3. \A other \in Paths : flock'[other] = p <=> r.pc \in Locking(other)
    BY <1>2, <2>1, <2>2 DEF OwnerInv, LocksHeld
  <2>4. \A other \in Paths : sock'[other] = p <=> r.pc \in Listening(other)
    BY <1>1, <1>2, <2>1 DEF OwnerInv, SocketsThere
  <2>5. /\ \A other \in Paths, q \in Process \ {p} : flock'[other] = q <=> flock[other] = q
        /\ \A other \in Paths, q \in Process \ {p} : sock'[other] = q <=> sock[other] = q
    BY <1>1, <1>2, <2>2, OwnershipAssumption
  <2>6. /\ sock' \in [Paths -> Process \union {Nobody, StaleSocket}] /\ naming' \in Client \union {Nobody}
        /\ r.pc # "serving" /\ naming' = naming
    BY <1>1, <1>2, <2>1 DEF OwnerTypes
  <2> QED  BY <1>1, <2>1, <2>2, <2>3, <2>4, <2>5, <2>6, DesktopSame, OthersStay
<1>3. CASE LockAgent(p)
  <2>1. CASE flock["agent"] = Nobody
    BY <1>2, <1>3, <2>1 DEF LockAgent, Paths, ProcessSteps, Locking, Listening
  <2>2. CASE flock["agent"] # Nobody
    <3>1. proc[p].pc = "agent" /\ ProcGoes(p, "asking") /\ flock' = flock /\ "asking" \in ProcessSteps
      BY <1>3, <2>2 DEF LockAgent, ProcessSteps
    <3>2. PICK r \in Processes : r.pc = "asking" /\ proc' = [proc EXCEPT ![p] = r]
      BY <3>1, GoesThere
    <3>3. Alike(r.pc, proc[p].pc) /\ r.pc # "serving" /\ naming' = naming /\ naming' \in Client \union {Nobody}
      BY <1>1, <3>1, <3>2, AlikeSteps DEF OwnerTypes
    <3> QED  BY <1>1, <3>1, <3>2, <3>3, MovesOn
  <2> QED  BY <2>1, <2>2
<1>4. CASE LockWayland(p)
  <2>1. CASE flock["wayland"] = Nobody
    BY <1>2, <1>4, <2>1 DEF LockWayland, Paths, ProcessSteps, Locking, Listening
  <2>2. CASE flock["wayland"] # Nobody
    <3>1. /\ proc' = [proc EXCEPT ![p].pc = "cleanup", ![p].refusal = "E"] /\ flock' = flock
          /\ proc[p].pc = "displays" /\ "cleanup" \in ProcessSteps
      BY <1>4, <2>2 DEF LockWayland, ProcessSteps
    <3>2. PICK r \in Processes : r.pc = "cleanup" /\ proc' = [proc EXCEPT ![p] = r]
      BY <3>1, TurnsAway
    <3>3. Alike(r.pc, proc[p].pc) /\ r.pc # "serving" /\ naming' = naming /\ naming' \in Client \union {Nobody}
      BY <1>1, <3>1, <3>2, AlikeSteps DEF OwnerTypes
    <3> QED  BY <1>1, <3>1, <3>2, <3>3, MovesOn
  <2> QED  BY <2>1, <2>2
<1> QED  BY <1>3, <1>4

LEMMA BindsInv ==
  ASSUME OwnerInv, NEW p \in Process, BindAgent(p) \/ BindWayland(p) \/ BindDisplay(p)
  PROVE  OwnerInv'
<1>1. /\ UNCHANGED <<naming, desktop>> /\ OwnerTypes /\ proc[p].pc \in {"binding", "wayland", "display"}
  BY DEF OwnerInv, OwnerTypes, BindAgent, BindWayland, BindDisplay
<1>2. ASSUME NEW path \in Paths, NEW pc \in ProcessSteps, Bindable(path), Bind(p, path), ProcGoes(p, pc), flock' = flock,
             Listening(path) \intersect {pc, proc[p].pc} = {pc}, pc # "serving",
             \A other \in Paths \ {path} : pc \in Listening(other) <=> proc[p].pc \in Listening(other),
             \A other \in Paths : pc \in Locking(other) <=> proc[p].pc \in Locking(other)
      PROVE  OwnerInv'
  <2>1. PICK r \in Processes : r.pc = pc /\ proc' = [proc EXCEPT ![p] = r]
    BY <1>2, GoesThere
  <2>2. sock' \in [Paths -> Process \union {Nobody, StaleSocket}] /\ sock'[path] = p
        /\ \A other \in Paths \ {path} : sock'[other] = sock[other]
    BY <1>1, <1>2 DEF Bind, OwnerTypes
  <2>3. \A other \in Paths : sock'[other] = p <=> r.pc \in Listening(other)
    BY <1>2, <2>1, <2>2 DEF OwnerInv, SocketsThere
  <2>4. \A other \in Paths : flock'[other] = p <=> r.pc \in Locking(other)
    BY <1>1, <1>2, <2>1 DEF OwnerInv, LocksHeld
  <2>5. /\ \A other \in Paths, q \in Process \ {p} : sock'[other] = q <=> sock[other] = q
        /\ \A other \in Paths, q \in Process \ {p} : flock'[other] = q <=> flock[other] = q
    BY <1>2, <2>2, OwnershipAssumption DEF Bindable
  <2>6. /\ flock' \in [Paths -> Process \union {Nobody}] /\ naming' \in Client \union {Nobody}
        /\ r.pc # "serving" /\ naming' = naming
    BY <1>1, <1>2, <2>1 DEF OwnerTypes
  <2> QED  BY <1>1, <2>1, <2>2, <2>3, <2>4, <2>5, <2>6, DesktopSame, OthersStay
<1>3. CASE BindAgent(p)
  <2>1. Bindable("agent")
    BY <1>3, HolderBinds DEF BindAgent, Locking, Listening, Paths
  <2> QED  BY <1>2, <1>3, <2>1 DEF BindAgent, Paths, ProcessSteps, Locking, Listening
<1>4. CASE BindWayland(p)
  <2>1. Bindable("wayland")
    BY <1>4, HolderBinds DEF BindWayland, Locking, Listening, Paths
  <2> QED  BY <1>2, <1>4, <2>1 DEF BindWayland, Paths, ProcessSteps, Locking, Listening
<1>5. CASE BindDisplay(p)
  <2>1. /\ Bindable("wayland") /\ Bind(p, "wayland") /\ ProcGoes(p, "shown") /\ flock' = flock
        /\ proc[p].pc = "display"
    BY <1>5 DEF BindDisplay
  <2>2. /\ "wayland" \in Paths /\ "shown" \in ProcessSteps
        /\ Listening("wayland") \intersect {"shown", "display"} = {"shown"}
        /\ \A other \in Paths \ {"wayland"} : "shown" \in Listening(other) <=> "display" \in Listening(other)
        /\ \A other \in Paths : "shown" \in Locking(other) <=> "display" \in Locking(other)
    BY DEF Paths, ProcessSteps, Locking, Listening
  <2> QED  BY <1>2, <2>1, <2>2
<1> QED  BY <1>3, <1>4, <1>5

\* Who has the agent's endpoint is the only one whom the files can name.
LEMMA OthersNotServing ==
  ASSUME OwnerInv, NEW p \in Process, proc[p].pc \in Locking("agent")
  PROVE  \A q \in Process \ {p} : proc[q].pc # "serving"
BY OneHolder DEF Locking, Paths

LEMMA FilesInv ==
  ASSUME OwnerInv, NEW p \in Process, AskWho(p) \/ WriteFiles(p) \/ DropFiles(p)
  PROVE  OwnerInv'
<1>1. /\ UNCHANGED <<flock, sock, desktop>> /\ OwnerTypes /\ proc[p] \in Processes
  BY DEF OwnerInv, OwnerTypes, AskWho, WriteFiles, DropFiles
<1>2. CASE AskWho(p)
  <2>1. PICK kind \in {"T", "E"} : Refuse(p, kind)
    BY <1>2 DEF AskWho
  <2>2. /\ proc' = [proc EXCEPT ![p].pc = "refused", ![p].refusal = kind] /\ naming' = naming /\ proc[p].pc = "asking"
        /\ "refused" \in ProcessSteps
    BY <1>2, <2>1 DEF AskWho, Refuse, ProcessSteps
  <2>3. PICK r \in Processes : r.pc = "refused" /\ proc' = [proc EXCEPT ![p] = r]
    BY <2>2, TurnsAway
  <2>4. Alike(r.pc, proc[p].pc) /\ r.pc # "serving" /\ naming' \in Client \union {Nobody}
    BY <1>1, <2>2, <2>3, AlikeSteps DEF OwnerTypes
  <2> QED  BY <1>1, <2>2, <2>3, <2>4, MovesOn
<1>3. CASE DropFiles(p)
  <2>1. /\ proc[p].pc = "cleanup" /\ ProcGoes(p, "releasing") /\ naming' = Nobody /\ "releasing" \in ProcessSteps
    BY <1>3 DEF DropFiles, ProcessSteps
  <2>2. \A q \in Process \ {p} : proc[q].pc # "serving"
    BY <2>1, OthersNotServing DEF Locking
  <2>3. PICK r \in Processes : r.pc = "releasing" /\ proc' = [proc EXCEPT ![p] = r]
    BY <2>1, GoesThere
  <2>4. Alike(r.pc, proc[p].pc) /\ r.pc # "serving" /\ naming' \in Client \union {Nobody}
    BY <2>1, <2>3, AlikeSteps
  <2> QED  BY <1>1, <2>2, <2>3, <2>4, MovesOn
<1>4. CASE WriteFiles(p)
  <2>1. proc[p].pc = "writing" /\ \A q \in Process \ {p} : proc[q].pc # "serving"
    BY <1>4, OthersNotServing DEF WriteFiles, Locking
  <2>2. proc[p].for \in Client \union {Nobody}
    BY <1>1 DEF Processes
  <2>3. CASE naming' = proc[p].for /\ ProcGoes(p, "serving")
    <3>1. "serving" \in ProcessSteps
      BY DEF ProcessSteps
    <3>2. PICK r \in Processes : r.pc = "serving" /\ r.for = proc[p].for /\ proc' = [proc EXCEPT ![p] = r]
      BY <2>3, <3>1, GoesThere
    <3>3. Alike(r.pc, proc[p].pc) /\ naming' = r.for /\ naming' \in Client \union {Nobody}
      BY <2>1, <2>2, <2>3, <3>2, AlikeSteps
    <3> QED  BY <1>1, <2>1, <3>2, <3>3, MovesOn
  <2>4. ASSUME naming' \in {naming, proc[p].for}, NEW kind \in {"T", "E"},
               proc' = [proc EXCEPT ![p].pc = "closing", ![p].refusal = kind]
        PROVE  OwnerInv'
    <3>1. "closing" \in ProcessSteps
      BY DEF ProcessSteps
    <3>2. PICK r \in Processes : r.pc = "closing" /\ proc' = [proc EXCEPT ![p] = r]
      BY <2>4, <3>1, TurnsAway
    <3>3. Alike(r.pc, proc[p].pc) /\ r.pc # "serving" /\ naming' \in Client \union {Nobody}
      BY <1>1, <2>1, <2>2, <2>4, <3>2, AlikeSteps DEF OwnerTypes
    <3> QED  BY <1>1, <2>1, <3>2, <3>3, MovesOn
  <2> QED  BY <1>4, <2>3, <2>4 DEF WriteFiles
<1> QED  BY <1>2, <1>3, <1>4

\* The desktop of an agent that ends retries.
LEMMA DesktopRetries ==
  ASSUME OwnerInv, NEW p \in Process,
         desktop' = [c \in Client |-> IF desktop[c].proc = p THEN [state |-> "retrying", proc |-> Nobody] ELSE desktop[c]]
  PROVE  /\ desktop' \in [Client -> Desktops]
         /\ \A c \in Client : desktop'[c].state = "starting" => desktop'[c].proc \in Process
<1>1. [state |-> "retrying", proc |-> Nobody] \in Desktops
  BY DEF Desktops
<1> QED  BY <1>1 DEF OwnerInv, OwnerTypes

\* What giving an endpoint back does to it, and to no other.
LEMMA Releases ==
  ASSUME OwnerInv, NEW p \in Process, NEW path \in Paths, ReleaseEndpoint(p, path), proc[p].pc \in Locking(path)
  PROVE  /\ flock' \in [Paths -> Process \union {Nobody}] /\ sock' \in [Paths -> Process \union {Nobody, StaleSocket}]
         /\ flock'[path] # p /\ sock'[path] # p
         /\ \A other \in Paths \ {path} : flock'[other] = flock[other] /\ sock'[other] = sock[other]
         /\ \A other \in Paths, q \in Process \ {p} : flock'[other] = q <=> flock[other] = q
         /\ \A other \in Paths, q \in Process \ {p} : sock'[other] = q <=> sock[other] = q
<1>1. flock \in [Paths -> Process \union {Nobody}] /\ sock \in [Paths -> Process \union {Nobody, StaleSocket}]
      /\ Nobody \notin Process /\ flock[path] = p
  BY OwnershipAssumption DEF OwnerInv, OwnerTypes, LocksHeld
<1>2. /\ flock' = [flock EXCEPT ![path] = Nobody]
      /\ sock' = [sock EXCEPT ![path] = IF sock[path] = p THEN Nobody ELSE sock[path]]
  BY DEF ReleaseEndpoint, Unlinked
<1> QED  BY <1>1, <1>2

LEMMA EndsInv ==
  ASSUME OwnerInv, NEW p \in Process, EndSession(p) \/ EndUnheard(p)
  PROVE  OwnerInv'
<1>1. /\ UNCHANGED <<flock, sock, naming>> /\ OwnerTypes /\ proc[p] \in Processes
  BY DEF OwnerInv, OwnerTypes, EndSession, EndUnheard
<1>2. CASE EndUnheard(p)
  <2>1. NoProcess \in Processes /\ NoProcess.pc = "none"
    BY NoProcessType
  <2>2. proc[p].pc = "refused" /\ proc' = [proc EXCEPT ![p] = NoProcess] /\ desktop' = desktop
    BY <1>2 DEF EndUnheard
  <2>3. Alike(NoProcess.pc, proc[p].pc) /\ NoProcess.pc # "serving" /\ naming' = naming /\ naming' \in Client \union {Nobody}
    BY <1>1, <2>1, <2>2, AlikeSteps DEF OwnerTypes
  <2> QED  BY <1>1, <2>1, <2>2, <2>3, MovesOn
<1>3. CASE EndSession(p)
  <2>1. proc[p].pc = "serving" /\ ProcGoes(p, "closing") /\ "closing" \in ProcessSteps
    BY <1>3 DEF EndSession, ProcessSteps
  <2>2. /\ desktop' \in [Client -> Desktops]
        /\ \A c \in Client : desktop'[c].state = "starting" => desktop'[c].proc \in Process
    BY <1>3, DesktopRetries DEF EndSession
  <2>3. PICK r \in Processes : r.pc = "closing" /\ proc' = [proc EXCEPT ![p] = r]
    BY <2>1, GoesThere
  <2>4. /\ \A path \in Paths : flock'[path] = p <=> r.pc \in Locking(path)
        /\ \A path \in Paths : sock'[path] = p <=> r.pc \in Listening(path)
    BY <1>1, <2>1, <2>3, AlikeSteps DEF OwnerInv, LocksHeld, SocketsThere, Alike
  <2>5. /\ flock' \in [Paths -> Process \union {Nobody}] /\ sock' \in [Paths -> Process \union {Nobody, StaleSocket}]
        /\ naming' \in Client \union {Nobody} /\ naming' = naming /\ r.pc # "serving"
        /\ \A path \in Paths, q \in Process \ {p} : flock'[path] = q <=> flock[path] = q
        /\ \A path \in Paths, q \in Process \ {p} : sock'[path] = q <=> sock[path] = q
    BY <1>1, <2>3 DEF OwnerTypes
  <2> QED  BY <2>2, <2>3, <2>4, <2>5, OthersStay
<1> QED  BY <1>2, <1>3

LEMMA ReleasesInv ==
  ASSUME OwnerInv, NEW p \in Process, DropWayland(p) \/ DropAgent(p) \/ StopDisplay(p)
  PROVE  OwnerInv'
<1>1. /\ UNCHANGED <<naming, desktop>> /\ OwnerTypes /\ proc[p] \in Processes
      /\ proc[p].pc \in {"closing", "releasing", "shown"}
  BY DEF OwnerInv, OwnerTypes, DropWayland, DropAgent, StopDisplay
<1>2. ASSUME NEW path \in Paths, NEW r \in Processes, ReleaseEndpoint(p, path), proc' = [proc EXCEPT ![p] = r],
             proc[p].pc \in Locking(path), r.pc \notin Locking(path), r.pc \notin Listening(path), r.pc # "serving",
             \A other \in Paths \ {path} : r.pc \in Locking(other) <=> proc[p].pc \in Locking(other),
             \A other \in Paths \ {path} : r.pc \in Listening(other) <=> proc[p].pc \in Listening(other)
      PROVE  OwnerInv'
  <2>1. /\ flock' \in [Paths -> Process \union {Nobody}] /\ sock' \in [Paths -> Process \union {Nobody, StaleSocket}]
        /\ flock'[path] # p /\ sock'[path] # p
        /\ \A other \in Paths \ {path} : flock'[other] = flock[other] /\ sock'[other] = sock[other]
        /\ \A other \in Paths, q \in Process \ {p} : flock'[other] = q <=> flock[other] = q
        /\ \A other \in Paths, q \in Process \ {p} : sock'[other] = q <=> sock[other] = q
    BY <1>2, Releases
  <2>2. \A other \in Paths : flock'[other] = p <=> r.pc \in Locking(other)
    BY <1>2, <2>1 DEF OwnerInv, LocksHeld
  <2>3. \A other \in Paths : sock'[other] = p <=> r.pc \in Listening(other)
    BY <1>2, <2>1 DEF OwnerInv, SocketsThere
  <2> QED  BY <1>1, <1>2, <2>1, <2>2, <2>3, OthersStay DEF OwnerTypes
<1>3. CASE DropWayland(p)
  <2>1. proc[p].pc = "closing" /\ ReleaseEndpoint(p, "wayland") /\ ProcGoes(p, "cleanup") /\ "cleanup" \in ProcessSteps
    BY <1>3 DEF DropWayland, ProcessSteps
  <2>2. PICK r \in Processes : r.pc = "cleanup" /\ proc' = [proc EXCEPT ![p] = r]
    BY <2>1, GoesThere
  <2>3. /\ "wayland" \in Paths /\ proc[p].pc \in Locking("wayland")
        /\ r.pc \notin Locking("wayland") /\ r.pc \notin Listening("wayland") /\ r.pc # "serving"
        /\ \A other \in Paths \ {"wayland"} : r.pc \in Locking(other) <=> proc[p].pc \in Locking(other)
        /\ \A other \in Paths \ {"wayland"} : r.pc \in Listening(other) <=> proc[p].pc \in Listening(other)
    BY <2>1, <2>2 DEF Paths, Locking, Listening
  <2> QED  BY <1>2, <2>1, <2>2, <2>3
<1>4. CASE DropAgent(p)
  <2>1. PICK r \in Processes : proc' = [proc EXCEPT ![p] = r] /\ r.pc \in {"none", "refused"}
    <3>1. CASE proc[p].refusal # "none"
      <4>1. ProcGoes(p, "refused") /\ "refused" \in ProcessSteps
        BY <1>1, <1>4, <3>1 DEF DropAgent, ProcGoes, OwnerTypes, ProcessSteps
      <4> QED  BY <4>1, GoesThere
    <3>2. CASE proc[p].refusal = "none"
      <4>1. proc' = [proc EXCEPT ![p] = NoProcess]
        BY <1>1, <1>4, <3>2 DEF DropAgent, OwnerTypes
      <4> QED  BY <4>1, NoProcessType
    <3> QED  BY <3>1, <3>2
  <2>2. proc[p].pc = "releasing" /\ ReleaseEndpoint(p, "agent")
    BY <1>4 DEF DropAgent
  <2> QED  BY <1>2, <2>1, <2>2 DEF Paths, Locking, Listening
<1>5. CASE StopDisplay(p)
  <2>1. proc[p].pc = "shown" /\ ReleaseEndpoint(p, "wayland") /\ proc' = [proc EXCEPT ![p] = NoProcess]
    BY <1>5 DEF StopDisplay
  <2>2. NoProcess \in Processes /\ NoProcess.pc = "none"
    BY NoProcessType
  <2> QED  BY <1>2, <2>1, <2>2 DEF Paths, Locking, Listening
<1> QED  BY <1>3, <1>4, <1>5

LEMMA KillInv ==
  ASSUME OwnerInv, NEW p \in Process, Kill(p)
  PROVE  OwnerInv'
<1>1. OwnerTypes /\ naming' = naming /\ proc' = [proc EXCEPT ![p] = NoProcess]
  BY DEF OwnerInv, Kill
<1>2. NoProcess \in Processes /\ NoProcess.pc = "none"
  BY NoProcessType
<1>3. /\ desktop' \in [Client -> Desktops]
      /\ \A c \in Client : desktop'[c].state = "starting" => desktop'[c].proc \in Process
  BY DesktopRetries DEF Kill
<1>4. /\ flock' \in [Paths -> Process \union {Nobody}] /\ sock' \in [Paths -> Process \union {Nobody, StaleSocket}]
      /\ \A path \in Paths : flock'[path] # p /\ sock'[path] # p
      /\ \A path \in Paths, q \in Process \ {p} : flock'[path] = q <=> flock[path] = q
      /\ \A path \in Paths, q \in Process \ {p} : sock'[path] = q <=> sock[path] = q
  BY <1>1, OwnershipAssumption DEF Kill, OwnerTypes
<1>5. \A path \in Paths : NoProcess.pc \notin Locking(path) /\ NoProcess.pc \notin Listening(path)
  BY <1>2 DEF Locking, Listening
<1>6. /\ \A path \in Paths : flock'[path] = p <=> NoProcess.pc \in Locking(path)
      /\ \A path \in Paths : sock'[path] = p <=> NoProcess.pc \in Listening(path)
  BY <1>4, <1>5
<1>7. naming' \in Client \union {Nobody} /\ NoProcess.pc # "serving"
  BY <1>1, <1>2 DEF OwnerTypes
<1> QED  BY <1>1, <1>2, <1>3, <1>4, <1>6, <1>7, OthersStay

LEMMA StartDisplayInv ==
  ASSUME OwnerInv, NEW p \in Process, StartDisplay(p)
  PROVE  OwnerInv'
<1>1. OwnerTypes /\ UNCHANGED <<sock, naming, desktop>> /\ proc[p].pc = "none" /\ flock["wayland"] = Nobody
  BY DEF OwnerInv, StartDisplay, LiveProc
<1>2. PICK r \in Processes : r.pc = "display" /\ proc' = [proc EXCEPT ![p] = r]
  BY DEF StartDisplay, NoProcess, Processes, ProcessSteps
<1>3. /\ flock' \in [Paths -> Process \union {Nobody}] /\ flock'["wayland"] = p /\ flock'["agent"] = flock["agent"]
      /\ \A path \in Paths, q \in Process \ {p} : flock'[path] = q <=> flock[path] = q
  BY <1>1, OwnershipAssumption DEF StartDisplay, TakeLock, OwnerTypes, Paths
<1>4. \A path \in Paths : flock[path] # p /\ sock[path] # p
  BY <1>1 DEF OwnerInv, LocksHeld, SocketsThere, Locking, Listening
<1>5. /\ \A path \in Paths : flock'[path] = p <=> r.pc \in Locking(path)
      /\ \A path \in Paths : sock'[path] = p <=> r.pc \in Listening(path)
  BY <1>1, <1>2, <1>3, <1>4 DEF Paths, Locking, Listening
<1>6. /\ sock' \in [Paths -> Process \union {Nobody, StaleSocket}] /\ naming' \in Client \union {Nobody}
      /\ \A path \in Paths, q \in Process \ {p} : sock'[path] = q <=> sock[path] = q
      /\ r.pc # "serving" /\ naming' = naming
  BY <1>1, <1>2 DEF OwnerTypes
<1> QED  BY <1>1, <1>2, <1>3, <1>5, <1>6, DesktopSame, OthersStay

LEMMA OwnerNextInv == OwnerInv /\ [OwnerNext]_ownerVars => OwnerInv'
<1> SUFFICES ASSUME OwnerInv, [OwnerNext]_ownerVars PROVE OwnerInv'
  OBVIOUS
<1>1. CASE UNCHANGED ownerVars
  BY <1>1 DEF ownerVars, OwnerInv, OwnerTypes, LocksHeld, SocketsThere, FilesName
<1>2. CASE OwnerNext
  BY <1>2, DesktopInv, LocksInv, BindsInv, FilesInv, EndsInv, ReleasesInv, KillInv, StartDisplayInv DEF OwnerNext
<1> QED  BY <1>1, <1>2

LEMMA OwnerInvariance == OwnerSpec => []OwnerInv
BY OwnerInitInv, OwnerNextInv, PTL DEF OwnerSpec

\* While an agent serves, its sockets are at their paths and the files name its client,
\* whatever other agents start, fail, end late or are killed (agent session.rs, Endpoint).
THEOREM OwnershipIsTrue == OwnerSpec => []PublishedTruth
<1>1. OwnerInv => PublishedTruth
  BY DEF OwnerInv, SocketsThere, FilesName, PublishedTruth, Listening
<1> QED  BY <1>1, OwnerInvariance, PTL

RefusedStep == \A p \in Process : Trying(proc[p]) /\ TurnedAway(proc'[p]) => \E q \in Process \ {p} : LiveProc(q)

\* The holder of a path's lock lives.
LEMMA HolderLives ==
  ASSUME OwnerInv, NEW path \in Paths, NEW p \in Process, flock[path] # Nobody, proc[p].pc \notin Locking(path)
  PROVE  \E q \in Process \ {p} : LiveProc(q)
<1>1. flock[path] \in Process /\ proc[flock[path]].pc \in Locking(path)
  BY DEF OwnerInv, OwnerTypes, LocksHeld
<1> QED  BY <1>1 DEF LiveProc, Locking

LEMMA RefusedForCause == OwnerInv /\ [OwnerNext]_ownerVars => [RefusedStep]_ownerVars
<1> SUFFICES ASSUME OwnerInv, OwnerNext, NEW p \in Process, Trying(proc[p]), TurnedAway(proc'[p])
             PROVE  \E q \in Process \ {p} : LiveProc(q)
  BY DEF RefusedStep
<1>1. /\ proc \in [Process -> Processes] /\ proc'[p] # proc[p] /\ proc[p].pc \in {"agent", "binding", "displays", "wayland"}
      /\ proc'[p].pc \in {"asking", "cleanup"} /\ NoProcess.pc = "none"
  BY DEF OwnerInv, OwnerTypes, Trying, TurnedAway, NoProcess
<1>2. CASE LockAgent(p)
  <2>1. flock["agent"] # Nobody /\ proc[p].pc = "agent"
    BY <1>1, <1>2 DEF LockAgent, ProcGoes, Processes
  <2> QED  BY <2>1, HolderLives DEF Paths, Locking
<1>3. CASE LockWayland(p)
  <2>1. flock["wayland"] # Nobody /\ proc[p].pc = "displays"
    BY <1>1, <1>3 DEF LockWayland, ProcGoes, Processes
  <2> QED  BY <2>1, HolderLives DEF Paths, Locking
<1>4. ~BindAgent(p)
  <2> SUFFICES ASSUME BindAgent(p) PROVE FALSE
    OBVIOUS
  <2>1. Bindable("agent")
    BY HolderBinds DEF BindAgent, Locking, Listening, Paths
  <2> QED  BY <1>1, <2>1 DEF BindAgent, ProcGoes, Processes
<1>5. ~BindWayland(p)
  <2> SUFFICES ASSUME BindWayland(p) PROVE FALSE
    OBVIOUS
  <2>1. Bindable("wayland")
    BY HolderBinds DEF BindWayland, Locking, Listening, Paths
  <2> QED  BY <1>1, <2>1 DEF BindWayland, ProcGoes, Processes
<1>6. ASSUME NEW q \in Process, q # p, proc' = [proc EXCEPT ![q] = proc'[q]] PROVE FALSE
  BY <1>1, <1>6
<1>7. \A c \in Client : ~DesktopHears(c) /\ ~LoseLink(c) /\ \A q \in Process : ~Launch(c, q)
  BY <1>1 DEF DesktopHears, LoseLink, Launch
<1>8. \A q \in Process : ~AskWho(q) /\ ~WriteFiles(q) /\ ~EndSession(q) /\ ~DropWayland(q) /\ ~DropFiles(q)
  BY <1>1 DEF AskWho, WriteFiles, EndSession, DropWayland, DropFiles, Refuse, ProcGoes
<1>9. \A q \in Process : ~EndUnheard(q) /\ ~Kill(q) /\ ~BindDisplay(q) /\ ~StopDisplay(q)
  BY <1>1 DEF EndUnheard, Kill, BindDisplay, StopDisplay, ProcGoes
<1>11. \A q \in Process : ~DropAgent(q) /\ ~StartDisplay(q)
  BY <1>1 DEF DropAgent, StartDisplay, LiveProc
<1>10. \A q \in Process \ {p} : ~LockAgent(q) /\ ~BindAgent(q) /\ ~LockWayland(q) /\ ~BindWayland(q)
  BY <1>1 DEF LockAgent, BindAgent, LockWayland, BindWayland, ProcGoes
<1> QED  BY <1>2, <1>3, <1>4, <1>5, <1>7, <1>8, <1>9, <1>10, <1>11 DEF OwnerNext

\* A start is refused only because of another process that lives (Endpoint::fixed,
\* Session::start).
THEOREM RefusalsHaveCause == OwnerSpec => RefusedByLive
<1>1. OwnerSpec => [][RefusedStep]_ownerVars
  BY OwnerInvariance, RefusedForCause, PTL DEF OwnerSpec
<1> QED  BY <1>1 DEF RefusedByLive, RefusedStep

-----------------------------------------------------------------------------
(* Links *)

LinkRequests == [id : Nat, for : Helper]
Answers  == [id : Nat, success : BOOLEAN]
Openings == [step : {"none", "callback", "open"}, id : Nat, for : Helper \union {NoHelper}, prepared : BOOLEAN]
Forwards == [for : Helper \union {NoHelper}, live : BOOLEAN]

BrowserTypes ==
  /\ helper \in [Helper -> {"idle", "queued", "pending", "opened", "failed", "gone"}]
  /\ pending \in [id : Nat, for : Helper \union {NoHelper}]
  /\ requestId \in Nat
  /\ openFrames \in Seq(LinkRequests) /\ answerFrames \in Seq(Answers)
  /\ opening \in Openings
  /\ leases \in Seq(Forwards)
  /\ opened \subseteq Helper

Waiting == pending # NoRequest

\* Identifiers are used once: what is under way has one that was given, the broker's
\* request has the last, and whatever carries that one is for its helper.
RequestKnown ==
  /\ Waiting => pending.id = requestId /\ requestId > 0 /\ pending.for \in Helper
  /\ \A i \in DOMAIN openFrames :
       /\ openFrames[i].id <= requestId
       /\ Waiting /\ openFrames[i].id = pending.id => openFrames[i].for = pending.for
  /\ opening.step # "none" =>
       /\ opening.id <= requestId /\ opening.for \in Helper
       /\ Waiting /\ opening.id = pending.id => opening.for = pending.for
AnswersTrue ==
  \A i \in DOMAIN answerFrames :
    /\ answerFrames[i].id <= requestId
    /\ Waiting /\ answerFrames[i].id = pending.id /\ answerFrames[i].success => pending.for \in opened

\* A forward whose link has not been opened is the last of the list.
LastUnopened ==
  /\ \A i \in DOMAIN leases : leases[i].for \in opened \/ (opening.prepared /\ i = Len(leases))
  /\ opening.prepared => opening.step = "open" /\ leases # <<>> /\ leases[Len(leases)].for = opening.for

BrowserInv == BrowserTypes /\ RequestKnown /\ AnswersTrue /\ OpenedIsTrue /\ LastUnopened

LEMMA BrowserInitInv == BrowserInit => BrowserInv
<1> SUFFICES ASSUME BrowserInit PROVE BrowserInv
  OBVIOUS
<1>1. BrowserTypes
  BY DEF BrowserInit, BrowserTypes, NoRequest, NotOpening, Openings
<1>2. RequestKnown /\ AnswersTrue /\ OpenedIsTrue /\ LastUnopened
  BY DEF BrowserInit, RequestKnown, AnswersTrue, OpenedIsTrue, LastUnopened, Waiting, NotOpening
<1> QED  BY <1>1, <1>2 DEF BrowserInv

\* What a helper is told, if it still waits.
LEMMA ToldType ==
  ASSUME BrowserTypes, NEW h \in Helper, NEW told \in {"opened", "failed"}, helper' = Told(h, told)
  PROVE  /\ helper' \in [Helper -> {"idle", "queued", "pending", "opened", "failed", "gone"}]
         /\ \A g \in Helper : helper'[g] = "opened" => helper[g] = "opened" \/ (g = h /\ told = "opened")
BY DEF BrowserTypes, Told

LEMMA HelperInv ==
  ASSUME BrowserInv, NEW h \in Helper, Connect(h) \/ GiveUp(h)
  PROVE  BrowserInv'
<1>1. /\ UNCHANGED <<enabled, pending, requestId, openFrames, answerFrames, opening, leases, opened>>
      /\ helper' = [helper EXCEPT ![h] = helper'[h]] /\ helper'[h] \in {"queued", "gone"}
      /\ helper' \in [Helper -> {"idle", "queued", "pending", "opened", "failed", "gone"}]
  BY DEF BrowserInv, BrowserTypes, Connect, GiveUp, SetHelper
<1>2. BrowserTypes' /\ OpenedIsTrue'
  BY <1>1 DEF BrowserInv, BrowserTypes, OpenedIsTrue
<1>3. RequestKnown' /\ AnswersTrue' /\ LastUnopened'
  BY <1>1 DEF BrowserInv, RequestKnown, AnswersTrue, LastUnopened, Waiting, NoRequest
<1> QED  BY <1>2, <1>3 DEF BrowserInv

LEMMA AcceptInv ==
  ASSUME BrowserInv, NEW h \in Helper, Accept(h)
  PROVE  BrowserInv'
<1>1. /\ BrowserTypes /\ UNCHANGED <<enabled, answerFrames, opening, leases, opened>>
      /\ \E told \in {"pending", "failed"} : helper' = [helper EXCEPT ![h] = told]
  BY DEF BrowserInv, Accept, SetHelper
<1>2. /\ OpenedIsTrue' /\ LastUnopened'
      /\ helper' \in [Helper -> {"idle", "queued", "pending", "opened", "failed", "gone"}]
  BY <1>1 DEF BrowserInv, BrowserTypes, OpenedIsTrue, LastUnopened
<1>3. CASE UNCHANGED <<pending, requestId, openFrames>>
  <2>1. BrowserTypes'
    BY <1>1, <1>2, <1>3 DEF BrowserTypes
  <2>2. RequestKnown' /\ AnswersTrue'
    BY <1>1, <1>3 DEF BrowserInv, RequestKnown, AnswersTrue, Waiting, NoRequest
  <2> QED  BY <1>2, <2>1, <2>2 DEF BrowserInv
<1>4. CASE /\ requestId' = requestId + 1 /\ pending' = [id |-> requestId + 1, for |-> h]
           /\ openFrames' = Append(openFrames, [id |-> requestId + 1, for |-> h])
  <2>1. requestId + 1 \in Nat /\ [id |-> requestId + 1, for |-> h] \in LinkRequests
    BY <1>1 DEF BrowserTypes, LinkRequests
  <2>2. /\ openFrames' \in Seq(LinkRequests) /\ Len(openFrames') = Len(openFrames) + 1
        /\ \A i \in DOMAIN openFrames : openFrames'[i] = openFrames[i]
        /\ openFrames'[Len(openFrames) + 1] = [id |-> requestId + 1, for |-> h]
        /\ \A i \in DOMAIN openFrames' : i \in DOMAIN openFrames \/ i = Len(openFrames) + 1
    BY <1>1, <1>4, <2>1 DEF BrowserTypes
  <2>3. BrowserTypes'
    BY <1>1, <1>2, <1>4, <2>1, <2>2 DEF BrowserTypes
  <2>4. Waiting' /\ pending'.id = requestId' /\ requestId' > requestId /\ requestId' > 0 /\ pending'.for = h
    BY <1>1, <1>4 DEF Waiting, NoRequest, BrowserTypes
  <2>5. /\ \A i \in DOMAIN openFrames : openFrames[i] \in LinkRequests /\ openFrames[i].id \in Nat
        /\ \A i \in DOMAIN answerFrames : answerFrames[i] \in Answers /\ answerFrames[i].id \in Nat
        /\ opening.id \in Nat /\ requestId \in Nat
    <3>1. /\ \A i \in DOMAIN openFrames : openFrames[i] \in LinkRequests
          /\ \A i \in DOMAIN answerFrames : answerFrames[i] \in Answers
          /\ opening \in Openings /\ requestId \in Nat
      BY <1>1 DEF BrowserTypes
    <3> QED  BY <3>1 DEF LinkRequests, Answers, Openings
  <2>6. \A i \in DOMAIN openFrames' :
          /\ openFrames'[i].id <= requestId'
          /\ openFrames'[i].id = pending'.id => openFrames'[i].for = pending'.for
    <3> SUFFICES ASSUME NEW i \in DOMAIN openFrames'
                 PROVE  /\ openFrames'[i].id <= requestId'
                        /\ openFrames'[i].id = pending'.id => openFrames'[i].for = pending'.for
      OBVIOUS
    <3>1. CASE i \in DOMAIN openFrames
      <4>1. openFrames[i].id <= requestId
        BY <3>1 DEF BrowserInv, RequestKnown
      <4> QED  BY <1>4, <2>2, <2>4, <2>5, <3>1, <4>1
    <3>2. CASE i = Len(openFrames) + 1
      BY <1>4, <2>2, <2>4, <2>5, <3>2
    <3> QED  BY <2>2, <3>1, <3>2
  <2>7. opening'.step # "none" =>
          /\ opening'.id <= requestId' /\ opening'.for \in Helper
          /\ opening'.id = pending'.id => opening'.for = pending'.for
    BY <1>1, <1>4, <2>4, <2>5 DEF BrowserInv, RequestKnown
  <2>8. RequestKnown'
    BY <2>4, <2>6, <2>7 DEF RequestKnown
  <2>9. AnswersTrue'
    BY <1>1, <1>4, <2>4, <2>5 DEF BrowserInv, AnswersTrue
  <2> QED  BY <1>2, <2>3, <2>8, <2>9 DEF BrowserInv
<1> QED  BY <1>3, <1>4 DEF Accept

\* The broker's request ends: it expires or is answered.
LEMMA RequestEnds ==
  ASSUME BrowserInv, pending' = NoRequest, BrowserTypes', OpenedIsTrue',
         UNCHANGED <<requestId, openFrames, opening, leases, opened>>,
         \A i \in DOMAIN answerFrames' : answerFrames'[i].id <= requestId
  PROVE  BrowserInv'
<1>1. ~Waiting'
  BY DEF Waiting, NoRequest
<1>2. RequestKnown' /\ AnswersTrue' /\ LastUnopened'
  BY <1>1 DEF BrowserInv, RequestKnown, AnswersTrue, LastUnopened
<1> QED  BY <1>2 DEF BrowserInv

LEMMA NoRequestType == NoRequest \in [id : Nat, for : Helper \union {NoHelper}]
BY DEF NoRequest

LEMMA ExpireInv ==
  ASSUME BrowserInv, ExpireRequest
  PROVE  BrowserInv'
<1>1. /\ UNCHANGED <<enabled, requestId, openFrames, answerFrames, opening, leases, opened>> /\ BrowserTypes
      /\ pending.for \in Helper /\ helper' = Told(pending.for, "failed") /\ pending' = NoRequest
  BY DEF BrowserInv, RequestKnown, ExpireRequest, Waiting
<1>2. /\ helper' \in [Helper -> {"idle", "queued", "pending", "opened", "failed", "gone"}]
      /\ \A g \in Helper : helper'[g] = "opened" => helper[g] = "opened"
  BY <1>1, ToldType
<1>3. BrowserTypes' /\ OpenedIsTrue'
  BY <1>1, <1>2, NoRequestType DEF BrowserInv, BrowserTypes, OpenedIsTrue
<1>4. \A i \in DOMAIN answerFrames' : answerFrames'[i].id <= requestId
  BY <1>1 DEF BrowserInv, AnswersTrue
<1> QED  BY <1>1, <1>3, <1>4, RequestEnds

LEMMA ReplyInv ==
  ASSUME BrowserInv, ReplyArrives
  PROVE  BrowserInv'
<1>1. /\ UNCHANGED <<enabled, requestId, openFrames, opening, leases, opened>> /\ BrowserTypes
      /\ answerFrames # <<>> /\ answerFrames' = Tail(answerFrames)
  BY DEF BrowserInv, ReplyArrives
<1>2. /\ answerFrames' \in Seq(Answers) /\ Len(answerFrames') = Len(answerFrames) - 1
      /\ \A i \in DOMAIN answerFrames' : i + 1 \in DOMAIN answerFrames /\ answerFrames'[i] = answerFrames[i + 1]
      /\ 1 \in DOMAIN answerFrames /\ Head(answerFrames) = answerFrames[1] /\ answerFrames[1] \in Answers
  BY <1>1 DEF BrowserTypes
<1>3. \A i \in DOMAIN answerFrames' :
        /\ answerFrames'[i].id <= requestId
        /\ Waiting /\ answerFrames'[i].id = pending.id /\ answerFrames'[i].success => pending.for \in opened
  BY <1>2 DEF BrowserInv, AnswersTrue
<1>4. CASE UNCHANGED <<helper, pending>>
  <2>1. BrowserTypes'
    BY <1>1, <1>2, <1>4 DEF BrowserTypes
  <2>2. AnswersTrue'
    BY <1>1, <1>3, <1>4 DEF AnswersTrue, Waiting, NoRequest
  <2>3. RequestKnown' /\ OpenedIsTrue' /\ LastUnopened'
    BY <1>1, <1>4 DEF BrowserInv, RequestKnown, OpenedIsTrue, LastUnopened, Waiting, NoRequest
  <2> QED  BY <2>1, <2>2, <2>3 DEF BrowserInv
<1>5. CASE pending # NoRequest /\ pending.id = answerFrames[1].id /\ pending' = NoRequest
           /\ helper' = Told(pending.for, IF answerFrames[1].success THEN "opened" ELSE "failed")
  <2>1. pending.for \in Helper /\ (answerFrames[1].success => pending.for \in opened)
    BY <1>2, <1>5 DEF BrowserInv, RequestKnown, AnswersTrue, Waiting
  <2>2. PICK told \in {"opened", "failed"} : told = IF answerFrames[1].success THEN "opened" ELSE "failed"
    OBVIOUS
  <2>3. /\ helper' \in [Helper -> {"idle", "queued", "pending", "opened", "failed", "gone"}]
        /\ \A g \in Helper : helper'[g] = "opened" => helper[g] = "opened" \/ (g = pending.for /\ told = "opened")
    BY <1>1, <1>5, <2>1, <2>2, ToldType
  <2>4. BrowserTypes' /\ OpenedIsTrue'
    BY <1>1, <1>2, <1>5, <2>1, <2>2, <2>3, NoRequestType DEF BrowserInv, BrowserTypes, OpenedIsTrue
  <2> QED  BY <1>1, <1>3, <1>5, <2>4, RequestEnds
<1> QED  BY <1>2, <1>4, <1>5 DEF ReplyArrives, Expected

LEMMA StartOpenInv ==
  ASSUME BrowserInv, StartOpen
  PROVE  BrowserInv'
<1>1. /\ UNCHANGED <<enabled, helper, pending, requestId, answerFrames, leases, opened>> /\ BrowserTypes
      /\ openFrames # <<>> /\ openFrames' = Tail(openFrames) /\ opening.step = "none"
      /\ opening' = [step |-> "callback", id |-> Head(openFrames).id, for |-> Head(openFrames).for, prepared |-> FALSE]
  BY DEF BrowserInv, StartOpen
<1>2. /\ openFrames' \in Seq(LinkRequests) /\ Len(openFrames') = Len(openFrames) - 1
      /\ \A i \in DOMAIN openFrames' : i + 1 \in DOMAIN openFrames /\ openFrames'[i] = openFrames[i + 1]
      /\ 1 \in DOMAIN openFrames /\ Head(openFrames) = openFrames[1] /\ openFrames[1] \in LinkRequests
  BY <1>1 DEF BrowserTypes
<1>3. opening' \in Openings /\ opening'.id = openFrames[1].id /\ opening'.for = openFrames[1].for
      /\ opening'.for \in Helper /\ ~opening'.prepared
  BY <1>1, <1>2 DEF Openings, LinkRequests
<1>4. BrowserTypes'
  BY <1>1, <1>2, <1>3 DEF BrowserTypes
<1>5. RequestKnown'
  BY <1>1, <1>2, <1>3 DEF BrowserInv, RequestKnown, Waiting, NoRequest
<1>6. ~opening.prepared
  BY <1>1 DEF BrowserInv, LastUnopened
<1>7. AnswersTrue' /\ OpenedIsTrue' /\ LastUnopened'
  BY <1>1, <1>3, <1>6 DEF BrowserInv, AnswersTrue, OpenedIsTrue, LastUnopened, Waiting, NoRequest
<1> QED  BY <1>4, <1>5, <1>7 DEF BrowserInv

\* The forwards that are left are forwards that were there.
LEMMA UnfinishedKept ==
  ASSUME NEW kept \in Unfinished, BrowserTypes
  PROVE  /\ kept \in Seq(Forwards)
         /\ \A i \in DOMAIN kept : \E j \in DOMAIN leases : kept[i] = leases[j]
<1> DEFINE live == {i \in DOMAIN leases : leases[i].live}
           n    == Cardinality(live)
<1>1. DOMAIN leases = 1 .. Len(leases) /\ Len(leases) \in Nat
  BY DEF BrowserTypes
<1>2. IsFiniteSet(1 .. Len(leases))
  BY <1>1, FS_Interval
<1>3. IsFiniteSet(live)
  BY <1>1, <1>2, FS_Subset
<1>4. n \in Nat
  BY <1>3, FS_CardinalityType
<1>5. PICK at \in [1 .. n -> live] : kept = [i \in DOMAIN at |-> leases[at[i]]]
  BY DEF Unfinished
<1>6. kept = [i \in 1 .. n |-> leases[at[i]]]
  BY <1>5
<1>7. \A i \in 1 .. n : at[i] \in DOMAIN leases
  BY <1>5
<1>8. \A j \in DOMAIN leases : leases[j] \in Forwards
  BY DEF BrowserTypes
<1>9. kept \in [1 .. n -> Forwards]
  BY <1>6, <1>7, <1>8
<1> HIDE DEF n
<1>10. kept \in Seq(Forwards)
  BY <1>4, <1>9
<1> QED  BY <1>6, <1>7, <1>10

LEMMA PrepareInv ==
  ASSUME BrowserInv, PrepareForward
  PROVE  BrowserInv'
<1>1. /\ UNCHANGED <<enabled, helper, pending, requestId, openFrames, answerFrames, opened>> /\ BrowserTypes
      /\ opening.step = "callback" /\ opening \in Openings /\ ~opening.prepared
  BY DEF BrowserInv, BrowserTypes, PrepareForward, LastUnopened
<1>2. PICK kept \in Unfinished :
        \/ /\ leases' = Append(kept, [for |-> opening.for, live |-> TRUE])
           /\ opening' = [opening EXCEPT !.step = "open", !.prepared = TRUE]
        \/ opening' = [opening EXCEPT !.step = "open"] /\ leases' \in {leases, kept}
  BY DEF PrepareForward
<1>3. /\ kept \in Seq(Forwards)
      /\ \A i \in DOMAIN kept : \E j \in DOMAIN leases : kept[i] = leases[j]
  BY <1>1, <1>2, UnfinishedKept
<1>4. /\ \A i \in DOMAIN leases : leases[i].for \in opened
      /\ \A i \in DOMAIN kept : kept[i].for \in opened
  BY <1>1, <1>3 DEF BrowserInv, LastUnopened
<1>5. /\ opening' \in Openings /\ opening'.step = "open" /\ opening'.id = opening.id /\ opening'.for = opening.for
  BY <1>1, <1>2 DEF Openings
<1>6. RequestKnown' /\ AnswersTrue' /\ OpenedIsTrue'
  BY <1>1, <1>5 DEF BrowserInv, RequestKnown, AnswersTrue, OpenedIsTrue, Waiting, NoRequest
<1>7. leases' \in Seq(Forwards) /\ LastUnopened'
  <2>1. CASE /\ leases' = Append(kept, [for |-> opening.for, live |-> TRUE])
             /\ opening' = [opening EXCEPT !.step = "open", !.prepared = TRUE]
    <3>1. [for |-> opening.for, live |-> TRUE] \in Forwards /\ opening'.prepared
      BY <1>1, <2>1 DEF Openings, Forwards
    <3>2. /\ leases' \in Seq(Forwards) /\ Len(leases') = Len(kept) + 1 /\ leases' # <<>>
          /\ \A i \in DOMAIN kept : leases'[i] = kept[i]
          /\ leases'[Len(leases')].for = opening.for
          /\ \A i \in DOMAIN leases' : i \in DOMAIN kept \/ i = Len(leases')
      BY <1>3, <2>1, <3>1
    <3> QED  BY <1>1, <1>4, <1>5, <3>1, <3>2 DEF LastUnopened
  <2>2. CASE opening' = [opening EXCEPT !.step = "open"] /\ leases' \in {leases, kept}
    <3>1. ~opening'.prepared
      BY <1>1, <2>2 DEF Openings
    <3> QED  BY <1>1, <1>3, <1>4, <2>2, <3>1 DEF LastUnopened, BrowserTypes
  <2> QED  BY <1>2, <2>1, <2>2
<1>8. BrowserTypes'
  BY <1>1, <1>5, <1>7 DEF BrowserTypes
<1> QED  BY <1>6, <1>7, <1>8 DEF BrowserInv

LEMMA OpensInv ==
  ASSUME BrowserInv, NEW success \in BOOLEAN, Opens(success)
  PROVE  BrowserInv'
<1>1. /\ UNCHANGED <<enabled, helper, pending, requestId, openFrames>> /\ BrowserTypes
      /\ opening.step = "open" /\ opening' = NotOpening /\ opening.for \in Helper
      /\ opening \in Openings /\ opening.id <= requestId /\ opening.id \in Nat
  BY DEF BrowserInv, BrowserTypes, Opens, RequestKnown, Openings
<1>2. /\ opened' \subseteq Helper /\ opened \subseteq opened' /\ (success => opening.for \in opened')
  BY <1>1 DEF Opens, BrowserTypes
<1>3. /\ answerFrames' \in Seq(Answers)
      /\ \A i \in DOMAIN answerFrames : answerFrames'[i] = answerFrames[i]
      /\ answerFrames'[Len(answerFrames) + 1] = [id |-> opening.id, success |-> success]
      /\ \A i \in DOMAIN answerFrames' : i \in DOMAIN answerFrames \/ i = Len(answerFrames) + 1
  <2>1. [id |-> opening.id, success |-> success] \in Answers
    BY <1>1 DEF Answers
  <2> QED  BY <1>1, <2>1 DEF Opens, BrowserTypes
<1>4. ASSUME Waiting, opening.id = pending.id PROVE opening.for = pending.for
  BY <1>1, <1>4 DEF BrowserInv, RequestKnown
<1>5. AnswersTrue'
  <2> SUFFICES ASSUME NEW i \in DOMAIN answerFrames'
               PROVE  /\ answerFrames'[i].id <= requestId
                      /\ Waiting /\ answerFrames'[i].id = pending.id /\ answerFrames'[i].success
                         => pending.for \in opened'
    BY <1>1 DEF AnswersTrue, Waiting, NoRequest
  <2>1. CASE i \in DOMAIN answerFrames
    BY <1>2, <1>3, <2>1 DEF BrowserInv, AnswersTrue
  <2>2. CASE i = Len(answerFrames) + 1
    BY <1>1, <1>2, <1>3, <1>4, <2>2
  <2> QED  BY <1>3, <2>1, <2>2
<1>6. leases' \in Seq(Forwards) /\ \A i \in DOMAIN leases' : leases'[i].for \in opened'
  <2>1. \A i \in DOMAIN leases : leases[i].for \in opened \/ (opening.prepared /\ i = Len(leases))
    BY DEF BrowserInv, LastUnopened
  <2>2. opening.prepared => leases # <<>> /\ leases[Len(leases)].for = opening.for
    BY DEF BrowserInv, LastUnopened
  <2>3. leases \in Seq(Forwards)
    BY <1>1 DEF BrowserTypes
  <2>4. CASE success \/ ~opening.prepared
    <3>1. leases' = leases
      BY <2>4 DEF Opens, RolledBack
    <3> QED  BY <1>2, <2>1, <2>2, <2>3, <2>4, <3>1
  <2>5. CASE ~success /\ opening.prepared
    <3>1. leases' = SubSeq(leases, 1, Len(leases) - 1) /\ leases # <<>>
      BY <2>2, <2>5 DEF Opens, RolledBack
    <3>2. /\ leases' \in Seq(Forwards) /\ Len(leases') = Len(leases) - 1
          /\ \A i \in DOMAIN leases' : i \in DOMAIN leases /\ i # Len(leases) /\ leases'[i] = leases[i]
      <4>1. Len(leases) \in Nat \ {0}
        BY <2>3, <3>1
      <4>2. /\ leases' = [i \in 1 .. Len(leases) - 1 |-> leases[i]]
            /\ \A i \in 1 .. Len(leases) - 1 : leases[i] \in Forwards
        BY <2>3, <3>1, <4>1
      <4> QED  BY <2>3, <4>1, <4>2
    <3> QED  BY <1>2, <2>1, <3>2
  <2> QED  BY <2>4, <2>5
<1>7. ~opening'.prepared /\ opening'.step = "none" /\ opening' \in Openings
  BY <1>1 DEF NotOpening, Openings
<1>8. BrowserTypes'
  BY <1>1, <1>2, <1>3, <1>6, <1>7 DEF BrowserTypes
<1>9. RequestKnown' /\ OpenedIsTrue' /\ LastUnopened'
  BY <1>1, <1>2, <1>6, <1>7 DEF BrowserInv, RequestKnown, OpenedIsTrue, LastUnopened, Waiting, NoRequest
<1> QED  BY <1>5, <1>8, <1>9 DEF BrowserInv

LEMMA LeaseEndsInv ==
  ASSUME BrowserInv, LeaseEnds
  PROVE  BrowserInv'
<1>1. UNCHANGED <<enabled, helper, pending, requestId, openFrames, answerFrames, opening, opened>> /\ leases \in Seq(Forwards)
  BY DEF BrowserInv, BrowserTypes, LeaseEnds
<1>2. PICK j \in DOMAIN leases : leases' = [leases EXCEPT ![j].live = FALSE]
  BY DEF LeaseEnds
<1>3. \A i \in DOMAIN leases : leases[i] \in Forwards
  BY <1>1
<1>4. PICK r : r = [leases[j] EXCEPT !.live = FALSE]
  OBVIOUS
<1>5. r \in Forwards /\ r.for = leases[j].for /\ leases' = [leases EXCEPT ![j] = r]
  BY <1>1, <1>2, <1>3, <1>4 DEF Forwards
<1>6. /\ leases' \in Seq(Forwards) /\ DOMAIN leases' = DOMAIN leases /\ Len(leases') = Len(leases)
      /\ \A i \in DOMAIN leases : leases'[i].for = leases[i].for
  BY <1>1, <1>5
<1>7. leases # <<>> => leases' # <<>>
  BY <1>1, <1>6
<1>8. leases # <<>> => Len(leases) \in DOMAIN leases
  BY <1>1
<1>9. LastUnopened'
  BY <1>1, <1>6, <1>7, <1>8 DEF BrowserInv, LastUnopened
<1>10. BrowserTypes' /\ RequestKnown' /\ AnswersTrue' /\ OpenedIsTrue'
  BY <1>1, <1>6 DEF BrowserInv, BrowserTypes, RequestKnown, AnswersTrue, OpenedIsTrue, Waiting, NoRequest
<1> QED  BY <1>9, <1>10 DEF BrowserInv

LEMMA SessionEndsInv ==
  ASSUME BrowserInv, SessionEnds
  PROVE  BrowserInv'
<1>1. /\ helper' \in [Helper -> {"idle", "queued", "pending", "opened", "failed", "gone"}]
      /\ \A h \in Helper : helper'[h] = "opened" => helper[h] = "opened"
  BY DEF BrowserInv, BrowserTypes, SessionEnds
<1>2. BrowserTypes'
  BY <1>1, NoRequestType DEF BrowserInv, BrowserTypes, SessionEnds, NotOpening, Openings
<1>3. ~Waiting' /\ opening'.step = "none" /\ ~opening'.prepared
  BY DEF SessionEnds, Waiting, NoRequest, NotOpening
<1>4. RequestKnown' /\ AnswersTrue' /\ OpenedIsTrue' /\ LastUnopened'
  BY <1>1, <1>3 DEF BrowserInv, SessionEnds, RequestKnown, AnswersTrue, OpenedIsTrue, LastUnopened
<1> QED  BY <1>2, <1>4 DEF BrowserInv

LEMMA BrowserNextInv == BrowserInv /\ [BrowserNext]_browserVars => BrowserInv'
<1> SUFFICES ASSUME BrowserInv, [BrowserNext]_browserVars PROVE BrowserInv'
  OBVIOUS
<1>1. CASE UNCHANGED browserVars
  BY <1>1 DEF browserVars, BrowserInv, BrowserTypes, RequestKnown, AnswersTrue, OpenedIsTrue, LastUnopened, Waiting, NoRequest
<1>2. CASE BrowserNext
  BY <1>2, HelperInv, AcceptInv, ExpireInv, ReplyInv, StartOpenInv, PrepareInv, OpensInv, LeaseEndsInv, SessionEndsInv
     DEF BrowserNext
<1> QED  BY <1>1, <1>2

\* A program is told that its link was opened only if it was, and every forward belongs to
\* a link that was or is about to be opened, for any number of programs and requests that
\* expire while the desktop still works on them (Broker::reply, rollback_last).
THEOREM LinksAreTrue == BrowserSpec => []LinksTrue
<1>1. BrowserSpec => []BrowserInv
  BY BrowserInitInv, BrowserNextInv, PTL DEF BrowserSpec
<1>2. BrowserInv => LinksTrue
  BY DEF BrowserInv, LastUnopened, LinksTrue, ForwardsOwned
<1> QED  BY <1>1, <1>2, PTL

-----------------------------------------------------------------------------
(* The X11 display: a paste is followed from the property it is announced  *)
(* in, through the chunks of a transfer, to its end.                       *)

Pastes == {"none", "ready", "waiting", "chunk", "done", "refused", "gone"}
PasteRecs == [pc : Pastes, size : Nat, got : Seq(Nat), at : Nat]
Units == [key : Window \X {"paste"}, bytes : Seq(Nat), offset : Nat]
XTypes ==
  /\ properties \in [DOMAIN properties -> [kind : {"value", "incr"}, bytes : Seq(Nat)]]
  /\ transfer # NoTransfer => transfer \in Units
  /\ events \in Seq(Window)
  /\ paste \in [Window -> PasteRecs]

\* The units of a value from one of them on.
Counts(bytes, from) == \A j \in 1..Len(bytes) : bytes[j] = from + j

\* What the client has, and its place in a property that begins there.
PartRead(p, bytes) == /\ Counts(p.got, 0)
                      /\ p.at <= Len(p.got)
                      /\ p.at < Len(bytes) \/ (p.at = 0 /\ bytes = <<>>)
                      /\ Counts(bytes, Len(p.got) - p.at)

Of(t, key) == t # NoTransfer /\ t.key = key

\* An announced paste: the whole value, or the announcement of a transfer.
ReadyHas(p, key, ps, t) ==
  /\ key \in DOMAIN ps
  /\ ps[key].kind = "incr" =>
        /\ Of(t, key) /\ t.bytes = XValue(p.size) /\ t.offset = 0
        /\ Len(ps[key].bytes) = 1 /\ p.got = <<>> /\ p.at = 0 /\ p.size > 0
  /\ ps[key].kind = "value" =>
        /\ ~Of(t, key) /\ Len(ps[key].bytes) = p.size /\ p.at = Len(p.got)
        /\ PartRead(p, ps[key].bytes)

\* A paste in chunks: what the client has, the property and the transfer are
\* the whole value, and the last chunk is an empty one.
StreamHas(p, key, ps, t) ==
  LET bytes == ps[key].bytes
      last  == Len(p.got) - p.at + Len(bytes)
  IN  /\ key \in DOMAIN ps /\ ps[key].kind = "value"
      /\ PartRead(p, bytes)
      /\ Of(t, key) =>
           t.bytes = XValue(p.size) /\ t.offset = last /\ last <= p.size /\ bytes # <<>>
      /\ ~Of(t, key) => bytes = <<>> /\ last = p.size

PasteHas(p, key, ps, t) ==
  /\ p.pc = "none" => p.got = <<>> /\ p.at = 0
  /\ p.pc = "ready" => ReadyHas(p, key, ps, t)
  /\ p.pc \in {"waiting", "chunk"} => StreamHas(p, key, ps, t)
  /\ p.pc = "waiting" => p.at = 0
  /\ p.pc = "done" => p.got = XValue(p.size)

PastesHave == \A w \in Window : PasteHas(paste[w], <<w, "paste">>, properties, transfer)
Notified == \A w \in Window : paste[w].pc = "waiting" => \E i \in DOMAIN events : events[i] = w
XInv == XTypes /\ PastesHave /\ Notified

LEMMA XInitInv == XInit => XInv
BY DEF XInit, XInv, XTypes, PasteRecs, PastesHave, Notified, PasteHas, Pastes

\* A part of a value, and what is put together of parts.
LEMMA SliceOf ==
  ASSUME NEW bytes \in Seq(Nat), NEW from \in Nat, from <= Len(bytes), NEW n \in Nat
  PROVE  /\ Slice(bytes, from, n) \in Seq(Nat)
         /\ Len(Slice(bytes, from, n)) = (IF from + n < Len(bytes) THEN from + n ELSE Len(bytes)) - from
         /\ \A start \in Int : Counts(bytes, start) => Counts(Slice(bytes, from, n), start + from)
<1> DEFINE end == IF from + n < Len(bytes) THEN from + n ELSE Len(bytes)
<1>1. from + 1 \in 1..(Len(bytes) + 1) /\ end \in (from + 1 - 1)..Len(bytes)
  OBVIOUS
<1>2. Slice(bytes, from, n) = SubSeq(bytes, from + 1, end)
  BY DEF Slice
<1>3. /\ Len(SubSeq(bytes, from + 1, end)) = end - from
      /\ \A j \in 1..(end - from) : SubSeq(bytes, from + 1, end)[j] = bytes[from + j]
  BY <1>1, SubSeqProperties
<1>4. SubSeq(bytes, from + 1, end) \in Seq(Nat)
  BY <1>1, SubSeqProperties
<1>5. ASSUME NEW start \in Int, Counts(bytes, start) PROVE Counts(Slice(bytes, from, n), start + from)
  BY <1>1, <1>2, <1>3, <1>5 DEF Counts
<1> QED  BY <1>1, <1>2, <1>3, <1>4, <1>5

LEMMA CountsOn ==
  ASSUME NEW s \in Seq(Nat), NEW t \in Seq(Nat), Counts(s, 0), Counts(t, Len(s))
  PROVE  s \o t \in Seq(Nat) /\ Len(s \o t) = Len(s) + Len(t) /\ Counts(s \o t, 0)
BY DEF Counts

LEMMA ValueOf == ASSUME NEW n \in Nat
                 PROVE  XValue(n) \in Seq(Nat) /\ Len(XValue(n)) = n /\ Counts(XValue(n), 0)
BY DEF XValue, Counts

LEMMA IsValue == ASSUME NEW s \in Seq(Nat), Counts(s, 0)
                 PROVE  s = XValue(Len(s))
BY DEF XValue, Counts

\* A paste is as it was when nothing of its own changes.
LEMMA PasteStays ==
  ASSUME NEW p, NEW key, NEW ps, NEW qs, NEW t, NEW u, PasteHas(p, key, ps, t),
         key \in DOMAIN ps => key \in DOMAIN qs /\ qs[key] = ps[key],
         Of(u, key) <=> Of(t, key), Of(t, key) => u = t
  PROVE  PasteHas(p, key, qs, u)
BY DEF PasteHas, ReadyHas, StreamHas

LEMMA OwnStays == ASSUME XInv, NEW w \in Window PROVE ~Continues(<<w, "own">>)
BY DEF XInv, XTypes, Units, Continues

LEMMA NotifiedStays == ASSUME XInv, events' = events,
                              \A w \in Window : paste'[w].pc = "waiting" => paste[w].pc = "waiting"
                       PROVE  Notified'
BY DEF XInv, Notified

LEMMA NotifiedMore ==
  ASSUME XInv, NEW w \in Window, events' = Append(events, w),
         \A v \in Window \ {w} : paste'[v] = paste[v]
  PROVE  events' \in Seq(Window) /\ Notified'
<1>1. events \in Seq(Window) /\ Len(events') = Len(events) + 1 /\ events'[Len(events) + 1] = w
      /\ \A i \in 1..Len(events) : events'[i] = events[i]
  BY DEF XInv, XTypes, PasteRecs
<1>2. events' \in Seq(Window) /\ DOMAIN events' = 1..Len(events')
  BY <1>1
<1>3. ASSUME NEW v \in Window, paste'[v].pc = "waiting"
      PROVE  \E i \in DOMAIN events' : events'[i] = v
  <2>1. CASE v = w
    BY <2>1, <1>1, <1>2
  <2>2. CASE v # w
    BY <2>2, <1>1, <1>2, <1>3 DEF XInv, Notified
  <2> QED  BY <2>1, <2>2
<1> QED  BY <1>2, <1>3 DEF Notified

LEMMA CreateWindowInv == ASSUME XInv, NEW w \in Window, CreateWindow(w) PROVE XInv'
<1>1. UNCHANGED <<properties, transfer, events, paste>>
  BY DEF CreateWindow
<1> QED  BY <1>1 DEF XInv, XTypes, PasteRecs, PastesHave, Notified

LEMMA DestroyWindowInv == ASSUME XInv, NEW w \in Window, DestroyWindow(w) PROVE XInv'
<1>1. XTypes'
  BY DEF XInv, XTypes, DestroyWindow, LessProperties, PasteRecs, Pastes
<1>2. Notified'
  BY NotifiedStays DEF DestroyWindow, XInv, XTypes
<1>3. ASSUME NEW v \in Window PROVE PasteHas(paste'[v], <<v, "paste">>, properties', transfer')
  <2>1. CASE v = w
    <3>1. paste'[w].pc \in {"done", "gone"} /\ (paste'[w].pc = "done" => paste[w].pc = "done")
          /\ paste'[w].got = paste[w].got /\ paste'[w].size = paste[w].size
      BY DEF DestroyWindow, XInv, XTypes
    <3> QED  BY <2>1, <3>1 DEF PasteHas, XInv, PastesHave
  <2>2. CASE v # w
    <3>1. paste'[v] = paste[v]
      BY <2>2 DEF DestroyWindow, XInv, XTypes
    <3>2. <<v, "paste">> \in DOMAIN properties =>
            <<v, "paste">> \in DOMAIN properties' /\ properties'[<<v, "paste">>] = properties[<<v, "paste">>]
      BY <2>2 DEF DestroyWindow, LessProperties
    <3>3. (Of(transfer', <<v, "paste">>) <=> Of(transfer, <<v, "paste">>))
          /\ (Of(transfer, <<v, "paste">>) => transfer' = transfer)
      BY <2>2 DEF DestroyWindow, Of
    <3> QED  BY <3>1, <3>2, <3>3, PasteStays DEF XInv, PastesHave
  <2> QED  BY <2>1, <2>2
<1> QED  BY <1>1, <1>2, <1>3 DEF XInv, PastesHave

\* What the client does with a property of its own.
LEMMA OwnChanges ==
  ASSUME XInv, UNCHANGED <<transfer, events, paste>>,
         properties' \in [DOMAIN properties' -> [kind : {"value", "incr"}, bytes : Seq(Nat)]],
         \A w \in Window : <<w, "paste">> \in DOMAIN properties =>
            <<w, "paste">> \in DOMAIN properties' /\ properties'[<<w, "paste">>] = properties[<<w, "paste">>]
  PROVE  XInv'
<1>1. XTypes' /\ Notified'
  BY DEF XInv, XTypes, Notified
<1>2. PastesHave'
  BY PasteStays DEF XInv, PastesHave
<1> QED  BY <1>1, <1>2 DEF XInv

LEMMA ChangePropertyInv == ASSUME XInv, NEW w \in Window, ChangeProperty(w) PROVE XInv'
<1>1. properties' = [k \in DOMAIN properties \cup {<<w, "own">>} |->
                        IF k = <<w, "own">> THEN [kind |-> "value", bytes |-> <<>>] ELSE properties[k]]
  BY DEF ChangeProperty, PutProperty
<1>2. properties' \in [DOMAIN properties' -> [kind : {"value", "incr"}, bytes : Seq(Nat)]]
  BY <1>1 DEF XInv, XTypes, PasteRecs
<1> QED  BY <1>1, <1>2, OwnChanges DEF ChangeProperty

LEMMA DeletePropertyInv == ASSUME XInv, NEW w \in Window, DeleteProperty(w) PROVE XInv'
<1>1. properties' = [k \in DOMAIN properties \ {<<w, "own">>} |-> properties[k]] /\ UNCHANGED <<transfer, events, paste>>
  BY OwnStays DEF DeleteProperty, DeleteKey, LessProperties
<1>2. properties' \in [DOMAIN properties' -> [kind : {"value", "incr"}, bytes : Seq(Nat)]]
  BY <1>1 DEF XInv, XTypes, PasteRecs
<1> QED  BY <1>1, <1>2, OwnChanges

\* A conversion that is not refused.
LEMMA ConvertInv == ASSUME XInv, NEW w \in Window, Convert(w) PROVE XInv'
<1> DEFINE key == <<w, "paste">>
<1>1. CASE /\ paste' = [paste EXCEPT ![w].pc = "refused"] /\ UNCHANGED <<properties, transfer, events>>
  <2>1. XTypes'
    BY <1>1 DEF XInv, XTypes, PasteRecs, Pastes
  <2>2. Notified'
    BY <1>1, NotifiedStays DEF XInv, XTypes, PasteRecs
  <2>3. PastesHave'
    BY <1>1 DEF XInv, XTypes, PasteRecs, PastesHave, PasteHas
  <2> QED  BY <2>1, <2>2, <2>3 DEF XInv
<1>2. ASSUME ~Busy, NEW n \in Sizes, UNCHANGED events,
             paste' = [paste EXCEPT ![w] = [pc |-> "ready", size |-> n, got |-> <<>>, at |-> 0]],
             IF n > Chunk
             THEN /\ transfer' = [key |-> key, bytes |-> XValue(n), offset |-> 0]
                  /\ properties' = PutProperty(key, "incr", <<n>>)
             ELSE properties' = PutProperty(key, "value", XValue(n)) /\ UNCHANGED transfer
      PROVE  XInv'
  <2>1. n \in Nat /\ transfer = NoTransfer /\ Chunk \in Nat \ {0}
    BY <1>2, XAssumption DEF Busy
  <2>2. XValue(n) \in Seq(Nat) /\ Len(XValue(n)) = n /\ Counts(XValue(n), 0)
    BY <2>1, ValueOf
  <2>3. PICK kind \in {"value", "incr"}, bytes \in Seq(Nat) :
           /\ properties' = PutProperty(key, kind, bytes)
           /\ kind = "value" => bytes = XValue(n) /\ transfer' = NoTransfer
           /\ kind = "incr" => Len(bytes) = 1 /\ n > Chunk /\ transfer' = [key |-> key, bytes |-> XValue(n), offset |-> 0]
    <3>1. CASE n > Chunk
      <4>1. <<n>> \in Seq(Nat) /\ Len(<<n>>) = 1
        BY <2>1
      <4> QED  BY <3>1, <4>1, <1>2, <2>1
    <3>2. CASE ~(n > Chunk)
      BY <3>2, <1>2, <2>1, <2>2
    <3> QED  BY <3>1, <3>2
  <2>4. transfer' # NoTransfer => transfer' \in Units
    BY <2>2, <2>3 DEF Units
  <2>5. XTypes'
    <3>1. properties' \in [DOMAIN properties' -> [kind : {"value", "incr"}, bytes : Seq(Nat)]]
      BY <2>3 DEF XInv, XTypes, PutProperty
    <3> QED  BY <3>1, <2>1, <2>4, <1>2 DEF XInv, XTypes, PasteRecs, Pastes
  <2>6. Notified'
    BY <1>2, NotifiedStays DEF XInv, XTypes, PasteRecs
  <2>7. ASSUME NEW v \in Window PROVE PasteHas(paste'[v], <<v, "paste">>, properties', transfer')
    <3>1. CASE v # w
      <4>1. paste'[v] = paste[v]
        BY <1>2, <3>1 DEF XInv, XTypes, PasteRecs
      <4>2. <<v, "paste">> \in DOMAIN properties =>
              <<v, "paste">> \in DOMAIN properties' /\ properties'[<<v, "paste">>] = properties[<<v, "paste">>]
        BY <2>3, <3>1 DEF PutProperty
      <4>3. ~Of(transfer, <<v, "paste">>) /\ ~Of(transfer', <<v, "paste">>)
        BY <2>1, <2>3, <3>1 DEF Of
      <4> QED  BY <4>1, <4>2, <4>3, PasteStays DEF XInv, PastesHave
    <3>2. CASE v = w
      <4>1. paste'[w] = [pc |-> "ready", size |-> n, got |-> <<>>, at |-> 0]
        BY <1>2 DEF XInv, XTypes, PasteRecs
      <4>2. key \in DOMAIN properties' /\ properties'[key] = [kind |-> kind, bytes |-> bytes]
        BY <2>3 DEF PutProperty
      <4>3. CASE kind = "incr"
        <5>1. [key |-> key, bytes |-> XValue(n), offset |-> 0] \in [key : Key, bytes : Seq(Nat), offset : Nat]
          BY <2>2 DEF Key, Prop
        <5>2. Of(transfer', key) /\ transfer'.bytes = XValue(n) /\ transfer'.offset = 0
          <6>1. transfer' = [key |-> key, bytes |-> XValue(n), offset |-> 0]
            BY <4>3, <2>3
          <6>2. transfer' # NoTransfer
            BY <6>1, <5>1, XAssumption
          <6>3. transfer'.key = key /\ transfer'.bytes = XValue(n) /\ transfer'.offset = 0
            BY <6>1
          <6> QED  BY <6>2, <6>3 DEF Of
        <5>3. ReadyHas(paste'[w], key, properties', transfer')
          BY <5>2, <4>1, <4>2, <4>3, <2>1, <2>3 DEF ReadyHas
        <5> QED  BY <5>3, <4>1, <3>2 DEF PasteHas
      <4>4. CASE kind = "value"
        <5>1. ~Of(transfer', key)
          BY <4>4, <2>3 DEF Of
        <5>2. PartRead(paste'[w], bytes)
          BY <2>1, <2>2, <2>3, <4>1, <4>4 DEF PartRead, Counts
        <5>3. ReadyHas(paste'[w], key, properties', transfer')
          BY <5>1, <5>2, <4>1, <4>2, <4>4, <2>2, <2>3 DEF ReadyHas
        <5> QED  BY <5>3, <4>1, <3>2 DEF PasteHas
      <4> QED  BY <4>3, <4>4, <2>3
    <3> QED  BY <3>1, <3>2
  <2> QED  BY <2>5, <2>6, <2>7 DEF XInv, PastesHave
<1> QED  BY <1>1, <1>2 DEF Convert

\* The transfer's next chunk, for a client that has all there was before it.
LEMMA NextChunk ==
  ASSUME XInv, NEW w \in Window, NEW p \in PasteRecs,
         Of(transfer, <<w, "paste">>), DeleteKey(<<w, "paste">>),
         transfer.bytes = XValue(p.size), transfer.offset = Len(p.got), transfer.offset <= p.size,
         p.at = 0, Counts(p.got, 0)
  PROVE  StreamHas(p, <<w, "paste">>, properties', transfer')
<1> DEFINE key == <<w, "paste">>
           off == transfer.offset
           bytes == Slice(transfer.bytes, off, Chunk)
<1>1. transfer \in Units /\ off \in Nat /\ p.size \in Nat /\ p.got \in Seq(Nat) /\ Chunk \in Nat \ {0}
  BY XAssumption DEF XInv, XTypes, PasteRecs, Units, Of
<1>2. XValue(p.size) \in Seq(Nat) /\ Len(XValue(p.size)) = p.size /\ Counts(XValue(p.size), 0)
  BY <1>1, ValueOf
<1>3. NextEnd = (IF off + Chunk < p.size THEN off + Chunk ELSE p.size) /\ NextEnd \in Nat
  BY <1>1, <1>2 DEF NextEnd
<1>4. transfer.bytes \in Seq(Nat) /\ off <= Len(transfer.bytes) /\ Len(transfer.bytes) = p.size
      /\ Counts(transfer.bytes, 0)
  BY <1>1, <1>2
<1>5. bytes \in Seq(Nat) /\ Len(bytes) = NextEnd - off /\ Counts(bytes, off)
  <2>1. /\ bytes \in Seq(Nat)
        /\ Len(bytes) = (IF off + Chunk < Len(transfer.bytes) THEN off + Chunk ELSE Len(transfer.bytes)) - off
        /\ \A start \in Int : Counts(transfer.bytes, start) => Counts(bytes, start + off)
    <3> HIDE DEF off
    <3> QED  BY <1>1, <1>4, SliceOf
  <2>2. Counts(bytes, 0 + off)
    BY <2>1, <1>4
  <2> QED  BY <2>1, <2>2, <1>1, <1>3, <1>4
<1>6. /\ properties' = PutProperty(key, "value", bytes)
      /\ transfer' = IF TransferFinished THEN NoTransfer ELSE [transfer EXCEPT !.offset = NextEnd]
  BY DEF DeleteKey, Continues, Of
<1>7. key \in DOMAIN properties' /\ properties'[key] = [kind |-> "value", bytes |-> bytes]
  BY <1>6 DEF PutProperty
<1>8. CASE TransferFinished
  <2>1. off = p.size /\ NextEnd = off /\ bytes = <<>>
    BY <1>8, <1>1, <1>2, <1>3, <1>4, <1>5 DEF TransferFinished
  <2>2. PartRead(p, bytes)
    BY <2>1, <1>1, <1>5 DEF PartRead
  <2> QED  BY <2>1, <2>2, <1>1, <1>6, <1>7, <1>8 DEF StreamHas, Of
<1>9. CASE ~TransferFinished
  <2>1. off < p.size /\ NextEnd > off /\ NextEnd <= p.size
    BY <1>9, <1>1, <1>2, <1>3 DEF TransferFinished
  <2>2. transfer' = [transfer EXCEPT !.offset = NextEnd] /\ transfer' \in [key : Key, bytes : Seq(Nat), offset : Nat]
    BY <1>1, <1>3, <1>6, <1>9 DEF Units, Key, Prop
  <2>3. Of(transfer', key) /\ transfer'.bytes = XValue(p.size) /\ transfer'.offset = NextEnd
    BY <2>2, <1>1, XAssumption DEF Of, Units
  <2>4. Len(bytes) > 0 /\ NextEnd = Len(p.got) + Len(bytes)
    <3> HIDE DEF bytes
    <3> QED  BY <2>1, <1>1, <1>3, <1>5
  <2>6. bytes # <<>>
    <3> HIDE DEF bytes
    <3> QED  BY <2>4
  <2>5. PartRead(p, bytes)
    <3>1. p.at < Len(bytes) /\ p.at <= Len(p.got) /\ Len(p.got) - p.at = off
      BY <2>4, <1>1
    <3> QED  BY <3>1, <1>5 DEF PartRead
  <2>7. properties'[key].bytes = bytes /\ properties'[key].kind = "value" /\ key \in DOMAIN properties'
    BY <1>7
  <2>8. NextEnd = Len(p.got) - p.at + Len(bytes)
    BY <2>4, <1>1
  <2> HIDE DEF bytes, off
  <2> QED  BY <2>1, <2>3, <2>5, <2>6, <2>7, <2>8 DEF StreamHas
<1> QED  BY <1>8, <1>9

\* Reading a part of a property, the rest of it.
LEMMA ReadMore ==
  ASSUME NEW p \in PasteRecs, NEW bytes \in Seq(Nat), PartRead(p, bytes), NEW n \in Nat
  PROVE  /\ GotMore(p, bytes, n) \in Seq(Nat) /\ Counts(GotMore(p, bytes, n), 0)
         /\ Len(GotMore(p, bytes, n)) = Len(p.got) - p.at + PartEnd(p, bytes, n)
         /\ PartEnd(p, bytes, n) \in Nat /\ p.at <= PartEnd(p, bytes, n) /\ PartEnd(p, bytes, n) <= Len(bytes)
<1> DEFINE end == IF p.at + n < Len(bytes) THEN p.at + n ELSE Len(bytes)
           more == p.got \o Slice(bytes, p.at, n)
<1>1. p.at \in Nat /\ p.at <= Len(bytes) /\ p.at <= Len(p.got) /\ p.got \in Seq(Nat)
  BY DEF PartRead, PasteRecs
<1>2. /\ Slice(bytes, p.at, n) \in Seq(Nat) /\ Len(Slice(bytes, p.at, n)) = end - p.at
      /\ Counts(Slice(bytes, p.at, n), Len(p.got) - p.at + p.at)
  <2>1. Len(p.got) - p.at \in Int /\ Counts(bytes, Len(p.got) - p.at)
    BY <1>1 DEF PartRead
  <2> QED  BY <1>1, <2>1, SliceOf
<1>3. end \in Nat /\ p.at <= end /\ end <= Len(bytes)
  BY <1>1
<1>4. Counts(Slice(bytes, p.at, n), Len(p.got))
  BY <1>1, <1>2
<1>5. Counts(p.got, 0)
  BY DEF PartRead
<1>6. /\ more \in Seq(Nat) /\ Counts(more, 0)
      /\ Len(more) = Len(p.got) + Len(Slice(bytes, p.at, n))
  BY <1>1, <1>2, <1>4, <1>5, CountsOn
<1>7. PartEnd(p, bytes, n) = end /\ GotMore(p, bytes, n) = more
  BY DEF PartEnd, GotMore
<1>8. Len(more) = Len(p.got) - p.at + end
  <2>1. Len(p.got) \in Nat
    BY <1>1
  <2>2. Len(Slice(bytes, p.at, n)) = end - p.at
    BY <1>2
  <2>3. Len(more) = Len(p.got) + (end - p.at)
    <3> HIDE DEF more, end
    <3> QED  BY <1>6, <2>2
  <2> HIDE DEF more, end
  <2> QED  BY <2>1, <2>3, <1>1, <1>3
<1> QED  BY <1>3, <1>6, <1>7, <1>8

\* What a deletion leaves of the other windows' pastes.
LEMMA OthersKept ==
  ASSUME XInv, NEW w \in Window, NEW v \in Window, v # w, paste'[v] = paste[v],
         DeleteKey(<<w, "paste">>) \/ UNCHANGED <<properties, transfer, events>>
  PROVE  PasteHas(paste'[v], <<v, "paste">>, properties', transfer')
<1> DEFINE key == <<v, "paste">>
<1>1. key # <<w, "paste">>
  OBVIOUS
<1>2. key \in DOMAIN properties => key \in DOMAIN properties' /\ properties'[key] = properties[key]
  BY <1>1 DEF DeleteKey, PutProperty, LessProperties
<1>3. (Of(transfer', key) <=> Of(transfer, key)) /\ (Of(transfer, key) => transfer' = transfer)
  <2>1. CASE Of(transfer, <<w, "paste">>) /\ DeleteKey(<<w, "paste">>)
    <3>1. transfer \in Units /\ ~Of(transfer, key)
      BY <2>1, <1>1 DEF Of, XInv, XTypes
    <3>2. transfer' = NoTransfer \/ transfer'.key = transfer.key
      BY <2>1, <3>1 DEF DeleteKey, Continues, Of, Units
    <3> QED  BY <2>1, <3>1, <3>2, <1>1 DEF Of
  <2>2. CASE ~Of(transfer, <<w, "paste">>) /\ DeleteKey(<<w, "paste">>)
    BY <2>2 DEF DeleteKey, Continues, Of
  <2> QED  BY <2>1, <2>2
<1> QED  BY <1>2, <1>3, PasteStays DEF XInv, PastesHave

\* A deletion keeps the types.
LEMMA DeleteTypes ==
  ASSUME XInv, NEW w \in Window, DeleteKey(<<w, "paste">>)
  PROVE  /\ properties' \in [DOMAIN properties' -> [kind : {"value", "incr"}, bytes : Seq(Nat)]]
         /\ transfer' # NoTransfer => transfer' \in Units
<1> DEFINE key == <<w, "paste">>
<1>1. CASE Continues(key)
  <2>1. transfer \in Units /\ transfer.bytes \in Seq(Nat) /\ transfer.offset \in Nat /\ Chunk \in Nat
    BY <1>1, XAssumption DEF Continues, XInv, XTypes, Units
  <2>2. NextEnd \in Nat
    BY <2>1 DEF NextEnd
  <2>3. Slice(transfer.bytes, transfer.offset, Chunk) \in Seq(Nat)
    <3>1. CASE transfer.offset <= Len(transfer.bytes)
      BY <2>1, <3>1, SliceOf
    <3>2. CASE transfer.offset > Len(transfer.bytes)
      <4> DEFINE b == transfer.bytes
                 from == transfer.offset
                 end == IF from + Chunk < Len(b) THEN from + Chunk ELSE Len(b)
      <4>1. Len(b) \in Nat /\ from \in Nat /\ Chunk \in Nat /\ from > Len(b) /\ b \in Seq(Nat)
        BY <2>1, <3>2
      <4> DEFINE first == from + 1
      <4>2. Slice(b, from, Chunk) = SubSeq(b, first, end)
        BY DEF Slice
      <4> HIDE DEF b, from
      <4>3. end \in Int /\ first \in Int /\ end < first
        BY <4>1
      <4> HIDE DEF end, first
      <4>4. SubSeq(b, first, end) = <<>>
        BY <4>3, SubSeqEmpty, Zenon
      <4> QED  BY <4>2, <4>4 DEF b, from
    <3> QED  BY <2>1, <3>1, <3>2
  <2>4. PICK bytes \in Seq(Nat) : properties' = PutProperty(key, "value", bytes)
    BY <1>1, <2>3 DEF DeleteKey
  <2>5. properties' \in [DOMAIN properties' -> [kind : {"value", "incr"}, bytes : Seq(Nat)]]
    BY <2>4 DEF PutProperty, XInv, XTypes
  <2>6. transfer' = NoTransfer \/ transfer' = [transfer EXCEPT !.offset = NextEnd]
    BY <1>1 DEF DeleteKey
  <2> QED  BY <2>1, <2>2, <2>5, <2>6 DEF Units
<1>2. CASE ~Continues(key)
  BY <1>2 DEF DeleteKey, LessProperties, XInv, XTypes
<1> QED  BY <1>1, <1>2

Taken(q, p, kind, bytes, end, more) ==
  /\ q \in PasteRecs /\ q.size = p.size
  /\ kind = "incr" => q.pc = "waiting" /\ q.got = p.got /\ q.at = p.at
  /\ kind = "value" /\ end < Len(bytes) => q.pc = p.pc /\ q.got = more /\ q.at = end
  /\ kind = "value" /\ ~(end < Len(bytes)) =>
        q.got = more /\ q.at = 0 /\ q.pc = IF p.pc = "chunk" /\ bytes # <<>> THEN "waiting" ELSE "done"

LEMMA AfterPartIs ==
  ASSUME NEW p \in PasteRecs, NEW kind \in {"value", "incr"}, NEW bytes \in Seq(Nat), NEW n \in Nat,
         kind = "value" => PartRead(p, bytes)
  PROVE  Taken(AfterPart(p, kind, bytes, n), p, kind, bytes, PartEnd(p, bytes, n), GotMore(p, bytes, n))
<1>1. CASE kind = "incr"
  BY <1>1 DEF AfterPart, PasteRecs, Pastes, Taken
<1>2. CASE kind = "value"
  <2>1. GotMore(p, bytes, n) \in Seq(Nat) /\ PartEnd(p, bytes, n) \in Nat
    BY <1>2, ReadMore
  <2>2. PICK got \in Seq(Nat), end \in Nat : got = GotMore(p, bytes, n) /\ end = PartEnd(p, bytes, n)
    BY <2>1
  <2>3. CASE end < Len(bytes)
    <3>1. AfterPart(p, kind, bytes, n) = [p EXCEPT !.got = got, !.at = end]
      BY <1>2, <2>2, <2>3 DEF AfterPart
    <3>2. AfterPart(p, kind, bytes, n) \in PasteRecs
      BY <3>1 DEF PasteRecs
    <3> QED  BY <1>2, <2>2, <2>3, <3>1, <3>2 DEF PasteRecs, Taken
  <2>4. CASE ~(end < Len(bytes))
    <3>1. PICK pc \in Pastes : pc = IF p.pc = "chunk" /\ bytes # <<>> THEN "waiting" ELSE "done"
      BY DEF Pastes
    <3>2. AfterPart(p, kind, bytes, n) = [p EXCEPT !.got = got, !.at = 0, !.pc = pc]
      BY <1>2, <2>2, <2>4, <3>1 DEF AfterPart
    <3>3. [p EXCEPT !.got = got, !.at = 0, !.pc = pc] \in PasteRecs
      BY DEF PasteRecs
    <3>4. [p EXCEPT !.got = got, !.at = 0, !.pc = pc].got = got /\ [p EXCEPT !.got = got, !.at = 0, !.pc = pc].at = 0
          /\ [p EXCEPT !.got = got, !.at = 0, !.pc = pc].pc = pc /\ [p EXCEPT !.got = got, !.at = 0, !.pc = pc].size = p.size
      BY DEF PasteRecs
    <3> QED  BY <1>2, <2>2, <2>4, <3>1, <3>2, <3>3, <3>4 DEF Taken
  <2> QED  BY <2>3, <2>4
<1> QED  BY <1>1, <1>2

LEMMA ReadPropertyInv == ASSUME XInv, NEW w \in Window, ReadProperty(w) PROVE XInv'
<1> DEFINE key == <<w, "paste">>
<1>1. PICK n \in 1..Chunk : GetProperty(w, n, key, properties[key])
  BY DEF ReadProperty
<1>2. PICK p \in PasteRecs : p = paste[w]
  BY DEF XInv, XTypes, PasteRecs
<1>3. /\ key \in DOMAIN properties /\ p.pc \in {"ready", "chunk"} /\ n \in Nat /\ n >= 1
      /\ properties[key] \in [kind : {"value", "incr"}, bytes : Seq(Nat)]
  BY <1>2, XAssumption DEF ReadProperty, XInv, XTypes
<1>4. PICK bytes \in Seq(Nat), kind \in {"value", "incr"} : bytes = properties[key].bytes /\ kind = properties[key].kind
  BY <1>3
<1>5. PICK end, more : end = PartEnd(p, bytes, n) /\ more = GotMore(p, bytes, n)
  OBVIOUS
<1>6. PasteHas(p, key, properties, transfer)
  BY <1>2 DEF XInv, PastesHave
<1>7. kind = "value" => PartRead(p, bytes)
  BY <1>3, <1>4, <1>6 DEF PasteHas, ReadyHas, StreamHas
<1>8. /\ IF end = Len(bytes) THEN DeleteKey(key) ELSE UNCHANGED <<properties, transfer, events>>
      /\ \A v \in Window \ {w} : paste'[v] = paste[v]
      /\ paste'[w] = AfterPart(p, kind, bytes, n) /\ DOMAIN paste' = Window
      /\ \A v \in DOMAIN paste' : v \in Window
      /\ paste' = [v \in Window |-> IF v = w THEN paste'[w] ELSE paste[v]]
  BY <1>1, <1>2, <1>4, <1>5 DEF GetProperty, Deletes, XInv, XTypes
<1>9. PICK q \in PasteRecs : q = paste'[w] /\ Taken(q, p, kind, bytes, end, more)
  BY <1>3, <1>5, <1>7, <1>8, AfterPartIs DEF Taken
<1>10. ASSUME NEW v \in Window, v # w PROVE PasteHas(paste'[v], <<v, "paste">>, properties', transfer')
  BY <1>8, <1>10, OthersKept
<1>11. SUFFICES /\ PasteHas(q, key, properties', transfer')
                /\ q.pc = "waiting" => DeleteKey(key) /\ Of(transfer, key)
  <2>1. paste' \in [Window -> PasteRecs]
    BY <1>8, <1>9 DEF XInv, XTypes, PasteRecs
  <2>2. /\ properties' \in [DOMAIN properties' -> [kind : {"value", "incr"}, bytes : Seq(Nat)]]
        /\ transfer' # NoTransfer => transfer' \in Units
    <3>1. CASE DeleteKey(key)
      BY <3>1, DeleteTypes
    <3>2. CASE UNCHANGED <<properties, transfer, events>>
      BY <3>2 DEF XInv, XTypes, PasteRecs
    <3> QED  BY <3>1, <3>2, <1>8
  <2>3. events' \in Seq(Window) /\ Notified'
    <3>1. CASE events' = Append(events, w)
      BY <3>1, <1>8, NotifiedMore
    <3>2. CASE events' = events /\ q.pc # "waiting"
      BY <3>2, <1>8, <1>9, NotifiedStays DEF XInv, XTypes, PasteRecs
    <3>3. events' = Append(events, w) \/ (events' = events /\ q.pc # "waiting")
      BY <1>8, <1>11 DEF DeleteKey, Continues, Of
    <3> QED  BY <3>1, <3>2, <3>3 DEF XInv, XTypes, PasteRecs
  <2>4. PastesHave'
    BY <1>9, <1>10, <1>11 DEF PastesHave
  <2> QED  BY <2>1, <2>2, <2>3, <2>4 DEF XInv, XTypes, PasteRecs
<1>12. CASE kind = "incr"
  <2>1. /\ p.pc = "ready" /\ Of(transfer, key) /\ transfer.bytes = XValue(p.size) /\ transfer.offset = 0
        /\ Len(bytes) = 1 /\ p.got = <<>> /\ p.at = 0
    BY <1>3, <1>4, <1>6, <1>12 DEF PasteHas, ReadyHas, StreamHas
  <2>2. q.pc = "waiting" /\ q.size = p.size /\ q.got = <<>> /\ q.at = 0
    BY <2>1, <1>9, <1>12 DEF Taken
  <2>3. DeleteKey(key)
    BY <2>1, <1>3, <1>5, <1>8 DEF PartEnd
  <2>4. Counts(q.got, 0) /\ Len(q.got) = 0 /\ 0 <= q.size
    BY <2>2 DEF Counts, PasteRecs
  <2>5. StreamHas(q, key, properties', transfer')
    BY <2>1, <2>2, <2>3, <2>4, NextChunk DEF PasteRecs
  <2> QED  BY <2>1, <2>2, <2>3, <2>5 DEF PasteHas
<1>13. CASE kind = "value"
  <2>1. /\ more \in Seq(Nat) /\ Len(more) = Len(p.got) - p.at + end /\ Counts(more, 0)
        /\ end \in Nat /\ p.at <= end /\ end <= Len(bytes) /\ PartRead(p, bytes)
    BY <1>3, <1>5, <1>7, <1>13, ReadMore
  <2>2. CASE end < Len(bytes)
    <3>1. UNCHANGED <<properties, transfer, events>>
      BY <2>1, <2>2, <1>8
    <3>2. q.got = more /\ q.at = end /\ q.size = p.size /\ q.pc = p.pc
      BY <2>2, <1>9, <1>13 DEF Taken
    <3>3. PartRead(q, bytes) /\ Len(q.got) - q.at = Len(p.got) - p.at
      BY <3>2, <2>1, <2>2 DEF PartRead, PasteRecs
    <3>4. ASSUME q.pc = "ready" PROVE ReadyHas(q, key, properties', transfer')
      <4>1. ReadyHas(p, key, properties, transfer)
        BY <3>2, <3>4, <1>6 DEF PasteHas
      <4>2. q.at = Len(q.got)
        BY <4>1, <3>3, <1>4, <1>13 DEF ReadyHas, PasteRecs
      <4> QED  BY <4>1, <4>2, <3>1, <3>2, <3>3, <1>4, <1>13 DEF ReadyHas
    <3>5. ASSUME q.pc = "chunk" PROVE StreamHas(q, key, properties', transfer')
      <4>1. StreamHas(p, key, properties, transfer)
        BY <3>2, <3>5, <1>6 DEF PasteHas
      <4> QED  BY <4>1, <3>1, <3>2, <3>3, <1>4, <1>13 DEF StreamHas
    <3> QED  BY <3>2, <3>4, <3>5, <1>3 DEF PasteHas
  <2>3. CASE end = Len(bytes) /\ p.pc = "chunk" /\ bytes # <<>>
    <3>1. DeleteKey(key) /\ q.pc = "waiting" /\ q.got = more /\ q.at = 0 /\ q.size = p.size
      BY <2>1, <2>3, <1>8, <1>9, <1>13 DEF Taken
    <3>2. /\ Of(transfer, key) /\ transfer.bytes = XValue(p.size)
          /\ transfer.offset = Len(p.got) - p.at + Len(bytes) /\ transfer.offset <= p.size
      BY <2>3, <1>4, <1>6 DEF PasteHas, StreamHas
    <3>3. transfer.offset = Len(q.got) /\ Counts(q.got, 0)
      BY <3>1, <3>2, <2>1, <2>3
    <3>4. StreamHas(q, key, properties', transfer')
      BY <3>1, <3>2, <3>3, NextChunk DEF PasteRecs
    <3> QED  BY <3>1, <3>2, <3>4 DEF PasteHas
  <2>4. CASE end = Len(bytes) /\ ~(p.pc = "chunk" /\ bytes # <<>>)
    <3>1. q.pc = "done" /\ q.got = more /\ q.size = p.size
      BY <2>1, <2>4, <1>9, <1>13 DEF Taken
    <3>2. Len(more) = p.size
      <4>1. CASE p.pc = "ready"
        BY <4>1, <2>1, <2>4, <1>4, <1>6, <1>13 DEF PasteHas, ReadyHas, PasteRecs
      <4>2. CASE p.pc = "chunk"
        BY <4>2, <2>1, <2>4, <1>4, <1>6, <1>13 DEF PasteHas, StreamHas, PasteRecs
      <4> QED  BY <4>1, <4>2, <1>3
    <3>3. more = XValue(p.size)
      BY <3>2, <2>1, IsValue
    <3> QED  BY <3>1, <3>3 DEF PasteHas
  <2> QED  BY <2>1, <2>2, <2>3, <2>4
<1> QED  BY <1>12, <1>13

LEMMA TakeNotificationInv == ASSUME XInv, TakeNotification PROVE XInv'
<1> DEFINE w == Head(events)
<1>1. /\ events # <<>> /\ events \in Seq(Window) /\ w \in Window /\ w = events[1]
      /\ events' = Tail(events) /\ UNCHANGED <<windows, properties, transfer>>
      /\ paste' = [paste EXCEPT ![w].pc = IF @ = "waiting" THEN "chunk" ELSE @]
  BY DEF TakeNotification, XInv, XTypes
<1>2. events' \in Seq(Window) /\ Len(events') = Len(events) - 1
      /\ \A i \in 1..Len(events) - 1 : events'[i] = events[i + 1]
  BY <1>1
<1>3. XTypes'
  <2> HIDE DEF w
  <2>1. paste' \in [Window -> PasteRecs]
    <3>1. PICK p \in PasteRecs : p = paste[w]
      BY <1>1 DEF XInv, XTypes
    <3>2. PICK q : q = [p EXCEPT !.pc = IF p.pc = "waiting" THEN "chunk" ELSE p.pc]
      OBVIOUS
    <3>3. q \in PasteRecs
      BY <3>2 DEF PasteRecs, Pastes
    <3>4. paste' = [paste EXCEPT ![w] = q]
      BY <1>1, <3>1, <3>2
    <3> QED  BY <3>3, <3>4 DEF XInv, XTypes
  <2> QED  BY <1>1, <1>2, <2>1 DEF XInv, XTypes, PasteRecs
<1>4. ASSUME NEW v \in Window PROVE PasteHas(paste'[v], <<v, "paste">>, properties', transfer')
  <2>1. CASE v = w /\ paste[v].pc = "waiting"
    <3>1. paste'[v] = [paste[v] EXCEPT !.pc = "chunk"]
      BY <2>1, <1>1 DEF XInv, XTypes, PasteRecs
    <3>2. paste[v] \in PasteRecs
      BY DEF XInv, XTypes, PasteRecs
    <3>3. paste'[v].pc = "chunk" /\ paste'[v].got = paste[v].got /\ paste'[v].at = paste[v].at /\ paste'[v].size = paste[v].size
      BY <3>1, <3>2
    <3>4. StreamHas(paste[v], <<v, "paste">>, properties, transfer)
      BY <2>1 DEF XInv, PastesHave, PasteHas
    <3>5. StreamHas(paste'[v], <<v, "paste">>, properties', transfer')
      BY <3>3, <3>4, <1>1 DEF StreamHas, PartRead
    <3> QED  BY <3>3, <3>5 DEF PasteHas
  <2>2. CASE ~(v = w /\ paste[v].pc = "waiting")
    <3>1. paste'[v] = paste[v]
      BY <2>2, <1>1 DEF XInv, XTypes, PasteRecs
    <3> QED  BY <3>1, <1>1 DEF XInv, PastesHave
  <2> QED  BY <2>1, <2>2
<1>5. ASSUME NEW v \in Window, paste'[v].pc = "waiting" PROVE \E i \in DOMAIN events' : events'[i] = v
  <2>1. paste[v].pc = "waiting" /\ v # w
    BY <1>1, <1>5 DEF XInv, XTypes, PasteRecs
  <2>2. PICK i \in DOMAIN events : events[i] = v
    BY <2>1 DEF XInv, Notified
  <2>3. i \in 1..Len(events) /\ i # 1
    BY <2>1, <2>2, <1>1
  <2>4. i - 1 \in 1..Len(events') /\ events'[i - 1] = v
    BY <2>2, <2>3, <1>1, <1>2
  <2> QED  BY <2>4, <1>2
<1> QED  BY <1>3, <1>4, <1>5 DEF XInv, PastesHave, Notified

LEMMA XNextInv == XInv /\ [XNext]_xVars => XInv'
<1> SUFFICES ASSUME XInv, [XNext]_xVars PROVE XInv'
  OBVIOUS
<1>1. CASE UNCHANGED xVars
  BY <1>1 DEF xVars, XInv, XTypes, PasteRecs, PastesHave, Notified
<1>2. CASE TakeNotification
  BY <1>2, TakeNotificationInv
<1>3. ASSUME NEW w \in Window,
             CreateWindow(w) \/ DestroyWindow(w) \/ ChangeProperty(w) \/ DeleteProperty(w) \/ Convert(w) \/ ReadProperty(w)
      PROVE  XInv'
  BY <1>3, CreateWindowInv, DestroyWindowInv, ChangePropertyInv, DeletePropertyInv, ConvertInv, ReadPropertyInv
<1> QED  BY <1>1, <1>2, <1>3 DEF XNext

LEMMA XInvPastes == XInv => PasteWhole
BY DEF XInv, PastesHave, Notified, PasteHas, PasteWhole

-----------------------------------------------------------------------------
(* The Wayland display: a pipe is followed from the offer it was received  *)
(* from to the end of its content, whatever is copied meanwhile.           *)

Copies == [revision : Nat, formats : SUBSET Mime]
Steps == {"free", "getting", "writing", "served", "closed"}
Parts == Nat \X (Mime \cup {0}) \X Nat
WorkerRecs == [pc : Steps, revision : Nat, mime : Mime \cup {0}, pipe : Seq(Parts), bytes : Seq(Parts)]
DeviceRecs == [offers : SUBSET Nat, selected : Nat]

WlTypes ==
  /\ source \in Copies /\ known \in Copies
  /\ devices \in [DOMAIN devices -> DeviceRecs]
  /\ worker \in [Worker -> WorkerRecs]

\* The loop's copy is the source's, or an older one.
KnownOlder == known.revision <= source.revision /\ (known.revision = source.revision => known = source)

\* A worker's pipe has the beginning of the content it was asked for.
PipeBegins(r) ==
  /\ r.pc \in {"free", "getting"} => r.pipe = <<>>
  /\ r.pc = "writing" => r.bytes = PipeContent(r.revision, r.mime)
  /\ Len(r.pipe) <= PipeParts
  /\ \A i \in DOMAIN r.pipe : r.pipe[i] = <<r.revision, r.mime, i>>
  /\ r.pc = "served" => Len(r.pipe) = PipeParts

WlInv == WlTypes /\ KnownOlder /\ SelectionCurrent /\ \A x \in Worker : PipeBegins(worker[x])

LEMMA FreeBegins == FreeWorker \in WorkerRecs /\ PipeBegins(FreeWorker) /\ FreeWorker.pc = "free"
BY WaylandAssumption DEF FreeWorker, WorkerRecs, PipeBegins, Steps, Parts

LEMMA WlInitInv == WlInit => WlInv
<1> SUFFICES ASSUME WlInit PROVE WlInv
  OBVIOUS
<1>1. WlTypes /\ KnownOlder /\ SelectionCurrent
  BY FreeBegins DEF WlInit, WlTypes, KnownOlder, SelectionCurrent, NoOffer, Copies, DeviceRecs
<1>2. \A x \in Worker : PipeBegins(worker[x])
  BY FreeBegins DEF WlInit
<1> QED  BY <1>1, <1>2 DEF WlInv

\* A step that leaves the workers alone.
LEMMA WorkersRest ==
  ASSUME WlInv, worker' = worker, source' \in Copies, known' \in Copies, devices' \in [DOMAIN devices' -> DeviceRecs],
         KnownOlder', SelectionCurrent'
  PROVE  WlInv'
BY DEF WlInv, WlTypes

LEMMA NewCopyInv == ASSUME WlInv, NewCopy PROVE WlInv'
<1>1. PICK fs \in SUBSET Mime : source' = [revision |-> source.revision + 1, formats |-> fs]
  BY DEF NewCopy
<1>2. source \in Copies /\ known \in Copies /\ known.revision <= source.revision
  BY DEF WlInv, WlTypes, KnownOlder
<1>3. source' \in Copies /\ source'.revision = source.revision + 1
  BY <1>1, <1>2 DEF Copies
<1>4. known'.revision <= source'.revision /\ known'.revision # source'.revision
  BY <1>2, <1>3 DEF NewCopy, Copies
<1> QED  BY <1>3, <1>4, WorkersRest DEF NewCopy, WlInv, WlTypes, KnownOlder, SelectionCurrent

\* What a device has been told of the newest copy.
Shows(device, copy) == device.selected = IF copy.formats = {} THEN 0 ELSE copy.revision

LEMMA PublishedShows ==
  ASSUME NEW device \in DeviceRecs, NEW copy \in Copies
  PROVE  Published(device, copy) \in DeviceRecs /\ Shows(Published(device, copy), copy)
BY DEF Published, Shows, DeviceRecs, Copies

LEMMA RefreshedShows ==
  ASSUME WlInv
  PROVE  /\ DOMAIN Refreshed(devices) \subseteq DOMAIN devices
         /\ \A d \in DOMAIN Refreshed(devices) : Refreshed(devices)[d] \in DeviceRecs /\ Shows(Refreshed(devices)[d], source)
<1>1. CASE source.revision = known.revision
  <2>1. known = source /\ Refreshed(devices) = devices
    BY <1>1 DEF WlInv, KnownOlder, Refreshed
  <2> QED  BY <2>1 DEF WlInv, WlTypes, SelectionCurrent, Shows
<1>2. CASE source.revision # known.revision
  <2>1. Refreshed(devices) = [d \in {e \in DOMAIN devices : ~Overrun(devices[e], source)} |-> Published(devices[d], source)]
    BY <1>2 DEF Refreshed
  <2>2. \A d \in DOMAIN devices : devices[d] \in DeviceRecs
    BY DEF WlInv, WlTypes
  <2> QED  BY <2>1, <2>2, PublishedShows DEF WlInv, WlTypes
<1> QED  BY <1>1, <1>2

LEMMA RefreshInv == ASSUME WlInv, Refresh PROVE WlInv'
<1>1. devices' = Refreshed(devices) /\ known' = source /\ source' = source /\ worker' = worker
  BY DEF Refresh
<1>2. devices' \in [DOMAIN devices' -> DeviceRecs]
  <2>1. devices' = [d \in DOMAIN devices' |-> devices'[d]]
    BY <1>1 DEF Refreshed, WlInv, WlTypes
  <2> QED  BY <2>1, <1>1, RefreshedShows
<1>3. KnownOlder' /\ SelectionCurrent'
  BY <1>1, RefreshedShows DEF KnownOlder, SelectionCurrent, Shows, WlInv, WlTypes, Copies
<1> QED  BY <1>1, <1>2, <1>3, WorkersRest DEF WlInv, WlTypes

LEMMA GetDeviceInv == ASSUME WlInv, NEW d \in Device, GetDevice(d) PROVE WlInv'
<1> DEFINE fresh == [offers |-> {}, selected |-> 0]
<1>1. /\ known' = source /\ source' = source /\ worker' = worker
      /\ devices' = [e \in DOMAIN Refreshed(devices) \cup {d} |->
                        IF e = d THEN Published(fresh, source) ELSE Refreshed(devices)[e]]
  BY DEF GetDevice
<1>2. Published(fresh, source) \in DeviceRecs /\ Shows(Published(fresh, source), source)
  BY PublishedShows DEF WlInv, WlTypes, DeviceRecs
<1>3. \A e \in DOMAIN devices' : devices'[e] \in DeviceRecs /\ Shows(devices'[e], source)
  BY <1>1, <1>2, RefreshedShows
<1>4. devices' \in [DOMAIN devices' -> DeviceRecs]
  BY <1>1, <1>3
<1>5. KnownOlder' /\ SelectionCurrent'
  <2>1. KnownOlder'
    BY <1>1 DEF KnownOlder, WlInv, WlTypes, Copies
  <2>2. SelectionCurrent'
    <3>1. ASSUME NEW e \in DOMAIN devices' PROVE devices'[e].selected = IF source.formats = {} THEN 0 ELSE source.revision
      BY <1>3, <3>1 DEF Shows
    <3> QED  BY <3>1, <1>1 DEF SelectionCurrent
  <2> QED  BY <2>1, <2>2
<1> QED  BY <1>1, <1>4, <1>5, WorkersRest DEF WlInv, WlTypes

LEMMA DestroyOfferInv == ASSUME WlInv, NEW d \in Device, NEW r \in 1..MaxOffered, DestroyOffer(d, r) PROVE WlInv'
<1>1. d \in DOMAIN devices /\ devices' = [devices EXCEPT ![d].offers = @ \ {r}]
      /\ known' = known /\ source' = source /\ worker' = worker
  BY DEF DestroyOffer
<1>2. devices' \in [DOMAIN devices' -> DeviceRecs] /\ DOMAIN devices' = DOMAIN devices
  BY <1>1 DEF WlInv, WlTypes, DeviceRecs
<1>3. \A e \in DOMAIN devices : devices'[e].selected = devices[e].selected
  BY <1>1 DEF WlInv, WlTypes, DeviceRecs
<1>4. KnownOlder' /\ SelectionCurrent'
  BY <1>1, <1>2, <1>3 DEF WlInv, KnownOlder, SelectionCurrent
<1> QED  BY <1>1, <1>2, <1>4, WorkersRest DEF WlInv, WlTypes

LEMMA WlDisconnectInv == ASSUME WlInv, NEW d \in Device, WlDisconnect(d) PROVE WlInv'
<1>1. devices' = [e \in DOMAIN devices \ {d} |-> devices[e]] /\ known' = known /\ source' = source /\ worker' = worker
  BY DEF WlDisconnect
<1>2. devices' \in [DOMAIN devices' -> DeviceRecs]
  BY <1>1 DEF WlInv, WlTypes
<1>3. KnownOlder' /\ SelectionCurrent'
  BY <1>1 DEF WlInv, KnownOlder, SelectionCurrent
<1> QED  BY <1>1, <1>2, <1>3, WorkersRest DEF WlInv, WlTypes

LEMMA WlStopInv == ASSUME WlInv, WlStop PROVE WlInv'
<1>1. devices' = [d \in {} |-> NoOffer] /\ known' = known /\ source' = source /\ worker' = worker
  BY DEF WlStop
<1>2. devices' \in [DOMAIN devices' -> DeviceRecs]
  BY <1>1
<1>3. KnownOlder' /\ SelectionCurrent'
  BY <1>1 DEF WlInv, KnownOlder, SelectionCurrent
<1> QED  BY <1>1, <1>2, <1>3, WorkersRest DEF WlInv, WlTypes

\* A step of one worker.
LEMMA WorkerMoves ==
  ASSUME WlInv, NEW x \in Worker, NEW r \in WorkerRecs, PipeBegins(r), worker' = [worker EXCEPT ![x] = r],
         UNCHANGED <<source, known, devices>>
  PROVE  WlInv'
<1>1. WlTypes' /\ KnownOlder' /\ SelectionCurrent'
  BY DEF WlInv, WlTypes, KnownOlder, SelectionCurrent
<1>2. \A y \in Worker : PipeBegins(worker'[y])
  BY DEF WlInv, WlTypes
<1> QED  BY <1>1, <1>2 DEF WlInv

LEMMA ReceiveInv ==
  ASSUME WlInv, NEW d \in Device, NEW r \in 1..MaxOffered, NEW m \in Mime, NEW x \in Worker, Receive(d, r, m, x)
  PROVE  WlInv'
<1>1. PICK free \in WorkerRecs : free = FreeWorker /\ free.pipe = <<>>
  BY FreeBegins DEF FreeWorker
<1>5. PICK next : next = [free EXCEPT !.pc = "getting", !.revision = r, !.mime = m]
  OBVIOUS
<1>4. next \in WorkerRecs /\ next.pc = "getting" /\ next.pipe = <<>>
  <2>1. r \in Nat /\ m \in Mime \cup {0} /\ "getting" \in Steps
    BY WaylandAssumption DEF Steps
  <2>2. next \in WorkerRecs
    BY <1>1, <1>5, <2>1 DEF WorkerRecs
  <2>3. next.pc = "getting"
    BY <1>1, <1>5 DEF WorkerRecs
  <2>4. next.pipe = <<>>
    BY <1>1, <1>5 DEF WorkerRecs
  <2> QED  BY <2>2, <2>3, <2>4
<1>2. next \in WorkerRecs /\ PipeBegins(next)
  BY <1>4, WaylandAssumption DEF PipeBegins
<1>3. worker' = [worker EXCEPT ![x] = next] /\ UNCHANGED <<source, known, devices>>
  BY <1>1, <1>5 DEF Receive
<1> QED  BY <1>2, <1>3, WorkerMoves

LEMMA ContentIs ==
  ASSUME NEW r \in Nat, NEW m \in Mime \cup {0}
  PROVE  PipeContent(r, m) \in Seq(Parts) /\ Len(PipeContent(r, m)) = PipeParts
         /\ \A i \in 1..PipeParts : PipeContent(r, m)[i] = <<r, m, i>>
<1>1. \A i \in 1..PipeParts : <<r, m, i>> \in Parts
  BY WaylandAssumption DEF Parts
<1>2. PipeParts \in Nat /\ PipeContent(r, m) = [i \in 1..PipeParts |-> <<r, m, i>>]
  BY WaylandAssumption DEF PipeContent
<1>3. PipeContent(r, m) \in Seq(Parts)
  BY <1>1, <1>2
<1> QED  BY <1>2, <1>3

LEMMA ClosesInv ==
  ASSUME WlInv, NEW x \in Worker, worker' = [worker EXCEPT ![x].pc = "closed"], UNCHANGED <<source, known, devices>>
  PROVE  WlInv'
<1>1. worker[x] \in WorkerRecs /\ PipeBegins(worker[x])
  BY DEF WlInv, WlTypes
<1>2. PICK next : next = [worker[x] EXCEPT !.pc = "closed"]
  OBVIOUS
<1>3. next \in WorkerRecs /\ PipeBegins(next)
  BY <1>1, <1>2 DEF WorkerRecs, Steps, PipeBegins
<1>4. worker' = [worker EXCEPT ![x] = next]
  BY <1>2
<1> QED  BY <1>3, <1>4, WorkerMoves

LEMMA WorkerFetchInv == ASSUME WlInv, NEW x \in Worker, WorkerFetch(x) PROVE WlInv'
<1>1. worker[x] \in WorkerRecs /\ PipeBegins(worker[x]) /\ worker[x].pc = "getting"
  BY DEF WlInv, WlTypes, WorkerFetch
<1>2. CASE worker' = [worker EXCEPT ![x].pc = "closed"]
  BY <1>2, ClosesInv DEF WorkerFetch
<1>3. CASE source.revision = worker[x].revision
           /\ worker' = [worker EXCEPT ![x].pc = "writing", ![x].bytes = PipeContent(source.revision, worker[x].mime)]
  <2>1. PICK bytes \in Seq(Parts) : bytes = PipeContent(worker[x].revision, worker[x].mime)
    BY <1>1, ContentIs DEF WorkerRecs
  <2>2. PICK next : next = [worker[x] EXCEPT !.pc = "writing", !.bytes = bytes]
    OBVIOUS
  <2>3. next \in WorkerRecs /\ next.pc = "writing" /\ next.bytes = bytes
        /\ next.pipe = worker[x].pipe /\ next.revision = worker[x].revision /\ next.mime = worker[x].mime
    BY <1>1, <2>2 DEF WorkerRecs, Steps
  <2>4. PipeBegins(next)
    BY <1>1, <2>1, <2>3 DEF PipeBegins
  <2>5. worker' = [worker EXCEPT ![x] = next]
    BY <1>3, <2>1, <2>2 DEF WlInv, WlTypes
  <2> QED  BY <2>3, <2>4, <2>5, WorkerMoves DEF WorkerFetch
<1> QED  BY <1>2, <1>3 DEF WorkerFetch

LEMMA WritePipeInv == ASSUME WlInv, NEW x \in Worker, WritePipe(x) PROVE WlInv'
<1>1. PICK r \in WorkerRecs : r = worker[x] /\ PipeBegins(r) /\ r.pc = "writing"
  BY DEF WlInv, WlTypes, WritePipe
<1>2. CASE worker' = [worker EXCEPT ![x].pc = "closed"]
  BY <1>2, ClosesInv DEF WritePipe
<1>3. CASE Len(r.pipe) = PipeParts /\ worker' = [worker EXCEPT ![x].pc = "served"]
  <2>1. PICK next : next = [r EXCEPT !.pc = "served"]
    OBVIOUS
  <2>2. next \in WorkerRecs /\ PipeBegins(next)
    BY <1>1, <1>3, <2>1 DEF WorkerRecs, Steps, PipeBegins
  <2>3. worker' = [worker EXCEPT ![x] = next]
    BY <1>1, <1>3, <2>1
  <2> QED  BY <2>2, <2>3, WorkerMoves DEF WritePipe
<1>4. CASE /\ Len(r.pipe) < PipeParts
           /\ worker' = [worker EXCEPT ![x].pipe = Append(@, worker[x].bytes[Len(@) + 1])]
  <2>1. /\ r.pipe \in Seq(Parts) /\ r.revision \in Nat /\ r.mime \in Mime \cup {0} /\ PipeParts \in Nat
        /\ r.bytes = PipeContent(r.revision, r.mime)
        /\ \A i \in 1..Len(r.pipe) : r.pipe[i] = <<r.revision, r.mime, i>>
    BY <1>1, WaylandAssumption DEF WorkerRecs, PipeBegins
  <2>2. PICK part \in Parts : part = r.bytes[Len(r.pipe) + 1] /\ part = <<r.revision, r.mime, Len(r.pipe) + 1>>
    <3>1. Len(r.pipe) + 1 \in 1..PipeParts
      BY <2>1, <1>4
    <3>2. r.bytes[Len(r.pipe) + 1] = <<r.revision, r.mime, Len(r.pipe) + 1>>
      BY <2>1, <3>1, ContentIs
    <3>3. <<r.revision, r.mime, Len(r.pipe) + 1>> \in Parts
      BY <2>1, <3>1 DEF Parts
    <3> QED  BY <3>2, <3>3
  <2>3. PICK pipe \in Seq(Parts) : /\ pipe = Append(r.pipe, part) /\ Len(pipe) = Len(r.pipe) + 1
                                   /\ \A i \in 1..Len(pipe) : pipe[i] = <<r.revision, r.mime, i>>
    <3>1. Append(r.pipe, part) \in Seq(Parts) /\ Len(Append(r.pipe, part)) = Len(r.pipe) + 1
          /\ Append(r.pipe, part)[Len(r.pipe) + 1] = part
          /\ \A i \in 1..Len(r.pipe) : Append(r.pipe, part)[i] = r.pipe[i]
      BY <2>1
    <3>2. \A i \in 1..(Len(r.pipe) + 1) : Append(r.pipe, part)[i] = <<r.revision, r.mime, i>>
      BY <2>1, <2>2, <3>1
    <3> QED  BY <3>1, <3>2
  <2>4. PICK next : next = [r EXCEPT !.pipe = pipe]
    OBVIOUS
  <2>5. next \in WorkerRecs /\ next.pc = "writing" /\ next.bytes = r.bytes
        /\ next.pipe = pipe /\ next.revision = r.revision /\ next.mime = r.mime
    BY <1>1, <2>4 DEF WorkerRecs
  <2>6. PipeBegins(next)
    BY <2>1, <2>3, <2>5, <1>4 DEF PipeBegins
  <2>7. worker' = [worker EXCEPT ![x] = next]
    BY <1>1, <1>4, <2>2, <2>3, <2>4
  <2> QED  BY <2>5, <2>6, <2>7, WorkerMoves DEF WritePipe
<1> QED  BY <1>1, <1>2, <1>3, <1>4 DEF WritePipe

LEMMA ForgetInv == ASSUME WlInv, NEW x \in Worker, Forget(x) PROVE WlInv'
BY FreeBegins, WorkerMoves DEF Forget

LEMMA WlNextInv == WlInv /\ [WlNext]_wlVars => WlInv'
<1> SUFFICES ASSUME WlInv, [WlNext]_wlVars PROVE WlInv'
  OBVIOUS
<1>1. CASE UNCHANGED wlVars
  BY <1>1 DEF wlVars, WlInv, WlTypes, KnownOlder, SelectionCurrent
<1>2. CASE NewCopy \/ Refresh \/ WlStop
  BY <1>2, NewCopyInv, RefreshInv, WlStopInv
<1>3. ASSUME NEW d \in Device, GetDevice(d) \/ WlDisconnect(d) \/ \E r \in 1..MaxOffered : DestroyOffer(d, r)
      PROVE  WlInv'
  BY <1>3, GetDeviceInv, WlDisconnectInv, DestroyOfferInv
<1>4. ASSUME NEW d \in Device, NEW r \in 1..MaxOffered, NEW m \in Mime, NEW x \in Worker, Receive(d, r, m, x)
      PROVE  WlInv'
  BY <1>4, ReceiveInv
<1>5. ASSUME NEW x \in Worker, WorkerFetch(x) \/ WritePipe(x) \/ Forget(x) PROVE WlInv'
  BY <1>5, WorkerFetchInv, WritePipeInv, ForgetInv
<1> QED  BY <1>1, <1>2, <1>3, <1>4, <1>5 DEF WlNext

LEMMA WlInvOffers == WlInv => OfferServesOwn /\ SelectionCurrent
BY DEF WlInv, PipeBegins, OfferServesOwn

-----------------------------------------------------------------------------
(* Both displays, in the integration *)

LEMMA IntegrationDisplaysInv ==
  XInv /\ WlInv /\ [IntegrationNext]_all => XInv' /\ WlInv'
<1> SUFFICES ASSUME XInv, WlInv, [IntegrationNext]_all PROVE XInv' /\ WlInv'
  OBVIOUS
<1>1. [XNext]_xVars /\ [WlNext]_wlVars
  BY DEF IntegrationNext, all
<1> QED  BY <1>1, XNextInv, WlNextInv

\* A paste gets the whole value in whatever parts it is read, what a client receives
\* from an offer is that offer's content, and the selection shown is the newest copy
\* the loop has (x_server.rs, wl_server.rs).
THEOREM DisplaysAreTrue == IntegrationSpec => []DisplaysTrue
<1>1. IntegrationInit => XInv /\ WlInv
  BY XInitInv, WlInitInv DEF IntegrationInit
<1>2. XInv /\ WlInv => DisplaysTrue
  BY XInvPastes, WlInvOffers DEF DisplaysTrue
<1> QED  BY <1>1, <1>2, IntegrationDisplaysInv, PTL DEF IntegrationSpec
-----------------------------------------------------------------------------
(* The exchange of the clipboard *)

ClipRequest == [id : Nat, revision : Nat, format : Format]
Piece       == Nat \X Format \X Nat
CacheEntry  == [id : Nat, sent : BOOLEAN, bytes : Seq(Piece), result : {"none", "ok", "failed"}]
ToAgent     == [kind : {"M"}, offer : [revision : Nat, formats : SUBSET Format]] \union [kind : {"H"}]
                 \union [kind : {"D"}, request : ClipRequest, status : {0, 1}, done : BOOLEAN, data : Seq(Piece)]
ToDesk      == [kind : {"A"}] \union [kind : {"C"}, request : ClipRequest]
ClipRead    == [request : ClipRequest, read : BOOLEAN, chunks : Seq(Piece)]
ClipReply   == [request : ClipRequest, chunks : Seq(Piece)]

\* Where a request may be: s is the Store, a and d the frames to the agent and the desktop,
\* b, r and p what the desktop has put off, reads and replies to.
AskedIds(d)  == {d[i].request.id : i \in {j \in DOMAIN d : d[j].kind = "C"}}
PutOffIds(b) == {b[i].id : i \in DOMAIN b}
ReadIds(r)   == {x.request.id : x \in r}
ReplyIds(p)  == {p[i].request.id : i \in DOMAIN p}
SentIds(a)   == {a[i].request.id : i \in {j \in DOMAIN a : a[j].kind = "D"}}
InFlight(a, d, b, r, p) ==
  {d[i].request : i \in {j \in DOMAIN d : d[j].kind = "C"}} \union {b[i] : i \in DOMAIN b}
    \union {x.request : x \in r} \union {p[i].request : i \in DOMAIN p}
    \union {a[i].request : i \in {j \in DOMAIN a : a[j].kind = "D"}}

\* A request is in one place, once; what is not read yet has no frame on its way.
AskedOnce(d)  == \A i, j \in DOMAIN d : d[i].kind = "C" /\ d[j].kind = "C" /\ d[i].request.id = d[j].request.id => i = j
PutOffOnce(b) == \A i, j \in DOMAIN b : b[i].id = b[j].id => i = j
ReadOnce(r)   == \A x, y \in r : x.request.id = y.request.id => x = y
ReplyOnce(p)  == \A i, j \in DOMAIN p : p[i].request.id = p[j].request.id => i = j
InOnePlace(a, d, b, r, p) ==
  /\ AskedOnce(d) /\ PutOffOnce(b) /\ ReadOnce(r) /\ ReplyOnce(p)
  /\ AskedIds(d) \intersect (PutOffIds(b) \union ReadIds(r) \union ReplyIds(p) \union SentIds(a)) = {}
  /\ PutOffIds(b) \intersect (ReadIds(r) \union ReplyIds(p) \union SentIds(a)) = {}
  /\ ReadIds(r) \intersect (ReplyIds(p) \union SentIds(a)) = {}

Known(s, q) ==
  /\ q.id <= s.next
  /\ \A f \in DOMAIN s.entries : s.entries[f].id = q.id =>
       q.format = f /\ q.revision = s.revision /\ s.entries[f].sent

StoreTypes(s) ==
  /\ s = [revision |-> s.revision, formats |-> s.formats, entries |-> s.entries, next |-> s.next, closed |-> s.closed]
  /\ s.revision \in Nat /\ s.formats \in SUBSET Format /\ s.next \in Nat /\ s.closed \in BOOLEAN
  /\ s.entries = [f \in DOMAIN s.entries |-> s.entries[f]] /\ DOMAIN s.entries \subseteq s.formats
  /\ \A f \in DOMAIN s.entries : s.entries[f] \in CacheEntry

\* The first n pieces of a content.
Beginning(v, f, n) == [i \in 1 .. n |-> <<v, f, i>>]
EntryExact(s, f) ==
  LET e == s.entries[f]
  IN  /\ e.id <= s.next
      /\ e.result = "ok" => e.bytes = CopyContent(s.revision, f)
      /\ e.result = "none" => e.bytes = Beginning(s.revision, f, Len(e.bytes))
      /\ ~e.sent => e.bytes = <<>>
EntriesExact(s) ==
  /\ \A f \in DOMAIN s.entries : EntryExact(s, f)
  /\ \A f, g \in DOMAIN s.entries : s.entries[f].id = s.entries[g].id => f = g

\* A frame of content carries one piece, and says truly whether it is the last.
PieceOf(frame) == frame.data[1][3]
Carries(frame) == frame.kind = "D" /\ frame.status = 0
FrameExact(frame) ==
  Carries(frame) =>
    LET q == frame.request
    IN  /\ frame.data = <<<<q.revision, q.format, PieceOf(frame)>>>>
        /\ PieceOf(frame) \in 1 .. Chunks[q.format]
        /\ frame.done <=> PieceOf(frame) = Chunks[q.format]
Brings(a, i, id, n) == i \in DOMAIN a /\ Carries(a[i]) /\ a[i].request.id = id /\ PieceOf(a[i]) = n
FramesExact(a) ==
  /\ \A i \in DOMAIN a : FrameExact(a[i])
  /\ \A i, j \in DOMAIN a : \A id, n \in Nat : Brings(a, i, id, n) /\ Brings(a, j, id, n) => i = j

\* What is left of a reply are the last pieces of its content.
NextPiece(x) == Chunks[x.request.format] - Len(x.chunks) + 1
ReplyExact(x) ==
  x.chunks # <<>> =>
    /\ Len(x.chunks) <= Chunks[x.request.format]
    /\ x.chunks = [i \in 1 .. Len(x.chunks) |-> <<x.request.revision, x.request.format, NextPiece(x) - 1 + i>>]
RepliesExact(a, r, p) ==
  /\ \A x \in r : x.chunks # <<>> => x.read /\ x.chunks = CopyContent(x.request.revision, x.request.format)
  /\ \A i \in DOMAIN p : ReplyExact(p[i])
  /\ \A i \in DOMAIN p, j \in DOMAIN a : \A n \in Nat :
       p[i].chunks # <<>> /\ Brings(a, j, p[i].request.id, n) => n < NextPiece(p[i])

\* The pieces that come are those an entry lacks, in order.
Reached(s, a, f, n, last) ==
  LET e == s.entries[f]
  IN  n > Len(e.bytes) /\ (n = Len(e.bytes) + 1 \/ \E j \in 1 .. last : Brings(a, j, e.id, n - 1))
Follows(s, a, f) ==
  \A i \in DOMAIN a : \A n \in Nat : Brings(a, i, s.entries[f].id, n) => Reached(s, a, f, n, i - 1)
Continued(s, a, p, f) ==
  \A i \in DOMAIN p : p[i].request.id = s.entries[f].id /\ p[i].chunks # <<>> => Reached(s, a, f, NextPiece(p[i]), Len(a))
Fresh(s, d, b, r, f) ==
  s.entries[f].id \in AskedIds(d) \union PutOffIds(b) \union ReadIds(r) => s.entries[f].bytes = <<>>
Served(s, a, d, b, r, p) ==
  \A f \in Unanswered(s) : Follows(s, a, f) /\ Continued(s, a, p, f) /\ Fresh(s, d, b, r, f)

WireTypes(a, d, b, r, p) ==
  a \in Seq(ToAgent) /\ d \in Seq(ToDesk) /\ b \in Seq(ClipRequest) /\ r \in SUBSET ClipRead /\ p \in Seq(ClipReply)

Linked(s, a, d, b, r, p) ==
  /\ StoreTypes(s) /\ WireTypes(a, d, b, r, p)
  /\ InOnePlace(a, d, b, r, p)
  /\ \A q \in InFlight(a, d, b, r, p) : Known(s, q)
  /\ EntriesExact(s) /\ FramesExact(a) /\ RepliesExact(a, r, p)
  /\ Served(s, a, d, b, r, p)

DeskTypes ==
  desk \in [state : {"loop", "asking", "down", "stopped"}, previous : Nat, asked : Nat,
            deferred : Seq(ClipRequest), reads : SUBSET ClipRead, replies : Seq(ClipReply)]
ReaderTypes ==
  reader \in [Reader -> [pc : {"idle", "asked", "waiting", "ok", "error"}, revision : Nat, format : Nat, data : Seq(Piece)]]

ClipInv ==
  /\ clip \in [revision : 1 .. MaxCopies, formats : Nonempty(SUBSET Format)]
  /\ DeskTypes /\ ReaderTypes
  /\ desk.state \in {"down", "stopped"} => desk = DeskSession(desk.state) /\ toAgent = <<>> /\ toDesk = <<>> /\ store.closed
  /\ store.closed => DOMAIN store.entries = {}
  /\ Linked(store, toAgent, toDesk, desk.deferred, desk.reads, desk.replies)
  /\ ServedWhole /\ CacheBounded
-----------------------------------------------------------------------------
(* Queues *)

LEMMA TailOf ==
  ASSUME NEW S, NEW s \in Seq(S), s # <<>>
  PROVE  /\ Len(s) \in Nat \ {0} /\ DOMAIN s = 1 .. Len(s) /\ Head(s) = s[1] /\ s[1] \in S
         /\ Tail(s) \in Seq(S) /\ Len(Tail(s)) = Len(s) - 1 /\ DOMAIN Tail(s) = 1 .. Len(s) - 1
         /\ \A i \in DOMAIN Tail(s) : i + 1 \in DOMAIN s /\ Tail(s)[i] = s[i + 1]
         /\ \A i \in DOMAIN s : i # 1 => i - 1 \in DOMAIN Tail(s) /\ Tail(s)[i - 1] = s[i]
<1>1. Len(s) \in Nat \ {0} /\ DOMAIN s = 1 .. Len(s) /\ Head(s) = s[1] /\ s[1] \in S
  BY EmptySeq
<1>2. Tail(s) \in Seq(S) /\ Len(Tail(s)) = Len(s) - 1 /\ \A i \in 1 .. Len(s) - 1 : Tail(s)[i] = s[i + 1]
  BY <1>1
<1>3. DOMAIN Tail(s) = 1 .. Len(s) - 1
  BY <1>1, <1>2
<1>4. \A i \in DOMAIN Tail(s) : i + 1 \in DOMAIN s /\ Tail(s)[i] = s[i + 1]
  BY <1>1, <1>2, <1>3
<1>5. \A i \in DOMAIN s : i # 1 => i - 1 \in DOMAIN Tail(s) /\ Tail(s)[i - 1] = s[i]
  BY <1>1, <1>2, <1>3
<1>. QED
  BY <1>1, <1>2, <1>3, <1>4, <1>5

LEMMA AppendOf ==
  ASSUME NEW S, NEW s \in Seq(S), NEW x \in S
  PROVE  /\ Len(s) \in Nat /\ DOMAIN s = 1 .. Len(s)
         /\ Append(s, x) \in Seq(S) /\ Len(Append(s, x)) = Len(s) + 1 /\ DOMAIN Append(s, x) = 1 .. Len(s) + 1
         /\ \A i \in DOMAIN s : Append(s, x)[i] = s[i]
         /\ Append(s, x)[Len(s) + 1] = x
  OBVIOUS

LEMMA JoinOne ==
  ASSUME NEW S, NEW s \in Seq(S), NEW t \in Seq(S), Len(t) = 1
  PROVE  /\ Len(s) \in Nat /\ s \o t \in Seq(S) /\ Len(s \o t) = Len(s) + 1 /\ DOMAIN (s \o t) = 1 .. Len(s) + 1
         /\ \A i \in 1 .. Len(s) : (s \o t)[i] = s[i]
         /\ (s \o t)[Len(s) + 1] = t[1]
<1>1. Len(s) \in Nat /\ s \o t \in Seq(S) /\ Len(s \o t) = Len(s) + Len(t)
  <2>1. Len(s) \in Nat
    OBVIOUS
  <2>2. s \o t \in Seq(S) /\ Len(s \o t) = Len(s) + Len(t)
    BY ConcatProperties
  <2>. QED
    BY <2>1, <2>2
<1>2. \A i \in 1 .. Len(s) + Len(t) : (s \o t)[i] = IF i <= Len(s) THEN s[i] ELSE t[i - Len(s)]
  BY ConcatProperties
<1>. QED
  BY <1>1, <1>2

\* What leaves a queue is gone from it.
LEMMA AskedTail ==
  ASSUME NEW d \in Seq(ToDesk), d # <<>>, AskedOnce(d)
  PROVE  /\ AskedIds(Tail(d)) \subseteq AskedIds(d) /\ AskedOnce(Tail(d))
         /\ {Tail(d)[i].request : i \in {j \in DOMAIN Tail(d) : Tail(d)[j].kind = "C"}}
              \subseteq {d[i].request : i \in {j \in DOMAIN d : d[j].kind = "C"}}
         /\ Head(d).kind = "C" => /\ Head(d).request \in ClipRequest
                                  /\ Head(d).request \in {d[i].request : i \in {j \in DOMAIN d : d[j].kind = "C"}}
                                  /\ Head(d).request.id \in AskedIds(d) \ AskedIds(Tail(d))
<1>. PICK t : t = Tail(d)
  OBVIOUS
<1>1. /\ DOMAIN d = 1 .. Len(d) /\ Len(d) \in Nat \ {0} /\ Head(d) = d[1] /\ d[1] \in ToDesk
      /\ \A i \in DOMAIN t : i + 1 \in DOMAIN d /\ t[i] = d[i + 1] /\ i \in Nat \ {0}
  BY TailOf
<1>2. AskedIds(t) \subseteq AskedIds(d)
  BY <1>1 DEF AskedIds
<1>3. AskedOnce(t)
  BY <1>1 DEF AskedOnce
<1>4. {t[i].request : i \in {j \in DOMAIN t : t[j].kind = "C"}}
        \subseteq {d[i].request : i \in {j \in DOMAIN d : d[j].kind = "C"}}
  BY <1>1
<1>5. ASSUME Head(d).kind = "C"
      PROVE  /\ Head(d).request \in ClipRequest
             /\ Head(d).request \in {d[i].request : i \in {j \in DOMAIN d : d[j].kind = "C"}}
             /\ Head(d).request.id \in AskedIds(d) \ AskedIds(t)
  <2>1. d[1].kind = "C" /\ 1 \in DOMAIN d
    BY <1>1, <1>5
  <2>2. d[1].request \in ClipRequest
    BY <1>1, <2>1 DEF ToDesk
  <2>3. ASSUME NEW i \in DOMAIN t, t[i].kind = "C", t[i].request.id = d[1].request.id PROVE FALSE
    BY <1>1, <2>1, <2>3 DEF AskedOnce
  <2>. QED
    BY <1>1, <2>1, <2>2, <2>3 DEF AskedIds
<1>. QED
  BY <1>2, <1>3, <1>4, <1>5

LEMMA PutOffTail ==
  ASSUME NEW b \in Seq(ClipRequest), b # <<>>, PutOffOnce(b)
  PROVE  /\ PutOffIds(Tail(b)) \subseteq PutOffIds(b) /\ PutOffOnce(Tail(b))
         /\ {Tail(b)[i] : i \in DOMAIN Tail(b)} \subseteq {b[i] : i \in DOMAIN b}
         /\ Head(b) \in ClipRequest /\ Head(b) \in {b[i] : i \in DOMAIN b}
         /\ Head(b).id \in PutOffIds(b) \ PutOffIds(Tail(b))
<1>. PICK t : t = Tail(b)
  OBVIOUS
<1>1. /\ DOMAIN b = 1 .. Len(b) /\ Len(b) \in Nat \ {0} /\ Head(b) = b[1] /\ b[1] \in ClipRequest
      /\ \A i \in DOMAIN t : i + 1 \in DOMAIN b /\ t[i] = b[i + 1] /\ i \in Nat \ {0}
  BY TailOf
<1>2. PutOffIds(t) \subseteq PutOffIds(b) /\ {t[i] : i \in DOMAIN t} \subseteq {b[i] : i \in DOMAIN b}
  BY <1>1 DEF PutOffIds
<1>3. PutOffOnce(t)
  BY <1>1 DEF PutOffOnce
<1>4. ASSUME NEW i \in DOMAIN t, t[i].id = b[1].id PROVE FALSE
  BY <1>1, <1>4 DEF PutOffOnce
<1>. QED
  BY <1>1, <1>2, <1>3, <1>4 DEF PutOffIds

LEMMA ReplyTail ==
  ASSUME NEW p \in Seq(ClipReply), p # <<>>, ReplyOnce(p)
  PROVE  /\ ReplyIds(Tail(p)) \subseteq ReplyIds(p) /\ ReplyOnce(Tail(p))
         /\ {Tail(p)[i].request : i \in DOMAIN Tail(p)} \subseteq {p[i].request : i \in DOMAIN p}
         /\ Head(p) \in ClipReply /\ Head(p).request \in {p[i].request : i \in DOMAIN p}
         /\ Head(p).request.id \in ReplyIds(p) \ ReplyIds(Tail(p))
<1>. PICK t : t = Tail(p)
  OBVIOUS
<1>1. /\ DOMAIN p = 1 .. Len(p) /\ Len(p) \in Nat \ {0} /\ Head(p) = p[1] /\ p[1] \in ClipReply
      /\ \A i \in DOMAIN t : i + 1 \in DOMAIN p /\ t[i] = p[i + 1] /\ i \in Nat \ {0}
  BY TailOf
<1>2. ReplyIds(t) \subseteq ReplyIds(p) /\ {t[i].request : i \in DOMAIN t} \subseteq {p[i].request : i \in DOMAIN p}
  BY <1>1 DEF ReplyIds
<1>3. ReplyOnce(t)
  BY <1>1 DEF ReplyOnce
<1>4. ASSUME NEW i \in DOMAIN t, t[i].request.id = p[1].request.id PROVE FALSE
  BY <1>1, <1>4 DEF ReplyOnce
<1>. QED
  BY <1>1, <1>2, <1>3, <1>4 DEF ReplyIds

\* A request that was taken from where it was, and what is so of one not read yet.
Gone(s, d, b, r, p, q) ==
  /\ q \in ClipRequest /\ Known(s, q)
  /\ q.id \notin AskedIds(d) \union PutOffIds(b) \union ReadIds(r) \union ReplyIds(p)
Early(s, a, q) ==
  /\ q.id \notin SentIds(a)
  /\ \A f \in Unanswered(s) : s.entries[f].id = q.id => s.entries[f].bytes = <<>>

LEMMA DropAsked ==
  ASSUME NEW s, NEW a, NEW d, NEW b, NEW r, NEW p, Linked(s, a, d, b, r, p), d # <<>>
  PROVE  /\ Linked(s, a, Tail(d), b, r, p)
         /\ Head(d).kind = "C" => Gone(s, Tail(d), b, r, p, Head(d).request) /\ Early(s, a, Head(d).request)
<1>. PICK t : t = Tail(d)
  OBVIOUS
<1>1. d \in Seq(ToDesk) /\ AskedOnce(d) /\ t \in Seq(ToDesk)
  BY TailOf DEF Linked, WireTypes, InOnePlace
<1>2. /\ AskedIds(t) \subseteq AskedIds(d) /\ AskedOnce(t)
      /\ {t[i].request : i \in {j \in DOMAIN t : t[j].kind = "C"}}
              \subseteq {d[i].request : i \in {j \in DOMAIN d : d[j].kind = "C"}}
      /\ Head(d).kind = "C" => /\ Head(d).request \in ClipRequest
                               /\ Head(d).request \in {d[i].request : i \in {j \in DOMAIN d : d[j].kind = "C"}}
                               /\ Head(d).request.id \in AskedIds(d) \ AskedIds(t)
  BY <1>1, AskedTail
<1>3. InOnePlace(a, t, b, r, p)
  BY <1>2 DEF Linked, InOnePlace
<1>4. InFlight(a, t, b, r, p) \subseteq InFlight(a, d, b, r, p)
  BY <1>2 DEF InFlight
<1>5. Served(s, a, t, b, r, p)
  BY <1>2 DEF Linked, Served, Fresh
<1>6. Linked(s, a, t, b, r, p)
  BY <1>1, <1>3, <1>4, <1>5 DEF Linked, WireTypes
<1>7. ASSUME Head(d).kind = "C"
      PROVE  Gone(s, t, b, r, p, Head(d).request) /\ Early(s, a, Head(d).request)
  <2>1. PICK q : q = Head(d).request
    OBVIOUS
  <2>2. q \in InFlight(a, d, b, r, p)
    BY <1>2, <1>7, <2>1 DEF InFlight
  <2>3. q \in ClipRequest /\ q.id \in AskedIds(d) \ AskedIds(t)
    BY <1>2, <1>7, <2>1
  <2>4. Gone(s, t, b, r, p, q)
    BY <2>2, <2>3 DEF Linked, InOnePlace, Gone
  <2>5. Early(s, a, q)
    BY <2>3 DEF Linked, InOnePlace, Early, Served, Fresh
  <2>. QED
    BY <2>1, <2>4, <2>5
<1>. QED
  BY <1>6, <1>7

LEMMA DropPutOff ==
  ASSUME NEW s, NEW a, NEW d, NEW b, NEW r, NEW p, Linked(s, a, d, b, r, p), b # <<>>
  PROVE  Linked(s, a, d, Tail(b), r, p) /\ Gone(s, d, Tail(b), r, p, Head(b)) /\ Early(s, a, Head(b))
<1>. PICK t, q : t = Tail(b) /\ q = Head(b)
  OBVIOUS
<1>1. b \in Seq(ClipRequest) /\ PutOffOnce(b) /\ t \in Seq(ClipRequest)
  BY TailOf DEF Linked, WireTypes, InOnePlace
<1>2. /\ PutOffIds(t) \subseteq PutOffIds(b) /\ PutOffOnce(t)
      /\ {t[i] : i \in DOMAIN t} \subseteq {b[i] : i \in DOMAIN b}
      /\ q \in ClipRequest /\ q \in {b[i] : i \in DOMAIN b}
      /\ q.id \in PutOffIds(b) \ PutOffIds(t)
  BY <1>1, PutOffTail
<1>3. InOnePlace(a, d, t, r, p)
  BY <1>2 DEF Linked, InOnePlace
<1>4. InFlight(a, d, t, r, p) \subseteq InFlight(a, d, b, r, p) /\ q \in InFlight(a, d, b, r, p)
  BY <1>2 DEF InFlight
<1>5. Served(s, a, d, t, r, p)
  BY <1>2 DEF Linked, Served, Fresh
<1>6. Linked(s, a, d, t, r, p)
  BY <1>1, <1>3, <1>4, <1>5 DEF Linked, WireTypes
<1>7. Gone(s, d, t, r, p, q)
  BY <1>2, <1>4 DEF Linked, InOnePlace, Gone
<1>8. Early(s, a, q)
  BY <1>2 DEF Linked, InOnePlace, Early, Served, Fresh
<1>. QED
  BY <1>6, <1>7, <1>8

LEMMA DropRead ==
  ASSUME NEW s, NEW a, NEW d, NEW b, NEW r, NEW p, Linked(s, a, d, b, r, p), NEW x \in r
  PROVE  Linked(s, a, d, b, r \ {x}, p) /\ Gone(s, d, b, r \ {x}, p, x.request) /\ Early(s, a, x.request)
<1>. PICK t, q : t = r \ {x} /\ q = x.request
  OBVIOUS
<1>1. r \in SUBSET ClipRead /\ ReadOnce(r) /\ t \in SUBSET ClipRead /\ q \in ClipRequest
  BY DEF Linked, WireTypes, InOnePlace, ClipRead
<1>2. /\ ReadIds(t) \subseteq ReadIds(r) /\ ReadOnce(t)
      /\ {y.request : y \in t} \subseteq {y.request : y \in r} /\ q \in {y.request : y \in r}
      /\ q.id \in ReadIds(r) \ ReadIds(t)
  BY <1>1 DEF ReadIds, ReadOnce
<1>3. InOnePlace(a, d, b, t, p)
  BY <1>2 DEF Linked, InOnePlace
<1>4. InFlight(a, d, b, t, p) \subseteq InFlight(a, d, b, r, p) /\ q \in InFlight(a, d, b, r, p)
  BY <1>2 DEF InFlight
<1>5. Served(s, a, d, b, t, p)
  BY <1>2 DEF Linked, Served, Fresh
<1>6. RepliesExact(a, t, p)
  BY DEF Linked, RepliesExact
<1>7. Linked(s, a, d, b, t, p)
  BY <1>1, <1>3, <1>4, <1>5, <1>6 DEF Linked, WireTypes
<1>8. Gone(s, d, b, t, p, q)
  BY <1>1, <1>2, <1>4 DEF Linked, InOnePlace, Gone
<1>9. Early(s, a, q)
  BY <1>2 DEF Linked, InOnePlace, Early, Served, Fresh
<1>. QED
  BY <1>7, <1>8, <1>9

\* What is known of a reply that is being sent, or is to be sent.
Sendable(s, a, x) ==
  /\ ReplyExact(x)
  /\ x.chunks # <<>> =>
       /\ \A j \in DOMAIN a : \A n \in Nat : Brings(a, j, x.request.id, n) => n < NextPiece(x)
       /\ \A f \in Unanswered(s) : s.entries[f].id = x.request.id => Reached(s, a, f, NextPiece(x), Len(a))

LEMMA DropReply ==
  ASSUME NEW s, NEW a, NEW d, NEW b, NEW r, NEW p, Linked(s, a, d, b, r, p), p # <<>>
  PROVE  /\ Linked(s, a, d, b, r, Tail(p)) /\ Gone(s, d, b, r, Tail(p), Head(p).request)
         /\ Head(p) \in ClipReply /\ Sendable(s, a, Head(p))
<1>. PICK t, x : t = Tail(p) /\ x = Head(p)
  OBVIOUS
<1>1. p \in Seq(ClipReply) /\ ReplyOnce(p) /\ t \in Seq(ClipReply)
  BY TailOf DEF Linked, WireTypes, InOnePlace
<1>2. /\ ReplyIds(t) \subseteq ReplyIds(p) /\ ReplyOnce(t)
      /\ {t[i].request : i \in DOMAIN t} \subseteq {p[i].request : i \in DOMAIN p}
      /\ x \in ClipReply /\ x.request \in {p[i].request : i \in DOMAIN p}
      /\ x.request.id \in ReplyIds(p) \ ReplyIds(t)
  BY <1>1, ReplyTail
<1>3. InOnePlace(a, d, b, r, t)
  BY <1>2 DEF Linked, InOnePlace
<1>4. InFlight(a, d, b, r, t) \subseteq InFlight(a, d, b, r, p) /\ x.request \in InFlight(a, d, b, r, p)
  BY <1>2 DEF InFlight
<1>5. /\ \A i \in DOMAIN t : i + 1 \in DOMAIN p /\ t[i] = p[i + 1]
      /\ 1 \in DOMAIN p /\ x = p[1]
  BY <1>1, TailOf
<1>6. Served(s, a, d, b, r, t)
  <2>1. ASSUME NEW f \in Unanswered(s) PROVE Continued(s, a, t, f)
    BY <1>5, <2>1 DEF Linked, Served, Continued
  <2>. QED
    BY <2>1 DEF Linked, Served
<1>7. RepliesExact(a, r, t)
  <2>1. \A i \in DOMAIN t : ReplyExact(t[i])
    BY <1>5 DEF Linked, RepliesExact
  <2>2. \A i \in DOMAIN t, j \in DOMAIN a : \A n \in Nat :
          t[i].chunks # <<>> /\ Brings(a, j, t[i].request.id, n) => n < NextPiece(t[i])
    BY <1>5 DEF Linked, RepliesExact
  <2>. QED
    BY <2>1, <2>2 DEF Linked, RepliesExact
<1>8. Linked(s, a, d, b, r, t)
  BY <1>1, <1>3, <1>4, <1>6, <1>7 DEF Linked, WireTypes
<1>9. x.request \in ClipRequest /\ Gone(s, d, b, r, t, x.request)
  BY <1>2, <1>4 DEF Linked, InOnePlace, Gone, ClipReply
<1>10. Sendable(s, a, x)
  <2>1. ReplyExact(x)
    BY <1>5 DEF Linked, RepliesExact
  <2>2. ASSUME x.chunks # <<>>, NEW j \in DOMAIN a, NEW n \in Nat, Brings(a, j, x.request.id, n)
        PROVE  n < NextPiece(x)
    BY <1>5, <2>2 DEF Linked, RepliesExact
  <2>3. ASSUME x.chunks # <<>>, NEW f \in Unanswered(s), s.entries[f].id = x.request.id
        PROVE  Reached(s, a, f, NextPiece(x), Len(a))
    BY <1>5, <2>3 DEF Linked, Served, Continued
  <2>. QED
    BY <2>1, <2>2, <2>3 DEF Sendable
<1>. QED
  BY <1>2, <1>8, <1>9, <1>10

\* A request comes to its next place.
LEMMA AddRead ==
  ASSUME NEW s, NEW a, NEW d, NEW b, NEW r, NEW p, Linked(s, a, d, b, r, p), NEW x \in ClipRead,
         Gone(s, d, b, r, p, x.request), Early(s, a, x.request),
         x.chunks # <<>> => x.read /\ x.chunks = CopyContent(x.request.revision, x.request.format)
  PROVE  Linked(s, a, d, b, r \union {x}, p)
<1>. PICK t : t = r \union {x}
  OBVIOUS
<1>1. t \in SUBSET ClipRead
  BY DEF Linked, WireTypes
<1>2. ReadIds(t) = ReadIds(r) \union {x.request.id} /\ ReadOnce(t)
  BY DEF Linked, InOnePlace, Gone, ReadIds, ReadOnce
<1>3. InOnePlace(a, d, b, t, p)
  BY <1>2 DEF Linked, InOnePlace, Gone, Early
<1>4. InFlight(a, d, b, t, p) = InFlight(a, d, b, r, p) \union {x.request}
  BY DEF InFlight
<1>5. \A q \in InFlight(a, d, b, t, p) : Known(s, q)
  BY <1>4 DEF Linked, Gone
<1>6. Served(s, a, d, b, t, p)
  BY <1>2 DEF Linked, Served, Fresh, Early
<1>7. RepliesExact(a, t, p)
  BY DEF Linked, RepliesExact
<1>. QED
  BY <1>1, <1>3, <1>5, <1>6, <1>7 DEF Linked, WireTypes

LEMMA AddPutOff ==
  ASSUME NEW s, NEW a, NEW d, NEW b, NEW r, NEW p, Linked(s, a, d, b, r, p), NEW q,
         Gone(s, d, b, r, p, q), Early(s, a, q)
  PROVE  Linked(s, a, d, Append(b, q), r, p)
<1>. PICK t : t = Append(b, q)
  OBVIOUS
<1>1. b \in Seq(ClipRequest) /\ q \in ClipRequest
  BY DEF Linked, WireTypes, Gone
<1>2. /\ Len(b) \in Nat /\ DOMAIN b = 1 .. Len(b) /\ t \in Seq(ClipRequest) /\ DOMAIN t = 1 .. Len(b) + 1
      /\ \A i \in DOMAIN b : t[i] = b[i]
      /\ t[Len(b) + 1] = q
  BY <1>1, AppendOf
<1>3. \A i \in DOMAIN t : (i \in DOMAIN b /\ t[i] = b[i]) \/ (i = Len(b) + 1 /\ t[i] = q)
  BY <1>2
<1>4. PutOffIds(t) \subseteq PutOffIds(b) \union {q.id}
  BY <1>3 DEF PutOffIds
<1>5. PutOffOnce(t)
  <2>1. q.id \notin {b[i].id : i \in DOMAIN b}
    BY DEF Gone, PutOffIds
  <2>. QED
    BY <1>3, <2>1 DEF Linked, InOnePlace, PutOffOnce
<1>6. InOnePlace(a, d, t, r, p)
  BY <1>4, <1>5 DEF Linked, InOnePlace, Gone, Early
<1>7. InFlight(a, d, t, r, p) \subseteq InFlight(a, d, b, r, p) \union {q}
  <2>1. {t[i] : i \in DOMAIN t} \subseteq {b[i] : i \in DOMAIN b} \union {q}
    BY <1>3
  <2>. QED
    BY <2>1 DEF InFlight
<1>8. \A x \in InFlight(a, d, t, r, p) : Known(s, x)
  BY <1>7 DEF Linked, Gone
<1>9. Served(s, a, d, t, r, p)
  BY <1>4 DEF Linked, Served, Fresh, Early
<1>. QED
  BY <1>2, <1>6, <1>8, <1>9 DEF Linked, WireTypes

LEMMA AddReply ==
  ASSUME NEW s, NEW a, NEW d, NEW b, NEW r, NEW p, Linked(s, a, d, b, r, p), NEW x \in ClipReply,
         Gone(s, d, b, r, p, x.request), Sendable(s, a, x)
  PROVE  Linked(s, a, d, b, r, Append(p, x))
<1>. PICK t : t = Append(p, x)
  OBVIOUS
<1>1. p \in Seq(ClipReply)
  BY DEF Linked, WireTypes
<1>2. /\ Len(p) \in Nat /\ DOMAIN p = 1 .. Len(p) /\ t \in Seq(ClipReply) /\ DOMAIN t = 1 .. Len(p) + 1
      /\ \A i \in DOMAIN p : t[i] = p[i]
      /\ t[Len(p) + 1] = x
  BY <1>1, AppendOf
<1>3. \A i \in DOMAIN t : (i \in DOMAIN p /\ t[i] = p[i]) \/ (i = Len(p) + 1 /\ t[i] = x)
  BY <1>2
<1>4. ReplyIds(t) \subseteq ReplyIds(p) \union {x.request.id}
  BY <1>3 DEF ReplyIds
<1>5. ReplyOnce(t)
  <2>1. x.request.id \notin {p[i].request.id : i \in DOMAIN p}
    BY DEF Gone, ReplyIds
  <2>. QED
    BY <1>3, <2>1 DEF Linked, InOnePlace, ReplyOnce
<1>6. InOnePlace(a, d, b, r, t)
  BY <1>4, <1>5 DEF Linked, InOnePlace, Gone
<1>7. InFlight(a, d, b, r, t) \subseteq InFlight(a, d, b, r, p) \union {x.request}
  <2>1. {t[i].request : i \in DOMAIN t} \subseteq {p[i].request : i \in DOMAIN p} \union {x.request}
    BY <1>3
  <2>. QED
    BY <2>1 DEF InFlight
<1>8. \A q \in InFlight(a, d, b, r, t) : Known(s, q)
  BY <1>7 DEF Linked, Gone
<1>9. Served(s, a, d, b, r, t)
  <2>1. ASSUME NEW f \in Unanswered(s) PROVE Continued(s, a, t, f)
    <3>. SUFFICES ASSUME NEW i \in DOMAIN t, t[i].request.id = s.entries[f].id, t[i].chunks # <<>>
                  PROVE  Reached(s, a, f, NextPiece(t[i]), Len(a))
      BY DEF Continued
    <3>1. CASE i \in DOMAIN p /\ t[i] = p[i]
      BY <3>1 DEF Linked, Served, Continued
    <3>2. CASE t[i] = x
      BY <3>2 DEF Sendable
    <3>. QED
      BY <1>3, <3>1, <3>2
  <2>. QED
    BY <2>1 DEF Linked, Served
<1>10. RepliesExact(a, r, t)
  <2>1. \A i \in DOMAIN t : ReplyExact(t[i])
    BY <1>3 DEF Linked, RepliesExact, Sendable
  <2>2. ASSUME NEW i \in DOMAIN t, NEW j \in DOMAIN a, NEW n \in Nat, t[i].chunks # <<>>,
               Brings(a, j, t[i].request.id, n)
        PROVE  n < NextPiece(t[i])
    <3>1. CASE i \in DOMAIN p /\ t[i] = p[i]
      BY <2>2, <3>1 DEF Linked, RepliesExact
    <3>2. CASE t[i] = x
      BY <2>2, <3>2 DEF Sendable
    <3>. QED
      BY <1>3, <3>1, <3>2
  <2>. QED
    BY <2>1, <2>2 DEF Linked, RepliesExact
<1>. QED
  BY <1>2, <1>6, <1>8, <1>9, <1>10 DEF Linked, WireTypes

\* A frame goes out: one without content, or the next piece of its request.
NextFrame(s, a, y) ==
  Carries(y) =>
    /\ FrameExact(y)
    /\ \A i \in DOMAIN a : \A n \in Nat : Brings(a, i, y.request.id, n) => n < PieceOf(y)
    /\ \A f \in Unanswered(s) : s.entries[f].id = y.request.id => Reached(s, a, f, PieceOf(y), Len(a))

LEMMA FrameAdded ==
  ASSUME NEW a \in Seq(ToAgent), NEW y \in ToAgent
  PROVE  /\ \A i \in DOMAIN a : i \in DOMAIN Append(a, y) /\ Append(a, y)[i] = a[i]
         /\ \A i \in DOMAIN Append(a, y) :
              \/ i \in DOMAIN a /\ Append(a, y)[i] = a[i]
              \/ i = Len(a) + 1 /\ Append(a, y)[i] = y
         /\ \A i, id, n : Brings(a, i, id, n) => Brings(Append(a, y), i, id, n)
         /\ \A i, id, n : Brings(Append(a, y), i, id, n) =>
              \/ Brings(a, i, id, n)
              \/ i = Len(a) + 1 /\ Carries(y) /\ y.request.id = id /\ PieceOf(y) = n
<1>. PICK t : t = Append(a, y)
  OBVIOUS
<1>1. /\ Len(a) \in Nat /\ DOMAIN a = 1 .. Len(a) /\ DOMAIN t = 1 .. Len(a) + 1
      /\ \A i \in DOMAIN a : t[i] = a[i]
      /\ t[Len(a) + 1] = y
  BY AppendOf
<1>2. \A i \in DOMAIN a : i \in DOMAIN t /\ t[i] = a[i]
  BY <1>1
<1>3. \A i \in DOMAIN t : (i \in DOMAIN a /\ t[i] = a[i]) \/ (i = Len(a) + 1 /\ t[i] = y)
  BY <1>1
<1>4. \A i, id, n : Brings(a, i, id, n) => Brings(t, i, id, n)
  BY <1>2 DEF Brings
<1>5. \A i, id, n : Brings(t, i, id, n) =>
              \/ Brings(a, i, id, n)
              \/ i = Len(a) + 1 /\ Carries(y) /\ y.request.id = id /\ PieceOf(y) = n
  BY <1>3 DEF Brings
<1>. QED
  BY <1>2, <1>3, <1>4, <1>5

LEMMA AddFrame ==
  ASSUME NEW s, NEW a, NEW d, NEW b, NEW r, NEW p, Linked(s, a, d, b, r, p), NEW y \in ToAgent,
         y.kind = "D" => Gone(s, d, b, r, p, y.request), NextFrame(s, a, y)
  PROVE  Linked(s, Append(a, y), d, b, r, p)
<1>. PICK t : t = Append(a, y)
  OBVIOUS
<1>1. a \in Seq(ToAgent) /\ t \in Seq(ToAgent) /\ Len(a) \in Nat /\ Len(t) = Len(a) + 1 /\ DOMAIN a = 1 .. Len(a)
      /\ DOMAIN t = 1 .. Len(a) + 1
  BY AppendOf DEF Linked, WireTypes
<1>2. /\ \A i \in DOMAIN a : i \in DOMAIN t /\ t[i] = a[i]
      /\ \A i \in DOMAIN t : (i \in DOMAIN a /\ t[i] = a[i]) \/ (i = Len(a) + 1 /\ t[i] = y)
      /\ \A i, id, n : Brings(a, i, id, n) => Brings(t, i, id, n)
      /\ \A i, id, n : Brings(t, i, id, n) =>
              Brings(a, i, id, n) \/ (i = Len(a) + 1 /\ Carries(y) /\ y.request.id = id /\ PieceOf(y) = n)
  BY <1>1, FrameAdded
<1>3. SentIds(t) \subseteq SentIds(a) \union (IF y.kind = "D" THEN {y.request.id} ELSE {})
  BY <1>2 DEF SentIds
<1>4. InOnePlace(t, d, b, r, p)
  BY <1>3 DEF Linked, InOnePlace, Gone
<1>5. \A q \in InFlight(t, d, b, r, p) : Known(s, q)
  <2>1. \A q \in {t[i].request : i \in {j \in DOMAIN t : t[j].kind = "D"}} :
          q \in {a[i].request : i \in {j \in DOMAIN a : a[j].kind = "D"}} \/ (y.kind = "D" /\ q = y.request)
    BY <1>2
  <2>2. \A q \in InFlight(t, d, b, r, p) : q \in InFlight(a, d, b, r, p) \/ (y.kind = "D" /\ q = y.request)
    BY <2>1 DEF InFlight
  <2>. QED
    BY <2>2 DEF Linked, Gone
<1>6. FramesExact(t)
  <2>1. \A i \in DOMAIN t : FrameExact(t[i])
    BY <1>2 DEF Linked, FramesExact, NextFrame, FrameExact
  <2>2. ASSUME NEW i \in DOMAIN t, NEW j \in DOMAIN t, NEW id \in Nat, NEW n \in Nat,
               Brings(t, i, id, n), Brings(t, j, id, n)
        PROVE  i = j
    <3>1. CASE Brings(a, i, id, n) /\ Brings(a, j, id, n)
      BY <3>1 DEF Linked, FramesExact, Brings
    <3>2. ASSUME NEW k, Brings(a, k, id, n), Carries(y), y.request.id = id, PieceOf(y) = n
          PROVE  FALSE
      <4>1. k \in DOMAIN a
        BY <3>2 DEF Brings
      <4>2. n < PieceOf(y)
        BY <3>2, <4>1 DEF NextFrame
      <4>. QED
        BY <3>2, <4>2
    <3>. QED
      BY <1>2, <2>2, <3>1, <3>2
  <2>. QED
    BY <2>1, <2>2 DEF FramesExact
<1>7. RepliesExact(t, r, p)
  <2>1. ASSUME NEW i \in DOMAIN p, NEW j \in DOMAIN t, NEW n \in Nat, p[i].chunks # <<>>,
               Brings(t, j, p[i].request.id, n)
        PROVE  n < NextPiece(p[i])
    <3>1. CASE Brings(a, j, p[i].request.id, n)
      BY <2>1, <3>1 DEF Linked, RepliesExact, Brings
    <3>2. CASE Carries(y) /\ y.request.id = p[i].request.id
      BY <3>2 DEF Gone, ReplyIds, Carries
    <3>. QED
      BY <1>2, <2>1, <3>1, <3>2
  <2>. QED
    BY <2>1 DEF Linked, RepliesExact
<1>8. Served(s, t, d, b, r, p)
  <2>. SUFFICES ASSUME NEW f \in Unanswered(s)
                PROVE  Follows(s, t, f) /\ Continued(s, t, p, f)
    BY DEF Linked, Served
  <2>1. ASSUME NEW n, NEW last \in Nat, last <= Len(a), NEW more \in Nat, last <= more, Reached(s, a, f, n, last)
        PROVE  Reached(s, t, f, n, more)
    BY <1>2, <2>1 DEF Reached
  <2>2. Follows(s, t, f)
    <3>. SUFFICES ASSUME NEW i \in DOMAIN t, NEW n \in Nat, Brings(t, i, s.entries[f].id, n)
                  PROVE  Reached(s, t, f, n, i - 1)
      BY DEF Follows
    <3>1. CASE Brings(a, i, s.entries[f].id, n)
      <4>1. i \in DOMAIN a
        BY <3>1 DEF Brings
      <4>2. Reached(s, a, f, n, i - 1)
        BY <3>1, <4>1 DEF Linked, Served, Follows
      <4>. QED
        BY <1>1, <2>1, <4>1, <4>2
    <3>2. CASE i = Len(a) + 1 /\ Carries(y) /\ y.request.id = s.entries[f].id /\ PieceOf(y) = n
      <4>1. Reached(s, a, f, n, Len(a))
        BY <3>2 DEF NextFrame
      <4>. QED
        BY <1>1, <2>1, <3>2, <4>1
    <3>. QED
      BY <1>2, <3>1, <3>2
  <2>3. Continued(s, t, p, f)
    <3>. SUFFICES ASSUME NEW i \in DOMAIN p, p[i].request.id = s.entries[f].id, p[i].chunks # <<>>
                  PROVE  Reached(s, t, f, NextPiece(p[i]), Len(t))
      BY DEF Continued
    <3>1. Reached(s, a, f, NextPiece(p[i]), Len(a))
      BY DEF Linked, Served, Continued
    <3>. QED
      BY <1>1, <2>1, <3>1
  <2>. QED
    BY <2>2, <2>3
<1>. QED
  BY <1>1, <1>4, <1>5, <1>6, <1>7, <1>8 DEF Linked, WireTypes
-----------------------------------------------------------------------------
(* The Store *)

LEMMA WithEntries ==
  ASSUME NEW s, StoreTypes(s), NEW g, g = [f \in DOMAIN g |-> g[f]], DOMAIN g \subseteq s.formats,
         \A f \in DOMAIN g : g[f] \in CacheEntry
  PROVE  LET t == [s EXCEPT !.entries = g]
         IN  /\ StoreTypes(t) /\ t.entries = g
             /\ t.revision = s.revision /\ t.formats = s.formats /\ t.next = s.next /\ t.closed = s.closed
<1>. PICK t : t = [s EXCEPT !.entries = g]
  OBVIOUS
<1>1. s = [revision |-> s.revision, formats |-> s.formats, entries |-> s.entries, next |-> s.next, closed |-> s.closed]
  BY DEF StoreTypes
<1>2. t = [revision |-> s.revision, formats |-> s.formats, entries |-> g, next |-> s.next, closed |-> s.closed]
  BY <1>1
<1>3. /\ t.entries = g /\ t.revision = s.revision /\ t.formats = s.formats /\ t.next = s.next /\ t.closed = s.closed
  BY <1>2
<1>4. StoreTypes(t)
  BY <1>2, <1>3 DEF StoreTypes
<1>. QED
  BY <1>3, <1>4

\* Entries that were dropped, or have failed.
Fewer(s, t) ==
  /\ StoreTypes(t) /\ t.revision = s.revision /\ t.next = s.next
  /\ \A f \in DOMAIN t.entries :
       /\ f \in DOMAIN s.entries
       /\ \/ t.entries[f] = s.entries[f]
          \/ t.entries[f].id = s.entries[f].id /\ t.entries[f].sent = s.entries[f].sent
               /\ t.entries[f].result = "failed" /\ t.entries[f].bytes = <<>>

LEMMA FewerLinked ==
  ASSUME NEW s, NEW t, NEW a, NEW d, NEW b, NEW r, NEW p, Linked(s, a, d, b, r, p), Fewer(s, t)
  PROVE  Linked(t, a, d, b, r, p)
<1>1. \A f \in DOMAIN t.entries : /\ f \in DOMAIN s.entries /\ t.entries[f].id = s.entries[f].id
                                  /\ t.entries[f].sent = s.entries[f].sent
  BY DEF Fewer
<1>2. \A f \in Unanswered(t) : f \in Unanswered(s) /\ t.entries[f] = s.entries[f]
  BY DEF Fewer, Unanswered
<1>3. \A q \in InFlight(a, d, b, r, p) : Known(t, q)
  BY <1>1 DEF Linked, Known, Fewer
<1>4. EntriesExact(t)
  BY <1>1 DEF Linked, EntriesExact, EntryExact, Fewer
<1>5. Served(t, a, d, b, r, p)
  <2>. SUFFICES ASSUME NEW f \in Unanswered(t)
                PROVE  Follows(t, a, f) /\ Continued(t, a, p, f) /\ Fresh(t, d, b, r, f)
    BY DEF Served
  <2>1. f \in Unanswered(s) /\ t.entries[f] = s.entries[f]
    BY <1>2
  <2>2. Follows(s, a, f) /\ Continued(s, a, p, f) /\ Fresh(s, d, b, r, f)
    BY <2>1 DEF Linked, Served
  <2>. QED
    BY <2>1, <2>2 DEF Follows, Continued, Fresh, Reached
<1>. QED
  BY <1>3, <1>4, <1>5 DEF Linked, Fewer

\* A Store without entries, offered what it may be.
LEMMA EmptyLinked ==
  ASSUME NEW s, NEW t, NEW a, NEW d, NEW b, NEW r, NEW p, Linked(s, a, d, b, r, p),
         StoreTypes(t), DOMAIN t.entries = {}, t.next = s.next
  PROVE  Linked(t, a, d, b, r, p)
<1>1. \A q \in InFlight(a, d, b, r, p) : Known(t, q)
  BY DEF Linked, Known
<1>2. EntriesExact(t)
  BY DEF EntriesExact
<1>3. Served(t, a, d, b, r, p)
  BY DEF Served, Unanswered
<1>. QED
  BY <1>1, <1>2, <1>3 DEF Linked

LEMMA FrameTaken ==
  ASSUME NEW a \in Seq(ToAgent), a # <<>>
  PROVE  /\ Len(a) \in Nat \ {0} /\ DOMAIN a = 1 .. Len(a) /\ Len(Tail(a)) = Len(a) - 1
         /\ DOMAIN Tail(a) = 1 .. Len(a) - 1 /\ Tail(a) \in Seq(ToAgent)
         /\ \A i \in DOMAIN Tail(a) : i + 1 \in DOMAIN a /\ Tail(a)[i] = a[i + 1]
         /\ \A i, id, n : Brings(Tail(a), i, id, n) => i + 1 \in DOMAIN a /\ Brings(a, i + 1, id, n)
         /\ \A i, id, n : i # 1 /\ Brings(a, i, id, n) => i - 1 \in DOMAIN Tail(a) /\ Brings(Tail(a), i - 1, id, n)
  BY TailOf DEF Brings

\* What remains of the frames when the first is taken, but for what it means to an entry.
LEMMA TakenLinked ==
  ASSUME NEW s, NEW a, NEW d, NEW b, NEW r, NEW p, Linked(s, a, d, b, r, p), a # <<>>
  PROVE  /\ WireTypes(Tail(a), d, b, r, p) /\ InOnePlace(Tail(a), d, b, r, p)
         /\ InFlight(Tail(a), d, b, r, p) \subseteq InFlight(a, d, b, r, p)
         /\ FramesExact(Tail(a)) /\ RepliesExact(Tail(a), r, p)
<1>. PICK t : t = Tail(a)
  OBVIOUS
<1>1. a \in Seq(ToAgent)
  BY DEF Linked, WireTypes
<1>2. /\ Len(a) \in Nat \ {0} /\ DOMAIN a = 1 .. Len(a) /\ DOMAIN t = 1 .. Len(a) - 1 /\ t \in Seq(ToAgent)
      /\ \A i \in DOMAIN t : i + 1 \in DOMAIN a /\ t[i] = a[i + 1]
      /\ \A i, id, n : Brings(t, i, id, n) => i + 1 \in DOMAIN a /\ Brings(a, i + 1, id, n)
  BY <1>1, FrameTaken
<1>3. WireTypes(t, d, b, r, p)
  BY <1>2 DEF Linked, WireTypes
<1>4. SentIds(t) \subseteq SentIds(a)
  BY <1>2 DEF SentIds
<1>5. InOnePlace(t, d, b, r, p)
  BY <1>4 DEF Linked, InOnePlace
<1>6. InFlight(t, d, b, r, p) \subseteq InFlight(a, d, b, r, p)
  <2>1. {t[i].request : i \in {j \in DOMAIN t : t[j].kind = "D"}} \subseteq
          {a[i].request : i \in {j \in DOMAIN a : a[j].kind = "D"}}
    BY <1>2
  <2>. QED
    BY <2>1 DEF InFlight
<1>7. FramesExact(t)
  <2>1. \A i \in DOMAIN t : FrameExact(t[i])
    BY <1>2 DEF Linked, FramesExact
  <2>2. ASSUME NEW i \in DOMAIN t, NEW j \in DOMAIN t, NEW id \in Nat, NEW n \in Nat,
               Brings(t, i, id, n), Brings(t, j, id, n)
        PROVE  i = j
    <3>1. i + 1 = j + 1
      BY <1>2, <2>2 DEF Linked, FramesExact
    <3>. QED
      BY <1>2, <3>1
  <2>. QED
    BY <2>1, <2>2 DEF FramesExact
<1>8. RepliesExact(t, r, p)
  BY <1>2 DEF Linked, RepliesExact
<1>. QED
  BY <1>3, <1>5, <1>6, <1>7, <1>8

\* A frame is dropped that no entry waits for.
LEMMA HeadDropped ==
  ASSUME NEW s, NEW a, NEW d, NEW b, NEW r, NEW p, Linked(s, a, d, b, r, p), a # <<>>,
         \A f \in Unanswered(s) : ~(Carries(Head(a)) /\ Head(a).request.id = s.entries[f].id)
  PROVE  Linked(s, Tail(a), d, b, r, p)
<1>. PICK t : t = Tail(a)
  OBVIOUS
<1>1. a \in Seq(ToAgent) /\ Head(a) = a[1]
  BY TailOf DEF Linked, WireTypes
<1>2. /\ Len(a) \in Nat \ {0} /\ DOMAIN a = 1 .. Len(a) /\ DOMAIN t = 1 .. Len(a) - 1 /\ Len(t) = Len(a) - 1
      /\ \A i, id, n : Brings(t, i, id, n) => i + 1 \in DOMAIN a /\ Brings(a, i + 1, id, n)
      /\ \A i, id, n : i # 1 /\ Brings(a, i, id, n) => i - 1 \in DOMAIN t /\ Brings(t, i - 1, id, n)
  BY <1>1, FrameTaken
<1>3. Served(s, t, d, b, r, p)
  <2>. SUFFICES ASSUME NEW f \in Unanswered(s)
                PROVE  Follows(s, t, f) /\ Continued(s, t, p, f)
    BY DEF Linked, Served
  <2>1. ASSUME NEW n, NEW last \in 0 .. Len(a), last # 0, Reached(s, a, f, n, last)
        PROVE  Reached(s, t, f, n, last - 1)
    <3>1. CASE n = Len(s.entries[f].bytes) + 1
      BY <2>1, <3>1 DEF Reached
    <3>2. CASE n # Len(s.entries[f].bytes) + 1
      <4>1. PICK j \in 1 .. last : Brings(a, j, s.entries[f].id, n - 1)
        BY <2>1, <3>2 DEF Reached
      <4>2. j # 1
        BY <1>1, <4>1 DEF Brings
      <4>3. Brings(t, j - 1, s.entries[f].id, n - 1) /\ j - 1 \in 1 .. last - 1
        BY <1>2, <2>1, <4>1, <4>2
      <4>. QED
        BY <2>1, <4>3 DEF Reached
    <3>. QED
      BY <3>1, <3>2
  <2>2. Follows(s, t, f)
    <3>. SUFFICES ASSUME NEW i \in DOMAIN t, NEW n \in Nat, Brings(t, i, s.entries[f].id, n)
                  PROVE  Reached(s, t, f, n, i - 1)
      BY DEF Follows
    <3>1. i + 1 \in DOMAIN a /\ Brings(a, i + 1, s.entries[f].id, n)
      BY <1>2
    <3>2. Reached(s, a, f, n, i)
      <4>1. Reached(s, a, f, n, (i + 1) - 1)
        BY <3>1 DEF Linked, Served, Follows
      <4>2. (i + 1) - 1 = i
        BY <1>2
      <4>. QED
        BY <4>1, <4>2
    <3>. QED
      BY <1>2, <2>1, <3>2
  <2>3. Continued(s, t, p, f)
    <3>. SUFFICES ASSUME NEW i \in DOMAIN p, p[i].request.id = s.entries[f].id, p[i].chunks # <<>>
                  PROVE  Reached(s, t, f, NextPiece(p[i]), Len(t))
      BY DEF Continued
    <3>1. Reached(s, a, f, NextPiece(p[i]), Len(a))
      BY DEF Linked, Served, Continued
    <3>. QED
      BY <1>2, <2>1, <3>1
  <2>. QED
    BY <2>2, <2>3
<1>4. \A q \in InFlight(t, d, b, r, p) : Known(s, q)
  BY TakenLinked DEF Linked
<1>. QED
  BY <1>3, <1>4, TakenLinked DEF Linked

\* The next piece is added to the entry that waits for it.
WithPiece(e, h) == [e EXCEPT !.bytes = @ \o h.data, !.result = IF h.done THEN "ok" ELSE "none"]

LEMMA PieceFits ==
  ASSUME NEW s, NEW a, NEW d, NEW b, NEW r, NEW p, Linked(s, a, d, b, r, p), a # <<>>,
         Carries(Head(a)), NEW f \in Unanswered(s), s.entries[f].id = Head(a).request.id
  PROVE  LET e == s.entries[f]
             n == PieceOf(Head(a))
             g == WithPiece(e, Head(a))
         IN  /\ e \in CacheEntry /\ f \in DOMAIN s.entries /\ f \in Format /\ n \in Nat /\ n = Len(e.bytes) + 1
             /\ Brings(a, 1, e.id, n) /\ e.sent
             /\ g \in CacheEntry /\ g.id = e.id /\ g.sent = e.sent /\ Len(g.bytes) = n
             /\ g.bytes = Beginning(s.revision, f, n)
             /\ g.result = (IF Head(a).done THEN "ok" ELSE "none")
             /\ Head(a).done => g.bytes = CopyContent(s.revision, f)
             /\ Len(Head(a).data) = 1
<1>. PICK h, e, n : h = Head(a) /\ e = s.entries[f] /\ n = PieceOf(Head(a))
  OBVIOUS
<1>1. a \in Seq(ToAgent) /\ h = a[1] /\ 1 \in DOMAIN a /\ h \in ToAgent
  BY TailOf DEF Linked, WireTypes
<1>2. /\ f \in DOMAIN s.entries /\ e.result = "none" /\ e \in CacheEntry /\ f \in Format /\ s.revision \in Nat
  BY DEF Unanswered, Linked, StoreTypes
<1>3. h.kind = "D" /\ h.status = 0 /\ h.request \in ClipRequest
  BY <1>1 DEF Carries, ToAgent
<1>4. h.request \in InFlight(a, d, b, r, p)
  BY <1>1, <1>3 DEF InFlight
<1>5. h.request.format = f /\ h.request.revision = s.revision /\ e.sent
  BY <1>2, <1>4 DEF Linked, Known
<1>6. /\ h.data = <<<<s.revision, f, n>>>> /\ n \in 1 .. Chunks[f] /\ (h.done <=> n = Chunks[f])
  <2>1. FrameExact(h)
    BY <1>1 DEF Linked, FramesExact
  <2>. QED
    BY <1>5, <2>1 DEF FrameExact
<1>7. n \in Nat \ {0} /\ Chunks[f] \in Nat \ {0}
  BY <1>2, <1>6, ClipboardAssumption
<1>8. Brings(a, 1, e.id, n)
  BY <1>1, <1>3 DEF Brings, Carries
<1>9. e.bytes \in Seq(Piece) /\ Len(e.bytes) \in Nat
  BY <1>2 DEF CacheEntry
<1>10. n = Len(e.bytes) + 1
  <2>1. Reached(s, a, f, n, 1 - 1)
    BY <1>1, <1>7, <1>8 DEF Linked, Served, Follows
  <2>. QED
    BY <1>9, <2>1 DEF Reached
<1>11. e.bytes = Beginning(s.revision, f, n - 1)
  <2>1. e.bytes = Beginning(s.revision, f, Len(e.bytes))
    BY <1>2 DEF Linked, EntriesExact, EntryExact
  <2>. QED
    BY <1>7, <1>9, <1>10, <2>1
<1>12. PICK bytes : bytes = e.bytes \o h.data
  OBVIOUS
<1>13. h.data \in Seq(Piece) /\ Len(h.data) = 1 /\ h.data[1] = <<s.revision, f, n>>
  <2>1. h.data \in Seq(Piece)
    BY <1>1, <1>3 DEF ToAgent
  <2>2. PICK x : x = <<s.revision, f, n>>
    OBVIOUS
  <2>3. h.data = <<x>>
    BY <1>6, <2>2
  <2>4. Len(<<x>>) = 1 /\ <<x>>[1] = x
    OBVIOUS
  <2>. QED
    BY <2>1, <2>2, <2>3, <2>4
<1>14. /\ bytes \in Seq(Piece) /\ Len(bytes) = n /\ DOMAIN bytes = 1 .. n
       /\ \A i \in 1 .. n - 1 : bytes[i] = e.bytes[i]
       /\ bytes[n] = <<s.revision, f, n>>
  <2>1. PICK m \in Nat : m = Len(e.bytes)
    BY <1>9
  <2>2. /\ bytes \in Seq(Piece) /\ Len(bytes) = m + 1 /\ DOMAIN bytes = 1 .. m + 1
        /\ \A i \in 1 .. m : bytes[i] = e.bytes[i]
        /\ bytes[m + 1] = h.data[1]
    <3>1. PICK u, v \in Seq(Piece) : u = e.bytes /\ v = h.data /\ Len(v) = 1
      BY <1>9, <1>13
    <3>2. bytes = u \o v /\ Len(u) = m
      BY <1>12, <2>1, <3>1
    <3>3. /\ u \o v \in Seq(Piece) /\ Len(u \o v) = m + 1
          /\ \A i \in 1 .. m + 1 : (u \o v)[i] = IF i <= m THEN u[i] ELSE v[i - m]
      <4>1. u \in Seq(Piece) /\ v \in Seq(Piece)
        BY <3>1
      <4>2. u \o v \in Seq(Piece) /\ Len(u \o v) = Len(u) + Len(v)
        BY <4>1, ConcatProperties
      <4>3. \A i \in 1 .. Len(u) + Len(v) : (u \o v)[i] = IF i <= Len(u) THEN u[i] ELSE v[i - Len(u)]
        BY <4>1, ConcatProperties
      <4>. QED
        BY <3>1, <3>2, <4>2, <4>3
    <3>4. /\ DOMAIN (u \o v) = 1 .. m + 1 /\ \A i \in 1 .. m : (u \o v)[i] = u[i]
          /\ (u \o v)[m + 1] = v[1]
      <4>1. ~(m + 1 <= m) /\ m + 1 \in 1 .. m + 1 /\ (m + 1) - m = 1
        OBVIOUS
      <4>2. \A i \in 1 .. m : i \in 1 .. m + 1 /\ i <= m
        OBVIOUS
      <4>3. (u \o v)[m + 1] = v[(m + 1) - m]
        BY <3>3, <4>1
      <4>. QED
        BY <3>3, <4>1, <4>2, <4>3
    <3>. QED
      BY <3>1, <3>2, <3>3, <3>4
  <2>3. n = m + 1 /\ n - 1 = m
    BY <1>10, <2>1
  <2>. QED
    BY <1>13, <2>2, <2>3
<1>15. bytes = Beginning(s.revision, f, n)
  <2>1. ASSUME NEW i \in 1 .. n PROVE bytes[i] = <<s.revision, f, i>>
    <3>1. CASE i \in 1 .. n - 1
      BY <1>11, <1>14, <3>1 DEF Beginning
    <3>2. CASE i = n
      BY <1>14, <3>2
    <3>. QED
      BY <1>7, <3>1, <3>2
  <2>2. bytes = [i \in 1 .. n |-> bytes[i]]
    BY <1>14
  <2>. QED
    BY <2>1, <2>2 DEF Beginning
<1>16. PICK result : result = IF h.done THEN "ok" ELSE "none"
  OBVIOUS
<1>17. PICK g : g = WithPiece(e, h)
  OBVIOUS
<1>18. g = [e EXCEPT !.bytes = bytes, !.result = result]
  BY <1>12, <1>16, <1>17 DEF WithPiece
<1>19. /\ g \in CacheEntry /\ g.id = e.id /\ g.sent = e.sent /\ g.bytes = bytes /\ g.result = result
  BY <1>2, <1>14, <1>16, <1>18 DEF CacheEntry
<1>20. h.done => bytes = CopyContent(s.revision, f)
  BY <1>6, <1>15 DEF Beginning, CopyContent
<1>. QED
  BY <1>2, <1>5, <1>7, <1>8, <1>10, <1>13, <1>14, <1>15, <1>16, <1>17, <1>19, <1>20

LEMMA FilledLinked ==
  ASSUME NEW s, NEW a, NEW d, NEW b, NEW r, NEW p, Linked(s, a, d, b, r, p), a # <<>>,
         Carries(Head(a)), NEW f \in Unanswered(s), s.entries[f].id = Head(a).request.id, NEW t,
         t = [s EXCEPT !.entries = [g \in DOMAIN s.entries |-> IF g = f THEN WithPiece(s.entries[f], Head(a)) ELSE s.entries[g]]]
  PROVE  Linked(t, Tail(a), d, b, r, p)
<1>. PICK h, e, n, g, q : /\ h = Head(a) /\ e = s.entries[f] /\ n = PieceOf(Head(a)) /\ q = Tail(a)
                          /\ g = WithPiece(s.entries[f], Head(a))
  OBVIOUS
<1>1. /\ e \in CacheEntry /\ f \in DOMAIN s.entries /\ f \in Format /\ n \in Nat /\ n = Len(e.bytes) + 1
      /\ Brings(a, 1, e.id, n) /\ e.sent
      /\ g \in CacheEntry /\ g.id = e.id /\ g.sent = e.sent /\ Len(g.bytes) = n
      /\ g.bytes = Beginning(s.revision, f, n)
      /\ g.result = (IF h.done THEN "ok" ELSE "none")
      /\ h.done => g.bytes = CopyContent(s.revision, f)
  BY PieceFits
<1>2. PICK entries : entries = [k \in DOMAIN s.entries |-> IF k = f THEN g ELSE s.entries[k]]
  OBVIOUS
<1>3. /\ t = [s EXCEPT !.entries = entries] /\ StoreTypes(s)
      /\ entries = [k \in DOMAIN entries |-> entries[k]] /\ DOMAIN entries = DOMAIN s.entries
      /\ entries[f] = g /\ \A k \in DOMAIN entries : k # f => entries[k] = s.entries[k]
  BY <1>1, <1>2 DEF Linked
<1>4. /\ StoreTypes(t) /\ t.entries = entries /\ t.revision = s.revision /\ t.next = s.next
  <2>1. DOMAIN entries \subseteq s.formats /\ \A k \in DOMAIN entries : entries[k] \in CacheEntry
    BY <1>1, <1>3 DEF StoreTypes
  <2>. QED
    BY <1>3, <2>1, WithEntries
<1>5. \A k \in DOMAIN entries : entries[k].id = s.entries[k].id /\ entries[k].sent = s.entries[k].sent
  BY <1>1, <1>3
<1>6. \A x \in InFlight(q, d, b, r, p) : Known(t, x)
  <2>1. \A x \in InFlight(q, d, b, r, p) : Known(s, x)
    BY TakenLinked DEF Linked
  <2>. QED
    BY <1>3, <1>4, <1>5, <2>1 DEF Known
<1>7. EntriesExact(t)
  <2>1. ASSUME NEW k \in DOMAIN entries PROVE EntryExact(t, k)
    <3>1. EntryExact(s, k)
      BY <1>3 DEF Linked, EntriesExact
    <3>2. CASE k # f
      BY <1>3, <1>4, <3>1, <3>2 DEF EntryExact
    <3>3. CASE k = f
      <4>1. t.entries[k] = g /\ g.id <= s.next /\ g.sent
        BY <1>1, <1>3, <1>4, <3>1, <3>3 DEF EntryExact
      <4>2. CASE h.done
        BY <1>1, <1>4, <3>3, <4>1, <4>2 DEF EntryExact
      <4>3. CASE ~h.done
        BY <1>1, <1>4, <3>3, <4>1, <4>3 DEF EntryExact
      <4>. QED
        BY <4>2, <4>3
    <3>. QED
      BY <3>2, <3>3
  <2>2. \A j, k \in DOMAIN entries : entries[j].id = entries[k].id => j = k
    BY <1>3, <1>5 DEF Linked, EntriesExact
  <2>. QED
    BY <1>4, <2>1, <2>2 DEF EntriesExact
<1>8. /\ Len(a) \in Nat \ {0} /\ DOMAIN a = 1 .. Len(a) /\ DOMAIN q = 1 .. Len(a) - 1 /\ Len(q) = Len(a) - 1
      /\ \A i, id, m : Brings(q, i, id, m) => i + 1 \in DOMAIN a /\ Brings(a, i + 1, id, m)
      /\ \A i, id, m : i # 1 /\ Brings(a, i, id, m) => i - 1 \in DOMAIN q /\ Brings(q, i - 1, id, m)
  BY FrameTaken DEF Linked, WireTypes
<1>9. a[1] = h /\ e.id \in Nat /\ Len(e.bytes) \in Nat
  BY <1>1, TailOf DEF Linked, WireTypes, CacheEntry
<1>10. Served(t, q, d, b, r, p)
  <2>. SUFFICES ASSUME NEW k \in Unanswered(t)
                PROVE  Follows(t, q, k) /\ Continued(t, q, p, k) /\ Fresh(t, d, b, r, k)
    BY DEF Served
  <2>1. k \in DOMAIN entries /\ k \in Unanswered(s) /\ t.entries[k] = entries[k]
    BY <1>1, <1>3, <1>4 DEF Unanswered
  <2>2. Follows(s, a, k) /\ Continued(s, a, p, k) /\ Fresh(s, d, b, r, k)
    BY <2>1 DEF Linked, Served
  <2>3. CASE k # f
    <3>1. t.entries[k] = s.entries[k] /\ s.entries[k].id # e.id
      BY <1>1, <1>3, <2>1, <2>3 DEF Linked, EntriesExact
    <3>2. ASSUME NEW m, NEW last \in 0 .. Len(a), last # 0, Reached(s, a, k, m, last)
          PROVE  Reached(t, q, k, m, last - 1)
      <4>1. CASE m = Len(s.entries[k].bytes) + 1
        BY <3>1, <3>2, <4>1 DEF Reached
      <4>2. CASE m # Len(s.entries[k].bytes) + 1
        <5>1. PICK j \in 1 .. last : Brings(a, j, s.entries[k].id, m - 1)
          BY <3>2, <4>2 DEF Reached
        <5>2. j # 1
          BY <1>1, <3>1, <5>1 DEF Brings
        <5>3. Brings(q, j - 1, s.entries[k].id, m - 1) /\ j - 1 \in 1 .. last - 1
          BY <1>8, <3>2, <5>1, <5>2
        <5>. QED
          BY <3>1, <3>2, <5>3 DEF Reached
      <4>. QED
        BY <4>1, <4>2
    <3>3. Follows(t, q, k)
      <4>. SUFFICES ASSUME NEW i \in DOMAIN q, NEW m \in Nat, Brings(q, i, s.entries[k].id, m)
                    PROVE  Reached(t, q, k, m, i - 1)
        BY <3>1 DEF Follows
      <4>1. i + 1 \in DOMAIN a /\ Brings(a, i + 1, s.entries[k].id, m)
        BY <1>8
      <4>2. (i + 1) - 1 = i /\ i \in 0 .. Len(a) /\ i # 0
        BY <1>8
      <4>3. Reached(s, a, k, m, i)
        BY <2>2, <4>1, <4>2 DEF Follows
      <4>. QED
        BY <3>2, <4>2, <4>3
    <3>4. Continued(t, q, p, k)
      BY <1>8, <2>2, <3>1, <3>2 DEF Continued
    <3>5. Fresh(t, d, b, r, k)
      BY <2>2, <3>1 DEF Fresh
    <3>. QED
      BY <3>3, <3>4, <3>5
  <2>4. CASE k = f
    <3>1. t.entries[k].id = e.id /\ Len(t.entries[k].bytes) = n
      BY <1>1, <1>3, <2>1, <2>4
    <3>2. ASSUME NEW m \in Nat, m # n, NEW last \in 0 .. Len(a), last # 0, Reached(s, a, f, m, last)
          PROVE  Reached(t, q, k, m, last - 1)
      <4>1. m > n
        BY <1>1, <1>9, <3>2 DEF Reached
      <4>2. CASE m = n + 1
        BY <3>1, <4>1, <4>2 DEF Reached
      <4>3. CASE m # n + 1
        <5>1. PICK j \in 1 .. last : Brings(a, j, e.id, m - 1)
          BY <1>1, <1>9, <3>2, <4>1 DEF Reached
        <5>2. j # 1
          <6>1. m - 1 # n
            BY <1>1, <4>3, <3>2
          <6>. QED
            BY <1>1, <5>1, <6>1 DEF Brings
        <5>3. Brings(q, j - 1, e.id, m - 1) /\ j - 1 \in 1 .. last - 1
          BY <1>8, <3>2, <5>1, <5>2
        <5>. QED
          BY <3>1, <4>1, <5>3 DEF Reached
      <4>. QED
        BY <4>2, <4>3
    <3>3. Follows(t, q, k)
      <4>. SUFFICES ASSUME NEW i \in DOMAIN q, NEW m \in Nat, Brings(q, i, e.id, m)
                    PROVE  Reached(t, q, k, m, i - 1)
        BY <3>1 DEF Follows
      <4>1. i + 1 \in DOMAIN a /\ Brings(a, i + 1, e.id, m)
        BY <1>8
      <4>2. (i + 1) - 1 = i /\ i \in 0 .. Len(a) /\ i # 0 /\ 1 \in DOMAIN a /\ i + 1 # 1
        BY <1>8
      <4>3. Reached(s, a, f, m, i)
        BY <2>2, <2>4, <4>1, <4>2 DEF Follows
      <4>4. m # n
        BY <1>1, <1>9, <4>1, <4>2 DEF Linked, FramesExact
      <4>. QED
        BY <3>2, <4>2, <4>3, <4>4
    <3>4. Continued(t, q, p, k)
      <4>. SUFFICES ASSUME NEW i \in DOMAIN p, p[i].request.id = e.id, p[i].chunks # <<>>
                    PROVE  Reached(t, q, k, NextPiece(p[i]), Len(q))
        BY <3>1 DEF Continued
      <4>1. Reached(s, a, f, NextPiece(p[i]), Len(a))
        BY <2>2, <2>4 DEF Continued
      <4>2. n < NextPiece(p[i])
        BY <1>1, <1>8 DEF Linked, RepliesExact
      <4>3. NextPiece(p[i]) \in Nat
        <5>1. p[i] \in ClipReply
          BY DEF Linked, WireTypes
        <5>2. Chunks[p[i].request.format] \in Nat /\ Len(p[i].chunks) \in Nat
          BY <5>1, ClipboardAssumption DEF ClipReply, ClipRequest
        <5>. QED
          BY <1>1, <4>2, <5>2 DEF NextPiece
      <4>4. PICK m \in Nat : m = NextPiece(p[i])
        BY <4>3
      <4>5. m # n /\ Len(a) \in 0 .. Len(a) /\ Len(a) # 0
        BY <1>1, <1>8, <4>2, <4>4
      <4>6. Reached(t, q, k, m, Len(a) - 1)
        BY <3>2, <4>1, <4>4, <4>5
      <4>. QED
        BY <1>8, <4>4, <4>6
    <3>5. Fresh(t, d, b, r, k)
      <4>1. e.id \in SentIds(a)
        <5>1. 1 \in DOMAIN a /\ a[1].kind = "D" /\ a[1].request.id = e.id
          BY <1>1 DEF Brings, Carries
        <5>. QED
          BY <5>1 DEF SentIds
      <4>2. e.id \notin AskedIds(d) \union PutOffIds(b) \union ReadIds(r)
        BY <4>1 DEF Linked, InOnePlace
      <4>. QED
        BY <3>1, <4>2 DEF Fresh
    <3>. QED
      BY <3>3, <3>4, <3>5
  <2>. QED
    BY <2>3, <2>4
<1>. QED
  BY <1>4, <1>6, <1>7, <1>10, TakenLinked DEF Linked
-----------------------------------------------------------------------------
(* Requests are sent *)

LEMMA JoinOf ==
  ASSUME NEW S, NEW s \in Seq(S), NEW t \in Seq(S)
  PROVE  /\ Len(s) \in Nat /\ DOMAIN s = 1 .. Len(s) /\ s \o t \in Seq(S)
         /\ \A i \in DOMAIN (s \o t) :
              \/ i \in DOMAIN s /\ (s \o t)[i] = s[i]
              \/ i \in Int /\ i - Len(s) \in DOMAIN t /\ (s \o t)[i] = t[i - Len(s)]
<1>1. Len(s) \in Nat /\ DOMAIN s = 1 .. Len(s) /\ Len(t) \in Nat /\ DOMAIN t = 1 .. Len(t)
  OBVIOUS
<1>2. s \o t \in Seq(S) /\ Len(s \o t) = Len(s) + Len(t)
  BY ConcatProperties
<1>3. DOMAIN (s \o t) = 1 .. Len(s) + Len(t)
  BY <1>2
<1>4. \A i \in 1 .. Len(s) + Len(t) : (s \o t)[i] = IF i <= Len(s) THEN s[i] ELSE t[i - Len(s)]
  BY ConcatProperties
<1>. QED
  BY <1>1, <1>2, <1>3, <1>4

LEMMA InFlightIds ==
  ASSUME NEW a, NEW d, NEW b, NEW r, NEW p
  PROVE  AskedIds(d) \union PutOffIds(b) \union ReadIds(r) \union ReplyIds(p) \union SentIds(a)
           = {q.id : q \in InFlight(a, d, b, r, p)}
<1>1. AskedIds(d) = {q.id : q \in {d[i].request : i \in {j \in DOMAIN d : d[j].kind = "C"}}}
  BY DEF AskedIds
<1>2. SentIds(a) = {q.id : q \in {a[i].request : i \in {j \in DOMAIN a : a[j].kind = "D"}}}
  BY DEF SentIds
<1>3. PutOffIds(b) = {q.id : q \in {b[i] : i \in DOMAIN b}}
  BY DEF PutOffIds
<1>4. ReadIds(r) = {q.id : q \in {x.request : x \in r}}
  BY DEF ReadIds
<1>5. ReplyIds(p) = {q.id : q \in {p[i].request : i \in DOMAIN p}}
  BY DEF ReplyIds
<1>. QED
  BY <1>1, <1>2, <1>3, <1>4, <1>5 DEF InFlight

LEMMA BroughtIds ==
  ASSUME NEW a, NEW i, NEW id, NEW n, Brings(a, i, id, n)
  PROVE  id \in SentIds(a)
BY DEF Brings, Carries, SentIds

\* t is s with the entries of U marked as sent.
Marked(s, t, U) ==
  /\ StoreTypes(t) /\ t.revision = s.revision /\ t.next = s.next /\ DOMAIN t.entries = DOMAIN s.entries
  /\ \A f \in DOMAIN s.entries : t.entries[f] = IF f \in U THEN [s.entries[f] EXCEPT !.sent = TRUE] ELSE s.entries[f]

\* more asks for entries of U, for each once.
AsksFor(s, U, more) ==
  /\ U \subseteq Unanswered(s) /\ (\A f \in U : ~s.entries[f].sent) /\ more \in Seq(ToDesk)
  /\ \A i \in DOMAIN more : more[i].kind = "C" => \E f \in U : more[i] = Asked(s, f)
  /\ \A i, j \in DOMAIN more : more[i].kind = "C" /\ more[j].kind = "C"
                                   /\ more[i].request.format = more[j].request.format => i = j

LEMMA SentLinked ==
  ASSUME NEW s, NEW t, NEW a, NEW d, NEW b, NEW r, NEW p, Linked(s, a, d, b, r, p),
         NEW U, Marked(s, t, U), NEW more, AsksFor(s, U, more)
  PROVE  Linked(t, a, d \o more, b, r, p)
<1>. /\ U \subseteq Unanswered(s) /\ (\A f \in U : ~s.entries[f].sent) /\ more \in Seq(ToDesk)
     /\ \A i \in DOMAIN more : more[i].kind = "C" => \E f \in U : more[i] = Asked(s, f)
     /\ \A i, j \in DOMAIN more : more[i].kind = "C" /\ more[j].kind = "C"
                                   /\ more[i].request.format = more[j].request.format => i = j
  BY DEF AsksFor
<1>. PICK dd : dd = d \o more
  OBVIOUS
<1>1. \A f \in U : /\ f \in DOMAIN s.entries /\ s.entries[f].result = "none" /\ s.entries[f].bytes = <<>>
                   /\ s.entries[f].id <= s.next /\ s.entries[f] \in CacheEntry
  BY DEF Unanswered, Linked, EntriesExact, EntryExact, StoreTypes
<1>2. \A f \in DOMAIN s.entries : s.entries[f] \in CacheEntry
  BY DEF Linked, StoreTypes
<1>3. \A f \in DOMAIN s.entries : /\ t.entries[f].id = s.entries[f].id /\ t.entries[f].bytes = s.entries[f].bytes
                                  /\ t.entries[f].result = s.entries[f].result
                                  /\ (t.entries[f].sent <=> s.entries[f].sent \/ f \in U)
  <2>. SUFFICES ASSUME NEW f \in DOMAIN s.entries
                PROVE  /\ t.entries[f].id = s.entries[f].id /\ t.entries[f].bytes = s.entries[f].bytes
                       /\ t.entries[f].result = s.entries[f].result
                       /\ (t.entries[f].sent <=> s.entries[f].sent \/ f \in U)
    OBVIOUS
  <2>1. PICK e \in CacheEntry : e = s.entries[f]
    BY <1>2
  <2>2. CASE f \in U
    <3>1. t.entries[f] = [e EXCEPT !.sent = TRUE]
      BY <2>1, <2>2 DEF Marked
    <3>. QED
      BY <2>1, <2>2, <3>1 DEF CacheEntry
  <2>3. CASE f \notin U
    <3>1. t.entries[f] = e
      BY <2>1, <2>3 DEF Marked
    <3>. QED
      BY <2>1, <2>3, <3>1
  <2>. QED
    BY <2>2, <2>3
<1>4. \A f \in U : \A q \in InFlight(a, d, b, r, p) : q.id # s.entries[f].id
  BY <1>1 DEF Linked, Known
<1>5. \A f \in U : s.entries[f].id \notin AskedIds(d) \union PutOffIds(b) \union ReadIds(r) \union ReplyIds(p) \union SentIds(a)
  <2>. SUFFICES ASSUME NEW f \in U
                PROVE  s.entries[f].id \notin AskedIds(d) \union PutOffIds(b) \union ReadIds(r) \union ReplyIds(p) \union SentIds(a)
    OBVIOUS
  <2>1. s.entries[f].id \notin {q.id : q \in InFlight(a, d, b, r, p)}
    BY <1>4
  <2>. QED
    BY <2>1, InFlightIds
<1>6. d \in Seq(ToDesk)
  BY DEF Linked, WireTypes
<1>7. PICK len \in Nat : len = Len(d)
  BY <1>6
<1>8. /\ dd \in Seq(ToDesk) /\ DOMAIN d = 1 .. len
      /\ \A i \in DOMAIN dd : \/ i \in DOMAIN d /\ dd[i] = d[i]
                              \/ i \in Int /\ i - len \in DOMAIN more /\ dd[i] = more[i - len]
  BY <1>6, <1>7, JoinOf
<1>9. \A i \in DOMAIN more : more[i].kind = "C" => \E f \in U : more[i].request = Asked(s, f).request
  OBVIOUS
<1>10. \A f : /\ Asked(s, f).request.id = s.entries[f].id /\ Asked(s, f).request.format = f
              /\ Asked(s, f).request.revision = s.revision
  BY DEF Asked
<1>11. AskedIds(dd) \subseteq AskedIds(d) \union {s.entries[f].id : f \in U}
  <2>. SUFFICES ASSUME NEW i \in DOMAIN dd, dd[i].kind = "C"
                PROVE  dd[i].request.id \in AskedIds(d) \union {s.entries[f].id : f \in U}
    BY DEF AskedIds
  <2>1. CASE i \in DOMAIN d /\ dd[i] = d[i]
    BY <2>1 DEF AskedIds
  <2>2. CASE i - len \in DOMAIN more /\ dd[i] = more[i - len]
    BY <1>9, <1>10, <2>2
  <2>. QED
    BY <1>8, <2>1, <2>2
<1>12. AskedOnce(dd)
  <2>. SUFFICES ASSUME NEW i \in DOMAIN dd, NEW j \in DOMAIN dd, dd[i].kind = "C", dd[j].kind = "C",
                       dd[i].request.id = dd[j].request.id
                PROVE  i = j
    BY DEF AskedOnce
  <2>1. ASSUME NEW k \in DOMAIN d, d[k].kind = "C", NEW m \in DOMAIN more, more[m].kind = "C",
               d[k].request.id = more[m].request.id
        PROVE  FALSE
    <3>1. d[k].request.id \in AskedIds(d)
      BY <2>1 DEF AskedIds
    <3>2. PICK f \in U : more[m].request = Asked(s, f).request
      BY <1>9, <2>1
    <3>3. more[m].request.id = s.entries[f].id
      BY <1>10, <3>2
    <3>. QED
      BY <1>5, <2>1, <3>1, <3>3
  <2>2. ASSUME i \in DOMAIN d, dd[i] = d[i], j \in DOMAIN d, dd[j] = d[j] PROVE i = j
    BY <2>2 DEF Linked, InOnePlace, AskedOnce
  <2>3. ASSUME i \in Int, i - len \in DOMAIN more, dd[i] = more[i - len],
               j \in Int, j - len \in DOMAIN more, dd[j] = more[j - len] PROVE i = j
    <3>1. PICK f, g \in U : more[i - len].request = Asked(s, f).request /\ more[j - len].request = Asked(s, g).request
      BY <1>9, <2>3
    <3>2. f = g
      <4>1. more[i - len].request.id = s.entries[f].id /\ more[j - len].request.id = s.entries[g].id
        BY <1>10, <3>1
      <4>2. s.entries[f].id = s.entries[g].id
        BY <2>3, <4>1
      <4>. QED
        BY <1>1, <4>2 DEF Linked, EntriesExact
    <3>3. more[i - len].request.format = more[j - len].request.format
      BY <3>1, <3>2
    <3>4. i - len = j - len
      BY <2>3, <3>3
    <3>. QED
      BY <1>7, <2>3, <3>4
  <2>. QED
    BY <1>8, <2>1, <2>2, <2>3
<1>13. InOnePlace(a, dd, b, r, p)
  BY <1>5, <1>11, <1>12 DEF Linked, InOnePlace
<1>14. \A q \in InFlight(a, dd, b, r, p) : q \in InFlight(a, d, b, r, p) \/ \E f \in U : q = Asked(s, f).request
  <2>1. ASSUME NEW i \in DOMAIN dd, dd[i].kind = "C"
        PROVE  dd[i].request \in InFlight(a, d, b, r, p) \/ \E f \in U : dd[i].request = Asked(s, f).request
    <3>1. CASE i \in DOMAIN d /\ dd[i] = d[i]
      BY <2>1, <3>1 DEF InFlight
    <3>2. CASE i - len \in DOMAIN more /\ dd[i] = more[i - len]
      BY <1>9, <2>1, <3>2
    <3>. QED
      BY <1>8, <3>1, <3>2
  <2>. QED
    BY <2>1 DEF InFlight
<1>15. \A q \in InFlight(a, dd, b, r, p) : Known(t, q)
  <2>1. ASSUME NEW q \in InFlight(a, d, b, r, p) PROVE Known(t, q)
    <3>1. Known(s, q)
      BY DEF Linked
    <3>. QED
      BY <1>3, <3>1 DEF Known, Marked
  <2>2. ASSUME NEW f \in U PROVE Known(t, Asked(s, f).request)
    <3>1. \A g \in DOMAIN s.entries : s.entries[g].id = s.entries[f].id => g = f
      BY <1>1 DEF Linked, EntriesExact
    <3>2. PICK q : q = Asked(s, f).request
      OBVIOUS
    <3>3. q.id = s.entries[f].id /\ q.format = f /\ q.revision = s.revision
      BY <1>10, <3>2
    <3>4. Known(t, q)
      BY <1>1, <1>3, <3>1, <3>3 DEF Known, Marked
    <3>. QED
      BY <3>2, <3>4
  <2>. QED
    BY <1>14, <2>1, <2>2
<1>16. EntriesExact(t)
  <2>1. ASSUME NEW f \in DOMAIN t.entries PROVE EntryExact(t, f)
    <3>1. f \in DOMAIN s.entries /\ EntryExact(s, f)
      BY <2>1 DEF Linked, EntriesExact, Marked
    <3>. QED
      BY <1>3, <3>1 DEF EntryExact, Marked
  <2>2. \A f, g \in DOMAIN t.entries : t.entries[f].id = t.entries[g].id => f = g
    BY <1>3 DEF Linked, EntriesExact, Marked
  <2>. QED
    BY <2>1, <2>2 DEF EntriesExact
<1>17. Served(t, a, dd, b, r, p)
  <2>. SUFFICES ASSUME NEW f \in Unanswered(t)
                PROVE  Follows(t, a, f) /\ Continued(t, a, p, f) /\ Fresh(t, dd, b, r, f)
    BY DEF Served
  <2>1. f \in DOMAIN s.entries /\ f \in Unanswered(s)
    BY <1>3 DEF Unanswered, Marked
  <2>2. Follows(s, a, f) /\ Continued(s, a, p, f) /\ Fresh(s, d, b, r, f)
    BY <2>1 DEF Linked, Served
  <2>3. Follows(t, a, f) /\ Continued(t, a, p, f)
    BY <1>3, <2>1, <2>2 DEF Follows, Continued, Reached
  <2>4. CASE f \in U
    BY <1>1, <1>3, <2>1, <2>3, <2>4 DEF Fresh
  <2>5. CASE f \notin U
    <3>1. s.entries[f].id \notin {s.entries[g].id : g \in U}
      BY <1>1, <2>1, <2>5 DEF Linked, EntriesExact
    <3>. QED
      BY <1>3, <1>11, <2>1, <2>2, <2>3, <3>1 DEF Fresh
  <2>. QED
    BY <2>4, <2>5
<1>. QED
  BY <1>8, <1>13, <1>15, <1>16, <1>17 DEF Linked, WireTypes, Marked

LEMMA RequestTypes ==
  ASSUME NEW a, NEW d, NEW b, NEW r, NEW p, WireTypes(a, d, b, r, p), NEW q \in InFlight(a, d, b, r, p)
  PROVE  q \in ClipRequest
<1>1. \A i \in DOMAIN d : d[i].kind = "C" => d[i].request \in ClipRequest
  <2>1. \A y \in ToDesk : y.kind = "C" => y.request \in ClipRequest
    BY DEF ToDesk
  <2>. QED
    BY <2>1 DEF WireTypes
<1>2. \A i \in DOMAIN a : a[i].kind = "D" => a[i].request \in ClipRequest
  <2>1. \A y \in ToAgent : y.kind = "D" => y.request \in ClipRequest
    BY DEF ToAgent
  <2>. QED
    BY <2>1 DEF WireTypes
<1>3. \A i \in DOMAIN b : b[i] \in ClipRequest
  BY DEF WireTypes
<1>4. \A x \in r : x.request \in ClipRequest
  BY DEF WireTypes, ClipRead
<1>5. \A i \in DOMAIN p : p[i].request \in ClipRequest
  <2>1. \A y \in ClipReply : y.request \in ClipRequest
    BY DEF ClipReply
  <2>. QED
    BY <2>1 DEF WireTypes
<1>. QED
  BY <1>1, <1>2, <1>3, <1>4, <1>5 DEF InFlight

\* An entry is made for a format that has none.
LEMMA NewEntryLinked ==
  ASSUME NEW s, NEW t, NEW a, NEW d, NEW b, NEW r, NEW p, Linked(s, a, d, b, r, p),
         NEW f \in s.formats, f \notin DOMAIN s.entries
  PROVE  t = [s EXCEPT !.next = @ + 1, !.entries = [g \in DOMAIN @ \cup {f} |->
                 IF g = f THEN [id |-> s.next + 1, sent |-> FALSE, bytes |-> <<>>, result |-> "none"] ELSE @[g]]]
           => Linked(t, a, d, b, r, p) /\ Cached(t) \subseteq Cached(s)
<1>20. SUFFICES ASSUME t = [s EXCEPT !.next = @ + 1, !.entries = [g \in DOMAIN @ \cup {f} |->
                            IF g = f THEN [id |-> s.next + 1, sent |-> FALSE, bytes |-> <<>>, result |-> "none"] ELSE @[g]]]
                PROVE  Linked(t, a, d, b, r, p) /\ Cached(t) \subseteq Cached(s)
  OBVIOUS
<1>21. PICK entry : entry = [id |-> s.next + 1, sent |-> FALSE, bytes |-> <<>>, result |-> "none"]
  OBVIOUS
<1>22. PICK entries : entries = [g \in DOMAIN s.entries \cup {f} |-> IF g = f THEN entry ELSE s.entries[g]]
  OBVIOUS
<1>1. StoreTypes(s)
  BY DEF Linked
<1>2. t = [s EXCEPT !.next = s.next + 1, !.entries = entries]
  BY <1>20, <1>21, <1>22
<1>3. t = [revision |-> s.revision, formats |-> s.formats, entries |-> entries, next |-> s.next + 1, closed |-> s.closed]
  BY <1>1, <1>2 DEF StoreTypes
<1>4. /\ t.revision = s.revision /\ t.formats = s.formats /\ t.entries = entries /\ t.next = s.next + 1 /\ t.closed = s.closed
  BY <1>3
<1>5. /\ DOMAIN entries = DOMAIN s.entries \union {f} /\ entries[f] = entry
      /\ \A g \in DOMAIN s.entries : entries[g] = s.entries[g] /\ g # f
      /\ entries = [g \in DOMAIN entries |-> entries[g]]
  BY <1>22
<1>6. s.next \in Nat /\ s.formats \in SUBSET Format /\ s.revision \in Nat /\ s.closed \in BOOLEAN
  BY <1>1 DEF StoreTypes
<1>7. entry \in CacheEntry /\ entry.id = s.next + 1 /\ entry.bytes = <<>> /\ entry.result = "none" /\ ~entry.sent
  <2>1. <<>> \in Seq(Piece) /\ s.next + 1 \in Nat
    BY <1>6, EmptySeq
  <2>. QED
    BY <1>21, <2>1 DEF CacheEntry
<1>8. StoreTypes(t)
  <2>1. DOMAIN entries \subseteq s.formats /\ \A g \in DOMAIN entries : entries[g] \in CacheEntry
    BY <1>1, <1>5, <1>7 DEF StoreTypes
  <2>2. t = [revision |-> t.revision, formats |-> t.formats, entries |-> t.entries, next |-> t.next, closed |-> t.closed]
    BY <1>3
  <2>3. s.next + 1 \in Nat
    BY <1>6
  <2>. QED
    BY <1>4, <1>5, <1>6, <2>1, <2>2, <2>3 DEF StoreTypes
<1>9. \A q \in InFlight(a, d, b, r, p) : Known(s, q)
  BY DEF Linked
<1>10. \A q \in InFlight(a, d, b, r, p) : q.id # s.next + 1
  <2>. SUFFICES ASSUME NEW q \in InFlight(a, d, b, r, p), q.id = s.next + 1 PROVE FALSE
    OBVIOUS
  <2>1. q.id <= s.next
    BY <1>9 DEF Known
  <2>. QED
    BY <1>6, <2>1
<1>11. \A q \in InFlight(a, d, b, r, p) : Known(t, q)
  <2>. SUFFICES ASSUME NEW q \in InFlight(a, d, b, r, p) PROVE Known(t, q)
    OBVIOUS
  <2>1. Known(s, q) /\ q.id # s.next + 1
    BY <1>9, <1>10
  <2>2. q.id \in Nat
    <3>1. q \in ClipRequest
      BY RequestTypes DEF Linked
    <3>. QED
      BY <3>1 DEF ClipRequest
  <2>3. q.id <= s.next + 1
    BY <1>6, <2>1, <2>2 DEF Known
  <2>. QED
    BY <1>4, <1>5, <1>7, <2>1, <2>3 DEF Known
<1>12. EntriesExact(t)
  <2>1. \A g \in DOMAIN s.entries : s.entries[g].id \in Nat /\ s.entries[g].id <= s.next
    BY <1>1 DEF StoreTypes, CacheEntry, Linked, EntriesExact, EntryExact
  <2>2. ASSUME NEW g \in DOMAIN entries PROVE EntryExact(t, g)
    <3>1. CASE g = f
      <4>1. Len(entry.bytes) = 0 /\ entry.bytes = Beginning(s.revision, f, 0)
        BY <1>7 DEF Beginning
      <4>2. s.next + 1 <= s.next + 1
        BY <1>6
      <4>. QED
        BY <1>4, <1>5, <1>7, <3>1, <4>1, <4>2 DEF EntryExact
    <3>2. CASE g \in DOMAIN s.entries
      <4>1. EntryExact(s, g)
        BY <3>2 DEF Linked, EntriesExact
      <4>2. s.entries[g].id <= s.next + 1
        BY <1>6, <2>1, <3>2
      <4>. QED
        BY <1>4, <1>5, <3>2, <4>1, <4>2 DEF EntryExact
    <3>. QED
      BY <1>5, <3>1, <3>2
  <2>3. \A g \in DOMAIN s.entries : s.entries[g].id # s.next + 1
    BY <1>6, <2>1
  <2>4. \A g, h \in DOMAIN s.entries : s.entries[g].id = s.entries[h].id => g = h
    BY DEF Linked, EntriesExact
  <2>5. \A g, h \in DOMAIN entries : entries[g].id = entries[h].id => g = h
    BY <1>5, <1>7, <2>3, <2>4
  <2>. QED
    <3>1. \A g \in DOMAIN t.entries : EntryExact(t, g)
      BY <1>4, <2>2
    <3>2. \A g, h \in DOMAIN t.entries : t.entries[g].id = t.entries[h].id => g = h
      BY <1>4, <2>5
    <3>. QED
      BY <3>1, <3>2 DEF EntriesExact
<1>13. Served(t, a, d, b, r, p)
  <2>. SUFFICES ASSUME NEW g \in Unanswered(t)
                PROVE  Follows(t, a, g) /\ Continued(t, a, p, g) /\ Fresh(t, d, b, r, g)
    BY DEF Served
  <2>1. CASE g = f
    <3>1. t.entries[g] = entry
      BY <1>4, <1>5, <2>1
    <3>2. s.next + 1 \notin AskedIds(d) \union PutOffIds(b) \union ReadIds(r) \union ReplyIds(p) \union SentIds(a)
      <4>1. s.next + 1 \notin {q.id : q \in InFlight(a, d, b, r, p)}
        BY <1>10
      <4>. QED
        BY <4>1, InFlightIds
    <3>3. \A i \in DOMAIN a : \A n \in Nat : ~Brings(a, i, s.next + 1, n)
      BY <3>2, BroughtIds
    <3>4. \A i \in DOMAIN p : p[i].request.id # s.next + 1
      BY <3>2 DEF ReplyIds
    <3>. QED
      BY <1>7, <3>1, <3>3, <3>4 DEF Follows, Continued, Fresh
  <2>2. CASE g # f
    <3>1. g \in Unanswered(s) /\ t.entries[g] = s.entries[g]
      BY <1>4, <1>5, <2>2 DEF Unanswered
    <3>2. Follows(s, a, g) /\ Continued(s, a, p, g) /\ Fresh(s, d, b, r, g)
      BY <3>1 DEF Linked, Served
    <3>. QED
      BY <3>1, <3>2 DEF Follows, Continued, Fresh, Reached
  <2>. QED
    BY <2>1, <2>2
<1>14. Cached(t) \subseteq Cached(s)
  <2>. SUFFICES ASSUME NEW g \in DOMAIN entries, NEW x \in {g} \X (1 .. Len(entries[g].bytes)) PROVE x \in Cached(s)
    BY <1>4 DEF Cached
  <2>1. CASE g = f
    <3>1. Len(entry.bytes) = 0
      BY <1>7
    <3>. QED
      BY <1>5, <2>1, <3>1
  <2>2. CASE g \in DOMAIN s.entries
    BY <1>5, <2>2 DEF Cached
  <2>. QED
    BY <1>5, <2>1, <2>2
<1>. QED
  BY <1>8, <1>11, <1>12, <1>13, <1>14 DEF Linked

-----------------------------------------------------------------------------
(* The formats in their order *)

LEMMA NthIs ==
  ASSUME NEW S \in SUBSET Nat, IsFiniteSet(S)
  PROVE  /\ Cardinality(S) \in Nat
         /\ \A i \in 1 .. Cardinality(S) : Nth(S, i) \in S
         /\ \A i, j \in 1 .. Cardinality(S) : Nth(S, i) = Nth(S, j) => i = j
<1>. DEFINE Before(f) == {g \in S : g < f}
            rank == [f \in S |-> Cardinality(Before(f)) + 1]
<1>1. PICK n \in Nat : n = Cardinality(S)
  BY FS_CardinalityType
<1>2. \A f \in S : IsFiniteSet(Before(f)) /\ Cardinality(Before(f)) \in Nat
  <2>. SUFFICES ASSUME NEW f \in S PROVE IsFiniteSet(Before(f)) /\ Cardinality(Before(f)) \in Nat
    OBVIOUS
  <2>1. Before(f) \in SUBSET S
    OBVIOUS
  <2>. HIDE DEF Before
  <2>. QED
    BY <2>1, FS_Subset, FS_CardinalityType
<1>3. ASSUME NEW f \in S PROVE Cardinality(Before(f)) + 1 \in 1 .. n
  <2>1. PICK B : B = Before(f)
    OBVIOUS
  <2>2. B \in SUBSET (S \ {f})
    BY <2>1
  <2>3. IsFiniteSet(S \ {f}) /\ Cardinality(S \ {f}) = n - 1
    BY <1>1, FS_RemoveElement
  <2>4. Cardinality(B) <= n - 1
    <3>1. PICK T : T = S \ {f}
      OBVIOUS
    <3>2. B \in SUBSET T /\ IsFiniteSet(T) /\ Cardinality(T) = n - 1
      BY <2>2, <2>3, <3>1
    <3>3. Cardinality(B) <= Cardinality(T)
      BY <3>2, FS_Subset
    <3>. QED
      BY <3>2, <3>3
  <2>5. Cardinality(B) \in Nat
    BY <1>2, <2>1
  <2>. QED
    BY <1>1, <2>1, <2>4, <2>5
<1>4. ASSUME NEW f \in S, NEW h \in S, f < h PROVE Cardinality(Before(f)) < Cardinality(Before(h))
  <2>1. PICK B : B = Before(f)
    OBVIOUS
  <2>2. PICK C : C = Before(h)
    OBVIOUS
  <2>3. B \union {f} \in SUBSET C /\ f \notin B
    <3>1. \A g \in S : g \in Nat
      OBVIOUS
    <3>2. ~(f < f) /\ \A g \in S : g < f => g < h
      BY <1>4, <3>1
    <3>. QED
      BY <1>4, <2>1, <2>2, <3>2
  <2>4. IsFiniteSet(B) /\ IsFiniteSet(C) /\ Cardinality(B) \in Nat /\ Cardinality(C) \in Nat
    BY <1>2, <2>1, <2>2
  <2>5. Cardinality(B \union {f}) = Cardinality(B) + 1
    BY <2>3, <2>4, FS_AddElement
  <2>6. Cardinality(B \union {f}) <= Cardinality(C)
    BY <2>3, <2>4, FS_Subset
  <2>. QED
    BY <2>1, <2>2, <2>4, <2>5, <2>6
<1>. HIDE DEF Before
<1>5. rank \in [S -> 1 .. n]
  BY <1>3
<1>6. \A f, h \in S : rank[f] = rank[h] => f = h
  <2>. SUFFICES ASSUME NEW f \in S, NEW h \in S, rank[f] = rank[h], f # h PROVE FALSE
    OBVIOUS
  <2>1. f \in Nat /\ h \in Nat
    OBVIOUS
  <2>2. Cardinality(Before(f)) = Cardinality(Before(h)) /\ Cardinality(Before(f)) \in Nat /\ Cardinality(Before(h)) \in Nat
    BY <1>2
  <2>3. CASE f < h
    BY <1>4, <2>2, <2>3
  <2>4. CASE h < f
    BY <1>4, <2>2, <2>4
  <2>. QED
    BY <2>1, <2>3, <2>4
<1>7. PICK rk : rk = rank
  OBVIOUS
<1>8. rk \in Injection(S, 1 .. n)
  <2>1. rk \in [S -> 1 .. n] /\ \A f, h \in S : rk[f] = rk[h] => f = h
    BY <1>5, <1>6, <1>7
  <2>. QED
    BY <2>1 DEF Injection, IsInjective
<1>9. IsFiniteSet(1 .. n) /\ Cardinality(1 .. n) = n
  <2>1. 1 \in Int /\ n \in Int
    OBVIOUS
  <2>2. IsFiniteSet(1 .. n) /\ Cardinality(1 .. n) = (IF 1 > n THEN 0 ELSE n - 1 + 1)
    BY <2>1, FS_Interval
  <2>. QED
    BY <2>2
<1>10. rk \in Surjection(S, 1 .. n)
  BY <1>1, <1>8, <1>9, FS_Injection
<1>11. \A i \in 1 .. n : \E f \in S : Cardinality(Before(f)) = i - 1
  <2>. SUFFICES ASSUME NEW i \in 1 .. n PROVE \E f \in S : Cardinality(Before(f)) = i - 1
    OBVIOUS
  <2>1. PICK f \in S : rk[f] = i
    BY <1>10 DEF Surjection
  <2>2. Cardinality(Before(f)) + 1 = i /\ Cardinality(Before(f)) \in Nat
    BY <1>2, <1>7, <2>1
  <2>. QED
    BY <2>2
<1>12. \A i \in 1 .. n : Nth(S, i) \in S /\ Cardinality(Before(Nth(S, i))) = i - 1
  <2>. SUFFICES ASSUME NEW i \in 1 .. n PROVE Nth(S, i) \in S /\ Cardinality(Before(Nth(S, i))) = i - 1
    OBVIOUS
  <2>1. Nth(S, i) = CHOOSE f \in S : Cardinality(Before(f)) = i - 1
    BY DEF Nth, Before
  <2>. QED
    BY <1>11, <2>1
<1>13. ASSUME NEW i \in 1 .. n, NEW j \in 1 .. n, Nth(S, i) = Nth(S, j) PROVE i = j
  <2>1. i - 1 = j - 1
    BY <1>12, <1>13
  <2>. QED
    BY <2>1
<1>. QED
  BY <1>1, <1>12, <1>13

LEMMA RequestsAre ==
  ASSUME NEW s, StoreTypes(s), NEW late
  PROVE  /\ Requests(s, late) \in Seq([kind : {"C"}, request : ClipRequest])
         /\ \A i \in DOMAIN Requests(s, late) : \E f \in Unsent(s, late) : Requests(s, late)[i] = Asked(s, f)
         /\ \A i, j \in DOMAIN Requests(s, late) :
              Requests(s, late)[i].request.format = Requests(s, late)[j].request.format => i = j
<1>. PICK U : U = Unsent(s, late)
  OBVIOUS
<1>. PICK reqs : reqs = Requests(s, late)
  OBVIOUS
<1>1. U \in SUBSET Format /\ U \subseteq DOMAIN s.entries
  BY DEF Unsent, Unanswered, StoreTypes
<1>2. U \in SUBSET Nat /\ IsFiniteSet(U)
  BY <1>1, ClipboardAssumption, FS_Subset
<1>3. PICK n \in Nat : n = Cardinality(U)
  BY <1>2, FS_CardinalityType
<1>4. /\ \A i \in 1 .. n : Nth(U, i) \in U
      /\ \A i, j \in 1 .. n : Nth(U, i) = Nth(U, j) => i = j
  BY <1>2, <1>3, NthIs
<1>5. reqs = [i \in 1 .. n |-> Asked(s, Nth(U, i))]
  BY <1>3 DEF Requests
<1>6. \A f \in U : Asked(s, f) \in [kind : {"C"}, request : ClipRequest] /\ Asked(s, f).request.format = f
  <2>. SUFFICES ASSUME NEW f \in U
                PROVE  Asked(s, f) \in [kind : {"C"}, request : ClipRequest] /\ Asked(s, f).request.format = f
    OBVIOUS
  <2>1. s.entries[f].id \in Nat /\ s.revision \in Nat /\ f \in Format
    BY <1>1 DEF StoreTypes, CacheEntry
  <2>. QED
    BY <2>1 DEF Asked, ClipRequest
<1>7. DOMAIN reqs = 1 .. n /\ \A i \in 1 .. n : reqs[i] = Asked(s, Nth(U, i))
  BY <1>5
<1>8. reqs \in Seq([kind : {"C"}, request : ClipRequest])
  <2>1. \A i \in 1 .. n : Asked(s, Nth(U, i)) \in [kind : {"C"}, request : ClipRequest]
    BY <1>4, <1>6
  <2>. QED
    BY <1>5, <2>1
<1>9. \A i \in DOMAIN reqs : \E f \in U : reqs[i] = Asked(s, f)
  BY <1>4, <1>7
<1>10. ASSUME NEW i \in DOMAIN reqs, NEW j \in DOMAIN reqs, reqs[i].request.format = reqs[j].request.format
       PROVE  i = j
  <2>1. i \in 1 .. n /\ j \in 1 .. n
    BY <1>7
  <2>2. reqs[i].request.format = Nth(U, i) /\ reqs[j].request.format = Nth(U, j)
    BY <1>4, <1>6, <1>7, <2>1
  <2>. QED
    BY <1>4, <1>10, <2>1, <2>2
<1>. QED
  BY <1>8, <1>9, <1>10

-----------------------------------------------------------------------------
(* What the cache holds *)

LEMMA CacheFinite ==
  ASSUME NEW s, StoreTypes(s)
  PROVE  IsFiniteSet(Cached(s)) /\ Used(s) \in Nat
<1>. DEFINE part == [f \in DOMAIN s.entries |-> {f} \X (1 .. Len(s.entries[f].bytes))]
            parts == {{f} \X (1 .. Len(s.entries[f].bytes)) : f \in DOMAIN s.entries}
<1>1. IsFiniteSet(DOMAIN s.entries)
  <2>1. DOMAIN s.entries \in SUBSET Format
    BY DEF StoreTypes
  <2>. QED
    BY <2>1, ClipboardAssumption, FS_Subset
<1>2. part \in Surjection(DOMAIN s.entries, parts)
  <2>1. part \in [DOMAIN s.entries -> parts]
    OBVIOUS
  <2>2. \A x \in parts : \E f \in DOMAIN s.entries : part[f] = x
    OBVIOUS
  <2>. QED
    BY <2>1, <2>2 DEF Surjection
<1>3. \A f \in DOMAIN s.entries : IsFiniteSet({f} \X (1 .. Len(s.entries[f].bytes)))
  <2>. SUFFICES ASSUME NEW f \in DOMAIN s.entries PROVE IsFiniteSet({f} \X (1 .. Len(s.entries[f].bytes)))
    OBVIOUS
  <2>1. PICK n \in Nat : n = Len(s.entries[f].bytes)
    BY DEF StoreTypes, CacheEntry
  <2>2. IsFiniteSet({f})
    BY FS_Singleton
  <2>3. IsFiniteSet(1 .. n)
    <3>1. 1 \in Int /\ n \in Int
      OBVIOUS
    <3>. QED
      BY <3>1, FS_Interval
  <2>. QED
    BY <2>1, <2>2, <2>3, FS_Product
<1>4. IsFiniteSet(parts) /\ \A x \in parts : IsFiniteSet(x)
  <2>1. IsFiniteSet(parts)
    BY <1>1, <1>2, FS_Surjection
  <2>. QED
    BY <1>3, <2>1
<1>5. IsFiniteSet(UNION parts)
  <2>. HIDE DEF parts
  <2>. QED
    BY <1>4, FS_UNION
<1>6. IsFiniteSet(Cached(s))
  BY <1>5 DEF Cached
<1>. QED
  BY <1>6, FS_CardinalityType DEF Used

LEMMA LessCached ==
  ASSUME NEW s, NEW t, StoreTypes(s), StoreTypes(t), Cached(t) \subseteq Cached(s)
  PROVE  Used(t) <= Used(s) /\ Used(t) \in Nat /\ Used(s) \in Nat
<1>1. IsFiniteSet(Cached(s)) /\ Used(s) \in Nat /\ Used(t) \in Nat
  BY CacheFinite
<1>2. Cardinality(Cached(t)) <= Cardinality(Cached(s))
  BY <1>1, FS_Subset
<1>. QED
  BY <1>1, <1>2 DEF Used

LEMMA FewerCached ==
  ASSUME NEW s, NEW t, StoreTypes(s), Fewer(s, t)
  PROVE  Used(t) <= Used(s) /\ Used(t) \in Nat /\ Used(s) \in Nat
<1>1. Cached(t) \subseteq Cached(s)
  <2>. SUFFICES ASSUME NEW f \in DOMAIN t.entries, NEW x \in {f} \X (1 .. Len(t.entries[f].bytes)) PROVE x \in Cached(s)
    BY DEF Cached
  <2>1. f \in DOMAIN s.entries
    BY DEF Fewer
  <2>2. CASE t.entries[f] = s.entries[f]
    BY <2>1, <2>2 DEF Cached
  <2>3. CASE t.entries[f].bytes = <<>>
    <3>1. Len(t.entries[f].bytes) = 0
      BY <2>3
    <3>. QED
      BY <3>1
  <2>. QED
    BY <2>2, <2>3 DEF Fewer
<1>2. StoreTypes(t)
  BY DEF Fewer
<1>. QED
  BY <1>1, <1>2, LessCached

\* A piece more takes one more place.
LEMMA FilledCached ==
  ASSUME NEW s, NEW t, StoreTypes(s), StoreTypes(t), NEW f \in DOMAIN s.entries, DOMAIN t.entries = DOMAIN s.entries,
         \A g \in DOMAIN s.entries : g # f => t.entries[g] = s.entries[g],
         Len(t.entries[f].bytes) = Len(s.entries[f].bytes) + 1
  PROVE  Used(t) <= Used(s) + 1 /\ Used(t) \in Nat /\ Used(s) \in Nat
<1>1. PICK n \in Nat : n = Len(s.entries[f].bytes)
  BY DEF StoreTypes, CacheEntry
<1>2. Cached(t) \subseteq Cached(s) \union {<<f, n + 1>>}
  <2>. SUFFICES ASSUME NEW g \in DOMAIN s.entries, NEW x \in {g} \X (1 .. Len(t.entries[g].bytes))
                PROVE  x \in Cached(s) \union {<<f, n + 1>>}
    BY DEF Cached
  <2>1. CASE g # f
    BY <2>1 DEF Cached
  <2>2. CASE g = f
    <3>1. PICK i \in 1 .. n + 1 : x = <<f, i>>
      BY <1>1, <2>2
    <3>2. CASE i = n + 1
      BY <3>1, <3>2
    <3>3. CASE i # n + 1
      <4>1. i \in 1 .. n
        BY <3>3
      <4>2. x \in {f} \X (1 .. Len(s.entries[f].bytes))
        BY <1>1, <3>1, <4>1
      <4>. QED
        BY <4>2 DEF Cached
    <3>. QED
      BY <3>2, <3>3
  <2>. QED
    BY <2>1, <2>2
<1>3. /\ IsFiniteSet(Cached(s)) /\ Used(s) \in Nat /\ Used(t) \in Nat
  BY CacheFinite
<1>4. PICK more : more = Cached(s) \union {<<f, n + 1>>}
  OBVIOUS
<1>5. IsFiniteSet(more) /\ Cardinality(more) <= Used(s) + 1
  <2>1. PICK x : x = <<f, n + 1>>
    OBVIOUS
  <2>2. PICK C : C = Cached(s)
    OBVIOUS
  <2>3. IsFiniteSet(C) /\ Cardinality(C) = Used(s)
    BY <1>3, <2>2 DEF Used
  <2>4. IsFiniteSet(C \union {x}) /\ Cardinality(C \union {x}) = (IF x \in C THEN Cardinality(C) ELSE Cardinality(C) + 1)
    BY <2>3, FS_AddElement
  <2>5. more = C \union {x}
    BY <1>4, <2>1, <2>2
  <2>. QED
    BY <1>3, <2>3, <2>4, <2>5
<1>6. Cardinality(Cached(t)) <= Cardinality(more) /\ Cardinality(more) \in Nat
  BY <1>2, <1>4, <1>5, FS_Subset, FS_CardinalityType
<1>. QED
  BY <1>3, <1>5, <1>6 DEF Used

-----------------------------------------------------------------------------
(* A turn of the agent *)

LEMMA EmptyAll ==
  ASSUME NEW s, StoreTypes(s), DOMAIN s.entries = {}
  PROVE  Linked(s, <<>>, <<>>, <<>>, {}, <<>>) /\ Used(s) <= CacheLimit
<1>1. WireTypes(<<>>, <<>>, <<>>, {}, <<>>)
  BY DEF WireTypes
<1>2. InOnePlace(<<>>, <<>>, <<>>, {}, <<>>)
  BY DEF InOnePlace, AskedOnce, PutOffOnce, ReadOnce, ReplyOnce, AskedIds, PutOffIds, ReadIds, ReplyIds, SentIds
<1>3. InFlight(<<>>, <<>>, <<>>, {}, <<>>) = {}
  BY DEF InFlight
<1>4. EntriesExact(s) /\ Served(s, <<>>, <<>>, <<>>, {}, <<>>)
  BY DEF EntriesExact, Served, Unanswered
<1>5. FramesExact(<<>>) /\ RepliesExact(<<>>, {}, <<>>)
  BY DEF FramesExact, RepliesExact
<1>6. Used(s) = 0
  <2>1. Cached(s) = {}
    BY DEF Cached
  <2>. QED
    BY <2>1, FS_EmptySet DEF Used
<1>. QED
  BY <1>1, <1>2, <1>3, <1>4, <1>5, <1>6, ClipboardAssumption DEF Linked

LEMMA FewerIs ==
  ASSUME NEW s, StoreTypes(s), NEW g, g = [f \in DOMAIN g |-> g[f]], DOMAIN g \subseteq DOMAIN s.entries,
         \A f \in DOMAIN g : g[f] = s.entries[f] \/ g[f] = EntryFailed(s.entries[f]),
         NEW t, t = [s EXCEPT !.entries = g]
  PROVE  Fewer(s, t) /\ t.entries = g /\ t.formats = s.formats /\ t.closed = s.closed
<1>1. \A e \in CacheEntry : /\ EntryFailed(e) \in CacheEntry /\ EntryFailed(e).id = e.id /\ EntryFailed(e).sent = e.sent
                            /\ EntryFailed(e).result = "failed" /\ EntryFailed(e).bytes = <<>>
  <2>. SUFFICES ASSUME NEW e \in CacheEntry
                PROVE  /\ EntryFailed(e) \in CacheEntry /\ EntryFailed(e).id = e.id /\ EntryFailed(e).sent = e.sent
                       /\ EntryFailed(e).result = "failed" /\ EntryFailed(e).bytes = <<>>
    OBVIOUS
  <2>1. PICK empty \in Seq(Piece) : empty = <<>>
    BY EmptySeq
  <2>2. PICK failed \in {"none", "ok", "failed"} : failed = "failed"
    OBVIOUS
  <2>3. PICK w : w = EntryFailed(e)
    OBVIOUS
  <2>4. w = [e EXCEPT !.bytes = empty, !.result = failed]
    BY <2>1, <2>2, <2>3 DEF EntryFailed
  <2>5. w \in CacheEntry /\ w.id = e.id /\ w.sent = e.sent /\ w.bytes = empty /\ w.result = failed
    BY <2>4 DEF CacheEntry
  <2>. QED
    BY <2>1, <2>2, <2>3, <2>5
<1>2. \A f \in DOMAIN s.entries : s.entries[f] \in CacheEntry
  BY DEF StoreTypes
<1>3. DOMAIN g \subseteq s.formats /\ \A f \in DOMAIN g : g[f] \in CacheEntry
  BY <1>1, <1>2 DEF StoreTypes
<1>4. StoreTypes(t) /\ t.entries = g /\ t.revision = s.revision /\ t.formats = s.formats /\ t.next = s.next /\ t.closed = s.closed
  BY <1>3, WithEntries
<1>. QED
  BY <1>1, <1>2, <1>4 DEF Fewer

LEMMA RoomIsFewer ==
  ASSUME NEW s, StoreTypes(s)
  PROVE  Fewer(s, RoomMade(s)) /\ \A f \in Unanswered(s) : f \in Unanswered(RoomMade(s)) /\ RoomMade(s).entries[f] = s.entries[f]
<1>. PICK g : g = Dropping(s.entries, Having(s, "ok"))
  OBVIOUS
<1>1. /\ g = [f \in DOMAIN g |-> g[f]] /\ DOMAIN g = DOMAIN s.entries \ Having(s, "ok")
      /\ \A f \in DOMAIN g : g[f] = s.entries[f]
  BY DEF Dropping
<1>2. RoomMade(s) = [s EXCEPT !.entries = g]
  BY DEF RoomMade
<1>3. Fewer(s, RoomMade(s)) /\ RoomMade(s).entries = g
  BY <1>1, <1>2, FewerIs
<1>4. \A f \in Unanswered(s) : f \in DOMAIN g
  BY <1>1 DEF Unanswered, Having
<1>. QED
  BY <1>1, <1>3, <1>4 DEF Unanswered

LEMMA SameIsFewer == ASSUME NEW s, StoreTypes(s) PROVE Fewer(s, s)
BY DEF Fewer

LEMMA GathersLinked ==
  ASSUME NEW s, NEW a, NEW d, NEW b, NEW r, NEW p, Linked(s, a, d, b, r, p), a # <<>>, Head(a).kind = "D",
         Used(s) <= CacheLimit
  PROVE  Linked(Gathered(s, Head(a)), Tail(a), d, b, r, p) /\ Used(Gathered(s, Head(a))) <= CacheLimit
<1>. PICK h : h = Head(a)
  OBVIOUS
<1>. PICK t : t = Gathered(s, h)
  OBVIOUS
<1>1. h = a[1] /\ 1 \in DOMAIN a /\ h \in ToAgent /\ StoreTypes(s)
  BY TailOf DEF Linked, WireTypes
<1>2. h.request \in InFlight(a, d, b, r, p) /\ Known(s, h.request)
  BY <1>1 DEF InFlight, Linked
<1>3. PICK A : A = Awaited(s, h)
  OBVIOUS
<1>4. CASE h.request.revision # s.revision \/ A = {}
  <2>1. t = s
    BY <1>3, <1>4 DEF Gathered
  <2>2. \A f \in Unanswered(s) : h.request.id # s.entries[f].id
    <3>1. CASE h.request.revision # s.revision
      BY <1>2, <3>1 DEF Known, Unanswered
    <3>2. CASE A = {}
      BY <1>3, <3>2 DEF Awaited
    <3>. QED
      BY <1>4, <3>1, <3>2
  <2>. QED
    BY <2>1, <2>2, HeadDropped
<1>5. CASE ~(h.request.revision # s.revision \/ A = {})
  <2>1. PICK room : room = IF Used(s) + Len(h.data) > CacheLimit THEN RoomMade(s) ELSE s
    OBVIOUS
  <2>2. PICK fails \in BOOLEAN : fails = (h.status = 1 \/ Used(room) + Len(h.data) > CacheLimit)
    OBVIOUS
  <2>3. Fewer(s, room) /\ \A f \in Unanswered(s) : f \in Unanswered(room) /\ room.entries[f] = s.entries[f]
    <3>1. CASE room = s
      BY <1>1, <3>1, SameIsFewer
    <3>2. CASE room = RoomMade(s)
      BY <1>1, <3>2, RoomIsFewer
    <3>. QED
      BY <2>1, <3>1, <3>2
  <2>4. PICK f \in Unanswered(s) : s.entries[f].id = h.request.id /\ A = {f}
    <3>1. PICK f \in A : TRUE
      BY <1>5
    <3>2. f \in Unanswered(s) /\ s.entries[f].id = h.request.id
      BY <1>3, <3>1 DEF Awaited
    <3>3. \A g \in A : g = f
      BY <1>3, <3>2 DEF Awaited, Unanswered, Linked, EntriesExact
    <3>. QED
      BY <3>1, <3>2, <3>3
  <2>5. PICK entries : entries = [g \in DOMAIN room.entries |->
          IF g # f THEN room.entries[g] ELSE IF fails THEN EntryFailed(room.entries[f]) ELSE WithPiece(room.entries[f], h)]
    OBVIOUS
  <2>6. t = [room EXCEPT !.entries = entries]
    <3>1. PICK gathered : gathered = [g \in DOMAIN room.entries |->
            IF g \notin A THEN room.entries[g] ELSE IF fails THEN EntryFailed(room.entries[g]) ELSE WithPiece(room.entries[g], h)]
      OBVIOUS
    <3>2. t = [room EXCEPT !.entries = gathered]
      BY <1>3, <1>5, <2>1, <2>2, <3>1 DEF Gathered, WithPiece
    <3>3. gathered = entries
      BY <2>4, <2>5, <3>1
    <3>. QED
      BY <3>2, <3>3
  <2>7. Linked(room, a, d, b, r, p) /\ StoreTypes(room) /\ Used(room) <= CacheLimit /\ Used(room) \in Nat
    <3>1. Used(room) <= Used(s) /\ Used(room) \in Nat /\ Used(s) \in Nat
      BY <1>1, <2>3, FewerCached
    <3>. QED
      BY <2>3, <3>1, FewerLinked, ClipboardAssumption DEF Fewer
  <2>8. f \in Unanswered(room) /\ room.entries[f].id = h.request.id /\ f \in DOMAIN room.entries
    BY <2>3, <2>4 DEF Unanswered
  <2>9. /\ entries = [g \in DOMAIN entries |-> entries[g]] /\ DOMAIN entries = DOMAIN room.entries
        /\ \A g \in DOMAIN entries : g # f => entries[g] = room.entries[g]
        /\ entries[f] = IF fails THEN EntryFailed(room.entries[f]) ELSE WithPiece(room.entries[f], h)
    BY <2>5, <2>8
  <2>10. CASE fails
    <3>1. Fewer(room, t) /\ t.entries = entries
      BY <2>6, <2>7, <2>9, <2>10, FewerIs
    <3>2. Linked(t, a, d, b, r, p)
      BY <2>7, <3>1, FewerLinked
    <3>3. Used(t) <= CacheLimit
      <4>1. Used(t) <= Used(room) /\ Used(t) \in Nat
        BY <2>7, <3>1, FewerCached
      <4>. QED
        BY <2>7, <4>1, ClipboardAssumption
    <3>4. \A g \in Unanswered(t) : h.request.id # t.entries[g].id
      <4>. SUFFICES ASSUME NEW g \in Unanswered(t), h.request.id = t.entries[g].id PROVE FALSE
        OBVIOUS
      <4>1. g \in DOMAIN room.entries /\ t.entries[g] = entries[g] /\ t.entries[g].result = "none"
        BY <2>9, <3>1 DEF Unanswered
      <4>2. CASE g = f
        <5>1. room.entries[f] \in CacheEntry
          BY <2>7, <2>8 DEF StoreTypes
        <5>2. EntryFailed(room.entries[f]).result = "failed"
          BY <5>1 DEF EntryFailed, CacheEntry
        <5>. QED
          BY <2>9, <2>10, <4>1, <4>2, <5>2
      <4>3. CASE g # f
        <5>1. room.entries[g].id = room.entries[f].id
          BY <2>8, <2>9, <4>1, <4>3
        <5>. QED
          BY <2>7, <2>8, <4>1, <4>3, <5>1 DEF Linked, EntriesExact
      <4>. QED
        BY <4>2, <4>3
    <3>. QED
      BY <3>2, <3>3, <3>4, HeadDropped
  <2>11. CASE ~fails
    <3>1. Carries(h)
      <4>1. h.status \in {0, 1}
        BY <1>1 DEF ToAgent
      <4>. QED
        BY <2>2, <2>11, <4>1 DEF Carries
    <3>2. t = [room EXCEPT !.entries = [g \in DOMAIN room.entries |-> IF g = f THEN WithPiece(room.entries[f], h) ELSE room.entries[g]]]
      <4>1. entries = [g \in DOMAIN room.entries |-> IF g = f THEN WithPiece(room.entries[f], h) ELSE room.entries[g]]
        BY <2>5, <2>11
      <4>. QED
        BY <2>6, <4>1
    <3>3. Linked(t, Tail(a), d, b, r, p)
      BY <2>7, <2>8, <3>1, <3>2, FilledLinked
    <3>4. /\ WithPiece(room.entries[f], h) \in CacheEntry /\ Len(h.data) = 1
          /\ Len(WithPiece(room.entries[f], h).bytes) = Len(room.entries[f].bytes) + 1
      BY <2>7, <2>8, <3>1, PieceFits
    <3>5. StoreTypes(t) /\ t.entries = entries
      <4>1. DOMAIN entries \subseteq room.formats /\ \A g \in DOMAIN entries : entries[g] \in CacheEntry
        BY <2>7, <2>9, <2>11, <3>4 DEF StoreTypes
      <4>. QED
        <5>1. StoreTypes(room) /\ entries = [g \in DOMAIN entries |-> entries[g]]
          BY <2>7, <2>9
        <5>2. /\ StoreTypes([room EXCEPT !.entries = entries])
              /\ [room EXCEPT !.entries = entries].entries = entries
          BY <4>1, <5>1, WithEntries
        <5>. QED
          BY <2>6, <5>2
    <3>6. Used(t) <= Used(room) + 1 /\ Used(t) \in Nat
      <4>1. /\ StoreTypes(room) /\ StoreTypes(t) /\ f \in DOMAIN room.entries /\ DOMAIN t.entries = DOMAIN room.entries
            /\ \A g \in DOMAIN room.entries : g # f => t.entries[g] = room.entries[g]
        BY <2>7, <2>8, <2>9, <3>5
      <4>2. Len(t.entries[f].bytes) = Len(room.entries[f].bytes) + 1
        BY <2>9, <2>11, <3>4, <3>5
      <4>. QED
        BY <4>1, <4>2, FilledCached
    <3>7. ~(Used(room) + 1 > CacheLimit)
      BY <2>2, <2>11, <3>4
    <3>. QED
      BY <2>7, <3>3, <3>6, <3>7, ClipboardAssumption
  <2>. QED
    BY <2>10, <2>11
<1>. QED
  BY <1>4, <1>5

LEMMA OffersLinked ==
  ASSUME NEW s, NEW a, NEW d, NEW b, NEW r, NEW p, Linked(s, a, d, b, r, p), Used(s) <= CacheLimit,
         NEW offer \in [revision : Nat, formats : SUBSET Format]
  PROVE  Linked(Offered(s, offer), a, d, b, r, p) /\ Used(Offered(s, offer)) <= CacheLimit
<1>. PICK t : t = Offered(s, offer)
  OBVIOUS
<1>1. StoreTypes(s) /\ s.next \in Nat /\ s.closed \in BOOLEAN
  BY DEF Linked, StoreTypes
<1>2. PICK entries : entries = IF s.revision = offer.revision /\ s.formats = offer.formats
                               THEN s.entries ELSE Dropping(s.entries, DOMAIN s.entries)
  OBVIOUS
<1>3. t = [s EXCEPT !.entries = entries, !.revision = offer.revision, !.formats = offer.formats]
  BY <1>2 DEF Offered
<1>4. t = [revision |-> offer.revision, formats |-> offer.formats, entries |-> entries, next |-> s.next, closed |-> s.closed]
  BY <1>1, <1>3 DEF StoreTypes
<1>5. t.revision = offer.revision /\ t.formats = offer.formats /\ t.entries = entries /\ t.next = s.next /\ t.closed = s.closed
  BY <1>4
<1>6. CASE s.revision = offer.revision /\ s.formats = offer.formats
  <2>1. t = [revision |-> s.revision, formats |-> s.formats, entries |-> s.entries, next |-> s.next, closed |-> s.closed]
    BY <1>2, <1>4, <1>6
  <2>2. t = s
    BY <1>1, <2>1 DEF StoreTypes
  <2>. QED
    BY <2>2
<1>7. CASE ~(s.revision = offer.revision /\ s.formats = offer.formats)
  <2>1. entries = Dropping(s.entries, DOMAIN s.entries)
    BY <1>2, <1>7
  <2>2. DOMAIN entries = {} /\ entries = [f \in DOMAIN entries |-> entries[f]]
    BY <2>1 DEF Dropping
  <2>3. StoreTypes(t)
    BY <1>1, <1>4, <1>5, <2>2 DEF StoreTypes
  <2>4. Linked(t, a, d, b, r, p)
    BY <1>5, <2>2, <2>3, EmptyLinked
  <2>5. Used(t) <= CacheLimit
    BY <1>5, <2>2, <2>3, EmptyAll
  <2>. QED
    BY <2>4, <2>5
<1>. QED
  BY <1>6, <1>7

LEMMA PollsLinked ==
  ASSUME NEW s, NEW a, NEW d, NEW b, NEW r, NEW p, Linked(s, a, d, b, r, p), Used(s) <= CacheLimit,
         NEW gone \in SUBSET Having(s, "failed"), NEW late \in SUBSET Unanswered(s),
         NEW acks \in Seq({Ack})
  PROVE  /\ Linked(Polled(s, gone, late), a, d \o acks \o Requests(s, late), b, r, p)
         /\ Used(Polled(s, gone, late)) <= CacheLimit /\ Polled(s, gone, late).closed = s.closed
<1>. PICK t : t = Polled(s, gone, late)
  OBVIOUS
<1>. PICK U : U = Unsent(s, late)
  OBVIOUS
<1>1. StoreTypes(s)
  BY DEF Linked
<1>2. PICK some : some = [f \in DOMAIN s.entries \ gone |-> IF f \in late THEN EntryFailed(s.entries[f]) ELSE s.entries[f]]
  OBVIOUS
<1>3. PICK u : u = [s EXCEPT !.entries = some]
  OBVIOUS
<1>4. some = [f \in DOMAIN some |-> some[f]] /\ DOMAIN some = DOMAIN s.entries \ gone
  BY <1>2
<1>5. \A f \in DOMAIN some : some[f] = (IF f \in late THEN EntryFailed(s.entries[f]) ELSE s.entries[f])
  BY <1>2
<1>6. Fewer(s, u) /\ u.entries = some /\ u.formats = s.formats /\ u.closed = s.closed
  <2>1. \A f \in DOMAIN some : some[f] = s.entries[f] \/ some[f] = EntryFailed(s.entries[f])
    BY <1>5
  <2>. QED
    BY <1>1, <1>3, <1>4, <2>1, FewerIs
<1>7. Linked(u, a, d, b, r, p) /\ StoreTypes(u) /\ u.revision = s.revision /\ u.next = s.next
  BY <1>6, FewerLinked DEF Fewer
<1>8. Used(u) <= CacheLimit /\ Used(u) \in Nat
  <2>1. Used(u) <= Used(s) /\ Used(u) \in Nat /\ Used(s) \in Nat
    BY <1>1, <1>6, FewerCached
  <2>. QED
    BY <2>1, ClipboardAssumption
<1>9. \A f \in U : /\ f \in DOMAIN some /\ some[f] = s.entries[f] /\ f \notin late
                   /\ s.entries[f].result = "none" /\ ~s.entries[f].sent
  <2>. SUFFICES ASSUME NEW f \in U
                PROVE  /\ f \in DOMAIN some /\ some[f] = s.entries[f] /\ f \notin late
                       /\ s.entries[f].result = "none" /\ ~s.entries[f].sent
    OBVIOUS
  <2>1. f \in DOMAIN s.entries /\ s.entries[f].result = "none" /\ f \notin late /\ ~s.entries[f].sent
    BY DEF Unsent, Unanswered
  <2>2. f \notin gone
    BY <2>1 DEF Having
  <2>. QED
    BY <1>4, <1>5, <2>1, <2>2
<1>10. PICK entries : entries = [f \in DOMAIN some |-> IF f \in U THEN [some[f] EXCEPT !.sent = TRUE] ELSE some[f]]
  OBVIOUS
<1>11. t = [s EXCEPT !.entries = entries]
  <2>1. PICK polled : polled = [f \in DOMAIN s.entries \ gone |->
          IF f \in late THEN EntryFailed(s.entries[f]) ELSE IF f \in U THEN [s.entries[f] EXCEPT !.sent = TRUE] ELSE s.entries[f]]
    OBVIOUS
  <2>2. t = [s EXCEPT !.entries = polled]
    BY <2>1 DEF Polled
  <2>3. polled = entries
    BY <1>4, <1>5, <1>9, <1>10, <2>1
  <2>. QED
    BY <2>2, <2>3
<1>12. /\ entries = [f \in DOMAIN entries |-> entries[f]] /\ DOMAIN entries = DOMAIN some
       /\ \A f \in DOMAIN some : entries[f] = IF f \in U THEN [some[f] EXCEPT !.sent = TRUE] ELSE some[f]
  BY <1>10
<1>13. /\ StoreTypes(t) /\ t.entries = entries /\ t.revision = s.revision /\ t.formats = s.formats /\ t.next = s.next
       /\ t.closed = s.closed
  <2>1. \A f \in DOMAIN some : some[f] \in CacheEntry
    BY <1>6, <1>7 DEF StoreTypes
  <2>2. \A e \in CacheEntry : [e EXCEPT !.sent = TRUE] \in CacheEntry
    BY DEF CacheEntry
  <2>3. \A f \in DOMAIN entries : entries[f] \in CacheEntry
    BY <1>12, <2>1, <2>2
  <2>4. DOMAIN entries \subseteq s.formats
    BY <1>1, <1>4, <1>12 DEF StoreTypes
  <2>5. entries = [f \in DOMAIN entries |-> entries[f]]
    BY <1>12
  <2>. QED
    BY <1>1, <1>11, <2>3, <2>4, <2>5, WithEntries
<1>14. Marked(u, t, U)
  <2>1. \A f \in DOMAIN u.entries : t.entries[f] = IF f \in U THEN [u.entries[f] EXCEPT !.sent = TRUE] ELSE u.entries[f]
    BY <1>6, <1>12, <1>13
  <2>. QED
    BY <1>6, <1>7, <1>12, <1>13, <2>1 DEF Marked
<1>15. PICK none : none = {}
  OBVIOUS
<1>16. \A x \in {Ack} : x \in ToDesk /\ x.kind = "A"
  BY DEF Ack, ToDesk
<1>17. Linked(u, a, d \o acks, b, r, p)
  <2>1. acks \in Seq(ToDesk) /\ \A i \in DOMAIN acks : acks[i].kind = "A"
    <3>1. \A i \in 1 .. Len(acks) : acks[i] \in {Ack}
      OBVIOUS
    <3>2. acks \in [1 .. Len(acks) -> ToDesk] /\ Len(acks) \in Nat
      BY <1>16, <3>1
    <3>. QED
      BY <1>16, <3>1, <3>2
  <2>2. \A i \in DOMAIN acks : acks[i].kind # "C"
    BY <2>1
  <2>3. \A i \in DOMAIN acks : acks[i].kind = "C" => \E f \in none : acks[i] = Asked(u, f)
    BY <2>2
  <2>4. \A i, j \in DOMAIN acks : acks[i].kind = "C" /\ acks[j].kind = "C"
                                    /\ acks[i].request.format = acks[j].request.format => i = j
    BY <2>2
  <2>5. none \subseteq Unanswered(u) /\ (\A f \in none : ~u.entries[f].sent) /\ Marked(u, u, none)
    BY <1>7, <1>15 DEF Marked
  <2>6. acks \in Seq(ToDesk)
    BY <2>1
  <2>. QED
    <3>1. AsksFor(u, none, acks)
      BY <2>3, <2>4, <2>5, <2>6 DEF AsksFor
    <3>. QED
      BY <1>7, <2>5, <3>1, SentLinked
<1>18. PICK dd : dd = d \o acks
  OBVIOUS
<1>19. PICK reqs : reqs = Requests(s, late)
  OBVIOUS
<1>20. /\ reqs \in Seq([kind : {"C"}, request : ClipRequest])
       /\ \A i \in DOMAIN reqs : \E f \in U : reqs[i] = Asked(s, f)
       /\ \A i, j \in DOMAIN reqs : reqs[i].request.format = reqs[j].request.format => i = j
  BY <1>1, <1>19, RequestsAre
<1>21. reqs \in Seq(ToDesk)
  <2>1. [kind : {"C"}, request : ClipRequest] \subseteq ToDesk
    BY DEF ToDesk
  <2>2. \A i \in 1 .. Len(reqs) : reqs[i] \in [kind : {"C"}, request : ClipRequest]
    <3>1. PICK R : R = [kind : {"C"}, request : ClipRequest]
      OBVIOUS
    <3>2. reqs \in Seq(R)
      BY <1>20, <3>1
    <3>3. \A i \in 1 .. Len(reqs) : reqs[i] \in R
      BY <3>2
    <3>. QED
      BY <3>1, <3>3
  <2>3. \A i \in 1 .. Len(reqs) : reqs[i] \in ToDesk
    BY <2>1, <2>2
  <2>. QED
    BY <1>20, <2>3
<1>22. \A f \in U : Asked(s, f) = Asked(u, f)
  BY <1>6, <1>7, <1>9 DEF Asked
<1>23. Linked(t, a, dd \o reqs, b, r, p)
  <2>1. U \subseteq Unanswered(u) /\ \A f \in U : ~u.entries[f].sent
    BY <1>6, <1>9 DEF Unanswered
  <2>2. \A i \in DOMAIN reqs : reqs[i].kind = "C" => \E f \in U : reqs[i] = Asked(u, f)
    BY <1>20, <1>22
  <2>3. \A i, j \in DOMAIN reqs : reqs[i].kind = "C" /\ reqs[j].kind = "C"
                                    /\ reqs[i].request.format = reqs[j].request.format => i = j
    BY <1>20
  <2>4. Linked(u, a, dd, b, r, p)
    BY <1>17, <1>18
  <2>. QED
    <3>1. AsksFor(u, U, reqs)
      BY <1>21, <2>1, <2>2, <2>3 DEF AsksFor
    <3>. QED
      BY <1>14, <2>4, <3>1, SentLinked
<1>24. Used(t) <= CacheLimit
  <2>1. \A f \in DOMAIN some : entries[f].bytes = some[f].bytes
    <3>. SUFFICES ASSUME NEW f \in DOMAIN some PROVE entries[f].bytes = some[f].bytes
      OBVIOUS
    <3>1. PICK e \in CacheEntry : e = some[f]
      BY <1>6, <1>7 DEF StoreTypes
    <3>2. entries[f] = e \/ entries[f] = [e EXCEPT !.sent = TRUE]
      BY <1>12, <3>1
    <3>. QED
      BY <3>1, <3>2 DEF CacheEntry
  <2>2. Cached(t) \subseteq Cached(u)
    BY <1>6, <1>12, <1>13, <2>1 DEF Cached
  <2>3. Used(t) <= Used(u) /\ Used(t) \in Nat
    BY <1>7, <1>13, <2>2, LessCached
  <2>. QED
    BY <1>8, <2>3, ClipboardAssumption
<1>. QED
  BY <1>13, <1>18, <1>19, <1>23, <1>24

-----------------------------------------------------------------------------
(* The steps *)

DeskRecs == [state : {"loop", "asking", "down", "stopped"}, previous : Nat, asked : Nat,
             deferred : Seq(ClipRequest), reads : SUBSET ClipRead, replies : Seq(ClipReply)]

LEMMA SessionIs ==
  ASSUME NEW state \in {"loop", "asking", "down", "stopped"}
  PROVE  /\ DeskSession(state) \in DeskRecs /\ DeskSession(state).state = state
         /\ DeskSession(state).deferred = <<>> /\ DeskSession(state).reads = {} /\ DeskSession(state).replies = <<>>
  BY EmptySeq DEF DeskSession, DeskRecs

LEMMA NewStoreIs == StoreTypes(NewStore) /\ DOMAIN NewStore.entries = {}
<1>. PICK e : e = [f \in {} |-> 0]
  OBVIOUS
<1>1. DOMAIN e = {} /\ e = [f \in DOMAIN e |-> e[f]]
  OBVIOUS
<1>2. NewStore = [revision |-> 0, formats |-> {}, entries |-> e, next |-> 0, closed |-> FALSE]
  BY DEF NewStore
<1>. QED
  BY <1>1, <1>2 DEF StoreTypes

LEMMA ClosedIs ==
  ASSUME NEW s, StoreTypes(s)
  PROVE  StoreTypes(StoreClosed(s)) /\ DOMAIN StoreClosed(s).entries = {} /\ StoreClosed(s).closed
<1>. PICK e : e = Dropping(s.entries, DOMAIN s.entries)
  OBVIOUS
<1>1. DOMAIN e = {} /\ e = [f \in DOMAIN e |-> e[f]]
  BY DEF Dropping
<1>2. s = [revision |-> s.revision, formats |-> s.formats, entries |-> s.entries, next |-> s.next, closed |-> s.closed]
  BY DEF StoreTypes
<1>3. StoreClosed(s) = [s EXCEPT !.closed = TRUE, !.entries = e]
  BY DEF StoreClosed
<1>4. PICK t : t = StoreClosed(s)
  OBVIOUS
<1>5. t = [revision |-> s.revision, formats |-> s.formats, entries |-> e, next |-> s.next, closed |-> TRUE]
  BY <1>2, <1>3, <1>4
<1>6. s.revision \in Nat /\ s.formats \in SUBSET Format /\ s.next \in Nat
  BY DEF StoreTypes
<1>7. /\ t.revision = s.revision /\ t.formats = s.formats /\ t.entries = e /\ t.next = s.next /\ t.closed = TRUE
  BY <1>5
<1>8. StoreTypes(t)
  BY <1>1, <1>5, <1>6, <1>7 DEF StoreTypes
<1>. QED
  BY <1>1, <1>4, <1>7, <1>8

LEMMA ClipInitInv == ClipInit => ClipInv
<1>. SUFFICES ASSUME ClipInit PROVE ClipInv
  OBVIOUS
<1>1. clip \in [revision : 1 .. MaxCopies, formats : Nonempty(SUBSET Format)]
  <2>1. 1 \in 1 .. MaxCopies
    BY ClipboardAssumption
  <2>. QED
    BY <2>1 DEF ClipInit
<1>2. desk \in DeskRecs /\ desk.state = "loop" /\ desk.deferred = <<>> /\ desk.reads = {} /\ desk.replies = <<>>
  BY SessionIs DEF ClipInit
<1>3. reader \in [Reader -> [pc : {"idle", "asked", "waiting", "ok", "error"}, revision : Nat, format : Nat, data : Seq(Piece)]]
  <2>1. <<>> \in Seq(Piece)
    BY EmptySeq
  <2>. QED
    BY <2>1 DEF ClipInit
<1>4. Linked(store, toAgent, toDesk, desk.deferred, desk.reads, desk.replies) /\ Used(store) <= CacheLimit
  BY <1>2, NewStoreIs, EmptyAll DEF ClipInit
<1>5. DOMAIN store.entries = {}
  BY NewStoreIs DEF ClipInit
<1>6. ServedWhole
  BY DEF ClipInit, ServedWhole
<1>. QED
  BY <1>1, <1>2, <1>3, <1>4, <1>5, <1>6 DEF ClipInv, DeskTypes, DeskRecs, ReaderTypes, CacheBounded

\* What a step has to show that leaves the clipboard, the readers and the store.
LEMMA DeskMoves ==
  ASSUME ClipInv, UNCHANGED <<clip, store, reader>>, desk' \in DeskRecs, desk'.state \in {"loop", "asking"},
         Linked(store, toAgent', toDesk', desk'.deferred, desk'.reads, desk'.replies)
  PROVE  ClipInv'
BY DEF ClipInv, DeskTypes, DeskRecs, ReaderTypes, ServedWhole, CacheBounded, Used, Cached

LEMMA CopyInv == ASSUME ClipInv, Copy PROVE ClipInv'
<1>1. PICK fs \in Nonempty(SUBSET Format) : clip' = [revision |-> clip.revision + 1, formats |-> fs]
  BY DEF Copy
<1>2. clip.revision + 1 \in 1 .. MaxCopies
  BY ClipboardAssumption DEF ClipInv, Copy
<1>3. clip' \in [revision : 1 .. MaxCopies, formats : Nonempty(SUBSET Format)]
  BY <1>1, <1>2
<1>. QED
  BY <1>3 DEF ClipInv, Copy, DeskTypes, ReaderTypes, ServedWhole, CacheBounded, Used, Cached

LEMMA DeskEndsInv ==
  ASSUME ClipInv, NEW state \in {"down", "stopped"}, DeskEnds(state), UNCHANGED <<clip, reader>>
  PROVE  ClipInv'
<1>1. /\ desk' = DeskSession(state) /\ desk' \in DeskRecs /\ desk'.state = state
      /\ desk'.deferred = <<>> /\ desk'.reads = {} /\ desk'.replies = <<>> /\ toAgent' = <<>> /\ toDesk' = <<>>
  BY SessionIs DEF DeskEnds
<1>2. StoreTypes(store') /\ DOMAIN store'.entries = {} /\ store'.closed
  BY ClosedIs DEF DeskEnds, ClipInv, Linked
<1>3. Linked(store', <<>>, <<>>, <<>>, {}, <<>>) /\ Used(store') <= CacheLimit
  BY <1>2, EmptyAll
<1>4. Used(store)' = Used(store')
  BY DEF Used, Cached
<1>5. Linked(store', toAgent', toDesk', desk'.deferred, desk'.reads, desk'.replies)
  BY <1>1, <1>3
<1>6. DeskTypes' /\ ReaderTypes' /\ ServedWhole' /\ CacheBounded'
  BY <1>1, <1>3, <1>4 DEF ClipInv, DeskTypes, DeskRecs, ReaderTypes, ServedWhole, CacheBounded
<1>. QED
  BY <1>1, <1>2, <1>5, <1>6 DEF ClipInv

LEMMA StartOverInv == ASSUME ClipInv, StartOver PROVE ClipInv'
<1>1. /\ desk' = DeskSession("loop") /\ desk' \in DeskRecs /\ desk'.state = "loop"
      /\ desk'.deferred = <<>> /\ desk'.reads = {} /\ desk'.replies = <<>>
  BY SessionIs DEF StartOver
<1>2. toAgent' = <<>> /\ toDesk' = <<>>
  BY DEF ClipInv, StartOver
<1>3. StoreTypes(store') /\ DOMAIN store'.entries = {}
  BY NewStoreIs DEF StartOver
<1>4. Linked(store', <<>>, <<>>, <<>>, {}, <<>>) /\ Used(store') <= CacheLimit
  BY <1>3, EmptyAll
<1>5. Used(store)' = Used(store')
  BY DEF Used, Cached
<1>6. DeskTypes' /\ ReaderTypes' /\ ServedWhole' /\ CacheBounded'
  BY <1>1, <1>4, <1>5 DEF ClipInv, DeskTypes, DeskRecs, ReaderTypes, ServedWhole, CacheBounded, StartOver
<1>. QED
  BY <1>1, <1>2, <1>3, <1>4, <1>6 DEF ClipInv, StartOver

LEMMA ReadOfferInv == ASSUME ClipInv, NEW x \in Reader, ReadOffer(x) PROVE ClipInv'
<1>1. PICK f \in store.formats : reader' = [reader EXCEPT ![x] = [@ EXCEPT !.pc = "asked", !.revision = store.revision, !.format = f]]
  BY DEF ReadOffer
<1>2. f \in Nat /\ store.revision \in Nat
  BY ClipboardAssumption DEF ClipInv, Linked, StoreTypes
<1>3. PICK w : w = [reader[x] EXCEPT !.pc = "asked", !.revision = store.revision, !.format = f]
  OBVIOUS
<1>4. w \in [pc : {"idle", "asked", "waiting", "ok", "error"}, revision : Nat, format : Nat, data : Seq(Piece)] /\ w.pc = "asked"
  BY <1>2, <1>3 DEF ClipInv, ReaderTypes
<1>5. reader' = [reader EXCEPT ![x] = w]
  BY <1>1, <1>3
<1>6. ReaderTypes' /\ ServedWhole'
  BY <1>4, <1>5 DEF ClipInv, ReaderTypes, ServedWhole
<1>. QED
  BY <1>6 DEF ClipInv, ReadOffer, DeskTypes, CacheBounded, Used, Cached

LEMMA LookInv == ASSUME ClipInv, NEW x \in Reader, Look(x) PROVE ClipInv'
<1>. DEFINE f == reader[x].format
            refused == store.closed \/ store.revision # reader[x].revision \/ f \notin store.formats
            ReaderRecs == [pc : {"idle", "asked", "waiting", "ok", "error"}, revision : Nat, format : Nat, data : Seq(Piece)]
<1>1. StoreTypes(store) /\ EntriesExact(store)
  BY DEF ClipInv, Linked
<1>2. reader[x] \in ReaderRecs
  BY DEF ClipInv, ReaderTypes
<1>3. ASSUME NEW pc \in {"error", "waiting"}, Returns(x, pc, <<>>)
      PROVE  ReaderTypes' /\ ServedWhole'
  <2>1. PICK w : w = [reader[x] EXCEPT !.pc = pc, !.data = <<>>]
    OBVIOUS
  <2>2. PICK empty \in Seq(Piece) : empty = <<>>
    BY EmptySeq
  <2>3. w \in ReaderRecs /\ w.pc = pc
    BY <1>2, <2>1, <2>2
  <2>4. reader' = [reader EXCEPT ![x] = w]
    BY <1>3, <2>1 DEF Returns, ClipInv, ReaderTypes
  <2>. QED
    BY <2>3, <2>4 DEF ClipInv, ReaderTypes, ServedWhole
<1>4. ASSUME ~refused, f \in DOMAIN store.entries, store.entries[f].result = "ok",
             Returns(x, "ok", store.entries[f].bytes)
      PROVE  ReaderTypes' /\ ServedWhole'
  <2>1. PICK bytes \in Seq(Piece) : bytes = store.entries[f].bytes
    BY <1>1, <1>4 DEF StoreTypes, CacheEntry
  <2>2. bytes = CopyContent(store.revision, f)
    BY <1>1, <1>4, <2>1 DEF EntriesExact, EntryExact
  <2>3. PICK w : w = [reader[x] EXCEPT !.pc = "ok", !.data = bytes]
    OBVIOUS
  <2>4. w \in ReaderRecs /\ w.pc = "ok" /\ w.data = bytes /\ w.revision = reader[x].revision /\ w.format = f
    BY <1>2, <2>3
  <2>5. reader' = [reader EXCEPT ![x] = w]
    BY <1>4, <2>1, <2>3 DEF Returns, ClipInv, ReaderTypes
  <2>6. w.data = CopyContent(w.revision, w.format)
    BY <1>4, <2>2, <2>4
  <2>7. ReaderTypes'
    BY <2>4, <2>5 DEF ClipInv, ReaderTypes
  <2>8. ServedWhole'
    <3>. SUFFICES ASSUME NEW y \in Reader, reader'[y].pc = "ok"
                  PROVE  reader'[y].data = CopyContent(reader'[y].revision, reader'[y].format)
      BY DEF ServedWhole, CopyContent
    <3>1. CASE y = x
      <4>1. reader'[y] = w
        BY <2>5, <3>1 DEF ClipInv, ReaderTypes
      <4>. QED
        BY <2>6, <4>1
    <3>2. CASE y # x
      <4>1. reader'[y] = reader[y]
        BY <2>5, <3>2 DEF ClipInv, ReaderTypes
      <4>. QED
        BY <4>1 DEF ClipInv, ServedWhole
    <3>. QED
      BY <3>1, <3>2
  <2>. QED
    BY <2>7, <2>8
<1>5. ASSUME UNCHANGED store, ReaderTypes' /\ ServedWhole' PROVE ClipInv'
  BY <1>5 DEF Look, ClipInv, DeskTypes, CacheBounded, Used, Cached
<1>6. ASSUME ~refused, f \notin DOMAIN store.entries, ReaderTypes' /\ ServedWhole',
             store' = [store EXCEPT !.next = @ + 1, !.entries = [g \in DOMAIN @ \cup {f} |->
                          IF g = f THEN [id |-> store.next + 1, sent |-> FALSE, bytes |-> <<>>, result |-> "none"] ELSE @[g]]]
      PROVE  ClipInv'
  <2>1. /\ Linked(store', toAgent, toDesk, desk.deferred, desk.reads, desk.replies)
        /\ Cached(store') \subseteq Cached(store)
    BY <1>6, NewEntryLinked DEF ClipInv
  <2>2. StoreTypes(store')
    BY <2>1 DEF Linked
  <2>3. Used(store') <= Used(store) /\ Used(store') \in Nat /\ Used(store) \in Nat
    BY <1>1, <2>1, <2>2, LessCached
  <2>4. Used(store)' = Used(store')
    BY DEF Used, Cached
  <2>5. CacheBounded'
    BY <2>3, <2>4, ClipboardAssumption DEF ClipInv, CacheBounded
  <2>6. ~store.closed /\ ~store'.closed
    BY <1>1, <1>6 DEF StoreTypes
  <2>7. UNCHANGED <<clip, desk, toAgent, toDesk>>
    BY DEF Look
  <2>. QED
    BY <1>6, <2>1, <2>5, <2>6, <2>7 DEF ClipInv, DeskTypes
<1>7. CASE refused /\ Returns(x, "error", <<>>) /\ UNCHANGED store
  BY <1>3, <1>5, <1>7
<1>8. CASE ~refused /\ f \in DOMAIN store.entries /\ store.entries[f].result # "none" /\ UNCHANGED store
           /\ IF store.entries[f].result = "ok" THEN Returns(x, "ok", store.entries[f].bytes) ELSE Returns(x, "error", <<>>)
  BY <1>3, <1>4, <1>5, <1>8
<1>9. CASE /\ ~refused
           /\ \/ UNCHANGED store
              \/ /\ f \notin DOMAIN store.entries
                 /\ store' = [store EXCEPT !.next = @ + 1, !.entries = [g \in DOMAIN @ \cup {f} |->
                          IF g = f THEN [id |-> store.next + 1, sent |-> FALSE, bytes |-> <<>>, result |-> "none"] ELSE @[g]]]
           /\ \/ Returns(x, "waiting", <<>>)
              \/ reader[x].pc = "waiting" /\ Returns(x, "error", <<>>)
  <2>1. ReaderTypes' /\ ServedWhole'
    BY <1>3, <1>9
  <2>. QED
    BY <1>5, <1>6, <1>9, <2>1
<1>10. CASE ~refused /\ Returns(x, "error", <<>>) /\ UNCHANGED store
  BY <1>3, <1>5, <1>10
<1>. QED
  BY <1>7, <1>8, <1>9, <1>10 DEF Look

LEMMA StaysOpen ==
  ASSUME NEW s, StoreTypes(s), NEW y
  PROVE  Gathered(s, y).closed = s.closed /\ Offered(s, y).closed = s.closed
<1>1. s = [revision |-> s.revision, formats |-> s.formats, entries |-> s.entries, next |-> s.next, closed |-> s.closed]
  BY DEF StoreTypes
<1>2. \A g : [s EXCEPT !.entries = g].closed = s.closed
  BY <1>1
<1>3. Offered(s, y).closed = s.closed
  <2>1. \A g, v, w : [s EXCEPT !.entries = g, !.revision = v, !.formats = w].closed = s.closed
    BY <1>1
  <2>. QED
    BY <2>1 DEF Offered
<1>4. Gathered(s, y).closed = s.closed
  <2>1. PICK room : room = IF Used(s) + Len(y.data) > CacheLimit THEN RoomMade(s) ELSE s
    OBVIOUS
  <2>2. room.closed = s.closed /\ \A g : [room EXCEPT !.entries = g].closed = s.closed
    <3>1. CASE room = s
      BY <1>2, <3>1
    <3>2. CASE room = RoomMade(s)
      <4>1. Fewer(s, RoomMade(s)) /\ RoomMade(s).closed = s.closed
        BY <1>2, RoomIsFewer DEF RoomMade
      <4>2. room = [revision |-> room.revision, formats |-> room.formats, entries |-> room.entries, next |-> room.next,
                    closed |-> room.closed]
        BY <3>2, <4>1 DEF Fewer, StoreTypes
      <4>. QED
        BY <3>2, <4>1, <4>2
    <3>. QED
      BY <2>1, <3>1, <3>2
  <2>3. Gathered(s, y) = s \/ \E g : Gathered(s, y) = [room EXCEPT !.entries = g]
    BY <2>1 DEF Gathered
  <2>. QED
    BY <2>2, <2>3
<1>. QED
  BY <1>3, <1>4

LEMMA AgentTurnInv ==
  ASSUME ClipInv, NEW s, NEW a, NEW acks \in Seq({Ack}), AgentTurn(s, acks), toAgent' = a, ~s.closed, ~store.closed,
         Linked(s, a, toDesk, desk.deferred, desk.reads, desk.replies), Used(s) <= CacheLimit,
         UNCHANGED <<clip, desk, reader>>
  PROVE  ClipInv'
<1>1. PICK gone \in SUBSET Having(s, "failed"), late \in SUBSET Unanswered(s) :
        /\ store' = Polled(s, gone, late)
        /\ toDesk' = toDesk \o acks \o Requests(s, late)
  BY DEF AgentTurn
<1>2. /\ Linked(store', toAgent', toDesk', desk.deferred, desk.reads, desk.replies)
      /\ Used(store') <= CacheLimit /\ ~store'.closed
  <2>1. PICK d, b, r, p : d = toDesk /\ b = desk.deferred /\ r = desk.reads /\ p = desk.replies
    OBVIOUS
  <2>2. Linked(s, a, d, b, r, p)
    BY <2>1
  <2>3. /\ Linked(Polled(s, gone, late), a, d \o acks \o Requests(s, late), b, r, p)
        /\ Used(Polled(s, gone, late)) <= CacheLimit /\ Polled(s, gone, late).closed = s.closed
    BY <2>2, PollsLinked
  <2>4. /\ Linked(Polled(s, gone, late), a, toDesk \o acks \o Requests(s, late), desk.deferred, desk.reads, desk.replies)
        /\ Used(Polled(s, gone, late)) <= CacheLimit /\ Polled(s, gone, late).closed = s.closed
    BY <2>1, <2>3
  <2>. QED
    BY <1>1, <2>4
<1>3. CacheBounded'
  BY <1>2 DEF CacheBounded, Used, Cached
<1>. QED
  BY <1>2, <1>3 DEF ClipInv, DeskTypes, ReaderTypes, ServedWhole

LEMMA NoneSent == <<>> \in Seq({Ack}) /\ <<Ack>> \in Seq({Ack})
BY EmptySeq

LEMMA AgentIdlesInv == ASSUME ClipInv, AgentIdles PROVE ClipInv'
<1>1. AgentTurn(store, <<>>) /\ ~store.closed /\ toAgent' = toAgent /\ UNCHANGED <<clip, desk, reader>>
  BY DEF AgentIdles
<1>2. Linked(store, toAgent, toDesk, desk.deferred, desk.reads, desk.replies) /\ Used(store) <= CacheLimit
  BY DEF ClipInv, CacheBounded
<1>. QED
  BY <1>1, <1>2, NoneSent, AgentTurnInv

LEMMA AgentReceivesInv == ASSUME ClipInv, AgentReceives PROVE ClipInv'
<1>. PICK h : h = Head(toAgent)
  OBVIOUS
<1>1. /\ toAgent # <<>> /\ ~store.closed /\ toAgent' = Tail(toAgent) /\ UNCHANGED <<clip, desk, reader>>
      /\ AgentTurn(Handled(h), IF h.kind = "D" THEN <<>> ELSE <<Ack>>)
  BY DEF AgentReceives
<1>2. /\ Linked(store, toAgent, toDesk, desk.deferred, desk.reads, desk.replies) /\ Used(store) <= CacheLimit
      /\ StoreTypes(store)
  BY DEF ClipInv, CacheBounded, Linked
<1>3. h \in ToAgent
  BY <1>1, <1>2, TailOf DEF Linked, WireTypes
<1>4. PICK s : s = Handled(h)
  OBVIOUS
<1>5. /\ Linked(s, Tail(toAgent), toDesk, desk.deferred, desk.reads, desk.replies) /\ Used(s) <= CacheLimit
      /\ ~s.closed
  <2>1. CASE h.kind = "D"
    <3>1. s = Gathered(store, h)
      BY <1>4, <2>1 DEF Handled
    <3>. QED
      BY <1>1, <1>2, <2>1, <3>1, GathersLinked, StaysOpen
  <2>2. CASE h.kind # "D"
    <3>1. Linked(store, Tail(toAgent), toDesk, desk.deferred, desk.reads, desk.replies)
      BY <1>1, <1>2, <2>2, HeadDropped DEF Carries
    <3>2. CASE h.kind = "M"
      <4>1. s = Offered(store, h.offer) /\ h.offer \in [revision : Nat, formats : SUBSET Format]
        BY <1>3, <1>4, <3>2 DEF Handled, ToAgent
      <4>. QED
        BY <1>1, <1>2, <3>1, <4>1, OffersLinked, StaysOpen
    <3>3. CASE h.kind # "M"
      <4>1. h.kind = "H"
        BY <1>3, <2>2, <3>3 DEF ToAgent
      <4>2. s = store
        BY <1>4, <4>1 DEF Handled
      <4>. QED
        BY <1>1, <1>2, <3>1, <4>2
    <3>. QED
      BY <3>2, <3>3
  <2>. QED
    BY <2>1, <2>2
<1>6. CASE h.kind = "D"
  BY <1>1, <1>4, <1>5, <1>6, NoneSent, AgentTurnInv
<1>7. CASE h.kind # "D"
  BY <1>1, <1>4, <1>5, <1>7, NoneSent, AgentTurnInv
<1>. QED
  BY <1>6, <1>7

LEMMA RefusalIs ==
  ASSUME NEW q \in ClipRequest
  PROVE  \E y \in ToAgent : y = DFrame(q, 1, TRUE, <<>>) /\ y.status = 1 /\ y.request = q
<1>1. PICK empty \in Seq(Piece) : empty = <<>>
  BY EmptySeq
<1>2. PICK status \in {0, 1}, done \in BOOLEAN : status = 1 /\ done = TRUE
  OBVIOUS
<1>3. PICK y : y = [kind |-> "D", request |-> q, status |-> status, done |-> done, data |-> empty]
  OBVIOUS
<1>4. y \in [kind : {"D"}, request : ClipRequest, status : {0, 1}, done : BOOLEAN, data : Seq(Piece)]
  BY <1>3
<1>5. y.status = 1 /\ y.request = q
  BY <1>2, <1>3
<1>6. y = DFrame(q, 1, TRUE, <<>>)
  BY <1>1, <1>2, <1>3 DEF DFrame
<1>. QED
  BY <1>4, <1>5, <1>6 DEF ToAgent

\* A request for content is read or refused.
LEMMA SpawnLinked ==
  ASSUME NEW s, NEW a, NEW d, NEW b, NEW r, NEW p, Linked(s, a, d, b, r, p), NEW q,
         Gone(s, d, b, r, p, q), Early(s, a, q)
  PROVE  \E y \in ToAgent, x \in ClipRead :
           /\ y = DFrame(q, 1, TRUE, <<>>) /\ Linked(s, Append(a, y), d, b, r, p)
           /\ x = [request |-> q, read |-> FALSE, chunks |-> <<>>] /\ Linked(s, a, d, b, r \union {x}, p)
<1>1. q \in ClipRequest
  BY DEF Gone
<1>2. PICK y \in ToAgent : y = DFrame(q, 1, TRUE, <<>>) /\ y.status = 1 /\ y.request = q
  BY <1>1, RefusalIs
<1>3. y.status = 1 /\ y.request = q
  BY <1>2
<1>4. NextFrame(s, a, y)
  BY <1>3 DEF NextFrame, Carries
<1>5. Linked(s, Append(a, y), d, b, r, p)
  BY <1>3, <1>4, AddFrame
<1>6. PICK empty \in Seq(Piece) : empty = <<>>
  BY EmptySeq
<1>7. PICK x : x = [request |-> q, read |-> FALSE, chunks |-> empty]
  OBVIOUS
<1>8. x \in ClipRead /\ x.request = q /\ x.chunks = <<>>
  BY <1>1, <1>6, <1>7 DEF ClipRead
<1>9. Linked(s, a, d, b, r \union {x}, p)
  BY <1>8, AddRead
<1>10. x = [request |-> q, read |-> FALSE, chunks |-> <<>>]
  BY <1>6, <1>7
<1>. QED
  BY <1>2, <1>5, <1>8, <1>9, <1>10

LEMMA SpawnInv ==
  ASSUME ClipInv, NEW k \in DeskRecs, k.state = "loop", UNCHANGED <<clip, store, reader>>, NEW q,
         Linked(store, toAgent, toDesk', k.deferred, k.reads, k.replies),
         Gone(store, toDesk', k.deferred, k.reads, k.replies, q), Early(store, toAgent, q), Spawn(k, q)
  PROVE  ClipInv'
<1>0. PICK d, b, r, p : d = toDesk' /\ b = k.deferred /\ r = k.reads /\ p = k.replies
  OBVIOUS
<1>1. PICK y \in ToAgent, x \in ClipRead :
        /\ y = DFrame(q, 1, TRUE, <<>>) /\ Linked(store, Append(toAgent, y), d, b, r, p)
        /\ x = [request |-> q, read |-> FALSE, chunks |-> <<>>] /\ Linked(store, toAgent, d, b, r \union {x}, p)
  <2>1. Linked(store, toAgent, d, b, r, p) /\ Gone(store, d, b, r, p, q)
    BY <1>0
  <2>. QED
    BY <2>1, SpawnLinked, Zenon
<1>4. /\ Linked(store, Append(toAgent, y), toDesk', k.deferred, k.reads, k.replies)
      /\ Linked(store, toAgent, toDesk', k.deferred, k.reads \union {x}, k.replies)
      /\ x \in ClipRead
  BY <1>0, <1>1, Zenon
<1>2. CASE desk' = k /\ toAgent' = Append(toAgent, y)
  BY <1>2, <1>4, DeskMoves
<1>3. CASE desk' = [k EXCEPT !.reads = @ \cup {x}] /\ UNCHANGED toAgent
  <2>1. /\ desk' \in DeskRecs /\ desk'.state = "loop" /\ desk'.deferred = k.deferred
        /\ desk'.reads = k.reads \union {x} /\ desk'.replies = k.replies
    BY <1>3, <1>4 DEF DeskRecs
  <2>. QED
    BY <1>3, <1>4, <2>1, DeskMoves
<1>. QED
  <2>1. \/ desk' = k /\ toAgent' = Append(toAgent, DFrame(q, 1, TRUE, <<>>))
        \/ desk' = [k EXCEPT !.reads = @ \cup {[request |-> q, read |-> FALSE, chunks |-> <<>>]}] /\ UNCHANGED toAgent
    BY DEF Spawn
  <2>. QED
    BY <1>1, <1>2, <1>3, <2>1, Zenon

LEMMA DeskIs ==
  ASSUME ClipInv
  PROVE  /\ desk \in DeskRecs /\ StoreTypes(store)
         /\ Linked(store, toAgent, toDesk, desk.deferred, desk.reads, desk.replies)
         /\ toAgent \in Seq(ToAgent) /\ toDesk \in Seq(ToDesk) /\ desk.deferred \in Seq(ClipRequest)
         /\ desk.reads \in SUBSET ClipRead /\ desk.replies \in Seq(ClipReply)
BY DEF ClipInv, DeskTypes, DeskRecs, Linked, WireTypes

LEMMA EventInv == ASSUME ClipInv, Event PROVE ClipInv'
<1>1. CASE desk.deferred # <<>> /\ Spawn([desk EXCEPT !.deferred = Tail(@)], Head(desk.deferred)) /\ UNCHANGED toDesk
  <2>1. PICK t \in Seq(ClipRequest) : t = Tail(desk.deferred)
    BY <1>1, DeskIs, TailOf
  <2>2. PICK k : k = [desk EXCEPT !.deferred = t]
    OBVIOUS
  <2>3. k \in DeskRecs /\ k.state = "loop" /\ k.deferred = t /\ k.reads = desk.reads /\ k.replies = desk.replies
    BY <2>2, DeskIs DEF DeskRecs, Event
  <2>4. /\ Linked(store, toAgent, toDesk, t, desk.reads, desk.replies)
        /\ Gone(store, toDesk, t, desk.reads, desk.replies, Head(desk.deferred))
        /\ Early(store, toAgent, Head(desk.deferred))
    BY <1>1, <2>1, DeskIs, DropPutOff
  <2>5. Spawn(k, Head(desk.deferred)) /\ toDesk' = toDesk /\ UNCHANGED <<clip, store, reader>>
    BY <1>1, <2>1, <2>2 DEF Event
  <2>. QED
    BY <2>3, <2>4, <2>5, SpawnInv
<1>2. CASE /\ desk.deferred = <<>> /\ toDesk # <<>> /\ Head(toDesk).kind = "C"
           /\ Spawn(desk, Head(toDesk).request)
           /\ toDesk' = Tail(toDesk)
  <2>1. /\ Linked(store, toAgent, Tail(toDesk), desk.deferred, desk.reads, desk.replies)
        /\ Gone(store, Tail(toDesk), desk.deferred, desk.reads, desk.replies, Head(toDesk).request)
        /\ Early(store, toAgent, Head(toDesk).request)
    BY <1>2, DeskIs, DropAsked
  <2>2. desk.state = "loop" /\ UNCHANGED <<clip, store, reader>>
    BY DEF Event
  <2>. QED
    BY <1>2, <2>1, <2>2, DeskIs, SpawnInv
<1>. QED
  BY <1>1, <1>2 DEF Event

LEMMA ReadRequestedInv == ASSUME ClipInv, ReadRequested PROVE ClipInv'
<1>1. PICK x \in desk.reads, ok \in BOOLEAN :
        /\ ok => clip.revision = x.request.revision
        /\ desk' = [desk EXCEPT !.reads = (@ \ {x}) \cup
              {[x EXCEPT !.read = TRUE, !.chunks = IF ok THEN CopyContent(clip.revision, x.request.format) ELSE <<>>]}]
  BY DEF ReadRequested
<1>2. UNCHANGED <<clip, toAgent, toDesk, store, reader>>
  BY DEF ReadRequested
<1>3. PICK chunks : chunks = IF ok THEN CopyContent(clip.revision, x.request.format) ELSE <<>>
  OBVIOUS
<1>4. x \in ClipRead /\ x.request \in ClipRequest /\ x.request.format \in Format /\ x.request.revision \in Nat
  BY DeskIs DEF ClipRead, ClipRequest
<1>5. chunks \in Seq(Piece) /\ (chunks # <<>> => chunks = CopyContent(x.request.revision, x.request.format))
  <2>1. PICK n \in Nat : n = Chunks[x.request.format]
    BY <1>4, ClipboardAssumption
  <2>2. [i \in 1 .. n |-> <<x.request.revision, x.request.format, i>>] \in Seq(Piece)
    <3>1. \A i \in 1 .. n : <<x.request.revision, x.request.format, i>> \in Piece
      BY <1>4 DEF Piece
    <3>. QED
      BY <3>1
  <2>3. CopyContent(x.request.revision, x.request.format) \in Seq(Piece)
    BY <2>1, <2>2 DEF CopyContent
  <2>4. <<>> \in Seq(Piece)
    BY EmptySeq
  <2>. QED
    BY <1>1, <1>3, <2>3, <2>4
<1>6. PICK y : y = [x EXCEPT !.read = TRUE, !.chunks = chunks]
  OBVIOUS
<1>7. y \in ClipRead /\ y.request = x.request /\ y.read /\ y.chunks = chunks
  BY <1>4, <1>5, <1>6 DEF ClipRead
<1>8. PICK reads : reads = desk.reads \ {x}
  OBVIOUS
<1>9. /\ Linked(store, toAgent, toDesk, desk.deferred, reads, desk.replies)
      /\ Gone(store, toDesk, desk.deferred, reads, desk.replies, x.request) /\ Early(store, toAgent, x.request)
  BY <1>8, DeskIs, DropRead
<1>10. Linked(store, toAgent, toDesk, desk.deferred, reads \union {y}, desk.replies)
  BY <1>5, <1>7, <1>9, AddRead
<1>11. desk' = [desk EXCEPT !.reads = reads \union {y}]
  BY <1>1, <1>3, <1>6, <1>8
<1>12. reads \union {y} \in SUBSET ClipRead
  BY <1>7, <1>8, DeskIs
<1>13. /\ desk' \in DeskRecs /\ desk'.state = desk.state /\ desk'.deferred = desk.deferred
       /\ desk'.reads = reads \union {y} /\ desk'.replies = desk.replies
  BY <1>11, <1>12, DeskIs DEF DeskRecs
<1>14. desk.state \in {"loop", "asking"}
  <2>1. desk.state \in {"down", "stopped"} => desk.reads = {}
    BY SessionIs DEF ClipInv
  <2>. QED
    BY <2>1, DeskIs DEF DeskRecs
<1>. QED
  BY <1>2, <1>10, <1>13, <1>14, DeskMoves

LEMMA JoinedInv == ASSUME ClipInv, Joined PROVE ClipInv'
<1>1. PICK x \in desk.reads :
        x.read /\ desk' = [desk EXCEPT !.reads = @ \ {x}, !.replies = Append(@, [request |-> x.request, chunks |-> x.chunks])]
  BY DEF Joined
<1>2. desk.state = "loop" /\ UNCHANGED <<clip, toAgent, toDesk, store, reader>>
  BY DEF Joined
<1>3. x \in ClipRead /\ x.request \in ClipRequest /\ x.chunks \in Seq(Piece)
  BY DeskIs DEF ClipRead
<1>4. PICK y : y = [request |-> x.request, chunks |-> x.chunks]
  OBVIOUS
<1>5. y \in ClipReply /\ y.request = x.request /\ y.chunks = x.chunks
  BY <1>3, <1>4 DEF ClipReply
<1>6. PICK reads : reads = desk.reads \ {x}
  OBVIOUS
<1>7. /\ Linked(store, toAgent, toDesk, desk.deferred, reads, desk.replies)
      /\ Gone(store, toDesk, desk.deferred, reads, desk.replies, x.request) /\ Early(store, toAgent, x.request)
  BY <1>6, DeskIs, DropRead
<1>8. Sendable(store, toAgent, y)
  <2>1. PICK n \in Nat \ {0} : n = Chunks[x.request.format]
    BY <1>3, ClipboardAssumption DEF ClipRequest
  <2>2. ASSUME y.chunks # <<>>
        PROVE  /\ Len(y.chunks) = n /\ NextPiece(y) = 1
               /\ y.chunks = [i \in 1 .. n |-> <<y.request.revision, y.request.format, i>>]
    <3>1. x.chunks = CopyContent(x.request.revision, x.request.format)
      BY <1>5, <2>2, DeskIs DEF Linked, RepliesExact
    <3>2. y.chunks = [i \in 1 .. n |-> <<y.request.revision, y.request.format, i>>]
      BY <1>5, <2>1, <3>1 DEF CopyContent
    <3>3. Len(y.chunks) = n
      BY <3>2
    <3>4. NextPiece(y) = n - n + 1
      BY <1>5, <2>1, <3>3 DEF NextPiece
    <3>. QED
      BY <3>2, <3>3, <3>4
  <2>3. ReplyExact(y)
    <3>1. ASSUME y.chunks # <<>>
          PROVE  /\ Len(y.chunks) <= Chunks[y.request.format]
                 /\ y.chunks = [i \in 1 .. Len(y.chunks) |-> <<y.request.revision, y.request.format, NextPiece(y) - 1 + i>>]
      <4>1. \A i \in 1 .. n : NextPiece(y) - 1 + i = i
        BY <2>2, <3>1
      <4>2. n <= n
        OBVIOUS
      <4>. QED
        BY <1>5, <2>1, <2>2, <3>1, <4>1, <4>2
    <3>. QED
      BY <3>1 DEF ReplyExact
  <2>4. \A j \in DOMAIN toAgent : \A m \in Nat : ~Brings(toAgent, j, y.request.id, m)
    BY <1>5, <1>7, BroughtIds DEF Early
  <2>5. ASSUME y.chunks # <<>>, NEW f \in Unanswered(store), store.entries[f].id = y.request.id
        PROVE  Reached(store, toAgent, f, NextPiece(y), Len(toAgent))
    <3>1. store.entries[f].bytes = <<>>
      BY <1>5, <1>7, <2>5 DEF Early
    <3>2. Len(store.entries[f].bytes) = 0 /\ NextPiece(y) = 1
      BY <2>2, <2>5, <3>1
    <3>. QED
      BY <3>2 DEF Reached
  <2>. QED
    BY <2>3, <2>4, <2>5 DEF Sendable
<1>9. Linked(store, toAgent, toDesk, desk.deferred, reads, Append(desk.replies, y))
  BY <1>5, <1>7, <1>8, AddReply
<1>10. Append(desk.replies, y) \in Seq(ClipReply) /\ reads \in SUBSET ClipRead
  BY <1>5, <1>6, DeskIs, AppendOf
<1>11. desk' = [desk EXCEPT !.reads = reads, !.replies = Append(desk.replies, y)]
  BY <1>1, <1>4, <1>6
<1>12. /\ desk' \in DeskRecs /\ desk'.state = desk.state /\ desk'.deferred = desk.deferred
       /\ desk'.reads = reads /\ desk'.replies = Append(desk.replies, y)
  BY <1>10, <1>11, DeskIs DEF DeskRecs
<1>. QED
  BY <1>2, <1>9, <1>12, DeskMoves

LEMMA SendChunkInv == ASSUME ClipInv, SendChunk PROVE ClipInv'
<1>. PICK x, t : x = Head(desk.replies) /\ t = Tail(desk.replies)
  OBVIOUS
<1>. PICK chunks : chunks = IF clip.revision = x.request.revision THEN x.chunks ELSE <<>>
  OBVIOUS
<1>. PICK rest : rest = IF chunks = <<>> THEN <<>> ELSE Tail(chunks)
  OBVIOUS
<1>0. PICK y : y = DFrame(x.request, IF chunks = <<>> THEN 1 ELSE 0, rest = <<>>, IF chunks = <<>> THEN <<>> ELSE <<Head(chunks)>>)
  OBVIOUS
<1>1. /\ desk.state = "loop" /\ desk.replies # <<>> /\ toAgent' = Append(toAgent, y)
      /\ desk' = [desk EXCEPT !.replies = IF rest = <<>> THEN t ELSE Append(t, [x EXCEPT !.chunks = rest])]
      /\ UNCHANGED <<clip, toDesk, store, reader>>
  BY <1>0 DEF SendChunk
<1>. PICK s, a, d, b, r : s = store /\ a = toAgent /\ d = toDesk /\ b = desk.deferred /\ r = desk.reads
  OBVIOUS
<1>2. /\ Linked(s, a, d, b, r, t) /\ Gone(s, d, b, r, t, x.request) /\ x \in ClipReply /\ Sendable(s, a, x)
      /\ t \in Seq(ClipReply) /\ a \in Seq(ToAgent)
  BY <1>1, DeskIs, DropReply, TailOf
<1>3. PICK v, f, n : v = x.request.revision /\ f = x.request.format /\ n = NextPiece(x)
  OBVIOUS
<1>4. x.request \in ClipRequest /\ v \in Nat /\ f \in Format /\ x.chunks \in Seq(Piece)
  BY <1>2, <1>3 DEF ClipReply, ClipRequest
<1>5. PICK total \in Nat \ {0} : total = Chunks[f]
  BY <1>4, ClipboardAssumption
<1>20. ASSUME NEW u \in Seq(ClipReply), desk' = [desk EXCEPT !.replies = u]
       PROVE  desk' \in DeskRecs /\ desk'.state = "loop" /\ desk'.deferred = b /\ desk'.reads = r /\ desk'.replies = u
  <2>1. desk \in DeskRecs /\ desk.state = "loop"
    BY DeskIs DEF SendChunk
  <2>. QED
    BY <1>20, <2>1 DEF DeskRecs
<1>21. t \in Seq(ClipReply)
  BY <1>2
<1>6. CASE chunks = <<>>
  <2>1. rest = <<>>
    BY <1>6
  <2>2. y = DFrame(x.request, 1, TRUE, <<>>)
    BY <1>0, <1>6, <2>1 DEF DFrame
  <2>3. PICK z \in ToAgent : z = DFrame(x.request, 1, TRUE, <<>>) /\ z.status = 1 /\ z.request = x.request
    BY <1>4, RefusalIs
  <2>4. y \in ToAgent /\ y.status = 1 /\ y.request = x.request
    BY <2>2, <2>3
  <2>5. NextFrame(s, a, y)
    <3>1. y.status # 0
      BY <2>4
    <3>2. ~Carries(y)
      BY <3>1 DEF Carries
    <3>. QED
      BY <3>2 DEF NextFrame
  <2>6. Linked(s, Append(a, y), d, b, r, t)
    BY <1>2, <2>4, <2>5, AddFrame
  <2>7. desk' = [desk EXCEPT !.replies = t]
    BY <1>1, <2>1
  <2>8. /\ desk' \in DeskRecs /\ desk'.state = "loop" /\ desk'.deferred = b /\ desk'.reads = r /\ desk'.replies = t
    BY <1>20, <1>21, <2>7
  <2>. QED
    BY <1>1, <2>6, <2>8, DeskMoves
<1>7. CASE chunks # <<>>
  <2>1. chunks = x.chunks /\ x.chunks # <<>> /\ rest = Tail(x.chunks)
    BY <1>7
  <2>2. PICK m \in Nat : m = Len(x.chunks)
    BY <1>4
  <2>3. /\ m \in 1 .. total /\ n = total - m + 1
        /\ x.chunks = [i \in 1 .. m |-> <<v, f, n - 1 + i>>]
    <3>1. /\ Len(x.chunks) <= Chunks[x.request.format]
          /\ x.chunks = [i \in 1 .. Len(x.chunks) |-> <<x.request.revision, x.request.format, NextPiece(x) - 1 + i>>]
      BY <1>2, <2>1 DEF Sendable, ReplyExact
    <3>2. m # 0
      BY <1>4, <2>1, <2>2, EmptySeq
    <3>3. n = total - m + 1
      BY <1>3, <1>5, <2>2 DEF NextPiece
    <3>4. x.chunks = [i \in 1 .. m |-> <<v, f, n - 1 + i>>]
      BY <1>3, <2>2, <3>1
    <3>5. m <= total
      BY <1>3, <1>5, <2>2, <3>1
    <3>. QED
      BY <3>2, <3>3, <3>4, <3>5
  <2>4. n \in 1 .. total /\ n \in Nat
    BY <2>3
  <2>5. /\ rest \in Seq(Piece) /\ Len(rest) = m - 1 /\ x.chunks[1] = <<v, f, n>> /\ Head(x.chunks) = x.chunks[1]
        /\ rest = [i \in 1 .. m - 1 |-> <<v, f, n + i>>]
    <3>1. /\ Tail(x.chunks) \in Seq(Piece) /\ Len(Tail(x.chunks)) = m - 1 /\ DOMAIN Tail(x.chunks) = 1 .. m - 1
          /\ \A i \in DOMAIN Tail(x.chunks) : Tail(x.chunks)[i] = x.chunks[i + 1]
          /\ Head(x.chunks) = x.chunks[1]
      BY <1>4, <2>1, <2>2, TailOf
    <3>2. \A i \in 1 .. m : x.chunks[i] = <<v, f, n - 1 + i>>
      BY <2>3
    <3>3. n - 1 + 1 = n /\ 1 \in 1 .. m
      BY <2>3
    <3>4. ASSUME NEW i \in 1 .. m - 1 PROVE rest[i] = <<v, f, n + i>>
      <4>1. i + 1 \in 1 .. m /\ n - 1 + (i + 1) = n + i
        BY <2>3
      <4>. QED
        BY <2>1, <3>1, <3>2, <4>1
    <3>5. rest = [i \in 1 .. m - 1 |-> rest[i]]
      BY <2>1, <3>1
    <3>6. rest = [i \in 1 .. m - 1 |-> <<v, f, n + i>>]
      BY <3>4, <3>5
    <3>. QED
      BY <2>1, <3>1, <3>2, <3>3, <3>6
  <2>6. rest = <<>> <=> m = 1
    <3>1. rest = <<>> => Len(rest) = 0
      BY EmptySeq
    <3>2. rest # <<>> => Len(rest) # 0
      BY <2>5, EmptySeq
    <3>3. Len(rest) = m - 1 /\ m \in Nat
      BY <2>5
    <3>. QED
      BY <3>1, <3>2, <3>3
  <2>7. PICK status \in {0, 1}, done \in BOOLEAN, piece \in Piece, data \in Seq(Piece) :
           status = 0 /\ (done <=> m = 1) /\ piece = <<v, f, n>> /\ data = <<piece>>
    <3>1. <<v, f, n>> \in Piece
      BY <1>4, <2>4 DEF Piece
    <3>2. \A piece \in Piece : <<piece>> \in Seq(Piece)
      OBVIOUS
    <3>. QED
      BY <3>1, <3>2
  <2>8. y = [kind |-> "D", request |-> x.request, status |-> status, done |-> done, data |-> data]
    <3>1. (rest = <<>>) = done
      BY <2>6, <2>7
    <3>2. <<Head(chunks)>> = data
      BY <2>1, <2>5, <2>7
    <3>. QED
      BY <1>0, <1>7, <2>7, <3>1, <3>2 DEF DFrame
  <2>9. y \in ToAgent /\ y.kind = "D" /\ y.status = 0 /\ y.request = x.request /\ y.done = done /\ y.data = data
    <3>1. y \in [kind : {"D"}, request : ClipRequest, status : {0, 1}, done : BOOLEAN, data : Seq(Piece)]
      BY <1>4, <2>8
    <3>. QED
      BY <2>7, <2>8, <3>1 DEF ToAgent
  <2>10. PieceOf(y) = n /\ Carries(y)
    BY <2>7, <2>9 DEF PieceOf, Carries
  <2>11. FrameExact(y)
    <3>1. y.done <=> n = total
      BY <2>3, <2>7, <2>9
    <3>. QED
      BY <1>3, <1>5, <2>4, <2>7, <2>9, <2>10, <3>1 DEF FrameExact
  <2>12. NextFrame(s, a, y)
    BY <1>2, <1>3, <2>1, <2>9, <2>10, <2>11 DEF NextFrame, Sendable
  <2>13. PICK aa : aa = Append(a, y)
    OBVIOUS
  <2>14. Linked(s, aa, d, b, r, t)
    BY <1>2, <2>9, <2>12, <2>13, AddFrame
  <2>15. CASE m = 1
    <3>1. desk' = [desk EXCEPT !.replies = t]
      BY <1>1, <2>6, <2>15
    <3>2. /\ desk' \in DeskRecs /\ desk'.state = "loop" /\ desk'.deferred = b /\ desk'.reads = r /\ desk'.replies = t
      BY <1>20, <1>21, <3>1
    <3>. QED
      BY <1>1, <2>13, <2>14, <3>2, DeskMoves
  <2>16. CASE m # 1
    <3>1. PICK z : z = [x EXCEPT !.chunks = rest]
      OBVIOUS
    <3>2. z \in ClipReply /\ z.request = x.request /\ z.chunks = rest /\ rest # <<>>
      BY <1>2, <2>5, <2>6, <2>16, <3>1 DEF ClipReply
    <3>3. NextPiece(z) = n + 1 /\ Len(z.chunks) = m - 1
      <4>1. Len(z.chunks) = m - 1
        BY <2>5, <3>2
      <4>2. NextPiece(z) = total - (m - 1) + 1
        BY <1>3, <1>5, <3>2, <4>1 DEF NextPiece
      <4>. QED
        BY <2>3, <4>1, <4>2
    <3>4. ReplyExact(z)
      <4>1. m - 1 <= total
        BY <2>3
      <4>2. \A i \in 1 .. m - 1 : (n + 1) - 1 + i = n + i
        BY <2>4
      <4>3. z.chunks = [i \in 1 .. m - 1 |-> <<v, f, (n + 1) - 1 + i>>]
        BY <2>5, <3>2, <4>2
      <4>. QED
        BY <1>3, <1>5, <3>2, <3>3, <4>1, <4>3 DEF ReplyExact
    <3>5. /\ \A i, id, k : Brings(a, i, id, k) => Brings(aa, i, id, k)
          /\ \A i, id, k : Brings(aa, i, id, k) =>
                Brings(a, i, id, k) \/ (i = Len(a) + 1 /\ Carries(y) /\ y.request.id = id /\ PieceOf(y) = k)
          /\ Brings(aa, Len(a) + 1, y.request.id, n) /\ Len(aa) = Len(a) + 1 /\ Len(a) \in Nat
      <4>1. /\ Len(a) \in Nat /\ Len(aa) = Len(a) + 1 /\ DOMAIN aa = 1 .. Len(a) + 1 /\ aa[Len(a) + 1] = y
        BY <1>2, <2>9, <2>13, AppendOf
      <4>2. Brings(aa, Len(a) + 1, y.request.id, n)
        BY <2>10, <4>1 DEF Brings
      <4>. QED
        BY <1>2, <2>9, <2>13, <4>1, <4>2, FrameAdded
    <3>6. ASSUME NEW j \in DOMAIN aa, NEW k \in Nat, Brings(aa, j, z.request.id, k) PROVE k < n + 1
      <4>1. CASE Brings(a, j, x.request.id, k)
        <5>1. j \in DOMAIN a
          BY <4>1 DEF Brings
        <5>2. k < n
          BY <1>2, <1>3, <2>1, <4>1, <5>1 DEF Sendable
        <5>. QED
          BY <2>4, <5>2
      <4>2. CASE PieceOf(y) = k
        BY <2>4, <2>10, <4>2
      <4>. QED
        BY <3>2, <3>5, <3>6, <4>1, <4>2
    <3>7. ASSUME NEW g \in Unanswered(s), s.entries[g].id = z.request.id
          PROVE  Reached(s, aa, g, n + 1, Len(aa))
      <4>1. Reached(s, a, g, n, Len(a))
        BY <1>2, <1>3, <2>1, <3>2, <3>7 DEF Sendable
      <4>2. Len(s.entries[g].bytes) \in Nat
        BY <1>2 DEF Linked, StoreTypes, CacheEntry, Unanswered
      <4>3. n > Len(s.entries[g].bytes)
        BY <4>1 DEF Reached
      <4>4. n + 1 > Len(s.entries[g].bytes) /\ (n + 1) - 1 = n /\ Len(a) + 1 \in 1 .. Len(aa)
        <5>1. n + 1 > Len(s.entries[g].bytes)
          BY <2>4, <4>2, <4>3
        <5>2. (n + 1) - 1 = n
          BY <2>4
        <5>3. Len(a) + 1 \in 1 .. Len(aa)
          BY <3>5
        <5>. QED
          BY <5>1, <5>2, <5>3
      <4>5. Brings(aa, Len(a) + 1, s.entries[g].id, n)
        BY <2>9, <3>2, <3>5, <3>7
      <4>. QED
        BY <4>4, <4>5 DEF Reached
    <3>8. Sendable(s, aa, z)
      BY <3>3, <3>4, <3>6, <3>7 DEF Sendable
    <3>9. Linked(s, aa, d, b, r, Append(t, z))
      BY <1>2, <2>14, <3>2, <3>8, AddReply
    <3>10. Append(t, z) \in Seq(ClipReply)
      BY <1>2, <3>2, AppendOf
    <3>11. desk' = [desk EXCEPT !.replies = Append(t, z)]
      BY <1>1, <3>1, <3>2
    <3>12. /\ desk' \in DeskRecs /\ desk'.state = "loop" /\ desk'.deferred = b /\ desk'.reads = r
           /\ desk'.replies = Append(t, z)
      BY <1>20, <3>10, <3>11
    <3>. QED
      BY <1>1, <2>13, <3>9, <3>12, DeskMoves
  <2>. QED
    BY <2>15, <2>16
<1>. QED
  BY <1>6, <1>7

LEMMA AskAgentInv ==
  ASSUME ClipInv, NEW y \in ToAgent, y.kind # "D", NEW v \in Nat, AskAgent(y, v)
  PROVE  ClipInv'
<1>1. NextFrame(store, toAgent, y)
  BY DEF NextFrame, Carries
<1>2. Linked(store, Append(toAgent, y), toDesk, desk.deferred, desk.reads, desk.replies)
  BY <1>1, DeskIs, AddFrame
<1>3. /\ desk' \in DeskRecs /\ desk'.state = "asking" /\ desk'.deferred = desk.deferred
      /\ desk'.reads = desk.reads /\ desk'.replies = desk.replies
  BY DeskIs DEF AskAgent, DeskRecs
<1>. QED
  BY <1>2, <1>3, DeskMoves DEF AskAgent

LEMMA OfferClipInv == ASSUME ClipInv, OfferClip PROVE ClipInv'
<1>1. clip \in [revision : Nat, formats : SUBSET Format] /\ clip.revision \in Nat
  BY ClipboardAssumption DEF ClipInv, Nonempty
<1>2. PICK y : y = [kind |-> "M", offer |-> clip]
  OBVIOUS
<1>3. y \in [kind : {"M"}, offer : [revision : Nat, formats : SUBSET Format]]
  BY <1>1, <1>2
<1>4. y \in ToAgent /\ y.kind # "D"
  BY <1>2, <1>3 DEF ToAgent
<1>. QED
  BY <1>1, <1>2, <1>4, AskAgentInv DEF OfferClip

LEMMA HeartbeatInv == ASSUME ClipInv, Heartbeat PROVE ClipInv'
<1>1. PICK y : y = [kind |-> "H"]
  OBVIOUS
<1>2. y \in ToAgent /\ y.kind # "D"
  BY <1>1 DEF ToAgent
<1>3. desk.previous \in Nat
  BY DeskIs DEF DeskRecs
<1>. QED
  BY <1>1, <1>2, <1>3, AskAgentInv DEF Heartbeat

LEMMA AnsweredInv == ASSUME ClipInv, Answered PROVE ClipInv'
<1>1. Linked(store, toAgent, Tail(toDesk), desk.deferred, desk.reads, desk.replies)
  BY DeskIs, DropAsked DEF Answered
<1>2. /\ desk' \in DeskRecs /\ desk'.state = "loop" /\ desk'.deferred = desk.deferred
      /\ desk'.reads = desk.reads /\ desk'.replies = desk.replies
  BY DeskIs DEF Answered, DeskRecs
<1>. QED
  BY <1>1, <1>2, DeskMoves DEF Answered

LEMMA DeferInv == ASSUME ClipInv, Defer PROVE ClipInv'
<1>1. CASE /\ desk' = [desk EXCEPT !.deferred = Append(@, Head(toDesk).request)]
           /\ toDesk' = Tail(toDesk) /\ UNCHANGED <<toAgent, store>>
  <2>1. /\ Linked(store, toAgent, Tail(toDesk), desk.deferred, desk.reads, desk.replies)
        /\ Gone(store, Tail(toDesk), desk.deferred, desk.reads, desk.replies, Head(toDesk).request)
        /\ Early(store, toAgent, Head(toDesk).request)
    BY DeskIs, DropAsked DEF Defer
  <2>2. PICK q : q = Head(toDesk).request
    OBVIOUS
  <2>3. Linked(store, toAgent, Tail(toDesk), Append(desk.deferred, q), desk.reads, desk.replies) /\ q \in ClipRequest
    BY <2>1, <2>2, AddPutOff DEF Gone
  <2>4. Append(desk.deferred, q) \in Seq(ClipRequest)
    BY <2>3, DeskIs, AppendOf
  <2>5. /\ desk' \in DeskRecs /\ desk'.state = "asking" /\ desk'.deferred = Append(desk.deferred, q)
        /\ desk'.reads = desk.reads /\ desk'.replies = desk.replies
    BY <1>1, <2>2, <2>4, DeskIs DEF DeskRecs, Defer
  <2>. QED
    BY <1>1, <2>3, <2>5, DeskMoves DEF Defer
<1>2. CASE DeskEnds("stopped")
  BY <1>2, DeskEndsInv DEF Defer
<1>. QED
  BY <1>1, <1>2 DEF Defer

LEMMA LoseChannelInv == ASSUME ClipInv, LoseChannel PROVE ClipInv'
BY DeskEndsInv DEF LoseChannel

LEMMA ClipNextInv == ClipInv /\ [ClipNext]_clipVars => ClipInv'
<1>. SUFFICES ASSUME ClipInv, [ClipNext]_clipVars PROVE ClipInv'
  OBVIOUS
<1>1. CASE UNCHANGED clipVars
  BY <1>1 DEF clipVars, ClipInv, DeskTypes, ReaderTypes, ServedWhole, CacheBounded, Used, Cached
<1>2. CASE ClipNext
  BY <1>2, CopyInv, EventInv, ReadRequestedInv, JoinedInv, SendChunkInv, OfferClipInv, HeartbeatInv, AnsweredInv, DeferInv,
     LoseChannelInv, StartOverInv, AgentReceivesInv, AgentIdlesInv, ReadOfferInv, LookInv DEF ClipNext
<1>. QED
  BY <1>1, <1>2

\* The invariant gives the property.
LEMMA ClipInvSound == ClipInv => CacheSound
BY DEF ClipInv, CacheSound, ClipTypeOK, DeskTypes, ReaderTypes, Linked, StoreTypes

LEMMA IntegrationClipInv == ClipInv /\ [IntegrationNext]_all => ClipInv'
<1>. SUFFICES ASSUME ClipInv, [IntegrationNext]_all PROVE ClipInv'
  OBVIOUS
<1>1. [ClipNext]_clipVars
  BY DEF IntegrationNext, all
<1>. QED
  BY <1>1, ClipNextInv

\* A reader that is served has the whole of its format as it was copied at the revision it was
\* offered, from pieces that travel between heartbeats, other fetches, failures and lost channels,
\* and the agent's cache stays within its limit (demand.rs, integration/mod.rs).
THEOREM CacheIsSound == IntegrationSpec => []CacheSound
<1>1. IntegrationInit => ClipInv
  BY ClipInitInv DEF IntegrationInit
<1>. QED
  BY <1>1, ClipInvSound, IntegrationClipInv, PTL DEF IntegrationSpec
=============================================================================

--------------------------- MODULE GitWritesProofs ---------------------------
(***************************************************************************)
(* What TLAPS proves of GitJournal and of GitWrites, which extends it, for *)
(* every set of processes, operations, payloads and repositories.          *)
(*                                                                         *)
(* The agents: the inductive invariant says, for each process, which locks *)
(* it holds and what it knows of the record it works on; and, for each     *)
(* operation, how its record and its git command agree.                    *)
(*                                                                         *)
(* The desktop: its receipts agree with the agents' journals. The journal's *)
(* own invariant carries over, because the desktop only ever delivers      *)
(* requests that GitJournal expects.                                       *)
(***************************************************************************)
EXTENDS GitWrites, FiniteSetTheorems, TLAPS

-----------------------------------------------------------------------------
(* The agents' journals *)


StartPhases == {"existing", "lock", "recheck", "begin", "scan", "persist", "apply", "git"}
SavePhases  == {"saveLock", "save"}

\* The phases of a request that holds the lock of its repository.
Locked == {"recheck", "begin", "scan", "persist", "apply", "git", "getReread", "reviewReread"}
          \union SavePhases

\* The request fits the phase.
RequestFits(a) ==
  /\ pc[a] # "idle" => req[a].id \in Id
  /\ pc[a] \in StartPhases => req[a].kind = "start"
  /\ pc[a] = "load" => req[a].kind \in {"get", "review"}
  /\ pc[a] \in {"getLock", "getReread"} => req[a].kind = "get"
  /\ pc[a] \in {"reviewLock", "reviewReread"} => req[a].kind = "review"
  /\ pc[a] \in SavePhases => req[a].kind \in {"start", "get", "review"}
  /\ pc[a] # "idle" /\ req[a].kind = "start" => req[a].payload \in Payload

\* A lookup past its first load knows that there is a record.
LookupFinds(a) ==
  /\ pc[a] \in {"getLock", "getReread", "reviewLock", "reviewReread"} => Exists(req[a].id)
  /\ pc[a] \in SavePhases /\ req[a].kind # "start" => Exists(req[a].id)

HoldsLocks(a) ==
  /\ pc[a] \in Locked => repoLock[Target(a)] = a
  /\ pc[a] \in {"scan", "persist", "save"} => catalogLock = a

\* Between the second lookup and the begin no record of this payload appears:
\* whoever creates one holds the same repository lock.
StillFresh(a) ==
  /\ pc[a] \in {"begin", "scan", "persist"} => record[req[a].id].payload # req[a].payload
  /\ pc[a] = "persist" => /\ record[req[a].id] = NoRecord
                          /\ mem[a] = Fresh(req[a].payload)
                          /\ ~Blocked(RepoOf[req[a].payload])

\* A process that executes a write owns its record.
OwnsRecord(a) ==
  Executing(a) =>
    /\ record[req[a].id] = Fresh(req[a].payload)
    /\ pc[a] \in {"apply", "git"} => mem[a] = Fresh(req[a].payload)
    /\ pc[a] = "apply" => run[req[a].id].launches = 0
    /\ pc[a] \in SavePhases =>
         /\ mem[a] = [payload |-> req[a].payload, state |-> run[req[a].id].verdict, seq |-> 2]
         /\ mem[a].state \in Definite \union {"outcome_unknown"}
         /\ req[a].id \notin child

\* A lookup or a review saves the next state of the record as it is on disk.
SavesNext(a) ==
  pc[a] \in SavePhases =>
    /\ req[a].kind = "get" =>
         /\ record[req[a].id].state = "running"
         /\ mem[a] = [record[req[a].id] EXCEPT !.state = "outcome_unknown", !.seq = @ + 1]
    /\ req[a].kind = "review" =>
         /\ record[req[a].id].state = "outcome_unknown"
         /\ mem[a] = [record[req[a].id] EXCEPT !.state = "reviewed_unknown", !.seq = @ + 1]

AgentInv(a) ==
  /\ RequestFits(a)
  /\ LookupFinds(a)
  /\ HoldsLocks(a)
  /\ StillFresh(a)
  /\ OwnsRecord(a)
  /\ SavesNext(a)

\* How a record and the git command of its operation agree.
IdInv(i) ==
  /\ record[i].state = "none" => record[i] = NoRecord /\ run[i] = NoRun /\ i \notin child
  /\ record[i].state # "none" => record[i].payload \in Payload
  /\ run[i].launches \in {0, 1}
  /\ run[i].launches = 0 => i \notin child /\ ~run[i].effect
  /\ run[i].launches = 1 => run[i].payload = record[i].payload
  /\ record[i].state \in Definite => run[i].verdict = record[i].state /\ i \notin child

\* A definite answer names an operation, and its record agrees with it.
ReplyHolds(a) ==
  reply[a].code \in Definite =>
    reply[a].id \in Id /\ record[reply[a].id].state = reply[a].code

IInv ==
  /\ TypeOK
  /\ \A a \in Agent : AgentInv(a) /\ ReplyHolds(a)
  /\ \A i \in Id : IdInv(i)
  /\ OneUnresolved
-----------------------------------------------------------------------------
(* Frames *)

USE RepoOfAssumption, NullAssumption

\* A step of a leaves the others' variables and locks alone.
KeepsOthers(a) ==
  /\ \A b \in Agent \ {a} :
       /\ pc'[b] = pc[b] /\ req'[b] = req[b] /\ mem'[b] = mem[b] /\ reply'[b] = reply[b]
       /\ catalogLock = b => catalogLock' = b
       /\ \A r \in Repo : repoLock[r] = b => repoLock'[r] = b

\* Two processes in a locked phase work on two repositories: a lock has one holder.
LEMMA LockedApart ==
  ASSUME IInv, NEW a \in Agent, NEW b \in Agent, a # b, pc[a] \in Locked, pc[b] \in Locked
  PROVE  Target(a) # Target(b)
BY DEF IInv, AgentInv, HoldsLocks

\* The locked repository of a request is a repository.
LEMMA TargetType ==
  ASSUME IInv, NEW a \in Agent, pc[a] \in Locked \union {"lock", "getLock", "reviewLock"}
  PROVE  Target(a) \in Repo
<1>1. RequestFits(a) /\ LookupFinds(a) /\ TypeOK
  BY DEF IInv, AgentInv
<1>2. CASE req[a].kind = "start"
  BY <1>1, <1>2 DEF Target, RequestFits, Locked, SavePhases
<1>3. CASE req[a].kind # "start"
  <2>1. req[a].id \in Id /\ Exists(req[a].id)
    BY <1>1, <1>3 DEF RequestFits, LookupFinds, Locked, SavePhases, StartPhases
  <2>2. record[req[a].id].payload \in Payload
    BY <2>1 DEF IInv, IdInv, Exists
  <2> QED
    BY <1>3, <2>2 DEF Target
<1> QED
  BY <1>2, <1>3

\* A process without a request has nothing to be wrong about.
LEMMA IdleAgent ==
  ASSUME NEW a \in Agent, pc'[a] = "idle"
  PROVE  AgentInv(a)'
BY DEF AgentInv, RequestFits, LookupFinds, HoldsLocks, StillFresh, OwnsRecord, SavesNext,
       Executing, StartPhases, SavePhases, Locked

\* What a process knows depends on no other process's variables.
LEMMA QuietOther ==
  ASSUME IInv, NEW a \in Agent, KeepsOthers(a), UNCHANGED <<record, run, child>>,
         NEW b \in Agent \ {a}
  PROVE  AgentInv(b)' /\ ReplyHolds(b)'
<1>1. AgentInv(b) /\ ReplyHolds(b)
  BY DEF IInv
<1>2. /\ pc'[b] = pc[b] /\ req'[b] = req[b] /\ mem'[b] = mem[b] /\ reply'[b] = reply[b]
      /\ catalogLock = b => catalogLock' = b
      /\ \A r \in Repo : repoLock[r] = b => repoLock'[r] = b
  BY DEF KeepsOthers
<1>3. pc[b] \in Locked => Target(b) \in Repo
  BY TargetType
<1>4. RequestFits(b)' /\ LookupFinds(b)' /\ ReplyHolds(b)'
  BY <1>1, <1>2 DEF AgentInv, RequestFits, LookupFinds, ReplyHolds, Exists
<1>5. HoldsLocks(b)'
  BY <1>1, <1>2, <1>3 DEF AgentInv, HoldsLocks, Target
<1>6. StillFresh(b)'
  BY <1>1, <1>2 DEF AgentInv, StillFresh, Blocked
<1>7. OwnsRecord(b)'
  BY <1>1, <1>2 DEF AgentInv, OwnsRecord, Executing
<1>8. SavesNext(b)'
  BY <1>1, <1>2 DEF AgentInv, SavesNext
<1> QED
  BY <1>4, <1>5, <1>6, <1>7, <1>8 DEF AgentInv

\* A step that leaves records, commands and children alone has only its own process
\* to answer for.
LEMMA QuietStep ==
  ASSUME IInv, NEW a \in Agent, KeepsOthers(a), UNCHANGED <<record, run, child>>,
         TypeOK', AgentInv(a)', ReplyHolds(a)'
  PROVE  IInv'
<1>1. \A b \in Agent : AgentInv(b)' /\ ReplyHolds(b)'
  BY QuietOther
<1>2. OneUnresolved' /\ \A i \in Id : IdInv(i)'
  BY DEF IInv, OneUnresolved, IdInv
<1> QED
  BY <1>1, <1>2 DEF IInv

\* A request that returns releases its locks and leaves the others alone.
LEMMA ReturnFrame ==
  ASSUME IInv, NEW a \in Agent, pc[a] # "idle", NEW code \in States \union Errors \union {"none"},
         Return(a, code), record' \in [Id -> Record], UNCHANGED <<version, child, run>>
  PROVE  TypeOK' /\ AgentInv(a)' /\ KeepsOthers(a)
<1>1. TypeOK /\ req[a].id \in Id
  BY DEF IInv, AgentInv, RequestFits
<1>2. pc'[a] = "idle"
  BY <1>1 DEF Return, Forget, TypeOK
<1>3. AgentInv(a)'
  BY <1>2, IdleAgent
<1>4. TypeOK'
  <2>1. reply' \in [Agent -> Answer]
    BY <1>1 DEF Return, TypeOK, Answer
  <2>2. req' \in [Agent -> Request] /\ mem' \in [Agent -> Record] /\ pc' \in [Agent -> Phases]
    BY <1>1 DEF Return, Forget, TypeOK, Request, NoRequest, Record, NoRecord, Phases
  <2>3. repoLock' \in [Repo -> Agent \union {Nobody}] /\ catalogLock' \in Agent \union {Nobody}
    BY <1>1 DEF Return, ReleaseLocks, TypeOK
  <2> QED
    BY <1>1, <2>1, <2>2, <2>3 DEF TypeOK
<1>5. KeepsOthers(a)
  BY <1>1 DEF KeepsOthers, Return, ReleaseLocks, Forget, TypeOK
<1> QED
  BY <1>3, <1>4, <1>5

\* An answer that changes no record keeps the invariant, if it is what is on disk.
LEMMA ReturnQuiet ==
  ASSUME IInv, NEW a \in Agent, pc[a] # "idle", NEW code \in States \union Errors \union {"none"},
         Return(a, code), UNCHANGED <<record, version, child, run>>,
         code \in Definite => record[req[a].id].state = code
  PROVE  IInv'
<1>1. TypeOK /\ req[a].id \in Id
  BY DEF IInv, AgentInv, RequestFits
<1>2. TypeOK' /\ AgentInv(a)' /\ KeepsOthers(a)
  <2>1. record' \in [Id -> Record]
    BY <1>1 DEF TypeOK
  <2> QED
    BY <2>1, ReturnFrame
<1>3. ReplyHolds(a)'
  BY <1>1 DEF Return, ReplyHolds, TypeOK, Definite
<1> QED
  BY <1>2, <1>3, QuietStep

\* No step of a process touches what another one holds.
LEMMA StepFrame ==
  ASSUME IInv, NEW a \in Agent, Arrive(a) \/ Step(a) \/ Crash(a)
  PROVE  KeepsOthers(a)
<1> USE DEF KeepsOthers, IInv, TypeOK, Return, ReleaseLocks, Forget, Goto,
            TakeRepoLock, TakeCatalogLock
<1>1. CASE Arrive(a)
  BY <1>1 DEF Arrive, Receive
<1>2. CASE Crash(a)
  BY <1>2 DEF Crash
<1>3. CASE StartExisting(a) \/ StartLock(a) \/ StartRecheck(a)
  BY <1>3 DEF StartExisting, StartLock, StartRecheck
<1>4. CASE BeginLock(a) \/ BeginRefused(a) \/ BeginAdmitted(a) \/ BeginPersist(a) \/ BeginFailed(a)
  <2>1. CASE BeginAdmitted(a) \/ BeginPersist(a)
    <3>1. catalogLock = a
      BY <2>1 DEF BeginAdmitted, BeginPersist, AgentInv, HoldsLocks
    <3> QED
      BY <2>1, <3>1 DEF BeginAdmitted, BeginPersist
  <2> QED
    BY <1>4, <2>1 DEF BeginLock, BeginRefused, BeginFailed
<1>5. CASE \/ ApplyRefused(a) \/ ApplyLaunch(a)
           \/ \E s \in Definite \union {"outcome_unknown"} : GitExit(a, s)
  BY <1>5 DEF ApplyRefused, ApplyLaunch, GitExit
<1>6. CASE Load(a) \/ GetLock(a) \/ GetReread(a) \/ ReviewLock(a) \/ ReviewReread(a)
  BY <1>6 DEF Load, GetLock, GetReread, ReviewLock, ReviewReread
<1>7. CASE SaveLock(a) \/ Persist(a) \/ PersistFailed(a)
  BY <1>7 DEF SaveLock, Persist, PersistFailed
<1> QED
  BY <1>1, <1>2, <1>3, <1>4, <1>5, <1>6, <1>7 DEF Step, Progress, DiskFault
-----------------------------------------------------------------------------
(* The two steps that write a record *)

\* What begin is about to write: the first record of its operation, in a repository
\* with nothing unresolved.
LEMMA BeginFacts ==
  ASSUME IInv, NEW a \in Agent, pc[a] = "persist"
  PROVE  /\ req[a].id \in Id /\ req[a].payload \in Payload
         /\ req[a].kind = "start"
         /\ record[req[a].id] = NoRecord
         /\ mem[a] = Fresh(req[a].payload)
         /\ ~Blocked(RepoOf[req[a].payload])
         /\ Target(a) = RepoOf[req[a].payload]
BY DEF IInv, AgentInv, RequestFits, StillFresh, Target, StartPhases

\* What a save is about to write: the next state of an unresolved record.
LEMMA SaveFacts ==
  ASSUME IInv, NEW a \in Agent, pc[a] \in SavePhases
  PROVE  /\ req[a].id \in Id
         /\ record[req[a].id].state \in Unresolved
         /\ record[req[a].id].payload \in Payload
         /\ mem[a].payload = record[req[a].id].payload
         /\ mem[a].state \in Successors(record[req[a].id].state)
         /\ mem[a].seq = record[req[a].id].seq + 1
         /\ mem[a].state \in Definite =>
              mem[a].state = run[req[a].id].verdict /\ req[a].id \notin child
         /\ Target(a) = RepoOf[record[req[a].id].payload]
<1>1. TypeOK /\ RequestFits(a) /\ OwnsRecord(a) /\ SavesNext(a)
  BY DEF IInv, AgentInv
<1>2. req[a].id \in Id /\ req[a].kind \in {"start", "get", "review"}
  BY <1>1 DEF RequestFits, SavePhases
<1>3. record[req[a].id] \in Record /\ IdInv(req[a].id)
  BY <1>1, <1>2 DEF IInv, TypeOK
<1>4. CASE req[a].kind = "start"
  BY <1>1, <1>2, <1>3, <1>4 DEF OwnsRecord, Executing, SavePhases, Fresh, Unresolved, Definite,
     Successors, Target, IdInv
<1>5. CASE req[a].kind = "get"
  BY <1>1, <1>2, <1>3, <1>5 DEF SavesNext, Record, Unresolved, Definite, Successors, Target, IdInv
<1>6. CASE req[a].kind = "review"
  BY <1>1, <1>2, <1>3, <1>6 DEF SavesNext, Record, Unresolved, Definite, Successors, Target, IdInv
<1> QED
  BY <1>2, <1>4, <1>5, <1>6

\* A new record surprises no other process: whoever works on this operation with this
\* payload would hold the same repository lock.
LEMMA BegunOther ==
  ASSUME IInv, NEW a \in Agent, pc[a] = "persist", KeepsOthers(a),
         record' = [record EXCEPT ![req[a].id] = mem[a]], UNCHANGED <<run, child>>,
         NEW b \in Agent \ {a}
  PROVE  AgentInv(b)' /\ ReplyHolds(b)'
<1> DEFINE x == req[a].id
<1>1. /\ x \in Id /\ req[a].payload \in Payload /\ req[a].kind = "start"
      /\ record[x] = NoRecord /\ mem[a] = Fresh(req[a].payload)
      /\ Target(a) = RepoOf[req[a].payload]
  BY BeginFacts
<1>2. AgentInv(b) /\ ReplyHolds(b) /\ TypeOK
  BY DEF IInv
<1>3. /\ pc'[b] = pc[b] /\ req'[b] = req[b] /\ mem'[b] = mem[b] /\ reply'[b] = reply[b]
      /\ catalogLock = b => catalogLock' = b
      /\ \A r \in Repo : repoLock[r] = b => repoLock'[r] = b
  BY DEF KeepsOthers
<1>4. \A i \in Id : record'[i] = IF i = x THEN Fresh(req[a].payload) ELSE record[i]
  BY <1>1, <1>2 DEF TypeOK
<1>5. catalogLock = a /\ pc[b] \notin {"scan", "persist", "save"}
  BY <1>2 DEF IInv, AgentInv, HoldsLocks
<1>6. pc[b] \in Locked => Target(b) \in Repo /\ Target(b) # Target(a)
  BY TargetType, LockedApart DEF Locked
<1>7. pc[b] # "idle" => req[b].id \in Id
  BY <1>2 DEF AgentInv, RequestFits
<1>8. RequestFits(b)' /\ LookupFinds(b)' /\ ReplyHolds(b)'
  <2>1. RequestFits(b)'
    BY <1>2, <1>3 DEF AgentInv, RequestFits
  <2>2. LookupFinds(b)'
    BY <1>2, <1>3, <1>4, <1>7 DEF AgentInv, LookupFinds, Exists, Fresh, SavePhases
  <2>3. ReplyHolds(b)'
    BY <1>1, <1>2, <1>3, <1>4 DEF ReplyHolds, NoRecord, Definite
  <2> QED
    BY <2>1, <2>2, <2>3
<1>9. HoldsLocks(b)'
  <2>1. ASSUME pc[b] \in Locked PROVE Target(b)' = Target(b)
    <3>1. CASE req[b].kind = "start"
      BY <1>3, <3>1 DEF Target
    <3>2. CASE req[b].kind # "start"
      <4>1. Exists(req[b].id) /\ req[b].id \in Id
        BY <1>2, <1>7, <2>1, <3>2 DEF AgentInv, LookupFinds, RequestFits, Locked, StartPhases, SavePhases
      <4>2. req[b].id # x
        BY <1>1, <4>1 DEF Exists, NoRecord
      <4> QED
        BY <1>3, <1>4, <3>2, <4>1, <4>2 DEF Target
    <3> QED
      BY <3>1, <3>2
  <2> QED
    BY <1>2, <1>3, <1>6, <2>1 DEF AgentInv, HoldsLocks
<1>10. StillFresh(b)'
  <2>1. ASSUME pc[b] = "begin", req[b].id = x PROVE req[a].payload # req[b].payload
    BY <1>1, <1>2, <1>6, <2>1 DEF AgentInv, RequestFits, Target, Locked, StartPhases
  <2> QED
    BY <1>2, <1>3, <1>4, <1>5, <1>7, <2>1 DEF AgentInv, StillFresh, Fresh
<1>11. OwnsRecord(b)' /\ SavesNext(b)'
  <2>1. ASSUME Executing(b) PROVE req[b].id # x /\ req[b].id \in Id
    BY <1>1, <1>2, <1>7, <2>1 DEF AgentInv, OwnsRecord, Executing, Fresh, NoRecord
  <2>2. OwnsRecord(b)'
    BY <1>2, <1>3, <1>4, <2>1 DEF AgentInv, OwnsRecord, Executing
  <2>3. ASSUME pc[b] \in SavePhases, req[b].kind # "start"
        PROVE  req[b].id # x /\ req[b].id \in Id
    BY <1>1, <1>2, <1>7, <2>3 DEF AgentInv, LookupFinds, SavePhases, Exists, NoRecord
  <2>4. SavesNext(b)'
    BY <1>2, <1>3, <1>4, <2>3 DEF AgentInv, SavesNext
  <2> QED
    BY <2>2, <2>4
<1> QED
  BY <1>8, <1>9, <1>10, <1>11 DEF AgentInv

\* A new record is alone in its repository, and git has not run for it.
LEMMA BegunRecords ==
  ASSUME IInv, NEW a \in Agent, pc[a] = "persist",
         record' = [record EXCEPT ![req[a].id] = mem[a]], UNCHANGED <<run, child>>
  PROVE  record' \in [Id -> Record] /\ OneUnresolved' /\ \A i \in Id : IdInv(i)'
<1> DEFINE x == req[a].id
<1>1. /\ x \in Id /\ req[a].payload \in Payload /\ record[x] = NoRecord
      /\ mem[a] = Fresh(req[a].payload) /\ ~Blocked(RepoOf[req[a].payload])
  BY BeginFacts
<1>2. TypeOK /\ OneUnresolved /\ \A i \in Id : IdInv(i)
  BY DEF IInv
<1>3. \A i \in Id : record'[i] = IF i = x THEN Fresh(req[a].payload) ELSE record[i]
  BY <1>1, <1>2 DEF TypeOK
<1>4. record' \in [Id -> Record]
  BY <1>1, <1>2 DEF TypeOK, Record, Fresh, States, Unresolved
<1>5. OneUnresolved'
  BY <1>1, <1>2, <1>3 DEF OneUnresolved, Blocked, Fresh
<1>6. \A i \in Id : IdInv(i)'
  <2>1. ASSUME NEW i \in Id, i # x PROVE IdInv(i)'
    BY <1>2, <1>3, <2>1 DEF IdInv
  <2>2. ASSUME NEW i \in Id, i = x PROVE IdInv(i)'
    <3>1. run[i].launches = 0 /\ i \notin child
      BY <1>1, <1>2, <2>2 DEF IdInv, NoRecord, NoRun
    <3> QED
      BY <1>1, <1>2, <1>3, <2>2, <3>1 DEF IdInv, Fresh, Definite
  <2> QED
    BY <2>1, <2>2
<1> QED
  BY <1>4, <1>5, <1>6

\* A saved record belongs to the repository whose lock the process holds, so no other
\* process in a locked phase works on it.
LEMMA SavedOther ==
  ASSUME IInv, NEW a \in Agent, pc[a] = "save", KeepsOthers(a),
         record' = [record EXCEPT ![req[a].id] = mem[a]], UNCHANGED <<run, child>>,
         NEW b \in Agent \ {a}
  PROVE  AgentInv(b)' /\ ReplyHolds(b)'
<1> DEFINE x == req[a].id
<1>1. /\ x \in Id
      /\ record[x].state \in Unresolved
      /\ mem[a].payload = record[x].payload
      /\ mem[a].state # "none"
      /\ Target(a) = RepoOf[record[x].payload]
  BY SaveFacts DEF SavePhases, Successors, Unresolved, Definite
<1>2. AgentInv(b) /\ ReplyHolds(b) /\ TypeOK
  BY DEF IInv
<1>3. /\ pc'[b] = pc[b] /\ req'[b] = req[b] /\ mem'[b] = mem[b] /\ reply'[b] = reply[b]
      /\ catalogLock = b => catalogLock' = b
      /\ \A r \in Repo : repoLock[r] = b => repoLock'[r] = b
  BY DEF KeepsOthers
<1>4. \A i \in Id : record'[i] = IF i = x THEN mem[a] ELSE record[i]
  BY <1>1, <1>2 DEF TypeOK
<1>5. pc[b] \notin {"scan", "persist", "save"}
  BY <1>2 DEF IInv, AgentInv, HoldsLocks
<1>6. pc[b] \in Locked => Target(b) \in Repo /\ Target(b) # Target(a)
  BY TargetType, LockedApart DEF Locked, SavePhases
<1>7. pc[b] # "idle" => req[b].id \in Id
  BY <1>2 DEF AgentInv, RequestFits
<1>8. RequestFits(b)' /\ LookupFinds(b)' /\ ReplyHolds(b)'
  <2>1. RequestFits(b)'
    BY <1>2, <1>3 DEF AgentInv, RequestFits
  <2>2. LookupFinds(b)'
    BY <1>1, <1>2, <1>3, <1>4, <1>7 DEF AgentInv, LookupFinds, Exists, SavePhases
  <2>3. ReplyHolds(b)'
    BY <1>1, <1>2, <1>3, <1>4 DEF ReplyHolds, Unresolved, Definite
  <2> QED
    BY <2>1, <2>2, <2>3
<1>9. HoldsLocks(b)'
  <2>1. pc[b] \in Locked => Target(b)' = Target(b)
    BY <1>1, <1>3, <1>4, <1>7 DEF Target, Locked, SavePhases
  <2> QED
    BY <1>2, <1>3, <1>6, <2>1 DEF AgentInv, HoldsLocks
<1>10. StillFresh(b)'
  BY <1>1, <1>2, <1>3, <1>4, <1>5, <1>7 DEF AgentInv, StillFresh
<1>11. OwnsRecord(b)' /\ SavesNext(b)'
  <2>1. ASSUME Executing(b) PROVE req[b].id # x /\ req[b].id \in Id
    BY <1>1, <1>2, <1>6, <1>7, <2>1
       DEF AgentInv, OwnsRecord, Executing, Fresh, Target, Locked, SavePhases
  <2>2. OwnsRecord(b)'
    BY <1>2, <1>3, <1>4, <2>1 DEF AgentInv, OwnsRecord, Executing
  <2>3. ASSUME pc[b] \in SavePhases, req[b].kind # "start"
        PROVE  req[b].id # x /\ req[b].id \in Id
    BY <1>1, <1>6, <1>7, <2>3 DEF Target, Locked, SavePhases
  <2>4. SavesNext(b)'
    BY <1>2, <1>3, <1>4, <2>3 DEF AgentInv, SavesNext
  <2> QED
    BY <2>2, <2>4
<1> QED
  BY <1>8, <1>9, <1>10, <1>11 DEF AgentInv

\* A save keeps the payload, and a definite outcome is the one git's exit was given.
LEMMA SavedRecords ==
  ASSUME IInv, NEW a \in Agent, pc[a] = "save",
         record' = [record EXCEPT ![req[a].id] = mem[a]], UNCHANGED <<run, child>>
  PROVE  record' \in [Id -> Record] /\ OneUnresolved' /\ \A i \in Id : IdInv(i)'
<1> DEFINE x == req[a].id
<1>1. /\ x \in Id
      /\ record[x].state \in Unresolved /\ record[x].payload \in Payload
      /\ mem[a].payload = record[x].payload
      /\ mem[a].state # "none"
      /\ mem[a].state \in Definite => mem[a].state = run[x].verdict /\ x \notin child
  BY SaveFacts DEF SavePhases, Successors, Unresolved, Definite
<1>2. TypeOK /\ OneUnresolved /\ \A i \in Id : IdInv(i)
  BY DEF IInv
<1>3. \A i \in Id : record'[i] = IF i = x THEN mem[a] ELSE record[i]
  BY <1>1, <1>2 DEF TypeOK
<1>4. record' \in [Id -> Record]
  BY <1>1, <1>2 DEF TypeOK
<1>5. OneUnresolved'
  BY <1>1, <1>2, <1>3 DEF OneUnresolved
<1>6. \A i \in Id : IdInv(i)'
  BY <1>1, <1>2, <1>3 DEF IdInv, Unresolved, Definite
<1> QED
  BY <1>4, <1>5, <1>6
-----------------------------------------------------------------------------
(* Every step preserves the invariant *)

\* A step within a request that leaves records, commands and answers alone.
LEMMA AdvanceQuiet ==
  ASSUME IInv, NEW a \in Agent, KeepsOthers(a), UNCHANGED <<record, run, child, reply>>,
         TypeOK', AgentInv(a)'
  PROVE  IInv'
<1>1. ReplyHolds(a)'
  BY DEF IInv, ReplyHolds
<1> QED
  BY <1>1, QuietStep

\* The parts of a process's knowledge, at one step of it.
LEMMA AgentFacts ==
  ASSUME IInv, NEW a \in Agent
  PROVE  /\ TypeOK /\ RequestFits(a) /\ LookupFinds(a) /\ HoldsLocks(a)
         /\ StillFresh(a) /\ OwnsRecord(a) /\ SavesNext(a)
         /\ pc[a] # "idle" => req[a].id \in Id /\ record[req[a].id] \in Record /\ IdInv(req[a].id)
BY DEF IInv, AgentInv, RequestFits, TypeOK

LEMMA ArriveInv ==
  ASSUME IInv, NEW a \in Agent, Arrive(a)
  PROVE  IInv'
<1>1. KeepsOthers(a)
  BY StepFrame
<1>2. PICK q \in Request :
        /\ q.id \in Id
        /\ (q.kind = "start" /\ q.payload \in Payload) \/ q.kind \in {"get", "review"}
        /\ Receive(a, q)
  <2>1. CASE \E id \in Id, p \in Payload : \E s \in Snapshots(p) : Receive(a, StartRequest(id, p, s))
    <3>1. PICK id \in Id, p \in Payload : \E s \in Snapshots(p) : Receive(a, StartRequest(id, p, s))
      BY <2>1
    <3>2. PICK s \in Snapshots(p) : Receive(a, StartRequest(id, p, s))
      BY <3>1
    <3>3. s \in Nat
      BY <3>2 DEF Snapshots, IInv, TypeOK
    <3> QED
      BY <3>2, <3>3 DEF StartRequest, Request
  <2>2. CASE \E id \in Id, k \in {"get", "review"} : Receive(a, LookupRequest(k, id))
    BY <2>2 DEF LookupRequest, Request
  <2> QED
    BY <2>1, <2>2 DEF Arrive
<1>3. TypeOK'
  BY <1>2 DEF Receive, Goto, IInv, TypeOK, Phases, Answer, NoAnswer
<1>4. /\ pc'[a] = IF q.kind = "start" THEN "existing" ELSE "load"
      /\ req'[a] = q
      /\ reply'[a] = NoAnswer
  BY <1>2 DEF Receive, Goto, IInv, TypeOK
<1>5. AgentInv(a)' /\ ReplyHolds(a)'
  BY <1>2, <1>4 DEF AgentInv, RequestFits, LookupFinds, HoldsLocks, StillFresh, OwnsRecord,
     SavesNext, Executing, StartPhases, SavePhases, Locked, ReplyHolds, NoAnswer, Definite
<1>6. UNCHANGED <<record, run, child>>
  BY <1>2 DEF Receive
<1> QED
  BY <1>1, <1>3, <1>5, <1>6, QuietStep

LEMMA CrashInv ==
  ASSUME IInv, NEW a \in Agent, Crash(a)
  PROVE  IInv'
<1>1. KeepsOthers(a)
  BY StepFrame
<1>2. pc'[a] = "idle"
  BY DEF Crash, Forget, IInv, TypeOK
<1>3. AgentInv(a)'
  BY <1>2, IdleAgent
<1>4. TypeOK'
  BY DEF Crash, ReleaseLocks, Forget, IInv, TypeOK, Phases, Request, NoRequest, Record, NoRecord
<1>5. UNCHANGED <<record, run, child, reply>>
  BY DEF Crash
<1> QED
  BY <1>1, <1>3, <1>4, <1>5, AdvanceQuiet

LEMMA StartExistingInv ==
  ASSUME IInv, NEW a \in Agent, StartExisting(a)
  PROVE  IInv'
<1> DEFINE found == record[req[a].id]
<1>1. /\ TypeOK /\ RequestFits(a) /\ pc[a] = "existing"
      /\ req[a].id \in Id /\ record[req[a].id] \in Record
  BY AgentFacts DEF StartExisting
<1>2. KeepsOthers(a)
  BY StepFrame DEF Step, Progress
<1>3. CASE /\ found.state = "none" /\ Goto(a, "lock")
           /\ UNCHANGED <<repoLock, catalogLock, req, mem, reply, record, version, child, run>>
  <2>1. TypeOK'
    BY <1>1, <1>3 DEF Goto, TypeOK, Phases
  <2>2. pc'[a] = "lock"
    BY <1>1, <1>3 DEF Goto, TypeOK
  <2>3. AgentInv(a)'
    BY <1>1, <1>3, <2>2 DEF AgentInv, RequestFits, LookupFinds, HoldsLocks, StillFresh, OwnsRecord,
       SavesNext, Executing, StartPhases, SavePhases, Locked
  <2> QED
    BY <1>2, <1>3, <2>1, <2>3, AdvanceQuiet
<1>4. CASE /\ Return(a, "OPERATION_ID_REUSED")
           /\ UNCHANGED <<record, version, child, run>>
  BY <1>1, <1>4, ReturnQuiet DEF Errors, Definite
<1>5. CASE /\ found.state # "none" /\ Goto(a, "load")
           /\ req' = [req EXCEPT ![a].kind = "get"]
           /\ UNCHANGED <<repoLock, catalogLock, mem, reply, record, version, child, run>>
  <2>1. req[a] \in Request
    BY <1>1 DEF TypeOK
  <2>2. /\ pc'[a] = "load" /\ req'[a].kind = "get" /\ req'[a].id = req[a].id
        /\ req'[a] \in Request
    BY <1>1, <1>5, <2>1 DEF Goto, TypeOK, Request
  <2>3. TypeOK'
    BY <1>1, <1>5, <2>2 DEF Goto, TypeOK, Phases
  <2>4. AgentInv(a)'
    BY <1>1, <1>5, <2>2 DEF AgentInv, RequestFits, LookupFinds, HoldsLocks, StillFresh, OwnsRecord,
       SavesNext, Executing, StartPhases, SavePhases, Locked
  <2> QED
    BY <1>2, <1>5, <2>3, <2>4, AdvanceQuiet
<1> QED
  BY <1>3, <1>4, <1>5 DEF StartExisting

LEMMA StartLockInv ==
  ASSUME IInv, NEW a \in Agent, StartLock(a)
  PROVE  IInv'
<1>1. TypeOK /\ RequestFits(a) /\ pc[a] = "lock" /\ req[a].id \in Id
  BY AgentFacts DEF StartLock
<1>2. KeepsOthers(a)
  BY StepFrame DEF Step, Progress
<1>3. CASE /\ TakeRepoLock(a) /\ Goto(a, "recheck")
           /\ UNCHANGED <<catalogLock, req, mem, reply, record, version, child, run>>
  <2>1. Target(a) \in Repo
    BY <1>1, TargetType
  <2>2. pc'[a] = "recheck" /\ repoLock'[Target(a)] = a
    BY <1>1, <1>3, <2>1 DEF Goto, TakeRepoLock, TypeOK
  <2>3. TypeOK'
    BY <1>1, <1>3 DEF Goto, TakeRepoLock, TypeOK, Phases
  <2>4. AgentInv(a)'
    BY <1>1, <1>3, <2>2 DEF AgentInv, RequestFits, LookupFinds, HoldsLocks, StillFresh, OwnsRecord,
       SavesNext, Executing, StartPhases, SavePhases, Locked, Target
  <2> QED
    BY <1>2, <1>3, <2>3, <2>4, AdvanceQuiet
<1>4. CASE Return(a, "REPOSITORY_BUSY") /\ UNCHANGED <<record, version, child, run>>
  BY <1>1, <1>4, ReturnQuiet DEF Errors, Definite
<1> QED
  BY <1>3, <1>4 DEF StartLock

LEMMA StartRecheckInv ==
  ASSUME IInv, NEW a \in Agent, StartRecheck(a)
  PROVE  IInv'
<1> DEFINE found == record[req[a].id]
<1>1. /\ TypeOK /\ RequestFits(a) /\ HoldsLocks(a) /\ pc[a] = "recheck"
      /\ req[a].id \in Id /\ record[req[a].id] \in Record /\ IdInv(req[a].id)
  BY AgentFacts DEF StartRecheck
<1>2. KeepsOthers(a)
  BY StepFrame DEF Step, Progress
<1>3. CASE /\ \/ Return(a, found.state)
              \/ \E code \in Errors : Return(a, code)
           /\ UNCHANGED <<record, version, child, run>>
  <2>1. CASE Return(a, found.state)
    BY <1>1, <1>3, <2>1, ReturnQuiet DEF Record
  <2>2. CASE \E code \in Errors : Return(a, code)
    <3>1. PICK code \in Errors : Return(a, code)
      BY <2>2
    <3>2. code \notin Definite
      BY <3>1 DEF Errors, Rejections, Definite
    <3> QED
      BY <1>1, <1>3, <3>1, <3>2, ReturnQuiet
  <2> QED
    BY <1>3, <2>1, <2>2
<1>4. CASE /\ found.state = "none" /\ Goto(a, "begin")
           /\ UNCHANGED <<repoLock, catalogLock, req, mem, reply, record, version, child, run>>
  <2>1. pc'[a] = "begin" /\ TypeOK'
    BY <1>1, <1>4 DEF Goto, TypeOK, Phases
  <2>2. record[req[a].id].payload # req[a].payload
    BY <1>1, <1>4 DEF IdInv, NoRecord, RequestFits, StartPhases
  <2>3. AgentInv(a)'
    BY <1>1, <1>4, <2>1, <2>2 DEF AgentInv, RequestFits, LookupFinds, HoldsLocks, StillFresh,
       OwnsRecord, SavesNext, Executing, StartPhases, SavePhases, Locked, Target
  <2> QED
    BY <1>2, <1>4, <2>1, <2>3, AdvanceQuiet
<1>5. {"INVALID_REQUEST", "REPOSITORY_BUSY", "IO_ERROR", "STALE_SNAPSHOT", "OPERATION_ID_REUSED"}
      \subseteq Errors
  BY DEF Errors, Rejections
<1> QED
  BY <1>3, <1>4, <1>5 DEF StartRecheck

LEMMA BeginLockInv ==
  ASSUME IInv, NEW a \in Agent, BeginLock(a)
  PROVE  IInv'
<1>1. /\ TypeOK /\ RequestFits(a) /\ HoldsLocks(a) /\ StillFresh(a) /\ pc[a] = "begin"
  BY AgentFacts DEF BeginLock
<1>2. KeepsOthers(a)
  BY StepFrame DEF Step, Progress
<1>3. CASE /\ TakeCatalogLock(a) /\ Goto(a, "scan")
           /\ UNCHANGED <<repoLock, req, mem, reply, record, version, child, run>>
  <2>1. pc'[a] = "scan" /\ TypeOK'
    BY <1>1, <1>3 DEF Goto, TypeOK, Phases, TakeCatalogLock
  <2>2. AgentInv(a)'
    BY <1>1, <1>3, <2>1 DEF AgentInv, RequestFits, LookupFinds, HoldsLocks, StillFresh,
       OwnsRecord, SavesNext, Executing, StartPhases, SavePhases, Locked, Target, TakeCatalogLock
  <2> QED
    BY <1>2, <1>3, <2>1, <2>2, AdvanceQuiet
<1>4. CASE Return(a, "REPOSITORY_BUSY") /\ UNCHANGED <<record, version, child, run>>
  BY <1>1, <1>4, ReturnQuiet DEF Errors, Definite
<1> QED
  BY <1>3, <1>4 DEF BeginLock

LEMMA BeginRefusedInv ==
  ASSUME IInv, NEW a \in Agent, BeginRefused(a)
  PROVE  IInv'
<1>1. pc[a] # "idle" /\ UNCHANGED <<record, version, child, run>>
  BY DEF BeginRefused
<1>2. PICK code \in {"OPERATION_ID_REUSED", "RECOVERY_REQUIRED", "JOURNAL_FULL"} : Return(a, code)
  BY DEF BeginRefused
<1> QED
  BY <1>1, <1>2, ReturnQuiet DEF Errors, Definite

\* The record that begin would hand back does not exist: nobody creates one with this
\* payload while the lock of its repository is held.
LEMMA BeginAdmittedInv ==
  ASSUME IInv, NEW a \in Agent, BeginAdmitted(a)
  PROVE  IInv'
<1>1. /\ TypeOK /\ RequestFits(a) /\ HoldsLocks(a) /\ StillFresh(a) /\ pc[a] = "scan"
      /\ req[a].id \in Id /\ IdInv(req[a].id)
  BY AgentFacts DEF BeginAdmitted
<1>2. KeepsOthers(a)
  BY StepFrame DEF Step, Progress
<1>3. /\ ~Exists(req[a].id) /\ ~Blocked(RepoOf[req[a].payload])
      /\ record[req[a].id] = NoRecord
  BY <1>1 DEF BeginAdmitted, MayBegin, Exists, StillFresh, IdInv
<1>4. /\ mem' = [mem EXCEPT ![a] = Fresh(req[a].payload)] /\ Goto(a, "persist")
      /\ UNCHANGED <<record, repoLock, catalogLock, req, reply, version, child, run>>
  BY <1>3 DEF BeginAdmitted
<1>5. req[a].payload \in Payload
  BY <1>1 DEF RequestFits, StartPhases
<1>6. TypeOK' /\ pc'[a] = "persist" /\ mem'[a] = Fresh(req[a].payload)
  BY <1>1, <1>4, <1>5 DEF Goto, TypeOK, Phases, Record, Fresh, States, Unresolved
<1>7. ~Blocked(RepoOf[req[a].payload])'
  BY <1>3, <1>4 DEF Blocked
<1>8. AgentInv(a)'
  BY <1>1, <1>3, <1>4, <1>6, <1>7 DEF AgentInv, RequestFits, LookupFinds, HoldsLocks, StillFresh,
     OwnsRecord, SavesNext, Executing, StartPhases, SavePhases, Locked, Target
<1> QED
  BY <1>2, <1>4, <1>6, <1>8, AdvanceQuiet

LEMMA BeginPersistInv ==
  ASSUME IInv, NEW a \in Agent, BeginPersist(a)
  PROVE  IInv'
<1>1. /\ TypeOK /\ RequestFits(a) /\ HoldsLocks(a) /\ pc[a] = "persist"
      /\ req[a].id \in Id
  BY AgentFacts DEF BeginPersist
<1>2. KeepsOthers(a)
  BY StepFrame DEF Step, Progress
<1>3. /\ record' = [record EXCEPT ![req[a].id] = mem[a]] /\ UNCHANGED <<run, child>>
  BY DEF BeginPersist
<1>4. record' \in [Id -> Record] /\ OneUnresolved' /\ \A i \in Id : IdInv(i)'
  BY <1>1, <1>3, BegunRecords
<1>5. \A b \in Agent \ {a} : AgentInv(b)' /\ ReplyHolds(b)'
  BY <1>1, <1>2, <1>3, BegunOther
<1>6. TypeOK'
  BY <1>1, <1>4 DEF BeginPersist, Goto, TypeOK, Phases
<1>7. /\ pc'[a] = "apply" /\ req' = req /\ mem' = mem /\ reply' = reply /\ repoLock' = repoLock
      /\ run' = run
      /\ record'[req[a].id] = mem[a]
  BY <1>1 DEF BeginPersist, Goto, TypeOK
<1>8. /\ mem[a] = Fresh(req[a].payload) /\ req[a].kind = "start" /\ record[req[a].id] = NoRecord
  BY <1>1, BeginFacts
<1>9. run[req[a].id].launches = 0
  BY <1>1, <1>8, AgentFacts DEF IdInv, NoRecord, NoRun
<1>10. AgentInv(a)'
  BY <1>1, <1>7, <1>8, <1>9 DEF AgentInv, RequestFits, LookupFinds, HoldsLocks, StillFresh,
     OwnsRecord, SavesNext, Executing, StartPhases, SavePhases, Locked, Target
<1>11. ReplyHolds(a)'
  BY <1>1, <1>3, <1>7, <1>8 DEF IInv, TypeOK, ReplyHolds, NoRecord, Definite
<1> QED
  BY <1>4, <1>5, <1>6, <1>10, <1>11 DEF IInv

\* A failed begin leaves no record, or a running one that only a lookup or a review
\* will settle.
LEMMA BeginFailedInv ==
  ASSUME IInv, NEW a \in Agent, BeginFailed(a)
  PROVE  IInv'
<1>1. /\ TypeOK /\ pc[a] = "persist" /\ req[a].id \in Id /\ Return(a, "JOURNAL_UNAVAILABLE")
      /\ UNCHANGED <<version, child, run>>
  BY AgentFacts DEF BeginFailed
<1>2. "JOURNAL_UNAVAILABLE" \in Errors
  BY DEF Errors
<1>3. CASE record' = record
  BY <1>1, <1>2, <1>3, ReturnQuiet DEF Definite
<1>4. CASE record' = [record EXCEPT ![req[a].id] = mem[a]]
  <2>1. record' \in [Id -> Record] /\ OneUnresolved' /\ \A i \in Id : IdInv(i)'
    BY <1>1, <1>4, BegunRecords
  <2>2. TypeOK' /\ AgentInv(a)' /\ KeepsOthers(a)
    BY <1>1, <1>2, <2>1, ReturnFrame
  <2>3. \A b \in Agent \ {a} : AgentInv(b)' /\ ReplyHolds(b)'
    BY <1>1, <1>4, <2>2, BegunOther
  <2>4. ReplyHolds(a)'
    BY <1>1 DEF Return, TypeOK, ReplyHolds, Definite
  <2> QED
    BY <2>1, <2>2, <2>3, <2>4 DEF IInv
<1> QED
  BY <1>3, <1>4 DEF BeginFailed

\* Two processes never execute the same operation.
LEMMA ExecutingApart ==
  ASSUME IInv, NEW a \in Agent, NEW b \in Agent \ {a}, Executing(a), Executing(b)
  PROVE  req[a].id # req[b].id
<1>1. Target(a) # Target(b)
  BY LockedApart DEF Executing, Locked, SavePhases
<1>2. /\ record[req[a].id] = Fresh(req[a].payload)
      /\ record[req[b].id] = Fresh(req[b].payload)
  BY AgentFacts DEF OwnsRecord
<1> QED
  BY <1>1, <1>2 DEF Executing, Target, Fresh

\* What a process knows survives a change of another operation's command and child.
LEMMA ExecutingOther ==
  ASSUME IInv, NEW a \in Agent, KeepsOthers(a), Executing(a), record' = record,
         \A i \in Id \ {req[a].id} : run'[i] = run[i] /\ (i \in child' <=> i \in child),
         NEW b \in Agent \ {a}
  PROVE  AgentInv(b)' /\ ReplyHolds(b)'
<1>1. AgentInv(b) /\ ReplyHolds(b)
  BY DEF IInv
<1>2. /\ pc'[b] = pc[b] /\ req'[b] = req[b] /\ mem'[b] = mem[b] /\ reply'[b] = reply[b]
      /\ catalogLock = b => catalogLock' = b
      /\ \A r \in Repo : repoLock[r] = b => repoLock'[r] = b
  BY DEF KeepsOthers
<1>3. pc[b] \in Locked => Target(b) \in Repo
  BY TargetType
<1>4. RequestFits(b)' /\ LookupFinds(b)' /\ ReplyHolds(b)'
  BY <1>1, <1>2 DEF AgentInv, RequestFits, LookupFinds, ReplyHolds, Exists
<1>5. HoldsLocks(b)'
  BY <1>1, <1>2, <1>3 DEF AgentInv, HoldsLocks, Target
<1>6. StillFresh(b)'
  BY <1>1, <1>2 DEF AgentInv, StillFresh, Blocked
<1>7. OwnsRecord(b)'
  <2>1. Executing(b) => req[b].id # req[a].id /\ req[b].id \in Id
    BY <1>1, ExecutingApart DEF AgentInv, RequestFits, Executing
  <2> QED
    BY <1>1, <1>2, <2>1 DEF AgentInv, OwnsRecord, Executing
<1>8. SavesNext(b)'
  BY <1>1, <1>2 DEF AgentInv, SavesNext
<1> QED
  BY <1>4, <1>5, <1>6, <1>7, <1>8 DEF AgentInv

\* apply and git: what a process that executes a write holds.
LEMMA ExecutingFacts ==
  ASSUME IInv, NEW a \in Agent, pc[a] \in {"apply", "git"}
  PROVE  /\ TypeOK /\ RequestFits(a) /\ HoldsLocks(a) /\ Executing(a)
         /\ req[a].id \in Id /\ req[a].payload \in Payload /\ req[a].kind = "start"
         /\ req[a] \in Request
         /\ record[req[a].id] = Fresh(req[a].payload)
         /\ mem[a] = Fresh(req[a].payload)
         /\ pc[a] = "apply" => run[req[a].id].launches = 0 /\ req[a].id \notin child
         /\ run[req[a].id] \in Run
<1>1. TypeOK /\ RequestFits(a) /\ HoldsLocks(a) /\ OwnsRecord(a) /\ req[a].id \in Id
  BY AgentFacts
<1>2. Executing(a) /\ req[a].payload \in Payload
  BY <1>1 DEF RequestFits, Executing, StartPhases
<1>3. pc[a] = "apply" => req[a].id \notin child
  BY <1>1, <1>2, AgentFacts DEF OwnsRecord, IdInv
<1> QED
  BY <1>1, <1>2, <1>3 DEF OwnsRecord, TypeOK, Executing

\* Both ends of an execution give the record its verdict, with no child alive.
LEMMA VerdictInv ==
  ASSUME IInv, NEW a \in Agent, KeepsOthers(a), pc[a] \in {"apply", "git"},
         NEW s \in Definite \union {"outcome_unknown"},
         child' \subseteq child, req[a].id \notin child',
         child \subseteq child' \union {req[a].id},
         mem' = [mem EXCEPT ![a].state = s, ![a].seq = @ + 1],
         run' = [run EXCEPT ![req[a].id].verdict = s],
         Goto(a, "saveLock"),
         UNCHANGED <<record, repoLock, catalogLock, req, reply, version>>
  PROVE  IInv'
<1> DEFINE x == req[a].id
<1>1. /\ TypeOK /\ RequestFits(a) /\ HoldsLocks(a) /\ Executing(a)
      /\ x \in Id /\ req[a].payload \in Payload /\ req[a].kind = "start"
      /\ record[x] = Fresh(req[a].payload) /\ mem[a] = Fresh(req[a].payload)
      /\ run[x] \in Run
  BY ExecutingFacts
<1>2. /\ pc'[a] = "saveLock"
      /\ mem'[a] = [payload |-> req[a].payload, state |-> s, seq |-> 2]
      /\ run'[x].verdict = s
      /\ run'[x] = [run[x] EXCEPT !.verdict = s]
      /\ \A i \in Id \ {x} : run'[i] = run[i]
  BY <1>1 DEF Goto, TypeOK, Fresh
<1>3. TypeOK'
  <2>1. run' \in [Id -> Run]
    BY <1>1 DEF TypeOK, Run
  <2>2. mem' \in [Agent -> Record]
    BY <1>1 DEF TypeOK, Record, States, Fresh
  <2> QED
    BY <1>1, <2>1, <2>2 DEF TypeOK, Goto, Phases
<1>4. \A b \in Agent \ {a} : AgentInv(b)' /\ ReplyHolds(b)'
  BY <1>1, <1>2, ExecutingOther
<1>5. AgentInv(a)'
  <2>1. RequestFits(a)' /\ LookupFinds(a)' /\ HoldsLocks(a)' /\ StillFresh(a)' /\ SavesNext(a)'
    BY <1>1, <1>2 DEF RequestFits, LookupFinds, HoldsLocks, StillFresh, SavesNext, StartPhases,
       SavePhases, Locked, Target
  <2>2. OwnsRecord(a)'
    BY <1>1, <1>2 DEF OwnsRecord, Executing, SavePhases
  <2> QED
    BY <2>1, <2>2 DEF AgentInv
<1>6. ReplyHolds(a)'
  BY DEF IInv, ReplyHolds
<1>7. OneUnresolved'
  BY DEF IInv, OneUnresolved
<1>8. ASSUME NEW i \in Id PROVE IdInv(i)'
  <2>1. CASE i # x
    BY <1>2, <2>1 DEF IInv, IdInv
  <2>2. CASE i = x
    <3>1. /\ run'[i].launches = run[i].launches /\ run'[i].payload = run[i].payload
          /\ run'[i].effect = run[i].effect
      BY <1>1, <1>2, <2>2 DEF Run
    <3>2. IdInv(i) /\ record[i] = Fresh(req[a].payload) /\ i \notin child'
      BY <1>1, <2>2 DEF IInv
    <3> QED
      BY <3>1, <3>2 DEF IdInv, Fresh, Definite
  <2> QED
    BY <2>1, <2>2
<1> QED
  BY <1>3, <1>4, <1>5, <1>6, <1>7, <1>8 DEF IInv

LEMMA ApplyRefusedInv ==
  ASSUME IInv, NEW a \in Agent, ApplyRefused(a)
  PROVE  IInv'
<1>1. KeepsOthers(a)
  BY StepFrame DEF Step, Progress
<1>2. pc[a] = "apply" /\ req[a].id \notin child
  BY ExecutingFacts DEF ApplyRefused
<1> QED
  BY <1>1, <1>2, VerdictInv DEF ApplyRefused, Definite

LEMMA GitExitInv ==
  ASSUME IInv, NEW a \in Agent, NEW s \in Definite \union {"outcome_unknown"}, GitExit(a, s)
  PROVE  IInv'
<1>1. KeepsOthers(a)
  BY StepFrame DEF Step, Progress
<1> QED
  BY <1>1, VerdictInv DEF GitExit

\* The launch is the operation's first, and its payload the record's.
LEMMA ApplyLaunchInv ==
  ASSUME IInv, NEW a \in Agent, ApplyLaunch(a)
  PROVE  IInv'
<1> DEFINE x == req[a].id
<1>1. /\ TypeOK /\ RequestFits(a) /\ HoldsLocks(a) /\ Executing(a)
      /\ x \in Id /\ req[a].payload \in Payload /\ req[a].kind = "start"
      /\ req[a] \in Request
      /\ record[x] = Fresh(req[a].payload) /\ mem[a] = Fresh(req[a].payload)
      /\ run[x] \in Run /\ run[x].launches = 0
  BY ExecutingFacts DEF ApplyLaunch
<1>2. KeepsOthers(a)
  BY StepFrame DEF Step, Progress
<1>3. /\ pc'[a] = "git"
      /\ run'[x].launches = 1 /\ run'[x].payload = req[a].payload
      /\ run'[x].effect = run[x].effect
      /\ run' \in [Id -> Run]
      /\ \A i \in Id \ {x} : run'[i] = run[i] /\ (i \in child' <=> i \in child)
  <2>1. run' = [run EXCEPT ![x] = [launches |-> 1, payload |-> req[a].payload, base |-> req[a].snap,
                                   effect |-> run[x].effect, verdict |-> run[x].verdict]]
    BY <1>1 DEF ApplyLaunch
  <2>2. pc'[a] = "git" /\ child' = child \union {x}
    BY <1>1 DEF ApplyLaunch, Goto, TypeOK
  <2>3. req[a].snap \in Nat
    BY <1>1 DEF Request
  <2> QED
    BY <1>1, <2>1, <2>2, <2>3 DEF TypeOK, Run
<1>4. UNCHANGED <<record, repoLock, catalogLock, req, mem, reply, version>>
  BY DEF ApplyLaunch
<1>5. TypeOK'
  BY <1>1, <1>3 DEF ApplyLaunch, Goto, TypeOK, Phases
<1>6. \A b \in Agent \ {a} : AgentInv(b)' /\ ReplyHolds(b)'
  BY <1>1, <1>2, <1>3, <1>4, ExecutingOther
<1>7. AgentInv(a)'
  BY <1>1, <1>3, <1>4 DEF AgentInv, RequestFits, LookupFinds, HoldsLocks, StillFresh,
     OwnsRecord, SavesNext, Executing, StartPhases, SavePhases, Locked, Target
<1>8. ReplyHolds(a)' /\ OneUnresolved'
  BY <1>4 DEF IInv, ReplyHolds, OneUnresolved
<1>9. ASSUME NEW i \in Id PROVE IdInv(i)'
  <2>1. CASE i # x
    BY <1>3, <1>4, <2>1 DEF IInv, IdInv
  <2>2. CASE i = x
    BY <1>1, <1>3, <1>4, <2>2 DEF IInv, IdInv, Fresh, Definite
  <2> QED
    BY <2>1, <2>2
<1> QED
  BY <1>5, <1>6, <1>7, <1>8, <1>9 DEF IInv

LEMMA LoadInv ==
  ASSUME IInv, NEW a \in Agent, Load(a)
  PROVE  IInv'
<1> DEFINE found == record[req[a].id]
<1>1. /\ TypeOK /\ RequestFits(a) /\ pc[a] = "load"
      /\ req[a].id \in Id /\ record[req[a].id] \in Record
  BY AgentFacts DEF Load
<1>2. KeepsOthers(a)
  BY StepFrame DEF Step, Progress
<1>3. CASE /\ Return(a, "OPERATION_NOT_FOUND") \/ Return(a, found.state)
           /\ UNCHANGED <<record, version, child, run>>
  BY <1>1, <1>3, ReturnQuiet DEF Errors, Definite, Record
<1>4. ASSUME NEW following \in {"getLock", "reviewLock"}, Goto(a, following), found.state # "none",
             req[a].kind = IF following = "getLock" THEN "get" ELSE "review",
             UNCHANGED <<repoLock, catalogLock, req, mem, reply, record, version, child, run>>
      PROVE  IInv'
  <2>1. pc'[a] = following /\ TypeOK'
    BY <1>1, <1>4 DEF Goto, TypeOK, Phases
  <2>2. AgentInv(a)'
    BY <1>1, <1>4, <2>1 DEF AgentInv, RequestFits, LookupFinds, HoldsLocks, StillFresh,
       OwnsRecord, SavesNext, Executing, StartPhases, SavePhases, Locked, Exists
  <2> QED
    BY <1>2, <1>4, <2>1, <2>2, AdvanceQuiet
<1> QED
  BY <1>3, <1>4 DEF Load

LEMMA LookupLockInv ==
  ASSUME IInv, NEW a \in Agent, GetLock(a) \/ ReviewLock(a)
  PROVE  IInv'
<1>1. /\ TypeOK /\ RequestFits(a) /\ LookupFinds(a) /\ pc[a] \in {"getLock", "reviewLock"}
      /\ req[a].id \in Id
  BY AgentFacts DEF GetLock, ReviewLock
<1>2. KeepsOthers(a)
  BY StepFrame DEF Step, Progress
<1>3. CASE /\ Return(a, "running") \/ Return(a, "REPOSITORY_BUSY")
           /\ UNCHANGED <<record, version, child, run>>
  BY <1>1, <1>3, ReturnQuiet DEF Errors, States, Unresolved, Definite
<1>4. ASSUME NEW following \in {"getReread", "reviewReread"}, Goto(a, following), TakeRepoLock(a),
             pc[a] = IF following = "getReread" THEN "getLock" ELSE "reviewLock",
             UNCHANGED <<catalogLock, req, mem, reply, record, version, child, run>>
      PROVE  IInv'
  <2>1. pc'[a] = following /\ TypeOK'
    BY <1>1, <1>4 DEF Goto, TakeRepoLock, TypeOK, Phases
  <2>2. repoLock'[Target(a)] = a
    BY <1>1, <1>4, TargetType DEF TakeRepoLock, TypeOK
  <2>3. AgentInv(a)'
    BY <1>1, <1>4, <2>1, <2>2 DEF AgentInv, RequestFits, LookupFinds, HoldsLocks, StillFresh,
       OwnsRecord, SavesNext, Executing, StartPhases, SavePhases, Locked, Exists, Target
  <2> QED
    BY <1>2, <1>4, <2>1, <2>3, AdvanceQuiet
<1> QED
  BY <1>3, <1>4 DEF GetLock, ReviewLock

\* Under the lock, a lookup and a review take the next state from the record on disk.
LEMMA RereadInv ==
  ASSUME IInv, NEW a \in Agent, GetReread(a) \/ ReviewReread(a)
  PROVE  IInv'
<1> DEFINE found == record[req[a].id]
<1>1. /\ TypeOK /\ RequestFits(a) /\ LookupFinds(a) /\ HoldsLocks(a)
      /\ pc[a] \in {"getReread", "reviewReread"}
      /\ req[a].id \in Id /\ record[req[a].id] \in Record
  BY AgentFacts DEF GetReread, ReviewReread
<1>2. KeepsOthers(a)
  BY StepFrame DEF Step, Progress
<1>3. CASE /\ \/ Return(a, found.state) \/ Return(a, "OPERATION_NOT_REVIEWABLE")
              \/ Return(a, "reviewed_unknown") /\ found.state = "reviewed_unknown"
           /\ UNCHANGED <<record, version, child, run>>
  BY <1>1, <1>3, ReturnQuiet DEF Errors, States, Definite, Record
<1>4. ASSUME NEW s \in {"outcome_unknown", "reviewed_unknown"}, Goto(a, "saveLock"),
             mem' = [mem EXCEPT ![a] = [found EXCEPT !.state = s, !.seq = @ + 1]],
             IF s = "outcome_unknown" THEN pc[a] = "getReread" /\ found.state = "running"
                                      ELSE pc[a] = "reviewReread" /\ found.state = "outcome_unknown",
             UNCHANGED <<repoLock, catalogLock, req, reply, record, version, child, run>>
      PROVE  IInv'
  <2>1. pc'[a] = "saveLock" /\ mem'[a] = [found EXCEPT !.state = s, !.seq = @ + 1]
    BY <1>1, <1>4 DEF Goto, TypeOK
  <2>2. mem'[a] \in Record
    <3>1. mem'[a] = [payload |-> found.payload, state |-> s, seq |-> found.seq + 1]
      BY <1>1, <2>1 DEF Record
    <3> QED
      BY <1>1, <3>1 DEF Record, States, Unresolved
  <2>3. TypeOK'
    BY <1>1, <1>4, <2>1, <2>2 DEF Goto, TypeOK, Phases
  <2>4. req[a].kind = IF s = "outcome_unknown" THEN "get" ELSE "review"
    BY <1>1, <1>4 DEF RequestFits
  <2>5. AgentInv(a)'
    <3>1. RequestFits(a)' /\ LookupFinds(a)' /\ HoldsLocks(a)' /\ StillFresh(a)' /\ OwnsRecord(a)'
      BY <1>1, <1>4, <2>1, <2>4 DEF RequestFits, LookupFinds, HoldsLocks, StillFresh, OwnsRecord,
         Executing, StartPhases, SavePhases, Locked, Exists, Target
    <3>2. SavesNext(a)'
      BY <1>4, <2>1, <2>4 DEF SavesNext
    <3> QED
      BY <3>1, <3>2 DEF AgentInv
  <2> QED
    BY <1>2, <1>4, <2>3, <2>5, AdvanceQuiet
<1> QED
  BY <1>3, <1>4 DEF GetReread, ReviewReread

\* A failed save never answers with a definite outcome.
LEMMA SaveErrorCode ==
  ASSUME NEW a, NEW code \in {"REPOSITORY_BUSY", "JOURNAL_FULL", "JOURNAL_UNAVAILABLE"}
  PROVE  SaveError(a, code) \in Errors /\ SaveError(a, code) \notin Definite
BY DEF SaveError, Errors, Definite

LEMMA SaveLockInv ==
  ASSUME IInv, NEW a \in Agent, SaveLock(a)
  PROVE  IInv'
<1>1. /\ TypeOK /\ RequestFits(a) /\ LookupFinds(a) /\ HoldsLocks(a) /\ OwnsRecord(a)
      /\ SavesNext(a) /\ pc[a] = "saveLock" /\ req[a].id \in Id
  BY AgentFacts DEF SaveLock
<1>2. KeepsOthers(a)
  BY StepFrame DEF Step, Progress
<1>3. CASE Return(a, SaveError(a, "REPOSITORY_BUSY")) /\ UNCHANGED <<record, version, child, run>>
  BY <1>1, <1>3, SaveErrorCode, ReturnQuiet
<1>4. CASE /\ TakeCatalogLock(a) /\ Goto(a, "save")
           /\ UNCHANGED <<repoLock, req, mem, reply, record, version, child, run>>
  <2>1. pc'[a] = "save" /\ catalogLock' = a /\ TypeOK'
    BY <1>1, <1>4 DEF Goto, TakeCatalogLock, TypeOK, Phases
  <2>2. AgentInv(a)'
    BY <1>1, <1>4, <2>1 DEF AgentInv, RequestFits, LookupFinds, HoldsLocks, StillFresh,
       OwnsRecord, SavesNext, Executing, StartPhases, SavePhases, Locked, Exists, Target
  <2> QED
    BY <1>2, <1>4, <2>1, <2>2, AdvanceQuiet
<1> QED
  BY <1>3, <1>4 DEF SaveLock

\* A save that reached the disk, whatever it then answers.
LEMMA SavedInv ==
  ASSUME IInv, NEW a \in Agent, pc[a] = "save",
         NEW code \in States \union Errors \union {"none"}, Return(a, code),
         code \in Definite => code = mem[a].state,
         record' = [record EXCEPT ![req[a].id] = mem[a]], UNCHANGED <<version, child, run>>
  PROVE  IInv'
<1>1. TypeOK /\ req[a].id \in Id
  BY AgentFacts
<1>2. record' \in [Id -> Record] /\ OneUnresolved' /\ \A i \in Id : IdInv(i)'
  BY SavedRecords
<1>3. TypeOK' /\ AgentInv(a)' /\ KeepsOthers(a)
  BY <1>2, ReturnFrame
<1>4. \A b \in Agent \ {a} : AgentInv(b)' /\ ReplyHolds(b)'
  BY <1>3, SavedOther
<1>5. ReplyHolds(a)'
  BY <1>1 DEF Return, TypeOK, ReplyHolds
<1> QED
  BY <1>2, <1>3, <1>4, <1>5 DEF IInv

LEMMA PersistInv ==
  ASSUME IInv, NEW a \in Agent, Persist(a)
  PROVE  IInv'
<1>1. mem[a].state \in States
  BY SaveFacts DEF Persist, SavePhases, Successors, Unresolved, Definite, States
<1> QED
  BY <1>1, SavedInv DEF Persist

LEMMA PersistFailedInv ==
  ASSUME IInv, NEW a \in Agent, PersistFailed(a)
  PROVE  IInv'
<1>1. pc[a] = "save" /\ UNCHANGED <<version, child, run>>
  BY DEF PersistFailed
<1>2. PICK code \in {"JOURNAL_FULL", "JOURNAL_UNAVAILABLE"} :
        /\ Return(a, SaveError(a, code))
        /\ record' \in {record, [record EXCEPT ![req[a].id] = mem[a]]}
  BY DEF PersistFailed
<1>3. SaveError(a, code) \in Errors /\ SaveError(a, code) \notin Definite
  BY SaveErrorCode
<1>4. CASE record' = record
  BY <1>1, <1>2, <1>3, <1>4, ReturnQuiet
<1>5. CASE record' = [record EXCEPT ![req[a].id] = mem[a]]
  BY <1>1, <1>2, <1>3, <1>5, SavedInv
<1> QED
  BY <1>2, <1>4, <1>5

\* git's own steps touch no record, and no process: what the invariant says of a run
\* is how often it was launched, for what, and with which verdict.
LEMMA GitInv ==
  ASSUME IInv, NEW id \in Id, Git(id)
  PROVE  IInv'
<1>1. /\ UNCHANGED <<record, repoLock, catalogLock, pc, req, mem, reply>>
      /\ child' \subseteq child
  BY DEF Git, GitEffect, OrphanExit
<1>2. TypeOK /\ \A i \in Id : run[i] \in Run /\ IdInv(i)
  BY DEF IInv, TypeOK
<1>3. \A i \in Id : /\ run'[i].launches = run[i].launches
                    /\ run'[i].payload = run[i].payload
                    /\ run'[i].verdict = run[i].verdict
                    /\ run'[i].effect # run[i].effect => i \in child
  BY <1>2 DEF Git, GitEffect, OrphanExit, TypeOK, Run
<1>4. \A i \in Id : record[i].state = "none" => run'[i] = run[i]
  BY <1>2 DEF Git, GitEffect, OrphanExit, TypeOK, IdInv
<1>5. TypeOK'
  <2>1. CASE GitEffect(id)
    <3>1. run' \in [Id -> Run]
      <4>1. [run[id] EXCEPT !.effect = TRUE] \in Run
        BY <1>2 DEF Run
      <4>2. run' = [run EXCEPT ![id] = [run[id] EXCEPT !.effect = TRUE]]
        BY <2>1 DEF GitEffect
      <4> QED
        BY <1>2, <4>1, <4>2 DEF TypeOK
    <3>2. version' \in [Repo -> Nat]
      <4>1. RepoOf[run[id].payload] \in Repo
        BY <1>2, <2>1 DEF GitEffect, IdInv
      <4> QED
        BY <1>2, <2>1, <4>1 DEF GitEffect, TypeOK
    <3> QED
      BY <1>1, <1>2, <2>1, <3>1, <3>2 DEF GitEffect, TypeOK
  <2>2. CASE OrphanExit(id)
    BY <1>1, <1>2, <2>2 DEF OrphanExit, TypeOK
  <2> QED
    BY <2>1, <2>2 DEF Git
<1>6. ASSUME NEW b \in Agent PROVE AgentInv(b)' /\ ReplyHolds(b)'
  <2>1. AgentInv(b) /\ ReplyHolds(b) /\ (Executing(b) => req[b].id \in Id)
    BY AgentFacts DEF IInv, Executing
  <2>2. OwnsRecord(b)'
    BY <1>1, <1>3, <2>1 DEF AgentInv, OwnsRecord, Executing
  <2> QED
    BY <1>1, <2>1, <2>2 DEF AgentInv, RequestFits, LookupFinds, HoldsLocks, StillFresh, Blocked,
       SavesNext, Target, Exists, ReplyHolds
<1>7. ASSUME NEW i \in Id PROVE IdInv(i)'
  <2>1. run[i].launches = 0 => ~run'[i].effect
    BY <1>2, <1>3 DEF IdInv
  <2> QED
    BY <1>1, <1>2, <1>3, <1>4, <2>1 DEF IdInv
<1>8. OneUnresolved'
  BY <1>1 DEF IInv, OneUnresolved
<1> QED
  BY <1>5, <1>6, <1>7, <1>8 DEF IInv

LEMMA InitInv == Init => IInv
<1> SUFFICES ASSUME Init PROVE IInv
  OBVIOUS
<1>1. TypeOK
  BY DEF Init, TypeOK, Record, NoRecord, Request, NoRequest, Answer, NoAnswer, Run, NoRun, Phases
<1>2. ASSUME NEW a \in Agent PROVE AgentInv(a) /\ ReplyHolds(a)
  BY DEF Init, AgentInv, RequestFits, LookupFinds, HoldsLocks, StillFresh, OwnsRecord, SavesNext,
     Executing, StartPhases, SavePhases, Locked, ReplyHolds, NoAnswer, Definite
<1>3. ASSUME NEW i \in Id PROVE IdInv(i)
  BY DEF Init, IdInv, NoRecord, NoRun, Definite
<1>4. OneUnresolved
  BY DEF Init, OneUnresolved, NoRecord, Unresolved
<1> QED
  BY <1>1, <1>2, <1>3, <1>4 DEF IInv

LEMMA NextInv == IInv /\ [Next]_vars => IInv'
<1> SUFFICES ASSUME IInv, [Next]_vars PROVE IInv'
  OBVIOUS
<1>1. ASSUME NEW a \in Agent, Progress(a) PROVE IInv'
  BY <1>1, StartExistingInv, StartLockInv, StartRecheckInv, BeginLockInv, BeginRefusedInv,
     BeginAdmittedInv, BeginPersistInv, ApplyRefusedInv, ApplyLaunchInv, GitExitInv, LoadInv,
     LookupLockInv, RereadInv, SaveLockInv, PersistInv
     DEF Progress
<1>2. ASSUME NEW a \in Agent, DiskFault(a) PROVE IInv'
  BY <1>2, BeginFailedInv, PersistFailedInv DEF DiskFault
<1>3. CASE UNCHANGED vars
  <2>1. \A i \in Id : IdInv(i)'
    BY <1>3 DEF vars, IInv, IdInv
  <2>2. ASSUME NEW a \in Agent PROVE AgentInv(a)' /\ ReplyHolds(a)'
    <3>1. RequestFits(a)' /\ LookupFinds(a)' /\ HoldsLocks(a)' /\ StillFresh(a)' /\ ReplyHolds(a)'
      BY <1>3 DEF vars, IInv, AgentInv, RequestFits, LookupFinds, HoldsLocks, StillFresh, Blocked,
         Exists, Target, ReplyHolds
    <3>2. OwnsRecord(a)' /\ SavesNext(a)'
      BY <1>3 DEF vars, IInv, AgentInv, OwnsRecord, SavesNext, Executing
    <3> QED
      BY <3>1, <3>2 DEF AgentInv
  <2>3. TypeOK' /\ OneUnresolved'
    BY <1>3 DEF vars, IInv, TypeOK, OneUnresolved
  <2> QED
    BY <2>1, <2>2, <2>3 DEF IInv
<1> QED
  BY <1>1, <1>2, <1>3, ArriveInv, CrashInv, GitInv DEF Next, Step
-----------------------------------------------------------------------------
(* Theorems *)

\* In every behaviour the locks, the requests and the records agree as IInv says.
THEOREM Invariance == Spec => []IInv
BY InitInv, NextInv, PTL DEF Spec

\* Every variable keeps its type.
THEOREM TypeCorrect == Spec => []TypeOK
<1>1. IInv => TypeOK
  BY DEF IInv
<1> QED
  BY <1>1, Invariance, PTL

\* However many processes begin writes at once, of however many clients, a repository
\* has at most one unresolved write.
THEOREM OneUnresolvedWrite == Spec => []OneUnresolved
<1>1. IInv => OneUnresolved
  BY DEF IInv
<1> QED
  BY <1>1, Invariance, PTL

\* No retry, lookup, review or crash launches git twice for one operation.
THEOREM LaunchedAtMostOnce == Spec => []AtMostOnce
<1>1. IInv => AtMostOnce
  BY DEF IInv, IdInv, AtMostOnce
<1> QED
  BY <1>1, Invariance, PTL

\* git runs only for a payload whose record is on disk.
THEOREM JournalledBeforeEffect == Spec => []JournalBeforeEffect
<1>1. IInv => JournalBeforeEffect
  BY DEF IInv, IdInv, JournalBeforeEffect
<1> QED
  BY <1>1, Invariance, PTL

\* A definite record is the verdict of the process that ran git.
THEOREM HonestRecords == Spec => []HonestOutcome
<1>1. IInv => HonestOutcome
  BY DEF IInv, IdInv, HonestOutcome
<1> QED
  BY <1>1, Invariance, PTL

\* A definite answer is on disk, for as long as it is the last answer given.
THEOREM DurableReplies == Spec => []ReplyDurable
<1>1. IInv => ReplyDurable
  BY DEF IInv, ReplyHolds, ReplyDurable
<1> QED
  BY <1>1, Invariance, PTL
\* A repository is worked on by one git child at a time, or an operator has reviewed one
\* of the operations: a child is alive only while its record is not definite.
THEOREM OverlapReviewed == Spec => []NoUnreviewedOverlap
<1>1. ASSUME IInv, NEW i \in child, NEW j \in child, i # j,
             RepoOf[run[i].payload] = RepoOf[run[j].payload]
      PROVE  "reviewed_unknown" \in {record[i].state, record[j].state}
  <2>1. TypeOK /\ OneUnresolved /\ i \in Id /\ j \in Id
    BY <1>1 DEF IInv, TypeOK
  <2>2. ASSUME NEW k \in child
        PROVE  /\ record[k].state \in Unresolved \union {"reviewed_unknown"}
               /\ run[k].payload = record[k].payload
    <3>1. k \in Id /\ IdInv(k) /\ record[k] \in Record
      BY <1>1, <2>1 DEF IInv, TypeOK
    <3>2. run[k].launches = 1
      BY <3>1 DEF IdInv
    <3> QED
      BY <3>1, <3>2 DEF IdInv, Record, States, Unresolved, Definite
  <2> QED
    BY <1>1, <2>1, <2>2 DEF OneUnresolved
<1>2. IInv => NoUnreviewedOverlap
  BY <1>1 DEF NoUnreviewedOverlap
<1> QED
  BY <1>2, Invariance, PTL
-----------------------------------------------------------------------------
(* Steps *)

\* Records change in two ways only: begin writes the first one of an operation, and a
\* save writes the next.
Begins(a) == pc[a] = "persist" /\ record' = [record EXCEPT ![req[a].id] = mem[a]]
Saves(a)  == pc[a] = "save" /\ record' = [record EXCEPT ![req[a].id] = mem[a]]

LEMMA RecordSteps ==
  ASSUME Next
  PROVE  record' = record \/ \E a \in Agent : Begins(a) \/ Saves(a)
<1>1. ASSUME NEW a \in Agent, Arrive(a) \/ Crash(a) PROVE record' = record
  BY <1>1 DEF Arrive, Receive, Crash
<1>2. ASSUME NEW a \in Agent, Progress(a) PROVE record' = record \/ Begins(a) \/ Saves(a)
  BY <1>2 DEF Progress, Begins, Saves, StartExisting, StartLock, StartRecheck, BeginLock,
     BeginRefused, BeginAdmitted, BeginPersist, ApplyRefused, ApplyLaunch, GitExit, Load,
     GetLock, GetReread, ReviewLock, ReviewReread, SaveLock, Persist
<1>3. ASSUME NEW a \in Agent, DiskFault(a) PROVE record' = record \/ Begins(a) \/ Saves(a)
  BY <1>3 DEF DiskFault, Begins, Saves, BeginFailed, PersistFailed
<1>4. ASSUME NEW id \in Id, Git(id) PROVE record' = record
  BY <1>4 DEF Git, GitEffect, OrphanExit
<1> QED
  BY <1>1, <1>2, <1>3, <1>4 DEF Next, Step

\* A definite answer is a definite record, and the record is what git did: both hold of
\* every instance.
THEOREM RepliesHonest == Spec => []HonestReplies
BY HonestRecords, DurableReplies, PTL DEF HonestReplies

\* Of one repository, at most one write is unresolved on disk, and git works for two at a
\* time only after a review.
THEOREM WritesOneAtATime == Spec => []OneAtATime
BY OneUnresolvedWrite, OverlapReviewed, PTL DEF OneAtATime

LEMMA NextForward == IInv /\ Next => ForwardStep
<1> SUFFICES ASSUME IInv, Next PROVE ForwardStep
  OBVIOUS
<1>1. record \in [Id -> Record]
  BY DEF IInv, TypeOK
<1>2. ASSUME NEW a \in Agent, Begins(a) PROVE ForwardStep
  <2>1. req[a].id \in Id /\ record[req[a].id] = NoRecord /\ mem[a] = Fresh(req[a].payload)
    BY <1>2, BeginFacts DEF Begins
  <2>2. "running" \in Successors("none")
    BY DEF Successors
  <2> QED
    BY <1>1, <1>2, <2>1, <2>2 DEF Begins, ForwardStep, Fresh, NoRecord, Exists
<1>3. ASSUME NEW a \in Agent, Saves(a) PROVE ForwardStep
  <2>1. /\ req[a].id \in Id
        /\ mem[a].payload = record[req[a].id].payload
        /\ mem[a].state \in Successors(record[req[a].id].state)
        /\ mem[a].seq = record[req[a].id].seq + 1
    BY <1>3, SaveFacts DEF Saves, SavePhases
  <2> QED
    BY <1>1, <1>3, <2>1 DEF Saves, ForwardStep
<1>4. CASE record' = record
  BY <1>4 DEF ForwardStep
<1> QED
  BY <1>2, <1>3, <1>4, RecordSteps

\* No record is ever rewritten: it moves forward, one sequence number at a time.
THEOREM RecordsForward == Spec => ForwardOnly
<1>1. IInv /\ [Next]_vars => [ForwardStep]_vars
  BY NextForward
<1> QED
  BY <1>1, Invariance, PTL DEF Spec, ForwardOnly
-----------------------------------------------------------------------------
(* The journal implements the write log *)

LEMMA LogInit == Init => Log!Init
BY DEF Init, Log!Init, NoRecord, NoRun

\* git's command changes only in apply, on its exit and by its effect.
LEMMA EffectSteps ==
  ASSUME IInv, Next
  PROVE  \/ \A i \in Id : run'[i].effect = run[i].effect
         \/ \E id \in Id : GitEffect(id)
<1>1. TypeOK
  BY DEF IInv
<1>2. ASSUME NEW a \in Agent, Arrive(a) \/ Crash(a) \/ DiskFault(a) PROVE run' = run
  BY <1>2 DEF Arrive, Receive, Crash, DiskFault, BeginFailed, PersistFailed
<1>3. ASSUME NEW a \in Agent, Progress(a) PROVE \A i \in Id : run'[i].effect = run[i].effect
  <2>1. ASSUME ApplyRefused(a) \/ \E s \in Definite \union {"outcome_unknown"} : GitExit(a, s)
        PROVE  \A i \in Id : run'[i].effect = run[i].effect
    <3>1. PICK s \in Definite \union {"outcome_unknown"} :
            run' = [run EXCEPT ![req[a].id].verdict = s]
      BY <2>1 DEF ApplyRefused, GitExit, Definite
    <3> QED
      BY <1>1, <3>1 DEF TypeOK, Run
  <2>2. ASSUME ApplyLaunch(a) PROVE \A i \in Id : run'[i].effect = run[i].effect
    BY <1>1, <2>2 DEF ApplyLaunch, TypeOK, Run
  <2> QED
    BY <1>3, <2>1, <2>2 DEF Progress, StartExisting, StartLock, StartRecheck, BeginLock,
       BeginRefused, BeginAdmitted, BeginPersist, Load, GetLock, GetReread, ReviewLock,
       ReviewReread, SaveLock, Persist
<1>4. ASSUME NEW id \in Id, OrphanExit(id) PROVE run' = run
  BY <1>4 DEF OrphanExit
<1> QED
  BY <1>2, <1>3, <1>4 DEF Next, Step, Git

\* A journal step is an operation's begin, finish, review or effect, or invisible.
LEMMA LogNext ==
  ASSUME IInv, Next
  PROVE  Log!Next \/ UNCHANGED Log!vars
<1> DEFINE st == [i \in Id |-> record[i].state]
           pl == [i \in Id |-> record[i].payload]
           ef == [i \in Id |-> run[i].effect]
<1>1. TypeOK /\ \A i \in Id : IdInv(i) /\ record[i] \in Record /\ run[i] \in Run
  BY DEF IInv, TypeOK
<1>2. ASSUME \A i \in Id : run'[i].effect = run[i].effect PROVE ef' = ef
  BY <1>2
<1>3. ASSUME NEW id \in Id, GitEffect(id) PROVE Log!Next
  <2>1. st' = st /\ pl' = pl
    BY <1>3 DEF GitEffect
  <2>2. id \in child /\ run[id].effect = FALSE
    BY <1>1, <1>3 DEF GitEffect, Run
  <2>3. ef' = [ef EXCEPT ![id] = TRUE]
    <3>1. \A i \in Id : run'[i].effect = IF i = id THEN TRUE ELSE run[i].effect
      BY <1>1, <1>3 DEF GitEffect, TypeOK, Run
    <3> QED
      BY <3>1
  <2>4. record[id].state \in Unresolved \union {"reviewed_unknown"}
    BY <1>1, <2>2 DEF IdInv, Record, States, Unresolved, Definite
  <2>5. Log!Effect(id)
    BY <2>1, <2>2, <2>3, <2>4 DEF Log!Effect, Log!Unresolved, Unresolved
  <2> QED
    BY <2>5 DEF Log!Next
<1>4. ASSUME NEW a \in Agent, Begins(a), ef' = ef PROVE Log!Next
  <2>1. PICK i \in Id : i = req[a].id
    BY <1>4, BeginFacts DEF Begins
  <2>2. PICK p \in Payload : p = req[a].payload
    BY <1>4, BeginFacts DEF Begins
  <2>3. record[i] = NoRecord /\ record' = [record EXCEPT ![i] = Fresh(p)] /\ ~Blocked(RepoOf[p])
    BY <1>4, <2>1, <2>2, BeginFacts DEF Begins
  <2>4. st' = [st EXCEPT ![i] = "running"] /\ pl' = [pl EXCEPT ![i] = p]
    BY <1>1, <2>3 DEF TypeOK, Fresh
  <2>5. Log!Begin(i, p)
    BY <1>4, <2>3, <2>4 DEF Log!Begin, NoRecord, Blocked, Log!Unresolved, Unresolved
  <2> QED
    BY <2>5 DEF Log!Next
<1>5. ASSUME NEW a \in Agent, Saves(a), ef' = ef PROVE Log!Next
  <2>1. PICK i \in Id : i = req[a].id
    BY <1>5, SaveFacts DEF Saves, SavePhases
  <2>2. PICK m \in Record : m = mem[a]
    BY <1>1 DEF TypeOK
  <2>3. /\ record' = [record EXCEPT ![i] = m] /\ m.payload = record[i].payload
        /\ m.state \in Successors(record[i].state) /\ record[i].state \in Unresolved
    BY <1>5, <2>1, <2>2, SaveFacts DEF Saves, SavePhases
  <2>4. st' = [st EXCEPT ![i] = m.state] /\ pl' = pl
    BY <1>1, <2>3 DEF TypeOK
  <2>5. CASE record[i].state = "running"
    <3>1. m.state \in Definite \union {"outcome_unknown"}
      BY <2>3, <2>5 DEF Successors
    <3>2. Log!Finish(i, m.state)
      BY <1>5, <2>4, <2>5 DEF Log!Finish
    <3> QED
      BY <3>1, <3>2 DEF Log!Next, Log!Definite, Definite
  <2>6. CASE record[i].state = "outcome_unknown"
    <3>1. m.state = "reviewed_unknown"
      BY <2>3, <2>6 DEF Successors
    <3>2. Log!Review(i)
      BY <1>5, <2>4, <2>6, <3>1 DEF Log!Review
    <3> QED
      BY <3>2 DEF Log!Next
  <2> QED
    BY <2>3, <2>5, <2>6 DEF Unresolved
<1>6. ASSUME record' = record, ef' = ef PROVE UNCHANGED Log!vars
  BY <1>6 DEF Log!vars
<1>7. ASSUME NEW id \in Id, GitEffect(id) PROVE record' = record
  BY <1>7 DEF GitEffect
<1> HIDE DEF st, pl, ef
<1> QED
  BY <1>2, <1>3, <1>4, <1>5, <1>6, EffectSteps, RecordSteps

\* The journal, with its locks, lookups and crashes, implements the write log: what a
\* client can learn from the records is an operation that began once and moved forward.
THEOREM JournalImplementsLog == Spec => ImplementsLog
<1>1. IInv /\ [Next]_vars => [Log!Next]_(Log!vars)
  <2>1. CASE UNCHANGED vars
    BY <2>1 DEF vars, Log!vars
  <2> QED
    BY <2>1, LogNext
<1> QED
  BY <1>1, LogInit, Invariance, PTL DEF Spec, ImplementsLog, Log!Spec
-----------------------------------------------------------------------------
(* Snapshots *)

\* The command of an operation has changed the repository, or still may.
MayChange(i) == run[i].effect \/ i \in child

\* Of two operations that may have changed a repository on the same snapshot, one was
\* reviewed.
DistinctBases ==
  \A i, j \in Id :
    /\ i # j
    /\ MayChange(i) /\ MayChange(j)
    /\ RepoOf[run[i].payload] = RepoOf[run[j].payload]
    /\ run[i].base = run[j].base
    => "reviewed_unknown" \in {record[i].state, record[j].state}

\* A change is later than the snapshot it was made on.
BasesBehind ==
  \A i \in Id : run[i].launches = 1 =>
    /\ run[i].base <= version[RepoOf[run[i].payload]]
    /\ run[i].effect => run[i].base < version[RepoOf[run[i].payload]]

\* From the comparison of the snapshot to the launch, the snapshot is later than every
\* change that is known to have succeeded or failed.
SnapshotFresh(a) ==
  pc[a] \in {"begin", "scan", "persist", "apply"} =>
    /\ req[a].snap <= version[RepoOf[req[a].payload]]
    /\ \A i \in Id : /\ record[i].state \in Definite /\ run[i].effect
                     /\ RepoOf[run[i].payload] = RepoOf[req[a].payload]
                     => run[i].base < req[a].snap

SnapInv == DistinctBases /\ BasesBehind /\ \A a \in Agent : SnapshotFresh(a)

\* What the invariants say of an operation whose command may change the repository.
LEMMA ChangeFacts ==
  ASSUME IInv, NEW i \in Id
  PROVE  /\ run[i].launches \in {0, 1} /\ run[i].base \in Nat
         /\ MayChange(i) => run[i].launches = 1
         /\ run[i].launches = 1 => /\ run[i].payload = record[i].payload /\ run[i].payload \in Payload
                                   /\ RepoOf[run[i].payload] \in Repo
                                   /\ record[i].state \in States
<1>1. IdInv(i) /\ run[i] \in Run /\ record[i] \in Record
  BY DEF IInv, TypeOK
<1>2. run[i].launches = 1 => record[i].state # "none"
  BY <1>1 DEF IdInv, NoRun
<1>3. /\ run[i].launches \in {0, 1} /\ run[i].base \in Nat
      /\ MayChange(i) => run[i].launches = 1
  BY <1>1 DEF IdInv, MayChange, Run
<1>4. run[i].launches = 1 => /\ run[i].payload = record[i].payload /\ run[i].payload \in Payload
                             /\ record[i].state \in States
  BY <1>1, <1>2 DEF IdInv, Record
<1>5. run[i].payload \in Payload => RepoOf[run[i].payload] \in Repo
  BY RepoOfAssumption
<1> QED
  BY <1>3, <1>4, <1>5

LEMMA VersionType ==
  ASSUME IInv, NEW r \in Repo
  PROVE  version[r] \in Nat
BY DEF IInv, TypeOK

\* A step that changes no record and no repository, and at most ends a command.
Calm ==
  /\ UNCHANGED <<record, version>> /\ child' \subseteq child
  /\ \A i \in Id : /\ run'[i].base = run[i].base /\ run'[i].payload = run[i].payload
                    /\ run'[i].launches = run[i].launches /\ (run'[i].effect <=> run[i].effect)

LEMMA CalmOther ==
  ASSUME SnapInv, Calm, NEW b \in Agent, pc'[b] = pc[b], req'[b] = req[b]
  PROVE  SnapshotFresh(b)'
BY DEF SnapInv, SnapshotFresh, Calm

LEMMA CalmRuns == SnapInv /\ Calm => DistinctBases' /\ BasesBehind'
BY DEF SnapInv, DistinctBases, BasesBehind, MayChange, Calm

LEMMA CalmSnap ==
  ASSUME SnapInv, Calm, NEW a \in Agent, KeepsOthers(a), SnapshotFresh(a)'
  PROVE  SnapInv'
<1>1. ASSUME NEW b \in Agent PROVE SnapshotFresh(b)'
  <2>1. CASE b = a
    BY <2>1
  <2>2. CASE b # a
    BY <2>2, CalmOther DEF KeepsOthers
  <2> QED
    BY <2>1, <2>2
<1> QED
  BY <1>1, CalmRuns DEF SnapInv

LEMMA QuietSnap ==
  ASSUME SnapInv, NEW a \in Agent, KeepsOthers(a), UNCHANGED <<record, version, child, run>>,
         SnapshotFresh(a)'
  PROVE  SnapInv'
BY CalmSnap DEF Calm

\* So does one that leaves every process where it is.
LEMMA StillSnap ==
  ASSUME SnapInv, Calm, UNCHANGED <<pc, req>>
  PROVE  SnapInv'
BY CalmOther, CalmRuns DEF SnapInv

\* A process outside the phases has no snapshot to be wrong about.
LEMMA OutsideSnap ==
  ASSUME NEW a \in Agent, pc'[a] \notin {"begin", "scan", "persist", "apply"}
  PROVE  SnapshotFresh(a)'
BY DEF SnapshotFresh

LEMMA StartRecheckSnap ==
  ASSUME IInv, SnapInv, NEW a \in Agent, StartRecheck(a)
  PROVE  SnapInv'
<1>1. TypeOK /\ RequestFits(a) /\ pc[a] = "recheck" /\ UNCHANGED <<record, version, child, run>>
  BY AgentFacts DEF StartRecheck
<1>2. KeepsOthers(a)
  BY StepFrame DEF Step, Progress
<1>3. CASE pc'[a] = "idle"
  BY <1>1, <1>2, <1>3, QuietSnap, OutsideSnap
<1>4. CASE Goto(a, "begin") /\ SnapshotCurrent(a) /\ req' = req
  <2>1. req[a].kind = "start" /\ req[a].payload \in Payload
    BY <1>1 DEF RequestFits, StartPhases
  <2>2. req[a].snap = version[RepoOf[req[a].payload]] /\ req[a].snap \in Nat
    BY <1>1, <1>4, <2>1 DEF SnapshotCurrent, Target, TypeOK, Request
  <2>3. ASSUME NEW i \in Id, run[i].effect, RepoOf[run[i].payload] = RepoOf[req[a].payload]
        PROVE  run[i].base < req[a].snap
    BY <2>2, <2>3, ChangeFacts DEF SnapInv, BasesBehind, MayChange
  <2>4. SnapshotFresh(a)'
    BY <1>1, <1>4, <2>2, <2>3 DEF SnapshotFresh
  <2> QED
    BY <1>1, <1>2, <2>4, QuietSnap
<1> QED
  BY <1>1, <1>3, <1>4 DEF StartRecheck, Return, Forget, TypeOK

\* The begin keeps the snapshot of the request.
LEMMA OnwardSnap ==
  ASSUME IInv, SnapInv, NEW a \in Agent, BeginLock(a) \/ BeginAdmitted(a)
  PROVE  SnapInv'
<1>1. TypeOK /\ pc[a] \in {"begin", "scan"} /\ UNCHANGED <<record, version, child, run>>
  BY DEF IInv, BeginLock, BeginAdmitted
<1>2. KeepsOthers(a)
  BY StepFrame DEF Step, Progress
<1>3. pc'[a] = "idle" \/ req'[a] = req[a]
  BY <1>1 DEF BeginLock, BeginAdmitted, Return, Forget, TypeOK
<1>4. SnapshotFresh(a)'
  BY <1>1, <1>3 DEF SnapInv, SnapshotFresh
<1> QED
  BY <1>1, <1>2, <1>4, QuietSnap

\* The other steps that leave records, commands and repositories alone.
LEMMA AsideSnap ==
  ASSUME IInv, SnapInv, NEW a \in Agent,
         \/ Arrive(a) \/ Crash(a) \/ StartExisting(a) \/ StartLock(a) \/ BeginRefused(a)
         \/ Load(a) \/ GetLock(a) \/ GetReread(a) \/ ReviewLock(a) \/ ReviewReread(a) \/ SaveLock(a)
  PROVE  SnapInv'
<1>1. TypeOK
  BY DEF IInv
<1>2. KeepsOthers(a)
  BY StepFrame DEF Step, Progress
<1>3. CASE Arrive(a) \/ Crash(a)
  <2>1. UNCHANGED <<record, version, child, run>> /\ pc'[a] \notin {"begin", "scan", "persist", "apply"}
    BY <1>1, <1>3 DEF Arrive, Receive, Crash, Forget, Goto, TypeOK
  <2> QED
    BY <1>2, <2>1, QuietSnap, OutsideSnap
<1>4. CASE StartExisting(a) \/ StartLock(a) \/ BeginRefused(a)
  <2>1. UNCHANGED <<record, version, child, run>> /\ pc'[a] \notin {"begin", "scan", "persist", "apply"}
    BY <1>1, <1>4 DEF StartExisting, StartLock, BeginRefused, Return, Forget, Goto, TypeOK
  <2> QED
    BY <1>2, <2>1, QuietSnap, OutsideSnap
<1>5. CASE \/ Load(a) \/ GetLock(a) \/ GetReread(a) \/ ReviewLock(a) \/ ReviewReread(a) \/ SaveLock(a)
  <2>1. UNCHANGED <<record, version, child, run>> /\ pc'[a] \notin {"begin", "scan", "persist", "apply"}
    BY <1>1, <1>5 DEF Load, GetLock, GetReread, ReviewLock, ReviewReread, SaveLock, Return, Forget,
       Goto, TypeOK
  <2> QED
    BY <1>2, <2>1, QuietSnap, OutsideSnap
<1> QED
  BY <1>3, <1>4, <1>5

\* A verdict: the record in memory changes, the command has ended.
LEMMA VerdictSnap ==
  ASSUME IInv, SnapInv, NEW a \in Agent,
         ApplyRefused(a) \/ \E s \in Definite \union {"outcome_unknown"} : GitExit(a, s)
  PROVE  SnapInv'
<1>1. TypeOK /\ pc'[a] = "saveLock" /\ UNCHANGED <<record, version>> /\ child' \subseteq child
  BY DEF IInv, TypeOK, ApplyRefused, GitExit, Goto
<1>2. KeepsOthers(a)
  BY StepFrame DEF Step, Progress
<1>3. PICK s : run' = [run EXCEPT ![req[a].id].verdict = s]
  BY DEF ApplyRefused, GitExit
<1>4. ASSUME NEW i \in Id
      PROVE  /\ run'[i].base = run[i].base /\ run'[i].payload = run[i].payload
             /\ run'[i].launches = run[i].launches /\ (run'[i].effect <=> run[i].effect)
  <2>1. run[i] \in Run /\ (run'[i] = run[i] \/ run'[i] = [run[i] EXCEPT !.verdict = s])
    BY <1>1, <1>3 DEF TypeOK
  <2> QED
    BY <2>1 DEF Run
<1>5. SnapshotFresh(a)'
  BY <1>1, OutsideSnap
<1> QED
  BY <1>1, <1>2, <1>4, <1>5, CalmSnap DEF Calm

\* A launch: what other operations changed is older than the snapshot, or reviewed.
LEMMA LaunchSnap ==
  ASSUME IInv, SnapInv, NEW a \in Agent, ApplyLaunch(a)
  PROVE  SnapInv'
<1> DEFINE x == req[a].id
<1>1. /\ TypeOK /\ x \in Id /\ req[a].payload \in Payload /\ req[a].kind = "start"
      /\ pc[a] = "apply" /\ record[x] = Fresh(req[a].payload) /\ run[x].launches = 0
      /\ run[x] \in Run /\ req[a].snap \in Nat
  BY ExecutingFacts DEF ApplyLaunch, Request
<1>2. /\ run' = [run EXCEPT ![x] = [launches |-> run[x].launches + 1, payload |-> req[a].payload,
                                    base |-> req[a].snap, effect |-> run[x].effect, verdict |-> run[x].verdict]]
      /\ child' = child \union {x} /\ pc'[a] = "git" /\ UNCHANGED <<record, version>>
  BY <1>1 DEF ApplyLaunch, Goto, TypeOK
<1>3. /\ run'[x].base = req[a].snap /\ run'[x].payload = req[a].payload /\ ~run'[x].effect
      /\ \A i \in Id \ {x} : run'[i] = run[i] /\ (i \in child' <=> i \in child)
  <2>1. ~run[x].effect
    BY <1>1, ChangeFacts DEF MayChange
  <2>2. run'[x] = [launches |-> run[x].launches + 1, payload |-> req[a].payload,
                   base |-> req[a].snap, effect |-> run[x].effect, verdict |-> run[x].verdict]
    BY <1>1, <1>2 DEF TypeOK
  <2>3. run'[x].effect = run[x].effect /\ run'[x].base = req[a].snap /\ run'[x].payload = req[a].payload
    BY <2>2
  <2> QED
    BY <1>1, <1>2, <2>1, <2>3 DEF TypeOK
<1>4. /\ req[a].snap <= version[RepoOf[req[a].payload]]
      /\ \A i \in Id : /\ record[i].state \in Definite /\ run[i].effect
                       /\ RepoOf[run[i].payload] = RepoOf[req[a].payload]
                       => run[i].base < req[a].snap
  BY <1>1 DEF SnapInv, SnapshotFresh
<1>5. ASSUME NEW j \in Id \ {x}, MayChange(j), RepoOf[run[j].payload] = RepoOf[req[a].payload],
             record[j].state # "reviewed_unknown"
      PROVE  run[j].base # req[a].snap
  <2>1. run[j].payload = record[j].payload /\ record[j].state \in States /\ run[j].base \in Nat
    BY <1>5, ChangeFacts
  <2>2. record[j].state \notin Unresolved
    BY <1>1, <1>5, <2>1 DEF IInv, OneUnresolved, Fresh, Unresolved
  <2>3. record[j].state \in Definite
    BY <1>5, <2>1, <2>2 DEF States
  <2>4. j \notin child
    BY <2>3 DEF IInv, IdInv
  <2> QED
    BY <1>1, <1>4, <1>5, <2>1, <2>3, <2>4 DEF MayChange
<1>6. DistinctBases'
  <2> SUFFICES ASSUME NEW i \in Id, NEW j \in Id, i # j, MayChange(i)', MayChange(j)',
                      RepoOf[run'[i].payload] = RepoOf[run'[j].payload], run'[i].base = run'[j].base
               PROVE  "reviewed_unknown" \in {record[i].state, record[j].state}
    BY <1>2 DEF DistinctBases
  <2>1. CASE i = x
    <3>1. MayChange(j) /\ run'[j] = run[j] /\ j \in Id \ {x}
      BY <1>3, <2>1 DEF MayChange
    <3> QED
      BY <1>3, <1>5, <2>1, <3>1
  <2>2. CASE j = x
    <3>1. MayChange(i) /\ run'[i] = run[i] /\ i \in Id \ {x}
      BY <1>3, <2>2 DEF MayChange
    <3> QED
      BY <1>3, <1>5, <2>2, <3>1
  <2>3. CASE i # x /\ j # x
    BY <1>3, <2>3 DEF SnapInv, DistinctBases, MayChange
  <2> QED
    BY <2>1, <2>2, <2>3
<1>7. BasesBehind'
  BY <1>2, <1>3, <1>4 DEF SnapInv, BasesBehind
<1>8. ASSUME NEW b \in Agent PROVE SnapshotFresh(b)'
  <2>1. CASE b = a
    BY <1>2, <2>1, OutsideSnap
  <2>2. CASE b # a
    <3>1. pc'[b] = pc[b] /\ req'[b] = req[b]
      BY <2>2, StepFrame DEF KeepsOthers, Step, Progress
    <3> QED
      BY <1>2, <1>3, <3>1 DEF SnapInv, SnapshotFresh
  <2> QED
    BY <2>1, <2>2
<1> QED
  BY <1>6, <1>7, <1>8 DEF SnapInv

\* git's own steps: an effect is later than every snapshot taken before it, and of an
\* operation that has no outcome yet.
LEMMA GitSnap ==
  ASSUME IInv, SnapInv, NEW id \in Id, Git(id)
  PROVE  SnapInv'
<1>1. TypeOK /\ UNCHANGED <<record, pc, req>> /\ child' \subseteq child
  BY DEF IInv, Git, GitEffect, OrphanExit
<1>2. CASE OrphanExit(id)
  BY <1>1, <1>2, StillSnap DEF OrphanExit, Calm
<1>3. CASE GitEffect(id)
  <2> DEFINE r == RepoOf[run[id].payload]
  <2>1. /\ id \in child /\ run' = [run EXCEPT ![id].effect = TRUE]
        /\ version' = [version EXCEPT ![r] = @ + 1] /\ child' = child
    BY <1>3 DEF GitEffect
  <2>2. /\ run[id].launches = 1 /\ r \in Repo /\ run[id].base \in Nat /\ record[id].state \notin Definite
    BY <2>1, ChangeFacts DEF MayChange, IInv, IdInv
  <2>3. ASSUME NEW i \in Id
        PROVE  /\ run'[i].base = run[i].base /\ run'[i].payload = run[i].payload
               /\ run'[i].launches = run[i].launches /\ (i # id => run'[i] = run[i])
    <3>1. run[i] \in Run /\ (run'[i] = run[i] \/ run'[i] = [run[i] EXCEPT !.effect = TRUE])
      BY <1>1, <2>1 DEF TypeOK
    <3>2. i # id => run'[i] = run[i]
      BY <1>1, <2>1 DEF TypeOK
    <3> QED
      BY <3>1, <3>2 DEF Run
  <2>4. \A q \in Repo : /\ version[q] \in Nat /\ version'[q] \in Nat /\ version[q] <= version'[q]
                        /\ q = r => version[q] < version'[q]
    BY <1>1, <2>1, <2>2 DEF TypeOK
  <2> HIDE DEF r
  <2>5. DistinctBases'
    <3>1. \A i \in Id : MayChange(i)' => MayChange(i)
      BY <2>1, <2>3 DEF MayChange
    <3> QED
      BY <1>1, <2>3, <3>1 DEF SnapInv, DistinctBases
  <2>6. BasesBehind'
    <3> SUFFICES ASSUME NEW i \in Id, run'[i].launches = 1
                 PROVE  /\ run'[i].base <= version'[RepoOf[run'[i].payload]]
                        /\ run'[i].effect => run'[i].base < version'[RepoOf[run'[i].payload]]
      BY DEF BasesBehind
    <3> DEFINE q == RepoOf[run[i].payload]
    <3>1. /\ q \in Repo /\ run[i].base \in Nat /\ run[i].base <= version[q]
          /\ run[i].effect => run[i].base < version[q]
      BY <2>3, ChangeFacts DEF SnapInv, BasesBehind
    <3>2. i = id => q = r
      BY DEF r
    <3>3. RepoOf[run'[i].payload] = q /\ run'[i].base = run[i].base /\ (i # id => run'[i] = run[i])
      BY <2>3
    <3> HIDE DEF q
    <3> QED
      BY <2>4, <3>1, <3>2, <3>3
  <2>7. ASSUME NEW b \in Agent PROVE SnapshotFresh(b)'
    <3> SUFFICES ASSUME pc[b] \in {"begin", "scan", "persist", "apply"} PROVE SnapshotFresh(b)'
      BY <1>1 DEF SnapshotFresh
    <3>1. RepoOf[req[b].payload] \in Repo /\ req[b].snap \in Nat
      <4>1. req[b] \in Request /\ req[b].payload \in Payload
        BY AgentFacts DEF RequestFits, StartPhases, TypeOK
      <4> QED
        BY <4>1, RepoOfAssumption DEF Request
    <3>2. req[b].snap <= version'[RepoOf[req[b].payload]]
      BY <2>4, <3>1 DEF SnapInv, SnapshotFresh
    <3>3. ASSUME NEW i \in Id, record[i].state \in Definite, run'[i].effect,
                 RepoOf[run'[i].payload] = RepoOf[req[b].payload]
          PROVE  run'[i].base < req[b].snap
      <4>1. run'[i] = run[i]
        BY <2>2, <2>3, <3>3
      <4> QED
        BY <3>3, <4>1 DEF SnapInv, SnapshotFresh
    <3> QED
      BY <1>1, <3>2, <3>3 DEF SnapshotFresh
  <2> QED
    BY <2>5, <2>6, <2>7 DEF SnapInv
<1> QED
  BY <1>2, <1>3 DEF Git

\* A record is written: only an outcome that becomes known matters to the others, and
\* they hold the locks of other repositories.
LEMMA RecordSnap ==
  ASSUME IInv, SnapInv, NEW a \in Agent, KeepsOthers(a), Begins(a) \/ Saves(a),
         UNCHANGED <<version, child, run>>,
         pc'[a] = "idle" \/ (Begins(a) /\ req'[a] = req[a])
  PROVE  SnapInv'
<1> DEFINE x == req[a].id
<1>1. /\ TypeOK /\ x \in Id /\ record' = [record EXCEPT ![x] = mem[a]]
      /\ pc[a] \in {"persist", "save"} /\ pc[a] \in Locked
  BY AgentFacts DEF Begins, Saves, Locked, SavePhases
<1>2. /\ record'[x] = mem[a] /\ \A i \in Id \ {x} : record'[i] = record[i]
  BY <1>1 DEF TypeOK
<1>3. /\ record[x].state \notin Definite \union {"reviewed_unknown"}
      /\ MayChange(x) => RepoOf[run[x].payload] = Target(a)
      /\ Begins(a) => ~MayChange(x) /\ mem[a].state \notin Definite
  <2>1. CASE Begins(a)
    <3>1. record[x] = NoRecord /\ mem[a] = Fresh(req[a].payload)
      BY <2>1, BeginFacts DEF Begins
    <3>2. ~MayChange(x)
      BY <1>1, <3>1 DEF IInv, IdInv, NoRecord, NoRun, MayChange
    <3> QED
      BY <3>1, <3>2 DEF NoRecord, Fresh, Definite
  <2>2. CASE ~Begins(a)
    <3>1. record[x].state \in Unresolved /\ Target(a) = RepoOf[record[x].payload]
      BY <2>2, SaveFacts DEF Saves, SavePhases
    <3>2. MayChange(x) => run[x].payload = record[x].payload
      BY <1>1, ChangeFacts
    <3> QED
      BY <2>2, <3>1, <3>2 DEF Unresolved, Definite
  <2> QED
    BY <2>1, <2>2
<1>4. DistinctBases' /\ BasesBehind'
  <2>1. ASSUME NEW i \in Id, record[i].state = "reviewed_unknown" PROVE record'[i].state = "reviewed_unknown"
    BY <1>2, <1>3, <2>1
  <2> QED
    BY <2>1 DEF SnapInv, DistinctBases, BasesBehind, MayChange
<1>5. ASSUME NEW b \in Agent PROVE SnapshotFresh(b)'
  <2> SUFFICES ASSUME pc'[b] \in {"begin", "scan", "persist", "apply"} PROVE SnapshotFresh(b)'
    BY DEF SnapshotFresh
  <2>1. CASE b = a
    <3>1. Begins(a) /\ req'[a] = req[a] /\ pc[a] = "persist"
      BY <2>1 DEF Begins
    <3>2. \A i \in Id : record'[i].state \in Definite => i # x /\ record'[i] = record[i]
      BY <1>2, <1>3, <3>1
    <3> QED
      BY <2>1, <3>1, <3>2 DEF SnapInv, SnapshotFresh
  <2>2. CASE b # a
    <3>1. pc'[b] = pc[b] /\ req'[b] = req[b] /\ pc[b] \in Locked
      BY <2>2 DEF KeepsOthers, Locked
    <3>2. req[b].kind = "start" /\ Target(b) = RepoOf[req[b].payload]
      BY <3>1, AgentFacts DEF RequestFits, StartPhases, Target
    <3>3. Target(a) # Target(b)
      BY <1>1, <2>2, <3>1, LockedApart
    <3>4. \A i \in Id : run[i].effect /\ RepoOf[run[i].payload] = RepoOf[req[b].payload]
                        => i # x /\ record'[i] = record[i]
      BY <1>2, <1>3, <3>2, <3>3 DEF MayChange
    <3> QED
      BY <3>1, <3>4 DEF SnapInv, SnapshotFresh
  <2> QED
    BY <2>1, <2>2
<1> QED
  BY <1>4, <1>5 DEF SnapInv

LEMMA WriteSnap ==
  ASSUME IInv, SnapInv, NEW a \in Agent,
         BeginPersist(a) \/ BeginFailed(a) \/ Persist(a) \/ PersistFailed(a)
  PROVE  SnapInv'
<1>1. TypeOK /\ UNCHANGED <<version, child, run>>
  BY DEF IInv, BeginPersist, BeginFailed, Persist, PersistFailed
<1>2. KeepsOthers(a)
  BY StepFrame DEF Step, Progress, DiskFault
<1>3. pc'[a] = "idle" \/ (BeginPersist(a) /\ req'[a] = req[a])
  BY <1>1 DEF BeginPersist, BeginFailed, Persist, PersistFailed, Return, Forget, TypeOK
<1>4. CASE record' = record
  <2>1. pc'[a] = "idle" \/ (pc[a] = "persist" /\ req'[a] = req[a])
    BY <1>3 DEF BeginPersist
  <2>2. SnapshotFresh(a)'
    BY <1>1, <1>4, <2>1 DEF SnapInv, SnapshotFresh
  <2> QED
    BY <1>1, <1>2, <1>4, <2>2, QuietSnap
<1>5. CASE record' # record
  <2>1. Begins(a) \/ Saves(a)
    BY <1>5 DEF Begins, Saves, BeginPersist, BeginFailed, Persist, PersistFailed
  <2>2. BeginPersist(a) => Begins(a)
    BY DEF BeginPersist, Begins
  <2> QED
    BY <1>1, <1>2, <1>3, <2>1, <2>2, RecordSnap
<1> QED
  BY <1>4, <1>5

LEMMA InitSnap == Init => SnapInv
BY DEF Init, SnapInv, DistinctBases, BasesBehind, SnapshotFresh, MayChange, NoRun, NoRecord

LEMMA NextSnap == IInv /\ SnapInv /\ [Next]_vars => SnapInv'
<1> SUFFICES ASSUME IInv, SnapInv, [Next]_vars PROVE SnapInv'
  OBVIOUS
<1>1. ASSUME NEW a \in Agent, Arrive(a) \/ Step(a) \/ Crash(a) PROVE SnapInv'
  BY <1>1, StartRecheckSnap, OnwardSnap, AsideSnap, VerdictSnap, LaunchSnap, WriteSnap
     DEF Step, Progress, DiskFault
<1>2. CASE UNCHANGED vars
  BY <1>2, StillSnap DEF vars, Calm
<1> QED
  BY <1>1, <1>2, GitSnap DEF Next

\* Of two writes that changed a repository on the same snapshot, an operator has reviewed
\* one (writes.rs start compares the fingerprint under the repository's lock).
THEOREM SnapshotsAreSpent == Spec => []SnapshotOnce
<1>1. IInv /\ SnapInv /\ [Next]_vars => SnapInv'
  BY NextSnap
<1>2. SnapInv => SnapshotOnce
  BY DEF SnapInv, DistinctBases, SnapshotOnce, MayChange
<1> QED
  BY <1>1, <1>2, InitSnap, Invariance, PTL DEF Spec
-----------------------------------------------------------------------------
(* The bound of the journal *)

Existing == {i \in Id : Exists(i)}

\* Until its record is written, the scan of a begin that holds catalog.lock stays true.
RoomLeft(a) == pc[a] = "persist" => Cardinality(Others(req[a].id)) < MaxRecords

RoomInv == /\ IsFiniteSet(Existing) /\ Cardinality(Existing) <= MaxRecords
           /\ \A a \in Agent : RoomLeft(a)

\* A step that begins nothing.
LEMMA SameRoom ==
  ASSUME RoomInv, NEW a \in Agent, KeepsOthers(a), \A i \in Id : Exists(i)' <=> Exists(i), RoomLeft(a)'
  PROVE  RoomInv'
<1>1. Existing' = Existing
  BY DEF Existing
<1>2. ASSUME NEW b \in Agent \ {a} PROVE RoomLeft(b)'
  <2>1. pc'[b] = pc[b] /\ req'[b] = req[b]
    BY DEF KeepsOthers
  <2>2. Others(req[b].id)' = Others(req'[b].id)
    BY <2>1 DEF Others
  <2> QED
    BY <2>1 DEF RoomInv, RoomLeft, Others
<1>3. ASSUME NEW b \in Agent PROVE RoomLeft(b)'
  <2>1. CASE b = a
    BY <2>1
  <2> QED
    BY <1>2, <2>1
<1> QED
  BY <1>1, <1>3 DEF RoomInv

\* A begin adds one record, and is alone under catalog.lock.
LEMMA BegunRoom ==
  ASSUME IInv, RoomInv, NEW a \in Agent, KeepsOthers(a), Begins(a), pc'[a] # "persist"
  PROVE  RoomInv'
<1> DEFINE x == req[a].id
<1>1. /\ TypeOK /\ x \in Id /\ record[x] = NoRecord /\ mem[a].state = "running"
      /\ pc[a] = "persist" /\ record' = [record EXCEPT ![x] = mem[a]]
  <2>1. mem[a] = Fresh(req[a].payload) /\ x \in Id /\ record[x] = NoRecord
    BY BeginFacts DEF Begins
  <2> QED
    BY <2>1 DEF Begins, Fresh, IInv
<1>2. Existing' = Existing \union {x} /\ x \notin Existing
  BY <1>1 DEF TypeOK, Existing, Exists, NoRecord
<1>3. Others(x) = Existing
  BY <1>1 DEF Others, Existing, Exists, NoRecord
<1>4. Cardinality(Existing) < MaxRecords /\ MaxRecords \in Nat
  BY <1>1, <1>3, MaxRecordsAssumption DEF RoomInv, RoomLeft
<1>5. IsFiniteSet(Existing) /\ Cardinality(Existing) \in Nat
  BY FS_CardinalityType DEF RoomInv
<1>6. IsFiniteSet(Existing \union {x}) /\ Cardinality(Existing \union {x}) = Cardinality(Existing) + 1
  BY <1>2, <1>5, FS_AddElement
<1>7. ASSUME NEW b \in Agent PROVE pc'[b] # "persist"
  <2>1. catalogLock = a /\ (pc[b] = "persist" => catalogLock = b)
    BY <1>1 DEF IInv, AgentInv, HoldsLocks
  <2> QED
    BY <1>1, <2>1 DEF KeepsOthers
<1> HIDE DEF x
<1> QED
  BY <1>2, <1>4, <1>5, <1>6, <1>7 DEF RoomInv, RoomLeft

LEMMA StepRoom ==
  ASSUME IInv, RoomInv, NEW a \in Agent, Arrive(a) \/ Step(a) \/ Crash(a)
  PROVE  RoomInv'
<1>1. TypeOK /\ KeepsOthers(a)
  BY StepFrame DEF IInv
<1>2. CASE record' = record
  <2>1. pc'[a] = "persist" => BeginAdmitted(a) /\ req' = req
    <3>1. CASE Arrive(a) \/ Crash(a) \/ StartExisting(a) \/ StartLock(a) \/ StartRecheck(a) \/ BeginLock(a)
      BY <1>1, <3>1 DEF Arrive, Receive, Crash, StartExisting, StartLock, StartRecheck, BeginLock,
         Return, Forget, Goto, TypeOK
    <3>2. CASE \/ BeginRefused(a) \/ BeginPersist(a) \/ BeginFailed(a) \/ ApplyRefused(a)
               \/ ApplyLaunch(a) \/ \E s \in Definite \union {"outcome_unknown"} : GitExit(a, s)
      BY <1>1, <3>2 DEF BeginRefused, BeginPersist, BeginFailed, ApplyRefused, ApplyLaunch, GitExit,
         Return, Forget, Goto, TypeOK
    <3>3. CASE \/ Load(a) \/ GetLock(a) \/ GetReread(a) \/ ReviewLock(a) \/ ReviewReread(a)
               \/ SaveLock(a) \/ Persist(a) \/ PersistFailed(a)
      BY <1>1, <3>3 DEF Load, GetLock, GetReread, ReviewLock, ReviewReread, SaveLock, Persist,
         PersistFailed, Return, Forget, Goto, TypeOK
    <3>4. CASE BeginAdmitted(a)
      BY <3>4 DEF BeginAdmitted
    <3> QED
      BY <3>1, <3>2, <3>3, <3>4 DEF Step, Progress, DiskFault
  <2>2. RoomLeft(a)'
    <3> SUFFICES ASSUME pc'[a] = "persist" PROVE RoomLeft(a)'
      BY DEF RoomLeft
    <3>1. BeginAdmitted(a) /\ req' = req /\ ~Exists(req[a].id)
      BY <1>1, <2>1 DEF BeginAdmitted, Goto, TypeOK
    <3>2. Cardinality(Others(req[a].id)) < MaxRecords
      BY <3>1 DEF BeginAdmitted, MayBegin, Exists
    <3>3. Others(req[a].id)' = Others(req[a].id)
      BY <1>2, <3>1 DEF Others, Exists
    <3> QED
      BY <3>2, <3>3 DEF RoomLeft
  <2>3. \A i \in Id : Exists(i)' <=> Exists(i)
    BY <1>2 DEF Exists
  <2> QED
    BY <1>1, <2>2, <2>3, SameRoom
<1>3. CASE record' # record
  <2>1. \/ /\ BeginPersist(a) \/ BeginFailed(a)
           /\ Begins(a)
        \/ /\ Persist(a) \/ PersistFailed(a)
           /\ Saves(a)
    BY <1>3 DEF Step, Progress, DiskFault, Begins, Saves, StartExisting, StartLock, StartRecheck,
       BeginLock, BeginRefused, BeginAdmitted, BeginPersist, BeginFailed, ApplyRefused, ApplyLaunch,
       GitExit, Load, GetLock, GetReread, ReviewLock, ReviewReread, SaveLock, Persist, PersistFailed,
       Arrive, Receive, Crash
  <2>2. pc'[a] # "persist"
    BY <1>1, <2>1 DEF BeginPersist, BeginFailed, Persist, PersistFailed, Return, Forget, Goto, TypeOK
  <2>3. CASE Begins(a)
    BY <1>1, <2>2, <2>3, BegunRoom
  <2>4. CASE Saves(a)
    <3>1. /\ req[a].id \in Id /\ record[req[a].id].state \in Unresolved
          /\ mem[a].state \in Successors(record[req[a].id].state)
          /\ record' = [record EXCEPT ![req[a].id] = mem[a]]
      BY <2>4, SaveFacts DEF Saves, SavePhases
    <3>2. mem[a].state # "none"
      BY <3>1 DEF Successors, Unresolved, Definite
    <3>3. \A i \in Id : Exists(i)' <=> Exists(i)
      BY <1>1, <3>1, <3>2 DEF TypeOK, Exists, Unresolved
    <3> QED
      BY <1>1, <2>2, <3>3, SameRoom DEF RoomLeft
  <2> QED
    BY <2>1, <2>3, <2>4
<1> QED
  BY <1>2, <1>3

LEMMA NextRoom == IInv /\ RoomInv /\ [Next]_vars => RoomInv'
<1> SUFFICES ASSUME IInv, RoomInv, [Next]_vars PROVE RoomInv'
  OBVIOUS
<1>1. ASSUME UNCHANGED <<record, pc, req>> PROVE RoomInv'
  BY <1>1 DEF RoomInv, Existing, Exists, RoomLeft, Others
<1>2. ASSUME NEW id \in Id, Git(id) PROVE RoomInv'
  BY <1>1, <1>2 DEF Git, GitEffect, OrphanExit
<1> QED
  BY <1>1, <1>2, StepRoom DEF Next, vars

LEMMA InitRoom == Init => RoomInv
<1> SUFFICES ASSUME Init PROVE RoomInv
  OBVIOUS
<1>1. Existing = {}
  BY DEF Init, Existing, Exists, NoRecord
<1>2. \A a \in Agent : RoomLeft(a)
  BY DEF Init, RoomLeft
<1> QED
  BY <1>1, <1>2, FS_EmptySet, MaxRecordsAssumption DEF RoomInv

\* The journal never holds more than MAX_RECORDS, whichever processes begin at once
\* (journal.rs begin scans and writes under catalog.lock).
THEOREM JournalStaysBounded == Spec => []JournalBounded
<1>1. IInv /\ RoomInv /\ [Next]_vars => RoomInv'
  BY NextRoom
<1>2. RoomInv => JournalBounded
  BY DEF RoomInv, JournalBounded, Existing
<1> QED
  BY <1>1, <1>2, InitRoom, Invariance, PTL DEF Spec

-----------------------------------------------------------------------------
(* Refusals *)

\* Only the comparison under the repository's lock gives a refusal that the desktop trusts.
LEMMA RefusalSteps ==
  ASSUME IInv, NEW a \in Agent, Arrive(a) \/ Step(a) \/ Crash(a),
         reply'[a] # reply[a], reply'[a].code \in Rejections
  PROVE  StartRecheck(a) /\ record[req[a].id].state = "none"
<1>1. TypeOK /\ \A i \in Id : record[i].state \notin Rejections
  BY DEF IInv, TypeOK, Record, States, Unresolved, Definite, Rejections
<1>2. pc[a] # "idle" => req[a].id \in Id /\ mem[a].state \notin Rejections
  BY AgentFacts DEF TypeOK, Record, States, Unresolved, Definite, Rejections
<1> USE DEF Return, TypeOK, Rejections
<1>3. CASE Arrive(a) \/ Crash(a) \/ StartExisting(a) \/ StartLock(a)
  BY <1>1, <1>2, <1>3 DEF Arrive, Receive, NoAnswer, Crash, StartExisting, StartLock
<1>4. CASE BeginLock(a) \/ BeginRefused(a) \/ BeginFailed(a)
  BY <1>1, <1>2, <1>4 DEF BeginLock, BeginRefused, BeginFailed
<1>8. CASE \/ BeginAdmitted(a) \/ BeginPersist(a) \/ ApplyRefused(a) \/ ApplyLaunch(a)
           \/ \E s \in Definite \union {"outcome_unknown"} : GitExit(a, s)
  BY <1>8 DEF BeginAdmitted, BeginPersist, ApplyRefused, ApplyLaunch, GitExit
<1>5. CASE Load(a) \/ GetLock(a) \/ GetReread(a) \/ ReviewLock(a) \/ ReviewReread(a)
  BY <1>1, <1>2, <1>5 DEF Load, GetLock, GetReread, ReviewLock, ReviewReread
<1>6. CASE SaveLock(a) \/ Persist(a) \/ PersistFailed(a)
  BY <1>1, <1>2, <1>6 DEF SaveLock, Persist, PersistFailed, SaveError
<1>7. CASE StartRecheck(a)
  BY <1>1, <1>2, <1>7 DEF StartRecheck
<1> QED
  BY <1>3, <1>4, <1>5, <1>6, <1>7, <1>8 DEF Step, Progress, DiskFault

LEMMA RefusalsHold == IInv /\ [Next]_vars => [RefusalStep]_vars
<1> SUFFICES ASSUME IInv, Next PROVE RefusalStep
  OBVIOUS
<1>1. ASSUME NEW a \in Agent, reply'[a] # reply[a], reply'[a].code \in Rejections
      PROVE  record'[req[a].id].payload # req[a].payload /\ run'[req[a].id].payload # req[a].payload
  <2>1. PICK b \in Agent : Arrive(b) \/ Step(b) \/ Crash(b)
    BY <1>1 DEF Next, Git, GitEffect, OrphanExit
  <2>2. b = a
    BY <1>1, <2>1, StepFrame DEF KeepsOthers
  <2>3. StartRecheck(a) /\ record[req[a].id].state = "none"
    BY <1>1, <2>1, <2>2, RefusalSteps
  <2>4. pc[a] = "recheck" /\ UNCHANGED <<record, run>>
    BY <2>3 DEF StartRecheck
  <2>5. req[a].id \in Id /\ req[a].payload \in Payload /\ IdInv(req[a].id)
    BY <2>4, AgentFacts DEF RequestFits, StartPhases
  <2> QED
    BY <2>3, <2>4, <2>5, NullAssumption DEF IdInv, NoRecord, NoRun
<1> QED
  BY <1>1 DEF RefusalStep

\* A refusal that the desktop takes for proof that nothing began leaves no record and no
\* command of the request (gitMutations.ts rejected_before_mutation; writes.rs start); and
\* no record is rewritten.
THEOREM RecordsStepForward == Spec => StepsForward
<1>1. Spec => RejectedBeforeBegin
  BY RefusalsHold, Invariance, PTL DEF Spec, RejectedBeforeBegin
<1> QED
  BY <1>1, RecordsForward DEF StepsForward
-----------------------------------------------------------------------------
(* The desktop's receipts *)


\* An answer and the record it is about.
Says(code, state) ==
  /\ code \in Definite \union {"reviewed_unknown"} => state = code
  /\ code = "outcome_unknown" => state \in {"outcome_unknown", "reviewed_unknown"}

ReplySays(a) ==
  reply[a].code \in States => reply[a].id \in Id /\ Says(reply[a].code, record[reply[a].id].state)

\* A request that the desktop may have posted.
Posted(q) ==
  /\ q.id \in Id /\ receipt[q.id] # "none"
  /\ \/ \E p \in Payload : \E s \in Snapshots(p) : q = StartRequest(q.id, p, s)
     \/ \E k \in {"get", "review"} : q = LookupRequest(k, q.id)

\* Where the start of an operation is: not sent yet, on its way, or being executed.
ToSend(i)    == phase = "send" /\ sent.kind = "start" /\ sent.id = i
OnTheWay(a, i) == inbox[a].kind = "start" /\ inbox[a].id = i
AtWork(a, i)   == pc[a] # "idle" /\ req[a].kind = "start" /\ req[a].id = i
Nowhere(i)   == ~ToSend(i) /\ \A a \in Agent : ~OnTheWay(a, i) /\ ~AtWork(a, i)

\* An operation is sent once, so its start is in one place.
StartedOnce(i) ==
  /\ ToSend(i) => \A a \in Agent : ~OnTheWay(a, i) /\ ~AtWork(a, i)
  /\ \A a \in Agent : OnTheWay(a, i) =>
       \A b \in Agent : ~AtWork(b, i) /\ (OnTheWay(b, i) => b = a)
  /\ \A a, b \in Agent : AtWork(a, i) /\ AtWork(b, i) => a = b

\* Neither begun nor ever going to be.
Dead(i) == ~Exists(i) /\ receipt[i] # "none" /\ Nowhere(i)

DesktopInv ==
  /\ phase # "idle" => Posted(sent)
  /\ \A a \in Agent : /\ inbox[a] # NoRequest => Posted(inbox[a])
                      /\ pc[a] # "idle" => receipt[req[a].id] # "none"
                      /\ reply[a].code \in Rejections => reply[a].id \in Id /\ Dead(reply[a].id)

ReceiptInv(i) ==
  /\ Exists(i) => receipt[i] # "none"
  /\ StartedOnce(i)
  /\ refusal[i] = "start" => Dead(i)
  /\ receipt[i] = "rejected" => refusal[i] \in {"start", "get"}
  /\ receipt[i] = "gone" => \/ refusal[i] \in {"start", "get"}
                            \/ record[i].state \in Definite \union {"reviewed_unknown"}

WInv ==
  /\ IInv /\ (\A a \in Agent : ReplySays(a))
  /\ WTypeOK /\ ReceiptTruth /\ DesktopInv
  /\ \A i \in Id : ReceiptInv(i)
-----------------------------------------------------------------------------
(* Answers *)

\* A state that is answered is the record's, or "running".
LEMMA AnswerStates ==
  ASSUME IInv, NEW a \in Agent, Arrive(a) \/ Step(a) \/ Crash(a),
         reply'[a] # reply[a], reply'[a].code \in States
  PROVE  /\ reply'[a].id \in Id
         /\ reply'[a].code = "running" \/ reply'[a].code = record'[reply'[a].id].state
<1>1. TypeOK /\ Errors \intersect States = {} /\ "none" \notin States
  BY DEF IInv, Errors, Rejections, States, Definite, Unresolved
<1>2. pc[a] # "idle" => req[a].id \in Id
  BY AgentFacts
<1> USE DEF Return, TypeOK
<1>3. CASE Arrive(a) \/ Crash(a)
  BY <1>1, <1>3 DEF Arrive, Receive, NoAnswer, Crash
<1>4. CASE StartExisting(a) \/ StartLock(a) \/ BeginLock(a) \/ BeginRefused(a) \/ BeginFailed(a)
  BY <1>1, <1>2, <1>4 DEF StartExisting, StartLock, BeginLock, BeginRefused, BeginFailed, Errors
<1>5. CASE StartRecheck(a)
  BY <1>1, <1>2, <1>5 DEF StartRecheck, Errors, Rejections
<1>6. CASE \/ BeginAdmitted(a) \/ BeginPersist(a) \/ ApplyRefused(a) \/ ApplyLaunch(a)
           \/ \E s \in Definite \union {"outcome_unknown"} : GitExit(a, s)
  BY <1>6 DEF BeginAdmitted, BeginPersist, ApplyRefused, ApplyLaunch, GitExit
<1>7. CASE Load(a) \/ GetLock(a) \/ GetReread(a) \/ ReviewLock(a) \/ ReviewReread(a)
  BY <1>1, <1>2, <1>7 DEF Load, GetLock, GetReread, ReviewLock, ReviewReread, Errors
<1>8. CASE SaveLock(a) \/ PersistFailed(a)
  BY <1>1, <1>2, <1>8 DEF SaveLock, PersistFailed, SaveError, Errors
<1>9. CASE Persist(a)
  BY <1>1, <1>2, <1>9 DEF Persist
<1> QED
  BY <1>3, <1>4, <1>5, <1>6, <1>7, <1>8, <1>9 DEF Step, Progress, DiskFault

\* What was said of a record stays true.
LEMMA SaysForward ==
  ASSUME NEW code, NEW s, Says(code, s), NEW t, t = s \/ t \in Successors(s)
  PROVE  Says(code, t)
BY DEF Says, Successors, Definite

LEMMA SaysOnward ==
  ASSUME IInv, [Next]_vars, NEW i \in Id, NEW code, Says(code, record[i].state)
  PROVE  Says(code, record'[i].state)
<1>1. record'[i] = record[i] \/ record'[i].state \in Successors(record[i].state)
  BY NextForward DEF ForwardStep, vars
<1> QED
  BY <1>1, SaysForward

LEMMA ReplySaysStep ==
  ASSUME IInv, [Next]_vars, NEW b \in Agent, ReplySays(b)
  PROVE  ReplySays(b)'
<1>1. CASE reply'[b] = reply[b]
  BY <1>1, SaysOnward DEF ReplySays
<1>2. CASE reply'[b] # reply[b]
  <2>1. PICK a \in Agent : Arrive(a) \/ Step(a) \/ Crash(a)
    BY <1>2 DEF Next, Git, GitEffect, OrphanExit, vars
  <2>2. b = a
    BY <1>2, <2>1, StepFrame DEF KeepsOthers
  <2> QED
    BY <1>2, <2>1, <2>2, AnswerStates DEF ReplySays, Says, Definite
<1> QED
  BY <1>1, <1>2
-----------------------------------------------------------------------------
(* Requests *)

\* A step may send a start, deliver it or end it, and never makes a second one.
Moves(i) ==
  /\ ToSend(i)' => ToSend(i)
  /\ \A a \in Agent : OnTheWay(a, i)' =>
       \/ OnTheWay(a, i)
       \/ ToSend(i) /\ ~ToSend(i)' /\ \A b \in Agent : OnTheWay(b, i)' => b = a
  /\ \A a \in Agent : AtWork(a, i)' => AtWork(a, i) \/ (OnTheWay(a, i) /\ ~OnTheWay(a, i)')

LEMMA MovesOnce == ASSUME NEW i, StartedOnce(i), Moves(i) PROVE StartedOnce(i)'
<1>1. ToSend(i)' => \A a \in Agent : ~OnTheWay(a, i)' /\ ~AtWork(a, i)'
  BY DEF StartedOnce, Moves
<1>2. ASSUME NEW a \in Agent, OnTheWay(a, i)', NEW b \in Agent
      PROVE  ~AtWork(b, i)' /\ (OnTheWay(b, i)' => b = a)
  BY <1>2 DEF StartedOnce, Moves
<1>3. ASSUME NEW a \in Agent, NEW b \in Agent, AtWork(a, i)', AtWork(b, i)' PROVE a = b
  BY <1>3 DEF StartedOnce, Moves
<1> QED
  BY <1>1, <1>2, <1>3 DEF StartedOnce

LEMMA MovesNowhere == ASSUME NEW i, Nowhere(i), Moves(i) PROVE Nowhere(i)'
BY DEF Nowhere, Moves

\* Nothing carries the start of an operation that has no receipt.
LEMMA NoReceiptNowhere ==
  ASSUME WInv, NEW i \in Id, receipt[i] = "none"
  PROVE  Nowhere(i)
BY DEF WInv, DesktopInv, Posted, Nowhere, ToSend, OnTheWay, AtWork, NoRequest

\* Only a process that carries its start begins an operation.
LEMMA BegunAtWork ==
  ASSUME IInv, [Next]_vars, NEW i \in Id, ~Exists(i), Exists(i)'
  PROVE  \E a \in Agent : AtWork(a, i)
<1>1. TypeOK /\ record' # record
  BY DEF IInv, Exists
<1>2. PICK a \in Agent : Begins(a) \/ Saves(a)
  BY <1>1, RecordSteps DEF vars
<1>3. req[a].id = i
  BY <1>1, <1>2 DEF Begins, Saves, Exists, TypeOK
<1>4. Begins(a)
  BY <1>2, <1>3, SaveFacts DEF Saves, SavePhases, Exists, Unresolved
<1> QED
  BY <1>3, <1>4, BeginFacts DEF Begins, AtWork

LEMMA VersionGrows ==
  ASSUME IInv, [Next]_vars, NEW r \in Repo
  PROVE  version[r] \in Nat /\ version'[r] \in Nat /\ version[r] <= version'[r]
<1>1. version \in [Repo -> Nat]
  BY DEF IInv, TypeOK
<1>2. version' = version \/ \E q : version' = [version EXCEPT ![q] = @ + 1]
  <2>1. ASSUME NEW a \in Agent, Step(a) PROVE version' = version
    BY <2>1 DEF Step, Progress, DiskFault, StartExisting, StartLock, StartRecheck, BeginLock,
       BeginRefused, BeginAdmitted, BeginPersist, BeginFailed, ApplyRefused, ApplyLaunch, GitExit,
       Load, GetLock, GetReread, ReviewLock, ReviewReread, SaveLock, Persist, PersistFailed
  <2>2. ASSUME NEW a \in Agent, Arrive(a) \/ Crash(a) PROVE version' = version
    BY <2>2 DEF Arrive, Receive, Crash
  <2>3. ASSUME NEW id \in Id, Git(id)
        PROVE  version' = version \/ \E q : version' = [version EXCEPT ![q] = @ + 1]
    BY <2>3 DEF Git, GitEffect, OrphanExit
  <2> QED
    BY <2>1, <2>2, <2>3 DEF Next, vars
<1> QED
  BY <1>1, <1>2

\* Receipts are never taken back.
Kept == \A i \in Id : receipt[i] # "none" => receipt'[i] # "none"

LEMMA PostedStays ==
  ASSUME IInv, [Next]_vars, Kept, NEW q, Posted(q)
  PROVE  Posted(q)'
<1>1. q.id \in Id /\ receipt'[q.id] # "none"
  BY DEF Posted, Kept
<1>2. ASSUME NEW p \in Payload, NEW s \in Snapshots(p) PROVE s \in Snapshots(p)'
  <2>1. RepoOf[p] \in Repo /\ s \in 0 .. version[RepoOf[p]]
    BY <1>2, RepoOfAssumption DEF Snapshots
  <2> QED
    BY <2>1, VersionGrows DEF Snapshots
<1> QED
  BY <1>1, <1>2 DEF Posted

LEMMA DeadStays ==
  ASSUME IInv, [Next]_vars, Kept, NEW i \in Id, Dead(i), Moves(i)
  PROVE  Dead(i)'
<1>1. ~Exists(i)'
  BY BegunAtWork DEF Dead, Nowhere
<1> QED
  BY <1>1, MovesNowhere DEF Dead, Kept

\* DesktopInv after a step, of requests and operations by name.
LEMMA DesktopAfter ==
  ASSUME \A q : phase' # "idle" /\ sent' = q => Posted(q)',
         \A a \in Agent : \A q : inbox'[a] = q /\ q # NoRequest => Posted(q)',
         \A a \in Agent : pc'[a] # "idle" => receipt'[req'[a].id] # "none",
         \A a \in Agent : \A i : reply'[a].code \in Rejections /\ reply'[a].id = i => i \in Id /\ Dead(i)'
  PROVE  DesktopInv'
<1>1. phase' # "idle" => Posted(sent)'
  BY DEF Posted
<1>2. \A a \in Agent : inbox'[a] # NoRequest => Posted(inbox[a])'
  BY DEF Posted
<1>3. \A a \in Agent : reply'[a].code \in Rejections => reply'[a].id \in Id /\ Dead(reply[a].id)'
  BY DEF Dead, Nowhere, ToSend, OnTheWay, AtWork, Exists
<1> QED
  BY <1>1, <1>2, <1>3 DEF DesktopInv
-----------------------------------------------------------------------------
(* Any step *)

\* A step of the composition, as far as the operations are concerned.
WStep ==
  /\ [Next]_vars /\ WTypeOK' /\ Kept
  /\ \A i \in Id : receipt[i] # "none" => Moves(i)

\* What the journal contributes.
LEMMA Carried ==
  ASSUME WInv, WStep
  PROVE  /\ IInv' /\ \A a \in Agent : ReplySays(a)'
         /\ \A q : Posted(q) => Posted(q)'
         /\ \A i \in Id : Dead(i) => Dead(i)'
         /\ \A i \in Id : Exists(i)' => receipt'[i] # "none"
<1>1. IInv' /\ \A a \in Agent : ReplySays(a)'
  BY NextInv, ReplySaysStep DEF WInv, WStep
<1>2. \A q : Posted(q) => Posted(q)'
  BY PostedStays DEF WInv, WStep
<1>3. \A i \in Id : Dead(i) => Dead(i)'
  BY DeadStays DEF WInv, WStep, Dead
<1>4. ASSUME NEW i \in Id, Exists(i)' PROVE receipt'[i] # "none"
  <2>1. CASE Exists(i)
    BY <2>1 DEF WInv, WStep, ReceiptInv, Kept
  <2>2. CASE ~Exists(i)
    BY <1>4, <2>2, BegunAtWork, NoReceiptNowhere DEF WInv, WStep, Kept, Nowhere
  <2> QED
    BY <2>1, <2>2
<1> QED
  BY <1>1, <1>2, <1>3, <1>4

\* A step that changes no receipt.
LEMMA SameReceipts ==
  ASSUME WInv, WStep, UNCHANGED <<receipt, refusal>>, DesktopInv'
  PROVE  WInv'
<1>1. \A i \in Id : receipt[i] # "none" => Moves(i)
  BY DEF WStep
<1>2. ReceiptTruth'
  <2>1. ASSUME NEW i \in Id PROVE /\ receipt[i] \in Definite \union {"reviewed_unknown", "outcome_unknown"}
                                     => Says(receipt[i], record'[i].state)
    BY SaysOnward DEF WInv, WStep, ReceiptTruth, Says, Definite
  <2> QED
    BY <2>1 DEF ReceiptTruth, Says, Definite
<1>3. ASSUME NEW i \in Id PROVE ReceiptInv(i)'
  <2>1. StartedOnce(i)'
    <3>1. CASE receipt[i] # "none"
      BY <1>1, <3>1, MovesOnce DEF WInv, ReceiptInv
    <3>2. CASE receipt[i] = "none"
      BY <3>2 DEF DesktopInv, Posted, StartedOnce, ToSend, OnTheWay, AtWork, NoRequest
    <3> QED
      BY <3>1, <3>2
  <2>2. record[i].state \in Definite \union {"reviewed_unknown"} => record'[i].state = record[i].state
    BY SaysOnward DEF WInv, WStep, Says, Definite
  <2> QED
    BY <2>1, <2>2, Carried DEF WInv, ReceiptInv
<1> QED
  BY <1>2, <1>3, Carried DEF WInv, WStep
-----------------------------------------------------------------------------
(* Steps of the agents *)

\* A process keeps the request it answers; its start may become a lookup.
LEMMA RequestKept ==
  ASSUME IInv, NEW a \in Agent, Step(a) \/ Crash(a), pc'[a] # "idle"
  PROVE  pc[a] # "idle" /\ req'[a].id = req[a].id /\ (req'[a].kind = "start" => req[a].kind = "start")
<1>1. TypeOK
  BY DEF IInv
<1>2. CASE Crash(a) \/ Persist(a) \/ PersistFailed(a) \/ BeginFailed(a) \/ BeginRefused(a)
  BY <1>1, <1>2 DEF Crash, Persist, PersistFailed, BeginFailed, BeginRefused, Return, Forget, TypeOK
<1>3. CASE StartExisting(a)
  <2>1. req'[a] = req[a] \/ req'[a] = [req[a] EXCEPT !.kind = "get"]
    BY <1>1, <1>3 DEF StartExisting, Return, Forget, TypeOK
  <2>2. req[a] \in Request /\ pc[a] # "idle"
    BY <1>1, <1>3 DEF TypeOK, StartExisting
  <2> QED
    BY <2>1, <2>2 DEF Request
<1>4. CASE \/ StartLock(a) \/ StartRecheck(a) \/ BeginLock(a) \/ BeginAdmitted(a) \/ BeginPersist(a)
           \/ ApplyRefused(a) \/ ApplyLaunch(a)
           \/ \E s \in Definite \union {"outcome_unknown"} : GitExit(a, s)
  BY <1>1, <1>4 DEF StartLock, StartRecheck, BeginLock, BeginAdmitted, BeginPersist, ApplyRefused,
     ApplyLaunch, GitExit, Return, Forget, TypeOK
<1>5. CASE Load(a) \/ GetLock(a) \/ GetReread(a) \/ ReviewLock(a) \/ ReviewReread(a) \/ SaveLock(a)
  BY <1>1, <1>5 DEF Load, GetLock, GetReread, ReviewLock, ReviewReread, SaveLock, Return, Forget, TypeOK
<1> QED
  BY <1>2, <1>3, <1>4, <1>5 DEF Step, Progress, DiskFault

\* The start that is refused was the only one.
LEMMA RefusedDead ==
  ASSUME WInv, NEW a \in Agent, Step(a) \/ Crash(a), Kept, UNCHANGED <<phase, sent>>,
         \A b \in Agent : inbox'[b] \in {inbox[b], NoRequest},
         reply'[a] # reply[a], reply'[a].code \in Rejections
  PROVE  \A i : reply'[a].id = i => i \in Id /\ Dead(i)'
<1>0. PICK i : i = req[a].id
  OBVIOUS
<1>1. IInv /\ TypeOK /\ KeepsOthers(a) /\ StartRecheck(a) /\ record[i].state = "none"
  <2>1. IInv /\ TypeOK
    BY DEF WInv, IInv
  <2> QED
    BY <1>0, <2>1, StepFrame, RefusalSteps
<1>2. /\ pc[a] = "recheck" /\ i \in Id /\ req[a].kind = "start" /\ receipt[i] # "none"
  BY <1>0, <1>1, AgentFacts DEF StartRecheck, RequestFits, StartPhases, WInv, DesktopInv
<1>3. /\ pc'[a] = "idle" /\ reply'[a].id = i /\ record' = record
  BY <1>0, <1>1 DEF StartRecheck, Return, Forget, TypeOK
<1>4. AtWork(a, i) /\ StartedOnce(i)
  BY <1>0, <1>2 DEF AtWork, WInv, ReceiptInv
<1>5. Nowhere(i)'
  <2>1. ~ToSend(i)'
    BY <1>4 DEF StartedOnce, ToSend
  <2>2. ASSUME NEW b \in Agent PROVE ~OnTheWay(b, i)' /\ ~AtWork(b, i)'
    <3>1. ~OnTheWay(b, i)'
      <4>1. ~OnTheWay(b, i)
        BY <1>4 DEF StartedOnce
      <4> QED
        BY <4>1 DEF OnTheWay, NoRequest
    <3>2. ~AtWork(b, i)'
      <4>1. CASE b = a
        BY <1>3, <4>1 DEF AtWork
      <4>2. CASE b # a
        BY <1>1, <1>4, <4>2 DEF KeepsOthers, AtWork, StartedOnce
      <4> QED
        BY <4>1, <4>2
    <3> QED
      BY <3>1, <3>2
  <2> QED
    BY <2>1, <2>2 DEF Nowhere
<1>6. ~Exists(i)' /\ receipt'[i] # "none"
  BY <1>1, <1>2, <1>3 DEF Exists, Kept
<1> QED
  BY <1>2, <1>3, <1>5, <1>6 DEF Dead

\* A process answers, or dies; the desktop does not notice yet.
LEMMA AgentStep ==
  ASSUME WInv, NEW a \in Agent, Step(a) \/ Crash(a), UNCHANGED desktopVars, WTypeOK',
         \A b \in Agent : inbox'[b] \in {inbox[b], NoRequest}
  PROVE  WInv'
<1>1. IInv /\ [Next]_vars /\ KeepsOthers(a) /\ Kept
  BY StepFrame DEF WInv, Next, Kept, desktopVars
<1>2. ASSUME NEW i \in Id PROVE Moves(i)
  <2>1. ToSend(i)' => ToSend(i)
    BY DEF desktopVars, ToSend
  <2>2. \A b \in Agent : OnTheWay(b, i)' => OnTheWay(b, i)
    BY DEF OnTheWay, NoRequest
  <2>3. \A b \in Agent : AtWork(b, i)' => AtWork(b, i)
    BY <1>1, RequestKept DEF AtWork, KeepsOthers
  <2> QED
    BY <2>1, <2>2, <2>3 DEF Moves
<1>3. WStep
  BY <1>1, <1>2 DEF WStep
<1>4. \A q : phase' # "idle" /\ sent' = q => Posted(q)'
  <2>1. phase' = phase /\ sent' = sent
    BY DEF desktopVars
  <2> QED
    BY <1>3, <2>1, Carried DEF WInv, DesktopInv
<1>5. ASSUME NEW b \in Agent
      PROVE  /\ \A q : inbox'[b] = q /\ q # NoRequest => Posted(q)'
             /\ pc'[b] # "idle" => receipt'[req'[b].id] # "none"
             /\ \A i : reply'[b].code \in Rejections /\ reply'[b].id = i => i \in Id /\ Dead(i)'
  <2>1. \A q : inbox'[b] = q /\ q # NoRequest => Posted(q)'
    BY <1>3, Carried DEF WInv, DesktopInv
  <2>2. pc'[b] # "idle" => receipt'[req'[b].id] # "none"
    BY <1>1, RequestKept DEF WInv, DesktopInv, KeepsOthers, desktopVars
  <2>3. CASE reply'[b] = reply[b]
    BY <1>3, <2>1, <2>2, <2>3, Carried DEF WInv, DesktopInv
  <2>4. CASE reply'[b] # reply[b]
    <3>1. b = a
      BY <1>1, <2>4 DEF KeepsOthers
    <3> QED
      BY <1>1, <2>1, <2>2, <2>4, <3>1, RefusedDead DEF desktopVars
  <2> QED
    BY <2>3, <2>4
<1>6. DesktopInv'
  BY <1>4, <1>5, DesktopAfter
<1> QED
  BY <1>3, <1>6, SameReceipts DEF desktopVars

LEMMA DeliverInv ==
  ASSUME WInv, NEW a \in Agent, Deliver(a)
  PROVE  WInv'
<1> DEFINE q == inbox[a]
<1>1. IInv /\ TypeOK /\ WTypeOK /\ Posted(q) /\ q # NoRequest
  BY DEF WInv, IInv, DesktopInv, Deliver
<1>2. /\ pc'[a] # "idle" /\ req' = [req EXCEPT ![a] = q] /\ reply' = [reply EXCEPT ![a] = NoAnswer]
      /\ inbox' = [inbox EXCEPT ![a] = NoRequest] /\ UNCHANGED <<desktopVars, proc, faults>>
  BY <1>1 DEF Deliver, Receive, Goto, TypeOK
<1>3. Arrive(a)
  BY <1>1 DEF Posted, Arrive, Deliver
<1>4. [Next]_vars /\ KeepsOthers(a) /\ Kept
  BY <1>1, <1>2, <1>3, StepFrame DEF Next, Kept, desktopVars
<1>5. NoRequest \in Request
  BY DEF Request, NoRequest
<1>6. WTypeOK'
  BY <1>1, <1>2, <1>5 DEF WTypeOK, desktopVars
<1>7. \A b \in Agent : inbox'[b] = IF b = a THEN NoRequest ELSE inbox[b]
  BY <1>1, <1>2 DEF WTypeOK
<1>8. req'[a] = q /\ reply'[a] = NoAnswer
  BY <1>1, <1>2 DEF TypeOK
<1> HIDE DEF q
<1>9. ASSUME NEW i \in Id PROVE Moves(i)
  <2>1. ToSend(i)' => ToSend(i)
    BY <1>2 DEF desktopVars, ToSend
  <2>2. \A b \in Agent : OnTheWay(b, i)' => OnTheWay(b, i)
    BY <1>7 DEF OnTheWay, NoRequest
  <2>3. \A b \in Agent : AtWork(b, i)' => AtWork(b, i) \/ (OnTheWay(b, i) /\ ~OnTheWay(b, i)')
    <3>1. ~OnTheWay(a, i)'
      BY <1>7 DEF OnTheWay, NoRequest
    <3>2. AtWork(a, i)' => OnTheWay(a, i)
      BY <1>8 DEF AtWork, OnTheWay, q
    <3> QED
      BY <1>4, <3>1, <3>2 DEF AtWork, KeepsOthers
  <2> QED
    BY <2>1, <2>2, <2>3 DEF Moves
<1>10. WStep
  BY <1>4, <1>6, <1>9 DEF WStep
<1>11. \A r : phase' # "idle" /\ sent' = r => Posted(r)'
  <2>1. phase' = phase /\ sent' = sent
    BY <1>2 DEF desktopVars
  <2> QED
    BY <1>10, <2>1, Carried DEF WInv, DesktopInv
<1>12. ASSUME NEW b \in Agent
       PROVE  /\ \A r : inbox'[b] = r /\ r # NoRequest => Posted(r)'
              /\ pc'[b] # "idle" => receipt'[req'[b].id] # "none"
              /\ \A i : reply'[b].code \in Rejections /\ reply'[b].id = i => i \in Id /\ Dead(i)'
  <2>1. \A r : inbox'[b] = r /\ r # NoRequest => Posted(r)'
    BY <1>7, <1>10, Carried DEF WInv, DesktopInv
  <2>2. CASE b = a
    <3>1. receipt'[req'[b].id] # "none"
      BY <1>1, <1>2, <1>8, <2>2 DEF Posted, desktopVars
    <3> QED
      BY <1>8, <2>1, <2>2, <3>1 DEF NoAnswer, Rejections
  <2>3. CASE b # a
    <3>1. pc'[b] = pc[b] /\ req'[b] = req[b] /\ reply'[b] = reply[b] /\ receipt' = receipt
      BY <1>2, <1>4, <2>3 DEF KeepsOthers, desktopVars
    <3> QED
      BY <1>10, <2>1, <3>1, Carried DEF WInv, DesktopInv
  <2> QED
    BY <2>2, <2>3
<1>13. DesktopInv'
  BY <1>11, <1>12, DesktopAfter
<1> QED
  BY <1>2, <1>10, <1>13, SameReceipts DEF desktopVars

LEMMA GitWorksInv ==
  ASSUME WInv, NEW id \in Id, GitWorks(id)
  PROVE  WInv'
<1>1. /\ [Next]_vars /\ UNCHANGED <<pc, req, reply>> /\ UNCHANGED <<desktopVars, wireVars, faults>>
  BY DEF GitWorks, Git, GitEffect, OrphanExit, Next
<1>2. WStep
  <2>1. WTypeOK'
    BY <1>1 DEF WInv, WTypeOK, desktopVars, wireVars
  <2>2. \A i \in Id : Moves(i)
    BY <1>1 DEF Moves, ToSend, OnTheWay, AtWork, desktopVars, wireVars
  <2> QED
    BY <1>1, <2>1, <2>2 DEF WStep, Kept, desktopVars
<1>3. DesktopInv'
  <2>1. \A q : phase' # "idle" /\ sent' = q => Posted(q)'
    BY <1>1, <1>2, Carried DEF WInv, DesktopInv, desktopVars
  <2>2. ASSUME NEW b \in Agent
        PROVE  /\ \A q : inbox'[b] = q /\ q # NoRequest => Posted(q)'
               /\ pc'[b] # "idle" => receipt'[req'[b].id] # "none"
               /\ \A i : reply'[b].code \in Rejections /\ reply'[b].id = i => i \in Id /\ Dead(i)'
    <3>1. /\ inbox'[b] = inbox[b] /\ pc'[b] = pc[b] /\ req'[b] = req[b] /\ reply'[b] = reply[b]
          /\ receipt' = receipt
      BY <1>1 DEF desktopVars, wireVars
    <3> QED
      BY <1>2, <3>1, Carried DEF WInv, DesktopInv
  <2> QED
    BY <2>1, <2>2, DesktopAfter
<1> QED
  BY <1>1, <1>2, <1>3, SameReceipts DEF desktopVars
-----------------------------------------------------------------------------
(* Steps of the desktop *)

\* A step that leaves the agents' processes alone.
LEMMA DesktopStep ==
  ASSUME WInv, UNCHANGED vars, WTypeOK', Kept, \A i \in Id : receipt[i] # "none" => Moves(i),
         \A q : phase' # "idle" /\ sent' = q => Posted(q) \/ Posted(q)',
         \A a \in Agent : \A q : inbox'[a] = q => q \in {inbox[a], NoRequest} \/ Posted(q)
  PROVE  WStep /\ DesktopInv'
<1>1. WStep
  BY DEF WStep
<1>2. /\ \A q : Posted(q) => Posted(q)'
      /\ \A i \in Id : Dead(i) => Dead(i)'
  BY <1>1, Carried
<1>3. \A q : phase' # "idle" /\ sent' = q => Posted(q)'
  BY <1>2
<1>4. ASSUME NEW a \in Agent
      PROVE  /\ \A q : inbox'[a] = q /\ q # NoRequest => Posted(q)'
             /\ pc'[a] # "idle" => receipt'[req'[a].id] # "none"
             /\ \A i : reply'[a].code \in Rejections /\ reply'[a].id = i => i \in Id /\ Dead(i)'
  <2>1. \A q : inbox'[a] = q /\ q # NoRequest => Posted(q)'
    BY <1>2 DEF WInv, DesktopInv
  <2>2. pc'[a] = pc[a] /\ req'[a] = req[a] /\ reply'[a] = reply[a]
    BY DEF vars
  <2>3. pc'[a] # "idle" => receipt'[req'[a].id] # "none"
    BY <2>2, AgentFacts DEF WInv, DesktopInv, Kept
  <2>4. \A i : reply'[a].code \in Rejections /\ reply'[a].id = i => i \in Id /\ Dead(i)'
    BY <1>2, <2>2 DEF WInv, DesktopInv
  <2> QED
    BY <2>1, <2>3, <2>4
<1> QED
  BY <1>1, <1>3, <1>4, DesktopAfter

\* Where the starts are when the processes do not move.
LEMMA StillMoves ==
  ASSUME UNCHANGED vars, NEW i, ToSend(i)' => ToSend(i),
         \A a \in Agent : inbox'[a] \in {inbox[a], NoRequest}
  PROVE  Moves(i)
BY DEF Moves, OnTheWay, AtWork, NoRequest, vars

LEMMA RequestTypes ==
  ASSUME NEW id \in Id
  PROVE  /\ \A p \in Payload, s \in Nat : StartRequest(id, p, s) \in Request
         /\ \A k \in {"get", "review"} : LookupRequest(k, id) \in Request
         /\ NoRequest \in Request
BY DEF StartRequest, LookupRequest, NoRequest, Request

\* The session or its processes, and no request.
LEMMA QuietDesktop ==
  ASSUME WInv, UNCHANGED <<vars, receipt, refusal>>, WTypeOK',
         (phase' = phase /\ sent' = sent) \/ phase' = "idle",
         \A a \in Agent : inbox'[a] \in {inbox[a], NoRequest}
  PROVE  WInv'
<1>1. Kept /\ \A i \in Id : Moves(i)
  BY StillMoves DEF Kept, ToSend
<1>2. \A q : phase' # "idle" /\ sent' = q => Posted(q)
  BY DEF WInv, DesktopInv
<1>3. WStep /\ DesktopInv'
  BY <1>1, <1>2, DesktopStep
<1> QED
  BY <1>3, SameReceipts

LEMMA CloseLaneTypes ==
  ASSUME WInv, lane # Nobody, CloseLane, UNCHANGED <<vars, receipt, refusal>>, faults' \in 0 .. MaxFaults
  PROVE  WTypeOK' /\ phase' = "idle" /\ \A a \in Agent : inbox'[a] \in {inbox[a], NoRequest}
<1>1. WTypeOK /\ lane \in Agent /\ NoRequest \in Request
  BY DEF WInv, WTypeOK, NoRequest, Request
<1>2. proc' \in [Agent -> {"off", "on", "eof"}]
  BY <1>1 DEF WTypeOK, CloseLane
<1>3. inbox' \in [Agent -> Request] /\ \A a \in Agent : inbox'[a] \in {inbox[a], NoRequest}
  BY <1>1 DEF WTypeOK, CloseLane
<1> QED
  BY <1>1, <1>2, <1>3 DEF WTypeOK, CloseLane, Idle

LEMMA FaultType == WTypeOK /\ Fault => faults' \in 0 .. MaxFaults
BY MaxFaultsAssumption DEF WTypeOK, Fault

LEMMA SessionInv ==
  ASSUME WInv, \/ \E a \in Agent : Connect(a) \/ AgentExits(a)
               \/ Disconnect \/ LaneDied \/ AnswerDropped \/ AnswerMisread \/ Rest
  PROVE  WInv'
<1>1. WTypeOK
  BY DEF WInv
<1>2. ASSUME NEW a \in Agent, Connect(a) \/ AgentExits(a) PROVE WInv'
  <2>1. WTypeOK' /\ UNCHANGED <<vars, receipt, refusal, inbox, phase, sent>>
    BY <1>1, <1>2 DEF Connect, AgentExits, WTypeOK, desktopVars
  <2> QED
    BY <2>1, QuietDesktop
<1>3. CASE Disconnect \/ LaneDied
  <2>1. lane # Nobody /\ CloseLane /\ UNCHANGED <<vars, receipt, refusal>> /\ faults' \in 0 .. MaxFaults
    BY <1>1, <1>3, FaultType DEF Disconnect, LaneDied, WTypeOK
  <2> QED
    BY <2>1, CloseLaneTypes, QuietDesktop
<1>4. CASE AnswerDropped
  <2>1. lane # Nobody /\ UNCHANGED <<vars, receipt, refusal>> /\ faults' \in 0 .. MaxFaults
    BY <1>1, <1>4, FaultType DEF AnswerDropped, AnswerReady
  <2>2. CASE CloseLane
    BY <2>1, <2>2, CloseLaneTypes, QuietDesktop
  <2>3. CASE Idle /\ UNCHANGED <<lane, wireVars>>
    <3>1. WTypeOK' /\ phase' = "idle" /\ inbox' = inbox
      BY <1>1, <2>1, <2>3 DEF WTypeOK, Idle, wireVars, NoRequest, Request
    <3> QED
      BY <2>1, <3>1, QuietDesktop
  <2> QED
    BY <1>4, <2>2, <2>3 DEF AnswerDropped
<1>5. CASE Rest
  <2>1. WTypeOK' /\ UNCHANGED <<vars, receipt, refusal, inbox, phase, sent>>
    BY <1>1, <1>5 DEF Rest, wvars, desktopVars, wireVars, WTypeOK
  <2> QED
    BY <2>1, QuietDesktop
<1>6. CASE AnswerMisread
  <2>1. UNCHANGED <<vars, receipt, refusal>> /\ faults' \in 0 .. MaxFaults
    BY <1>1, <1>6, FaultType DEF AnswerMisread
  <2>2. WTypeOK' /\ phase' = "idle" /\ inbox' = inbox
    BY <1>1, <1>6, <2>1 DEF AnswerMisread, WTypeOK, Idle, wireVars, NoRequest, Request
  <2> QED
    BY <2>1, <2>2, QuietDesktop
<1> QED
  BY <1>2, <1>3, <1>4, <1>5, <1>6

LEMMA AskInv ==
  ASSUME WInv, NEW id \in Id, Lookup(id) \/ ReviewWrite(id)
  PROVE  WInv'
<1>1. PICK k \in {"get", "review"} : Ask(LookupRequest(k, id))
  BY DEF Lookup, ReviewWrite
<1>2. receipt[id] # "none" /\ UNCHANGED <<vars, receipt, lane, refusal, wireVars, faults>>
  BY DEF Lookup, ReviewWrite
<1>3. \A q : sent' = q => Posted(q)
  BY <1>1, <1>2 DEF Ask, Posted, LookupRequest
<1>4. WTypeOK'
  BY <1>1, <1>2, RequestTypes DEF WInv, WTypeOK, Ask, wireVars
<1>5. Kept /\ \A i \in Id : Moves(i)
  <2>1. \A i \in Id : ~ToSend(i)'
    BY <1>1 DEF Ask, LookupRequest, ToSend
  <2> QED
    BY <1>2, <2>1, StillMoves DEF Kept, wireVars
<1>6. WStep /\ DesktopInv'
  BY <1>2, <1>3, <1>4, <1>5, DesktopStep DEF wireVars
<1> QED
  BY <1>2, <1>6, SameReceipts

LEMMA SendInv == ASSUME WInv, Send PROVE WInv'
<1>1. /\ phase = "send" /\ lane \in Agent /\ phase' = "wait" /\ sent' = sent
      /\ inbox' = [inbox EXCEPT ![lane] = sent]
      /\ UNCHANGED <<vars, receipt, lane, refusal, proc, faults>>
  BY DEF Send, WInv, WTypeOK
<1>2. Posted(sent) /\ WTypeOK
  BY <1>1 DEF WInv, DesktopInv
<1>3. WTypeOK'
  BY <1>1, <1>2 DEF WTypeOK
<1>4. \A a \in Agent : inbox'[a] = IF a = lane THEN sent ELSE inbox[a]
  BY <1>1, <1>2 DEF WTypeOK
<1>5. ASSUME NEW i \in Id PROVE Moves(i)
  <2>1. ~ToSend(i)' /\ \A a \in Agent : AtWork(a, i)' => AtWork(a, i)
    BY <1>1 DEF ToSend, AtWork, vars
  <2>2. CASE ToSend(i)
    <3>1. StartedOnce(i)
      BY DEF WInv, ReceiptInv
    <3>2. \A a \in Agent : OnTheWay(a, i)' => a = lane
      BY <1>4, <2>2, <3>1 DEF StartedOnce, OnTheWay
    <3> QED
      BY <2>1, <2>2, <3>2 DEF Moves
  <2>3. CASE ~ToSend(i)
    <3>1. \A a \in Agent : OnTheWay(a, i)' => OnTheWay(a, i)
      BY <1>1, <1>4, <2>3 DEF OnTheWay, ToSend
    <3> QED
      BY <2>1, <3>1 DEF Moves
  <2> QED
    BY <2>2, <2>3
<1>6. WStep /\ DesktopInv'
  BY <1>1, <1>2, <1>3, <1>4, <1>5, DesktopStep DEF Kept
<1> QED
  BY <1>1, <1>6, SameReceipts

\* One receipt changes.
LEMMA OneReceipt ==
  ASSUME WInv, WStep, DesktopInv', UNCHANGED vars, NEW id \in Id, NEW new, NEW how,
         receipt' = [receipt EXCEPT ![id] = new], refusal' = [refusal EXCEPT ![id] = how],
         new # "none", Says(new, record[id].state), StartedOnce(id)',
         how = "start" => Dead(id), new = "rejected" => how \in {"start", "get"},
         new = "gone" => how \in {"start", "get"} \/ record[id].state \in Definite \union {"reviewed_unknown"}
  PROVE  WInv'
<1>1. /\ receipt'[id] = new /\ refusal'[id] = how /\ record' = record
      /\ \A i \in Id \ {id} : receipt'[i] = receipt[i] /\ refusal'[i] = refusal[i]
  BY DEF WInv, WTypeOK, vars
<1>2. ReceiptTruth'
  BY <1>1 DEF WInv, ReceiptTruth, Says
<1>3. ASSUME NEW i \in Id \ {id} PROVE ReceiptInv(i)'
  <2>1. StartedOnce(i)'
    <3>1. CASE receipt[i] # "none"
      BY <3>1, MovesOnce DEF WInv, WStep, ReceiptInv
    <3>2. CASE receipt[i] = "none"
      BY <1>1, <3>2 DEF DesktopInv, Posted, StartedOnce, ToSend, OnTheWay, AtWork, NoRequest
    <3> QED
      BY <3>1, <3>2
  <2> QED
    BY <1>1, <2>1, Carried DEF WInv, ReceiptInv
<1>4. ReceiptInv(id)'
  BY <1>1, Carried DEF WInv, ReceiptInv
<1> QED
  BY <1>2, <1>3, <1>4, Carried DEF WInv, WStep
\* A new operation: nothing carries its start yet.
LEMMA StartInv ==
  ASSUME WInv, NEW id \in Id, NEW p \in Payload, NEW s \in Snapshots(p), StartWrite(id, p, s)
  PROVE  WInv'
<1> DEFINE q == StartRequest(id, p, s)
<1>1. /\ receipt[id] = "none" /\ receipt' = [receipt EXCEPT ![id] = "pending"] /\ refusal' = refusal
      /\ phase' = "send" /\ sent' = q /\ UNCHANGED <<vars, lane, refusal, wireVars, faults>>
  BY DEF StartWrite, Ask
<1>2. WTypeOK /\ IInv /\ Nowhere(id)
  BY <1>1, NoReceiptNowhere DEF WInv
<1>3. q.id = id /\ q \in Request
  <2>1. RepoOf[p] \in Repo /\ version[RepoOf[p]] \in Nat
    BY <1>2, RepoOfAssumption, VersionType
  <2>2. s \in Nat
    BY <2>1 DEF Snapshots
  <2> QED
    BY <2>2, RequestTypes DEF StartRequest
<1>4. /\ WTypeOK' /\ Kept /\ receipt'[id] = "pending"
      /\ \A i \in Id \ {id} : receipt'[i] = receipt[i]
  <2>1. receipt' \in [Id -> Receipts]
    BY <1>1, <1>2 DEF WTypeOK, Receipts, Open
  <2>2. WTypeOK'
    BY <1>1, <1>2, <1>3, <2>1 DEF WTypeOK, wireVars
  <2>3. receipt'[id] = "pending" /\ \A i \in Id \ {id} : receipt'[i] = receipt[i]
    BY <1>1, <1>2 DEF WTypeOK
  <2> QED
    BY <2>2, <2>3 DEF Kept
<1>5. \A r : sent' = r => Posted(r)'
  <2>1. s \in Snapshots(p)'
    BY <1>1 DEF Snapshots, vars
  <2>2. q = StartRequest(q.id, p, s) /\ q.id \in Id /\ receipt'[q.id] # "none"
    BY <1>3, <1>4
  <2> QED
    BY <1>1, <2>1, <2>2 DEF Posted
<1>6. ASSUME NEW i \in Id, receipt[i] # "none" PROVE Moves(i)
  <2>1. ~ToSend(i)'
    BY <1>1, <1>3, <1>6 DEF ToSend
  <2> QED
    BY <1>1, <2>1, StillMoves DEF wireVars
<1>7. StartedOnce(id)'
  <2>1. \A a \in Agent : ~OnTheWay(a, id)' /\ ~AtWork(a, id)'
    BY <1>1, <1>2 DEF Nowhere, OnTheWay, AtWork, vars, wireVars
  <2> QED
    BY <2>1 DEF StartedOnce
<1> HIDE DEF q
<1>8. WStep /\ DesktopInv'
  BY <1>1, <1>4, <1>5, <1>6, DesktopStep DEF wireVars
<1>9. refusal' = [refusal EXCEPT ![id] = refusal[id]]
  BY <1>1, <1>2 DEF WTypeOK
<1>10. refusal[id] = "start" => Dead(id)
  BY DEF WInv, ReceiptInv
<1> QED
  BY <1>1, <1>7, <1>8, <1>9, <1>10, OneReceipt DEF Says, Definite

\* A receipt changes and no request does.
LEMMA ReceiptStep ==
  ASSUME WInv, UNCHANGED vars, WTypeOK', NEW id \in Id, NEW new, NEW how,
         (phase' = phase /\ sent' = sent) \/ phase' = "idle", UNCHANGED inbox,
         receipt' = [receipt EXCEPT ![id] = new], refusal' = [refusal EXCEPT ![id] = how],
         new # "none", Says(new, record[id].state),
         how = "start" => Dead(id), new = "rejected" => how \in {"start", "get"},
         new = "gone" => how \in {"start", "get"} \/ record[id].state \in Definite \union {"reviewed_unknown"}
  PROVE  WInv'
<1>1. Kept
  BY DEF Kept, WInv, WTypeOK
<1>2. \A i \in Id : Moves(i)
  BY StillMoves DEF ToSend
<1>3. \A q : phase' # "idle" /\ sent' = q => Posted(q)
  BY DEF WInv, DesktopInv
<1>4. WStep /\ DesktopInv'
  BY <1>1, <1>2, <1>3, DesktopStep
<1>5. StartedOnce(id)'
  BY <1>2, MovesOnce DEF WInv, ReceiptInv
<1> QED
  BY <1>4, <1>5, OneReceipt

LEMMA UnsavedInv ==
  ASSUME WInv, NEW id \in Id, StartUnsaved(id)
  PROVE  WInv'
<1>1. WTypeOK /\ faults' \in 0 .. MaxFaults /\ (refusal[id] = "start" => Dead(id))
  BY FaultType DEF WInv, StartUnsaved, ReceiptInv
<1>2. /\ receipt' = [receipt EXCEPT ![id] = "pending"] /\ refusal' = [refusal EXCEPT ![id] = refusal[id]]
      /\ UNCHANGED <<vars, lane, phase, sent, wireVars>>
  BY <1>1 DEF StartUnsaved, WTypeOK
<1>3. WTypeOK'
  BY <1>1, <1>2 DEF WTypeOK, wireVars, Receipts, Open
<1> QED
  BY <1>1, <1>2, <1>3, ReceiptStep DEF wireVars, Says, Definite

\* A complete receipt says of the record what makes it safe to drop.
LEMMA AcknowledgeInv ==
  ASSUME WInv, NEW id \in Id, Acknowledge(id)
  PROVE  WInv'
<1>1. WTypeOK /\ receipt[id] \in Complete /\ (refusal[id] = "start" => Dead(id))
  BY DEF WInv, Acknowledge, ReceiptInv
<1>2. refusal[id] \in {"start", "get"} \/ record[id].state \in Definite \union {"reviewed_unknown"}
  BY <1>1 DEF WInv, Complete, ReceiptInv, ReceiptTruth
<1>3. /\ receipt' = [receipt EXCEPT ![id] = "gone"] /\ refusal' = [refusal EXCEPT ![id] = refusal[id]]
      /\ UNCHANGED <<vars, lane, phase, sent, wireVars, faults>>
  BY <1>1 DEF Acknowledge, WTypeOK
<1>4. WTypeOK'
  BY <1>1, <1>3 DEF WTypeOK, wireVars, Receipts
<1> QED
  BY <1>1, <1>2, <1>3, <1>4, ReceiptStep DEF wireVars, Says, Definite

\* What an answer makes of a receipt is true of the record, and a confirmed receipt is
\* left as it is.
\* What a receipt may become by an answer to a request of this kind.
SoundReading(a, id, kind, new) ==
  /\ new \in Receipts \ {"none"}
  /\ Says(new, record[id].state)
  /\ new = "rejected" /\ receipt[id] # "rejected" => kind = "get" \/ (kind = "start" /\ Dead(id))
  /\ new = "gone" => receipt[id] = "gone"
  /\ receipt[id] \in Complete => new = receipt[id]

LEMMA ObserveFacts ==
  ASSUME NEW a \in Agent, NEW id \in Id, NEW kind,
         WInv, reply[a].id = id, receipt[id] # "none"
  PROVE  SoundReading(a, id, kind, Observe(receipt[id], Outcome(kind, reply[a].code)))
<1>0. PICK new : new = Observe(receipt[id], Outcome(kind, reply[a].code))
  OBVIOUS
<1> SUFFICES SoundReading(a, id, kind, new)
  BY <1>0
<1> USE DEF SoundReading
<1> DEFINE code == reply[a].code
<1>1. /\ WTypeOK /\ IInv /\ receipt[id] \in Receipts /\ record[id] \in Record
      /\ code \in States => Says(code, record[id].state)
      /\ code \in Rejections => Dead(id)
  BY DEF WInv, DesktopInv, ReplySays, WTypeOK, IInv, TypeOK
<1>2. Says(receipt[id], record[id].state)
  BY DEF WInv, ReceiptTruth, Says
<1>3. CASE new = receipt[id]
  BY <1>1, <1>2, <1>3
<1>4. CASE new # receipt[id]
  <2>1. /\ new = Outcome(kind, code) /\ new # "same"
        /\ receipt[id] \notin {"none", "gone"}
        /\ receipt[id] \notin Complete \ {"reviewed_unknown"}
        /\ receipt[id] = "reviewed_unknown" => new \in Definite
    BY <1>0, <1>4 DEF Observe
  <2>2. CASE code \in States
    <3>1. new = IF code = "running" THEN "pending" ELSE code
      BY <2>1, <2>2 DEF Outcome, Reported, States, Definite, Unresolved
    <3>2. new \in Receipts \ {"none", "gone", "rejected"} /\ Says(new, record[id].state)
      BY <1>1, <2>2, <3>1 DEF States, Definite, Unresolved, Receipts, Open, Complete, Says
    <3>3. receipt[id] # "reviewed_unknown"
      BY <1>2, <2>1, <3>2 DEF Says, Definite
    <3> QED
      BY <2>1, <3>2, <3>3
  <2>3. CASE code \notin States
    <3>1. new = "rejected" /\ (kind = "get" \/ (kind = "start" /\ code \in Rejections))
      BY <2>1, <2>3 DEF Outcome, Reported
    <3>2. receipt[id] # "reviewed_unknown"
      BY <2>1, <3>1 DEF Definite
    <3> QED
      BY <1>1, <2>1, <3>1, <3>2 DEF Receipts, Complete, Says, Definite
  <2> QED
    BY <2>2, <2>3
<1> QED
  BY <1>3, <1>4

LEMMA AnswerInv ==
  ASSUME WInv, AnswerTaken
  PROVE  WInv' /\ \A i \in Id : receipt[i] \in Complete => receipt'[i] = receipt[i]
<1>00. PICK kind : kind = sent.kind
  OBVIOUS
<1>0. PICK a \in Agent, id \in Id : a = lane /\ id = sent.id /\ kind = sent.kind
                                    /\ reply[a].id = id /\ receipt[id] # "none"
  BY <1>00 DEF WInv, WTypeOK, DesktopInv, AnswerTaken, AnswerReady, Posted
<1>2. PICK new : new = Observe(receipt[id], Outcome(kind, reply[a].code))
  OBVIOUS
<1> DEFINE how == IF new = "rejected" /\ receipt[id] # "rejected" THEN kind ELSE refusal[id]
<1>1. WTypeOK
  BY DEF WInv
<1>3. /\ receipt' = [receipt EXCEPT ![id] = new] /\ refusal' = [refusal EXCEPT ![id] = how]
      /\ phase' = "idle" /\ sent' = NoRequest /\ UNCHANGED <<vars, lane, wireVars, faults>>
  BY <1>0, <1>1, <1>2 DEF AnswerTaken, Idle, WTypeOK
<1>5. /\ new \in Receipts \ {"none"} /\ Says(new, record[id].state)
      /\ new = "rejected" /\ receipt[id] # "rejected" => kind = "get" \/ (kind = "start" /\ Dead(id))
      /\ new = "gone" => receipt[id] = "gone"
      /\ receipt[id] \in Complete => new = receipt[id]
  <2>1. a \in Agent /\ id \in Id /\ WInv /\ reply[a].id = id /\ receipt[id] # "none"
    BY <1>0
  <2>2. SoundReading(a, id, kind, Observe(receipt[id], Outcome(kind, reply[a].code)))
    BY <2>1, ObserveFacts
  <2> QED
    BY <1>2, <2>2 DEF SoundReading
<1>6. /\ refusal[id] = "start" => Dead(id)
      /\ refusal[id] \in {"none", "start", "get"}
      /\ receipt[id] = "rejected" => refusal[id] \in {"start", "get"}
      /\ receipt[id] = "gone" => \/ refusal[id] \in {"start", "get"}
                                 \/ record[id].state \in Definite \union {"reviewed_unknown"}
  BY <1>0, <1>1 DEF WInv, ReceiptInv, WTypeOK
<1>7. /\ how \in {"none", "start", "get"} /\ (how = "start" => Dead(id))
      /\ new = "rejected" => how \in {"start", "get"}
      /\ new = "gone" => how \in {"start", "get"} \/ record[id].state \in Definite \union {"reviewed_unknown"}
  BY <1>5, <1>6
<1> HIDE DEF how
<1>8. WTypeOK'
  <2>1. receipt' \in [Id -> Receipts] /\ refusal' \in [Id -> {"none", "start", "get"}]
    BY <1>0, <1>1, <1>3, <1>5, <1>7 DEF WTypeOK
  <2> QED
    BY <1>1, <1>3, <2>1, RequestTypes DEF WTypeOK, wireVars, NoRequest, Request
<1>9. WInv'
  BY <1>0, <1>3, <1>5, <1>7, <1>8, ReceiptStep DEF wireVars
<1>10. \A i \in Id : receipt[i] \in Complete => receipt'[i] = receipt[i]
  BY <1>0, <1>1, <1>3, <1>5 DEF WTypeOK
<1> QED
  BY <1>9, <1>10
-----------------------------------------------------------------------------
(* Theorems *)

LEMMA WInitInv == WInit => WInv
<1> SUFFICES ASSUME WInit PROVE WInv
  OBVIOUS
<1>1. IInv
  BY InitInv DEF WInit
<1>2. WTypeOK
  BY MaxFaultsAssumption DEF WInit, WTypeOK, Receipts, NoRequest, Request
<1>3. ReceiptTruth /\ (\A a \in Agent : ReplySays(a)) /\ DesktopInv
  BY DEF WInit, Init, ReceiptTruth, ReplySays, DesktopInv, NoAnswer, NoRecord, States, Definite,
     Unresolved, Rejections
<1>4. \A i \in Id : ReceiptInv(i)
  BY DEF WInit, Init, ReceiptInv, StartedOnce, ToSend, OnTheWay, AtWork, Exists, NoRecord, NoRequest
<1> QED
  BY <1>1, <1>2, <1>3, <1>4 DEF WInv

LEMMA AgentsInv ==
  ASSUME WInv, NEW a \in Agent, Work(a) \/ WorkFails(a) \/ AgentDies(a)
  PROVE  WInv'
<1>1. WTypeOK /\ UNCHANGED desktopVars
  BY DEF WInv, Work, WorkFails, AgentDies
<1>2. CASE Work(a) \/ WorkFails(a)
  <2>1. Step(a) /\ UNCHANGED wireVars
    BY <1>2 DEF Work, WorkFails, Step
  <2>2. WTypeOK'
    BY <1>1, <1>2, <2>1, FaultType DEF Work, WorkFails, WTypeOK, desktopVars, wireVars
  <2> QED
    BY <1>1, <2>1, <2>2, AgentStep DEF wireVars
<1>3. CASE AgentDies(a)
  <2>1. /\ inbox' = [inbox EXCEPT ![a] = NoRequest] /\ proc' = [proc EXCEPT ![a] = "off"]
        /\ faults' \in 0 .. MaxFaults
    BY <1>1, <1>3, FaultType DEF AgentDies
  <2>2. WTypeOK' /\ \A b \in Agent : inbox'[b] \in {inbox[b], NoRequest}
    BY <1>1, <2>1 DEF WTypeOK, desktopVars, NoRequest, Request
  <2>3. CASE Crash(a)
    BY <1>1, <2>2, <2>3, AgentStep
  <2>4. CASE UNCHANGED vars
    BY <1>1, <2>2, <2>4, QuietDesktop DEF desktopVars
  <2> QED
    BY <1>3, <2>3, <2>4 DEF AgentDies
<1> QED
  BY <1>2, <1>3

LEMMA WNextInv == WInv /\ [WNext]_wvars => WInv'
<1> SUFFICES ASSUME WInv, [WNext]_wvars PROVE WInv'
  OBVIOUS
<1>1. CASE UNCHANGED wvars
  <2>1. WTypeOK'
    BY <1>1 DEF WInv, WTypeOK, wvars, desktopVars, wireVars
  <2> QED
    BY <1>1, <2>1, QuietDesktop DEF wvars, desktopVars, wireVars
<1> QED
  BY <1>1, DeliverInv, AgentsInv, SessionInv, StartInv, UnsavedInv, AskInv, AcknowledgeInv,
     GitWorksInv, SendInv, AnswerInv DEF WNext

\* The desktop's receipts (pending.rs) and the agents' journals (journal.rs) agree as WInv
\* says, whatever is lost, dies or fails.
THEOREM ReceiptInvariance == WSpec => []WInv
BY WInitInv, WNextInv, PTL DEF WSpec

\* A receipt is written before its write can have an effect, says no more than the agent's
\* disk, and goes only with a write that is settled or was never found (mod.rs git_request,
\* pending.rs observe and acknowledge).
THEOREM ReceiptsAreSound == WSpec => []ReceiptSound
<1>1. WInv => ReceiptSound
  <2> SUFFICES ASSUME WInv PROVE ReceiptSound
    OBVIOUS
  <2>1. \A i \in Id : run[i].launches > 0 => Exists(i)
    BY DEF WInv, IInv, IdInv, Exists, NoRun
  <2>2. ReceiptBeforeEffect /\ RefusedNeverBegins
    <3>1. \A i \in Id : Dead(i) => run[i].launches = 0 /\ ~Exists(i)
      BY DEF WInv, IInv, IdInv, Exists, NoRun, Dead
    <3> QED
      BY <2>1, <3>1 DEF WInv, ReceiptInv, ReceiptBeforeEffect, RefusedNeverBegins
  <2>3. DismissedIsResolved
    BY DEF WInv, ReceiptInv, DismissedIsResolved, Dead, Exists, Unresolved, Definite
  <2> QED
    BY <2>2, <2>3 DEF WInv, ReceiptSound
<1> QED
  BY <1>1, ReceiptInvariance, PTL

\* A confirmed outcome stays what it is until the operator removes its row (pending.rs
\* observe).
THEOREM ConfirmedOutcomesStay == WSpec => ConfirmedStays
<1>1. WInv /\ [WNext]_wvars => [ConfirmedStep]_wvars
  <2> SUFFICES ASSUME WInv, WNext PROVE ConfirmedStep
    OBVIOUS
  <2>1. ASSUME UNCHANGED receipt PROVE ConfirmedStep
    BY <2>1 DEF ConfirmedStep
  <2>2. ASSUME NEW id \in Id, NEW new, receipt' = [receipt EXCEPT ![id] = new],
               new = "gone" \/ receipt[id] \notin Complete
        PROVE  ConfirmedStep
    BY <2>2 DEF WInv, WTypeOK, ConfirmedStep
  <2>3. ASSUME NEW id \in Id, \/ \E p \in Payload : \E s \in Snapshots(p) : StartWrite(id, p, s)
                              \/ StartUnsaved(id) \/ Acknowledge(id)
        PROVE  ConfirmedStep
    BY <2>2, <2>3 DEF StartWrite, StartUnsaved, Acknowledge, Complete, Definite
  <2>4. CASE AnswerTaken
    BY <2>4, AnswerInv DEF ConfirmedStep
  <2> QED
    BY <2>1, <2>3, <2>4 DEF WNext, Connect, Deliver, Work, WorkFails, AgentExits, AgentDies, Lookup,
       ReviewWrite, GitWorks, Send, Disconnect, LaneDied, AnswerDropped, AnswerMisread, Rest,
       desktopVars, wvars
<1> QED
  BY <1>1, ReceiptInvariance, PTL DEF WSpec, ConfirmedStays
=============================================================================

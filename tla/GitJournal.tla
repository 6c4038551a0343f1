----------------------------- MODULE GitJournal -----------------------------
(***************************************************************************)
(* The durable operation journal of the Git agent, and the one function    *)
(* that runs a Git write under it:                                          *)
(*                                                                         *)
(*   tools/agent/src/git/journal.rs     records, locks, get, review, begin *)
(*   tools/agent/src/git/cli/writes.rs  start                              *)
(*   tools/agent/src/git/cli/command.rs the git child of a write           *)
(*                                                                         *)
(* An agent process answers one request at a time; several processes, of   *)
(* one desktop or of several, share the journal directory.  Every file     *)
(* lock is a try-lock: a busy lock is an answer, never a wait.  A process  *)
(* that dies releases its locks and leaves the git child it spawned.       *)
(***************************************************************************)
EXTENDS Naturals, FiniteSets

CONSTANTS Agent,       \* agent processes (a name is reused after a crash)
          Id,          \* operation ids, each qualified by its client
          Payload,     \* request payloads, told apart by their hash
          Repo,        \* repository identities
          RepoOf,      \* the repository a payload names: its hash covers it
          MaxRecords,  \* MAX_RECORDS
          Nobody,      \* no agent: a lock that is free
          NoId, NoPayload

ASSUME RepoOfAssumption == RepoOf \in [Payload -> Repo]
ASSUME MaxRecordsAssumption == MaxRecords \in Nat
ASSUME NullAssumption == Nobody \notin Agent /\ NoId \notin Id /\ NoPayload \notin Payload

VARIABLES
  record,       \* records/<client>-<id>.json, by id
  repoLock,     \* locks/<repository hash>.lock: the process holding it
  catalogLock,  \* locks/catalog.lock: the process holding it
  pc,           \* where each process is in its request
  req,          \* the request each process is answering
  mem,          \* the record each process holds in memory
  reply,        \* the last answer of each process
  version,      \* what a status fingerprint of each repository tells apart
  child,        \* operations whose git child is alive
  run           \* history: what became of each operation's git command

vars == <<record, repoLock, catalogLock, pc, req, mem, reply, version, child, run>>
-----------------------------------------------------------------------------
Definite   == {"succeeded", "failed", "needs_resolution"}
Unresolved == {"running", "outcome_unknown"}
States     == Definite \union Unresolved \union {"reviewed_unknown"}

Record == [payload : Payload \union {NoPayload}, state : States \union {"none"}, seq : Nat]

NoRecord == [payload |-> NoPayload, state |-> "none", seq |-> 0]

\* Refusals that start gives before it begins, and the desktop may trust.
Rejections == {"STALE_SNAPSHOT", "INVALID_REQUEST"}

Errors == Rejections \union
          {"OPERATION_ID_REUSED", "OPERATION_NOT_FOUND", "OPERATION_NOT_REVIEWABLE",
           "REPOSITORY_BUSY", "RECOVERY_REQUIRED", "JOURNAL_FULL",
           "JOURNAL_UNAVAILABLE", "IO_ERROR", "OUTCOME_UNKNOWN"}

Request == [kind : {"none", "start", "get", "review"}, id : Id \union {NoId},
            payload : Payload \union {NoPayload}, snap : Nat]

NoRequest == [kind |-> "none", id |-> NoId, payload |-> NoPayload, snap |-> 0]

StartRequest(id, p, s) == [kind |-> "start", id |-> id, payload |-> p, snap |-> s]
LookupRequest(k, id)   == [kind |-> k, id |-> id, payload |-> NoPayload, snap |-> 0]

Answer == [id : Id \union {NoId}, code : States \union Errors \union {"none"}]

NoAnswer == [id |-> NoId, code |-> "none"]

\* What became of an operation's git command: how often it was launched, for which
\* payload and snapshot, whether it changed the repository, and what start made
\* of its exit.
Run == [launches : Nat, payload : Payload \union {NoPayload}, base : Nat, effect : BOOLEAN,
        verdict : Definite \union {"none", "outcome_unknown"}]

NoRun == [launches |-> 0, payload |-> NoPayload, base |-> 0, effect |-> FALSE, verdict |-> "none"]

Phases == {"idle", "existing", "lock", "recheck", "begin", "scan", "persist",
           "apply", "git",
           "load", "getLock", "getReread", "reviewLock", "reviewReread", "saveLock", "save"}

Exists(id) == record[id].state # "none"
Others(id) == {i \in Id \ {id} : Exists(i)}

\* The repository whose lock the current request of a takes.
Target(a) == IF req[a].kind = "start" THEN RepoOf[req[a].payload]
                                      ELSE RepoOf[record[req[a].id].payload]

\* a is between the begin and the final save of a write.
Executing(a) == /\ req[a].kind = "start"
                /\ pc[a] \in {"apply", "git", "saveLock", "save"}

Init ==
  /\ record = [i \in Id |-> NoRecord]
  /\ repoLock = [r \in Repo |-> Nobody]
  /\ catalogLock = Nobody
  /\ pc = [a \in Agent |-> "idle"]
  /\ req = [a \in Agent |-> NoRequest]
  /\ mem = [a \in Agent |-> NoRecord]
  /\ reply = [a \in Agent |-> NoAnswer]
  /\ version = [r \in Repo |-> 0]
  /\ child = {}
  /\ run = [i \in Id |-> NoRun]
-----------------------------------------------------------------------------
\* The guards of a request drop when its function returns, and on process death.
ReleaseLocks(a) ==
  /\ repoLock' = [r \in Repo |-> IF repoLock[r] = a THEN Nobody ELSE repoLock[r]]
  /\ catalogLock' = IF catalogLock = a THEN Nobody ELSE catalogLock

Forget(a) ==
  /\ pc' = [pc EXCEPT ![a] = "idle"]
  /\ req' = [req EXCEPT ![a] = NoRequest]
  /\ mem' = [mem EXCEPT ![a] = NoRecord]

\* The request of a returns: a record's state, or an error code.
Return(a, code) ==
  /\ ReleaseLocks(a)
  /\ Forget(a)
  /\ reply' = [reply EXCEPT ![a] = [id |-> req[a].id, code |-> code]]

Goto(a, phase) == pc' = [pc EXCEPT ![a] = phase]

TakeRepoLock(a) ==
  /\ repoLock[Target(a)] = Nobody
  /\ repoLock' = [repoLock EXCEPT ![Target(a)] = a]

CatalogUnlocked(a) == catalogLock' = a   \* Variant: the lock excludes nobody.

TakeCatalogLock(a) ==
  /\ catalogLock = Nobody
  /\ catalogLock' = a

Receive(a, q) ==
  /\ pc[a] = "idle"
  /\ Goto(a, IF q.kind = "start" THEN "existing" ELSE "load")
  /\ req' = [req EXCEPT ![a] = q]
  /\ reply' = [reply EXCEPT ![a] = NoAnswer]
  /\ UNCHANGED <<record, repoLock, catalogLock, mem, version, child, run>>
-----------------------------------------------------------------------------
(* operation.start *)

\* An id already on disk is looked up, never run again.
StartExisting(a) ==
  /\ pc[a] = "existing"
  /\ LET found == record[req[a].id] IN
       \/ /\ found.state = "none"
          /\ Goto(a, "lock")
          /\ UNCHANGED <<repoLock, catalogLock, req, mem, reply>>
       \/ /\ found.state # "none" /\ found.payload # req[a].payload
          /\ Return(a, "OPERATION_ID_REUSED")
       \/ /\ found.state # "none" /\ found.payload = req[a].payload
          /\ Goto(a, "load")
          /\ req' = [req EXCEPT ![a].kind = "get"]
          /\ UNCHANGED <<repoLock, catalogLock, mem, reply>>
  /\ UNCHANGED <<record, version, child, run>>

StartLock(a) ==
  /\ pc[a] = "lock"
  /\ \/ /\ TakeRepoLock(a)
        /\ Goto(a, "recheck")
        /\ UNCHANGED <<catalogLock, req, mem, reply>>
     \/ /\ repoLock[Target(a)] # Nobody
        /\ Return(a, "REPOSITORY_BUSY")
  /\ UNCHANGED <<record, version, child, run>>

SnapshotIgnored(a) == TRUE   \* Variant: the fingerprint is not compared.
SnapshotCurrent(a) == version[Target(a)] = req[a].snap

\* Variant: the id is only looked up before the lock.
StartRecheckSkipped(a) ==
  /\ pc[a] = "recheck"
  /\ SnapshotCurrent(a)
  /\ Goto(a, "begin")
  /\ UNCHANGED <<record, repoLock, catalogLock, req, mem, reply, version, child, run>>

\* Under the lock: the id again, the snapshot, then Git's own lock files, which
\* another Git program may hold.  INVALID_REQUEST and IO_ERROR stand for
\* a malformed snapshot and a repository that cannot be read.
StartRecheck(a) ==
  /\ pc[a] = "recheck"
  /\ LET found == record[req[a].id] IN
       \/ /\ found.state # "none"
          /\ Return(a, IF found.payload = req[a].payload THEN found.state
                                                         ELSE "OPERATION_ID_REUSED")
       \/ /\ found.state = "none"
          /\ ~SnapshotCurrent(a)
          /\ Return(a, "STALE_SNAPSHOT")
       \/ /\ found.state = "none"
          /\ \E code \in {"INVALID_REQUEST", "REPOSITORY_BUSY", "IO_ERROR"} :
               Return(a, code)
       \/ /\ found.state = "none"
          /\ SnapshotCurrent(a)
          /\ Goto(a, "begin")
          /\ UNCHANGED <<repoLock, catalogLock, req, mem, reply>>
  /\ UNCHANGED <<record, version, child, run>>

BeginLock(a) ==
  /\ pc[a] = "begin"
  /\ \/ /\ TakeCatalogLock(a)
        /\ Goto(a, "scan")
        /\ UNCHANGED <<repoLock, req, mem, reply>>
     \/ /\ catalogLock # Nobody
        /\ Return(a, "REPOSITORY_BUSY")
  /\ UNCHANGED <<record, version, child, run>>

\* Variant: only running records block.
BlockedByRunning(r) == \E i \in Id : record[i].state = "running" /\ RepoOf[record[i].payload] = r

\* Unresolved records of any client block another write to their repository.
Blocked(r) == \E i \in Id : record[i].state \in Unresolved /\ RepoOf[record[i].payload] = r

\* Variant: a state name nothing else knows.
FreshQueued(p) == [payload |-> p, state |-> "queued", seq |-> 1]

Fresh(p) == [payload |-> p, state |-> "running", seq |-> 1]

BeginRefused(a) ==
  /\ pc[a] = "scan"
  /\ LET found == record[req[a].id] IN
       \/ /\ found.state # "none" /\ found.payload # req[a].payload
          /\ Return(a, "OPERATION_ID_REUSED")
       \/ /\ found.state = "none" /\ Blocked(RepoOf[req[a].payload])
          /\ Return(a, "RECOVERY_REQUIRED")
       \/ /\ found.state = "none"
          /\ Cardinality(Others(req[a].id)) >= MaxRecords
          /\ Return(a, "JOURNAL_FULL")
  /\ UNCHANGED <<record, version, child, run>>

\* Variant: the id is not looked up again under catalog.lock.
MayBeginUnchecked(a) ==
  /\ ~Blocked(RepoOf[req[a].payload])
  /\ Cardinality(Others(req[a].id)) < MaxRecords

MayBegin(a) ==
  LET found == record[req[a].id] IN
    \/ found.state # "none" /\ found.payload = req[a].payload
    \/ /\ found.state = "none"
       /\ ~Blocked(RepoOf[req[a].payload])
       /\ Cardinality(Others(req[a].id)) < MaxRecords

\* An existing record is handed back, and start carries on with it; a new one
\* has yet to reach the disk, still under catalog.lock.
BeginAdmitted(a) ==
  /\ pc[a] = "scan"
  /\ MayBegin(a)
  /\ mem' = [mem EXCEPT ![a] = IF Exists(req[a].id) THEN record[req[a].id]
                                                    ELSE Fresh(req[a].payload)]
  /\ Goto(a, IF Exists(req[a].id) THEN "apply" ELSE "persist")
  /\ catalogLock' = IF Exists(req[a].id) THEN Nobody ELSE catalogLock
  /\ UNCHANGED <<record, repoLock, req, reply, version, child, run>>

\* The record is renamed into place before anything runs.
BeginPersist(a) ==
  /\ pc[a] = "persist"
  /\ record' = [record EXCEPT ![req[a].id] = mem[a]]
  /\ catalogLock' = Nobody
  /\ Goto(a, "apply")
  /\ UNCHANGED <<repoLock, req, mem, reply, version, child, run>>

\* The disk fails before the rename, or after it, in the directory's sync.
BeginFailed(a) ==
  /\ pc[a] = "persist"
  /\ record' \in {record, [record EXCEPT ![req[a].id] = mem[a]]}
  /\ Return(a, "JOURNAL_UNAVAILABLE")
  /\ UNCHANGED <<version, child, run>>

\* Variant: a refused argument is answered, and not recorded.
ApplyRefusedBare(a) ==
  /\ pc[a] = "apply"
  /\ Return(a, "INVALID_REQUEST")
  /\ UNCHANGED <<record, version, child, run>>

\* apply either refuses its arguments or spawns git.
ApplyRefused(a) ==
  /\ pc[a] = "apply"
  /\ mem' = [mem EXCEPT ![a].state = "failed", ![a].seq = @ + 1]
  /\ run' = [run EXCEPT ![req[a].id].verdict = "failed"]
  /\ Goto(a, "saveLock")
  /\ UNCHANGED <<record, repoLock, catalogLock, req, reply, version, child>>

ApplyLaunch(a) ==
  /\ pc[a] = "apply"
  /\ child' = child \union {req[a].id}
  /\ run' = [run EXCEPT ![req[a].id] =
               [launches |-> @.launches + 1, payload |-> req[a].payload, base |-> req[a].snap,
                effect |-> @.effect, verdict |-> @.verdict]]
  /\ Goto(a, "git")
  /\ UNCHANGED <<record, repoLock, catalogLock, req, mem, reply, version>>

\* git changes the repository at some moment of its life, whoever still waits for it.
GitEffect(id) ==
  /\ id \in child /\ ~run[id].effect
  /\ run' = [run EXCEPT ![id].effect = TRUE]
  /\ version' = [version EXCEPT ![RepoOf[run[id].payload]] = @ + 1]
  /\ UNCHANGED <<record, repoLock, catalogLock, pc, req, mem, reply, child>>

\* Variant: the time limit gives up on git without killing it.
GitExitUnkilled(a, s) ==
  /\ pc[a] = "git"
  /\ mem' = [mem EXCEPT ![a].state = s, ![a].seq = @ + 1]
  /\ run' = [run EXCEPT ![req[a].id].verdict = s]
  /\ Goto(a, "saveLock")
  /\ UNCHANGED <<record, repoLock, catalogLock, req, reply, version, child>>

\* git exits, or the 30 s limit kills its process group: the outcome is then unknown.
GitExit(a, s) ==
  /\ pc[a] = "git"
  /\ child' = child \ {req[a].id}
  /\ mem' = [mem EXCEPT ![a].state = s, ![a].seq = @ + 1]
  /\ run' = [run EXCEPT ![req[a].id].verdict = s]
  /\ Goto(a, "saveLock")
  /\ UNCHANGED <<record, repoLock, catalogLock, req, reply, version>>

OrphanExit(id) ==
  /\ id \in child
  /\ \A a \in Agent : ~(pc[a] = "git" /\ req[a].id = id)
  /\ child' = child \ {id}
  /\ UNCHANGED <<record, repoLock, catalogLock, pc, req, mem, reply, version, run>>
-----------------------------------------------------------------------------
(* operation.get and operation.review *)

Load(a) ==
  /\ pc[a] = "load"
  /\ LET found == record[req[a].id] IN
       \/ /\ found.state = "none"
          /\ Return(a, "OPERATION_NOT_FOUND")
       \/ /\ req[a].kind = "get" /\ found.state \notin {"none", "running"}
          /\ Return(a, found.state)
       \/ /\ req[a].kind = "get" /\ found.state = "running"
          /\ Goto(a, "getLock")
          /\ UNCHANGED <<repoLock, catalogLock, req, mem, reply>>
       \/ /\ req[a].kind = "review" /\ found.state # "none"
          /\ Goto(a, "reviewLock")
          /\ UNCHANGED <<repoLock, catalogLock, req, mem, reply>>
  /\ UNCHANGED <<record, version, child, run>>

\* A busy repository means that the owner of the record is still at work.
GetLock(a) ==
  /\ pc[a] = "getLock"
  /\ \/ /\ TakeRepoLock(a)
        /\ Goto(a, "getReread")
        /\ UNCHANGED <<catalogLock, req, mem, reply>>
     \/ /\ repoLock[Target(a)] # Nobody
        /\ Return(a, "running")
  /\ UNCHANGED <<record, version, child, run>>

\* Variant: a lookup concludes that an interrupted operation failed.
GetRereadFails(a) ==
  /\ pc[a] = "getReread"
  /\ mem' = [mem EXCEPT ![a] = [record[req[a].id] EXCEPT !.state = "failed", !.seq = @ + 1]]
  /\ Goto(a, "saveLock")
  /\ UNCHANGED <<record, repoLock, catalogLock, req, reply, version, child, run>>

\* Variant: the state read before the lock is trusted.
GetRereadTrusting(a) ==
  /\ pc[a] = "getReread"
  /\ mem' = [mem EXCEPT ![a] = [record[req[a].id] EXCEPT !.state = "outcome_unknown", !.seq = @ + 1]]
  /\ Goto(a, "saveLock")
  /\ UNCHANGED <<record, repoLock, catalogLock, req, reply, version, child, run>>

\* Its owner may have finished between the first load and the lock.
GetReread(a) ==
  /\ pc[a] = "getReread"
  /\ LET found == record[req[a].id] IN
       \/ /\ found.state # "running"
          /\ Return(a, found.state)
       \/ /\ found.state = "running"
          /\ mem' = [mem EXCEPT ![a] = [found EXCEPT !.state = "outcome_unknown", !.seq = @ + 1]]
          /\ Goto(a, "saveLock")
          /\ UNCHANGED <<repoLock, catalogLock, req, reply>>
  /\ UNCHANGED <<record, version, child, run>>

ReviewLock(a) ==
  /\ pc[a] = "reviewLock"
  /\ \/ /\ TakeRepoLock(a)
        /\ Goto(a, "reviewReread")
        /\ UNCHANGED <<catalogLock, req, mem, reply>>
     \/ /\ repoLock[Target(a)] # Nobody
        /\ Return(a, "REPOSITORY_BUSY")
  /\ UNCHANGED <<record, version, child, run>>

ReviewReread(a) ==
  /\ pc[a] = "reviewReread"
  /\ LET found == record[req[a].id] IN
       \/ /\ found.state = "reviewed_unknown"
          /\ Return(a, "reviewed_unknown")
       \/ /\ found.state = "outcome_unknown"
          /\ mem' = [mem EXCEPT ![a] = [found EXCEPT !.state = "reviewed_unknown", !.seq = @ + 1]]
          /\ Goto(a, "saveLock")
          /\ UNCHANGED <<repoLock, catalogLock, req, reply>>
       \/ /\ found.state \notin {"reviewed_unknown", "outcome_unknown"}
          /\ Return(a, "OPERATION_NOT_REVIEWABLE")
  /\ UNCHANGED <<record, version, child, run>>
-----------------------------------------------------------------------------
(* save, of all three *)

\* Variant: a failed save is ignored.
SaveErrorIgnored(a, code) == IF req[a].kind = "start" THEN mem[a].state ELSE code

\* What a failed save answers: start hides the cause, for git has already run.
SaveError(a, code) == IF req[a].kind = "start" THEN "OUTCOME_UNKNOWN" ELSE code

SaveLock(a) ==
  /\ pc[a] = "saveLock"
  /\ \/ /\ TakeCatalogLock(a)
        /\ Goto(a, "save")
        /\ UNCHANGED <<repoLock, req, mem, reply>>
     \/ /\ catalogLock # Nobody
        /\ Return(a, SaveError(a, "REPOSITORY_BUSY"))
  /\ UNCHANGED <<record, version, child, run>>

Persist(a) ==
  /\ pc[a] = "save"
  /\ record' = [record EXCEPT ![req[a].id] = mem[a]]
  /\ Return(a, mem[a].state)
  /\ UNCHANGED <<version, child, run>>

\* The other records fill the journal by number or size, or the disk fails
\* before or after the rename.
PersistFailed(a) ==
  /\ pc[a] = "save"
  /\ \/ /\ UNCHANGED record
        /\ Return(a, SaveError(a, "JOURNAL_FULL"))
     \/ /\ record' \in {record, [record EXCEPT ![req[a].id] = mem[a]]}
        /\ Return(a, SaveError(a, "JOURNAL_UNAVAILABLE"))
  /\ UNCHANGED <<version, child, run>>
-----------------------------------------------------------------------------
\* The process dies: its locks go with it, its git child does not.
Crash(a) ==
  /\ pc[a] # "idle"
  /\ ReleaseLocks(a)
  /\ Forget(a)
  /\ UNCHANGED <<record, reply, version, child, run>>

\* One request of a, step by step.
Progress(a) ==
  \/ StartExisting(a) \/ StartLock(a) \/ StartRecheck(a)
  \/ BeginLock(a) \/ BeginRefused(a) \/ BeginAdmitted(a) \/ BeginPersist(a)
  \/ ApplyRefused(a) \/ ApplyLaunch(a)
  \/ \E s \in Definite \union {"outcome_unknown"} : GitExit(a, s)
  \/ Load(a) \/ GetLock(a) \/ GetReread(a) \/ ReviewLock(a) \/ ReviewReread(a)
  \/ SaveLock(a) \/ Persist(a)

DiskFault(a) == BeginFailed(a) \/ PersistFailed(a)

Step(a) == Progress(a) \/ DiskFault(a)

\* A snapshot is a fingerprint the repository had at some time.
Snapshots(p) == 0 .. version[RepoOf[p]]

Arrive(a) ==
  \/ \E id \in Id, p \in Payload : \E s \in Snapshots(p) : Receive(a, StartRequest(id, p, s))
  \/ \E id \in Id, k \in {"get", "review"} : Receive(a, LookupRequest(k, id))

Git(id) == GitEffect(id) \/ OrphanExit(id)

Next ==
  \/ \E a \in Agent : Arrive(a) \/ Step(a) \/ Crash(a)
  \/ \E id \in Id : Git(id)

Spec == Init /\ [][Next]_vars

-----------------------------------------------------------------------------
(* Properties *)

TypeOK ==
  /\ record \in [Id -> Record]
  /\ repoLock \in [Repo -> Agent \union {Nobody}]
  /\ catalogLock \in Agent \union {Nobody}
  /\ pc \in [Agent -> Phases]
  /\ req \in [Agent -> Request]
  /\ mem \in [Agent -> Record]
  /\ reply \in [Agent -> Answer]
  /\ version \in [Repo -> Nat]
  /\ child \in SUBSET Id
  /\ run \in [Id -> Run]

\* At most one write of a repository is unresolved, over all clients: begin scans
\* every record under catalog.lock, and no later step may reopen an old one.
OneUnresolved ==
  \A i, j \in Id :
    /\ record[i].state \in Unresolved
    /\ record[j].state \in Unresolved
    /\ RepoOf[record[i].payload] = RepoOf[record[j].payload]
    => i = j

\* No operation runs git twice, whatever is retried, looked up or interrupted:
\* a running record without its lock is uncertain, never retryable.
AtMostOnce == \A i \in Id : run[i].launches <= 1

\* git only ever runs under a record of its own payload that is already on disk.
JournalBeforeEffect ==
  \A i \in Id : run[i].launches > 0 => record[i].payload = run[i].payload

\* A definite outcome on disk is the one start saw, never one that a lookup, a
\* review or another process made up.
HonestOutcome ==
  \A i \in Id : record[i].state \in Definite => run[i].verdict = record[i].state

\* A snapshot authorises one change: of two writes that changed the repository on
\* the same snapshot, an operator has reviewed one as unknown.
SnapshotOnce ==
  \A i, j \in Id :
    /\ i # j
    /\ run[i].effect /\ run[j].effect
    /\ RepoOf[run[i].payload] = RepoOf[run[j].payload]
    /\ run[i].base = run[j].base
    => "reviewed_unknown" \in {record[i].state, record[j].state}

\* Two git children work on one repository only after an operator has reviewed one
\* of the two operations.
NoUnreviewedOverlap ==
  \A i, j \in child :
    i # j /\ RepoOf[run[i].payload] = RepoOf[run[j].payload]
      => "reviewed_unknown" \in {record[i].state, record[j].state}

\* Writes of one repository go one at a time, on disk and in git.
OneAtATime == OneUnresolved /\ NoUnreviewedOverlap

\* The journal never outgrows MAX_RECORDS, whichever processes begin at once.
JournalBounded == Cardinality({i \in Id : Exists(i)}) <= MaxRecords

\* A definite answer is on disk before it is given, and stays true.
ReplyDurable ==
  \A a \in Agent : reply[a].code \in Definite => record[reply[a].id].state = reply[a].code

\* What is answered or recorded of an outcome is what git did, and stays.
HonestReplies == HonestOutcome /\ ReplyDurable

\* A record only moves forward, one sequence number at a time: running to an
\* outcome, an unknown outcome to reviewed.  Nothing is ever rewritten.
Successors(s) == CASE s = "none"            -> {"running"}
                   [] s = "running"         -> Definite \union {"outcome_unknown"}
                   [] s = "outcome_unknown" -> {"reviewed_unknown"}
                   [] OTHER                 -> {}

ForwardStep ==
  \A i \in Id : record'[i] # record[i] =>
    /\ record'[i].state \in Successors(record[i].state)
    /\ record'[i].seq = record[i].seq + 1
    /\ Exists(i) => record'[i].payload = record[i].payload

ForwardOnly == [][ForwardStep]_vars

\* The refusals that the desktop takes as proof that nothing began
\* (rejected_before_mutation) leave no record of the refused request.
RefusalStep ==
  \A a \in Agent : reply'[a] # reply[a] /\ reply'[a].code \in Rejections =>
    /\ record'[req[a].id].payload # req[a].payload
    /\ run'[req[a].id].payload # req[a].payload

RejectedBeforeBegin == [][RefusalStep]_vars

\* Both: a record goes forward or is never begun.
StepsForward == ForwardOnly /\ RejectedBeforeBegin

\* The journal implements the write log: an operation is what its record says, and
\* git's effect is the operation's.
Log == INSTANCE WriteLog WITH state   <- [i \in Id |-> record[i].state],
                              payload <- [i \in Id |-> record[i].payload],
                              effect  <- [i \in Id |-> run[i].effect]

ImplementsLog == Log!Spec

\* What the desktop says of a review (gitMutations.ts): native code verifies the
\* operation has stopped.
\* The code does not keep it: no run expects it to hold (README, "What the code does
\* not keep").
ReviewedHasStopped == \A i \in Id : record[i].state = "reviewed_unknown" => i \notin child
=============================================================================

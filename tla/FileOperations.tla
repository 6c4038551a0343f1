--------------------------- MODULE FileOperations ---------------------------
(***************************************************************************)
(* Uploads over SFTP, their registry, cancellation and the shutdown:       *)
(*                                                                         *)
(*   src-tauri/src/files/operations.rs  run, files_cancel, cancel_server,  *)
(*                                      cleanup, shutdown                  *)
(*   src-tauri/src/files/transfer.rs    upload, RemoteTemp                 *)
(*                                                                         *)
(* An operation waits for the answer to each request.  A cancelled one is  *)
(* dropped where it waits, while its request is still on the wire.  All    *)
(* uploads here are for one server, and for one name in one folder of it.  *)
(***************************************************************************)
EXTENDS Naturals, Sequences, FiniteSets

CONSTANTS Op,         \* operation ids
          Limit,      \* operations at a time (8)
          Tombstones, \* cancels remembered for operations not yet registered (128)
          MaxSize,    \* bound: chunks of a local file
          MaxEdits,   \* bound: saves and deletes of the server
          None        \* no staging file

ASSUME UploadAssumption ==
  /\ Limit \in Nat \ {0} /\ Tombstones \in Nat \ {0}
  /\ MaxSize \in Nat \ {0} /\ MaxEdits \in Nat
ASSUME StagingAssumption == None \notin Nat

VARIABLES
  profile,   \* the saved server: its edits, and whether it is there
  op,        \* each operation
  entries,   \* Registry.entries
  cancelled, \* Registry.cancelled
  closing,   \* Registry.closing
  cleanup,   \* cleanup tasks that run
  stage,     \* of the shutdown
  wire,      \* requests the server has not seen
  staging,   \* chunks in each staging file, or None
  dest,      \* the destination
  past       \* history of each operation

fileVars == <<profile, op, entries, cancelled, closing, cleanup, stage, wire, staging, dest, past>>
atServer == <<wire, staging, dest>>
-----------------------------------------------------------------------------
Size == 0 .. MaxSize

\* Where an operation waits for an answer, and where it can be cancelled.
Asking  == {"opening", "writing", "closing", "renaming"}
Working == {"setup", "ready", "copy"} \union Asking

NotCalled == [at |-> "idle", rev |-> 0, local |-> 0, total |-> 0, offset |-> 0,
          temp |-> FALSE, cancel |-> FALSE, answer |-> "none"]

\* early: cancelled before it was registered, and not forgotten; lost: its connection;
\* untracked: its open was given up before the answer; removed: a removal was tried.
NoPast == [early |-> FALSE, lost |-> FALSE, untracked |-> FALSE, refused |-> FALSE,
           attempted |-> FALSE, published |-> FALSE]

FilesInit ==
  /\ profile = [rev |-> 0, known |-> TRUE]
  /\ op \in [Op -> {[NotCalled EXCEPT !.local = n] : n \in Size}]
  /\ entries = {}
  /\ cancelled = <<>>
  /\ closing = FALSE
  /\ cleanup = {}
  /\ stage = "open"
  /\ wire = [o \in Op |-> <<>>]
  /\ staging = [o \in Op |-> None]
  /\ dest \in {"absent", "other"}
  /\ past = [o \in Op |-> NoPast]

Running == stage # "exited"
-----------------------------------------------------------------------------
(* Registry *)

Call(o) ==
  /\ Running /\ op[o].at = "idle"
  /\ op' = [op EXCEPT ![o].at = "called"]
  /\ UNCHANGED <<profile, entries, cancelled, closing, cleanup, stage, atServer, past>>

Mentioned(o) == \E i \in DOMAIN cancelled : cancelled[i] = o

\* The tombstones without the first one of o.
PlaceOf(o)   == CHOOSE i \in DOMAIN cancelled :
                  cancelled[i] = o /\ \A j \in DOMAIN cancelled : cancelled[j] = o => i <= j
Forgotten(o) ==
  IF Mentioned(o) THEN [i \in 1 .. Len(cancelled) - 1 |-> cancelled[IF i < PlaceOf(o) THEN i ELSE i + 1]]
  ELSE cancelled

Refuse(o) == op' = [op EXCEPT ![o].at = "done"] /\ UNCHANGED entries

Admit(o, rev) ==
  /\ entries' = entries \union {o}
  /\ op' = [op EXCEPT ![o].at = "setup", ![o].rev = rev]

\* Variant: the profile is the one of the call, taken before the wait for the manager.
RegisterEarlier(o) ==
  /\ Running /\ op[o].at = "called"
  /\ IF ~profile.known \/ closing \/ Mentioned(o) \/ Cardinality(entries) >= Limit
     THEN Refuse(o)
     ELSE \E rev \in 0 .. profile.rev : Admit(o, rev)
  /\ cancelled' = Forgotten(o)
  /\ UNCHANGED <<profile, closing, cleanup, stage, atServer, past>>

\* Variant: a cancel that came first is forgotten.
RegisterForgetful(o) ==
  /\ Running /\ op[o].at = "called"
  /\ IF ~profile.known \/ closing \/ Cardinality(entries) >= Limit
     THEN Refuse(o)
     ELSE Admit(o, profile.rev)
  /\ UNCHANGED <<profile, cancelled, closing, cleanup, stage, atServer, past>>

\* Under the manager's lock and the registry's.
Register(o) ==
  /\ Running /\ op[o].at = "called"
  /\ IF ~profile.known \/ closing \/ Mentioned(o) \/ Cardinality(entries) >= Limit
     THEN Refuse(o)
     ELSE Admit(o, profile.rev)
  /\ cancelled' = IF profile.known /\ ~closing
                  THEN Forgotten(o)
                  ELSE cancelled
  /\ UNCHANGED <<profile, closing, cleanup, stage, atServer, past>>

\* A cancel of an operation that is not registered leaves a tombstone, also after its end;
\* one that as many others as are remembered have followed is forgotten.
Cancel(o) ==
  /\ Running /\ op[o].at # "idle"
  /\ IF o \in entries
     THEN /\ op' = [op EXCEPT ![o].cancel = TRUE]
          /\ UNCHANGED <<cancelled, past>>
     ELSE /\ cancelled' = Append(IF Len(cancelled) = Tombstones THEN Tail(cancelled) ELSE cancelled, o)
          /\ past' = [p \in Op |-> [past[p] EXCEPT
                        !.early = /\ @ \/ (p = o /\ op[o].at = "called")
                                  /\ \E i \in DOMAIN cancelled' : cancelled'[i] = p]]
          /\ UNCHANGED op
  /\ UNCHANGED <<profile, entries, closing, cleanup, stage, atServer>>

CancelEntries == op' = [o \in Op |-> [op[o] EXCEPT !.cancel = @ \/ o \in entries]]

\* save_server with other connection settings, and delete_server.
EditServer ==
  /\ Running /\ profile.rev < MaxEdits
  /\ \E known \in BOOLEAN : /\ profile.known \/ known
                            /\ profile' = [rev |-> profile.rev + 1, known |-> known]
  /\ CancelEntries
  /\ UNCHANGED <<entries, cancelled, closing, cleanup, stage, atServer, past>>
-----------------------------------------------------------------------------
(* An upload *)

Ask(o, request, at) ==
  /\ wire' = [wire EXCEPT ![o] = Append(@, request)]
  /\ op' = [op EXCEPT ![o].at = at, ![o].answer = "none"]

Going(o, at) == op[o].at = at /\ ~op[o].cancel
Local        == UNCHANGED <<profile, entries, cancelled, closing, cleanup, stage, staging, dest>>

\* The dialog, the connection, lstat of the destination, and the local file's size.
Setup(o) ==
  /\ Running /\ Going(o, "setup")
  /\ \/ op' = [op EXCEPT ![o].at = "drop"]
     \/ /\ dest = "absent"
        /\ op' = [op EXCEPT ![o].at = "ready", ![o].total = op[o].local]
  /\ UNCHANGED <<wire, past>> /\ Local

OpenStaging(o) ==
  /\ Running /\ Going(o, "ready")
  /\ Ask(o, "open", "opening")
  /\ UNCHANGED past /\ Local

\* A staging file that exists is removed from here on.
Opened(o) ==
  /\ Running /\ Going(o, "opening") /\ op[o].answer = "ok"
  /\ op' = [op EXCEPT ![o].at = "copy", ![o].temp = TRUE]
  /\ UNCHANGED <<wire, past>> /\ Local

\* Variant: the end of the file is the size it had.
CopyKnown(o) ==
  /\ Running /\ Going(o, "copy")
  /\ IF op[o].offset < op[o].local THEN Ask(o, "write", "writing") ELSE Ask(o, "rename", "renaming")
  /\ UNCHANGED past /\ Local

\* The local file is read to its end, which may have moved.
Copy(o) ==
  /\ Running /\ Going(o, "copy")
  /\ IF op[o].offset < op[o].local THEN Ask(o, "write", "writing") ELSE Ask(o, "close", "closing")
  /\ UNCHANGED past /\ Local

\* Variant: the offset is not advanced.
WrittenAgain(o) ==
  /\ Running /\ Going(o, "writing") /\ op[o].answer = "ok"
  /\ op' = [op EXCEPT ![o].at = "copy"]
  /\ UNCHANGED <<wire, past>> /\ Local

Written(o) ==
  /\ Running /\ Going(o, "writing") /\ op[o].answer = "ok"
  /\ op' = [op EXCEPT ![o].at = "copy", ![o].offset = @ + 1]
  /\ UNCHANGED <<wire, past>> /\ Local

\* Variant: the staging file is let go before the rename is answered.
ClosedEarly(o) ==
  /\ Running /\ Going(o, "closing") /\ op[o].answer = "ok"
  /\ IF op[o].offset = op[o].total
     THEN /\ wire' = [wire EXCEPT ![o] = Append(@, "rename")]
          /\ op' = [op EXCEPT ![o].at = "renaming", ![o].answer = "none", ![o].temp = FALSE]
     ELSE op' = [op EXCEPT ![o].at = "drop"] /\ UNCHANGED wire
  /\ UNCHANGED past /\ Local

Closed(o) ==
  /\ Running /\ Going(o, "closing") /\ op[o].answer = "ok"
  /\ IF op[o].offset = op[o].total
     THEN Ask(o, "rename", "renaming")
     ELSE op' = [op EXCEPT ![o].at = "drop"] /\ UNCHANGED wire
  /\ UNCHANGED past /\ Local

Renamed(o) ==
  /\ Running /\ Going(o, "renaming") /\ op[o].answer = "ok"
  /\ op' = [op EXCEPT ![o].at = "drop", ![o].temp = FALSE]
  /\ UNCHANGED <<wire, past>> /\ Local

\* Nothing tracks a staging file whose open is not answered.
Untrack(o) ==
  past' = [past EXCEPT ![o].untracked = @ \/ (op[o].at = "opening" /\ op[o].answer # "error")]

\* An error answer, or none in time.
Fails(o) ==
  /\ Running /\ op[o].at \in Asking /\ ~op[o].cancel /\ op[o].answer # "ok"
  /\ op' = [op EXCEPT ![o].at = "drop"]
  /\ Untrack(o)
  /\ UNCHANGED wire /\ Local

\* run selects the cancel first, wherever the work waits.
Abandon(o) ==
  /\ Running /\ op[o].cancel /\ op[o].at \in Working
  /\ op' = [op EXCEPT ![o].at = "drop"]
  /\ Untrack(o)
  /\ UNCHANGED wire /\ Local

\* RemoteTemp::drop, then Guard::drop.
DropWork(o) ==
  /\ Running /\ op[o].at = "drop"
  /\ op' = [op EXCEPT ![o] = [NotCalled EXCEPT !.at = "dropped", !.cancel = op[o].cancel, !.total = op[o].total]]
  /\ cleanup' = IF op[o].temp THEN cleanup \union {o} ELSE cleanup
  /\ UNCHANGED <<profile, entries, cancelled, closing, stage, atServer, past>>

\* Variant: the entry goes first.
UnregisterFirst(o) ==
  /\ Running
  /\ \/ op[o].at = "drop" /\ o \in entries /\ UNCHANGED op
     \/ op[o].at = "dropped" /\ op' = [op EXCEPT ![o].at = "done"]
  /\ entries' = entries \ {o}
  /\ UNCHANGED <<profile, cancelled, closing, cleanup, stage, atServer, past>>

Unregister(o) ==
  /\ Running /\ op[o].at = "dropped"
  /\ op' = [op EXCEPT ![o].at = "done"]
  /\ entries' = entries \ {o}
  /\ UNCHANGED <<profile, cancelled, closing, cleanup, stage, atServer, past>>
-----------------------------------------------------------------------------
(* Cleanup tasks and the shutdown *)

Remove(o) ==
  /\ Running /\ o \in cleanup /\ ~past[o].attempted
  /\ wire' = [wire EXCEPT ![o] = IF past[o].lost THEN @ ELSE Append(@, "remove")]
  /\ past' = [past EXCEPT ![o].attempted = TRUE]
  /\ UNCHANGED <<profile, op, entries, cancelled, closing, cleanup, stage, staging, dest>>

\* Answered; or three seconds have passed, and what is on the wire is cut off.
Removed(o) ==
  /\ Running /\ o \in cleanup /\ past[o].attempted
  /\ cleanup' = cleanup \ {o}
  /\ \/ wire[o] = <<>> /\ UNCHANGED <<wire, past>>
     \/ /\ wire[o] # <<>>
        /\ wire' = [wire EXCEPT ![o] = <<>>]
        /\ past' = [past EXCEPT ![o].lost = TRUE]
  /\ UNCHANGED <<profile, op, entries, cancelled, closing, stage, staging, dest>>

Shutdown ==
  /\ stage = "open"
  /\ stage' = "draining" /\ closing' = TRUE
  /\ CancelEntries
  /\ UNCHANGED <<profile, entries, cancelled, cleanup, atServer, past>>

\* Entries first, then the cleanup tasks registered by then.
Drained ==
  /\ stage = "draining" /\ entries = {}
  /\ stage' = "cleaning"
  /\ UNCHANGED <<profile, op, entries, cancelled, closing, cleanup, atServer, past>>

Cleaned ==
  /\ stage = "cleaning" /\ cleanup = {}
  /\ stage' = "drained"
  /\ UNCHANGED <<profile, op, entries, cancelled, closing, cleanup, atServer, past>>

\* After the drain, or five seconds; the connections go with the process.
Exit ==
  /\ stage \in {"draining", "cleaning", "drained"}
  /\ stage' = "exited"
  /\ wire' = [o \in Op |-> <<>>]
  /\ past' = [o \in Op |-> [past[o] EXCEPT !.lost = @ \/ stage # "drained"]]
  /\ UNCHANGED <<profile, op, entries, cancelled, closing, cleanup, staging, dest>>
-----------------------------------------------------------------------------
(* The server, and others on either side *)

Answer(o, a) ==
  op' = IF op[o].at \in Asking /\ Len(wire[o]) = 1 THEN [op EXCEPT ![o].answer = a] ELSE op

Serve(o) ==
  /\ wire[o] # <<>>
  /\ wire' = [wire EXCEPT ![o] = Tail(@)]
  /\ LET request == Head(wire[o]) IN
       \/ /\ \/ request = "open" /\ staging' = [staging EXCEPT ![o] = 0] /\ UNCHANGED <<dest, past>>
             \/ request = "write" /\ staging' = [staging EXCEPT ![o] = @ + 1] /\ UNCHANGED <<dest, past>>
             \/ request = "close" /\ UNCHANGED <<staging, dest, past>>
             \/ /\ request = "rename" /\ dest = "absent"
                /\ dest' = "upload" /\ staging' = [staging EXCEPT ![o] = None]
                /\ past' = [past EXCEPT ![o].published = TRUE]
             \/ request = "remove" /\ staging' = [staging EXCEPT ![o] = None] /\ UNCHANGED <<dest, past>>
          /\ Answer(o, "ok")
       \/ \* No space, no permission, or the destination exists.
          /\ Answer(o, "error")
          /\ past' = [past EXCEPT ![o].refused = @ \/ request = "remove"]
          /\ UNCHANGED <<staging, dest>>
  /\ UNCHANGED <<profile, entries, cancelled, closing, cleanup, stage>>

LoseConnection(o) ==
  /\ wire[o] # <<>>
  /\ wire' = [wire EXCEPT ![o] = <<>>]
  /\ past' = [past EXCEPT ![o].lost = TRUE]
  /\ op' = IF op[o].at \in Asking THEN [op EXCEPT ![o].answer = "error"] ELSE op
  /\ UNCHANGED <<profile, entries, cancelled, closing, cleanup, stage, staging, dest>>

\* Someone creates the destination; the local file grows or is cut while it is read.
Others ==
  /\ \/ dest = "absent" /\ dest' = "other" /\ UNCHANGED op
     \/ \E o \in Op, n \in Size : /\ op[o].at \in {"copy", "writing"}
                                  /\ op' = [op EXCEPT ![o].local = n] /\ UNCHANGED dest
  /\ UNCHANGED <<profile, entries, cancelled, closing, cleanup, stage, wire, staging, past>>

Upload(o) ==
  \/ Register(o) \/ Setup(o) \/ OpenStaging(o) \/ Opened(o) \/ Copy(o) \/ Written(o)
  \/ Closed(o) \/ Renamed(o) \/ Fails(o) \/ Abandon(o) \/ DropWork(o) \/ Unregister(o)

FilesNext ==
  \/ \E o \in Op : \/ Call(o) \/ Upload(o) \/ Cancel(o) \/ Remove(o) \/ Removed(o)
                   \/ Serve(o) \/ LoseConnection(o)
  \/ EditServer \/ Shutdown \/ Drained \/ Cleaned \/ Exit \/ Others

FilesSpec == FilesInit /\ [][FilesNext]_fileVars

-----------------------------------------------------------------------------
(* Properties *)

FilesTypeOK ==
  /\ profile \in [rev : 0 .. MaxEdits, known : BOOLEAN]
  /\ op \in [Op -> [at : {"idle", "called", "drop", "dropped", "done"} \union Working,
                    rev : 0 .. MaxEdits, local : Size, total : 0 .. MaxSize, offset : 0 .. MaxSize,
                    temp : BOOLEAN, cancel : BOOLEAN, answer : {"none", "ok", "error"}]]
  /\ entries \subseteq Op /\ Cardinality(entries) <= Limit
  /\ cancelled \in Seq(Op) /\ Len(cancelled) <= Tombstones
  /\ closing \in BOOLEAN
  /\ cleanup \subseteq Op
  /\ stage \in {"open", "draining", "cleaning", "drained", "exited"}
  /\ wire \in [Op -> Seq({"open", "write", "close", "rename", "remove"})]
  /\ staging \in [Op -> (0 .. MaxSize) \union {None}]
  /\ dest \in {"absent", "other", "upload"}
  /\ past \in [Op -> [early : BOOLEAN, lost : BOOLEAN, untracked : BOOLEAN, refused : BOOLEAN,
                      attempted : BOOLEAN, published : BOOLEAN]]

\* What appears under the destination's name is a whole upload, whatever was cancelled,
\* timed out, or changed on the local side ("never publish an incomplete upload").
PublishedWhole ==
  [][\A o \in Op : past'[o].published /\ ~past[o].published => staging[o] = op[o].total]_fileVars

\* No operation that may go on works with a login that was replaced or removed.
CurrentProfile ==
  \A o \in Op : op[o].at \in Working /\ ~op[o].cancel => profile.known /\ op[o].rev = profile.rev

\* An operation cancelled before it was registered never starts, unless the cancel is one
\* of so many that it is forgotten.
CancelledNeverStarts ==
  \A o \in Op : past[o].early => op[o].at \notin Working

\* When the shutdown has drained in time, nothing is registered, no removal is under
\* way or still to come, and what is left on the server is left for a known reason.
DrainedClean ==
  stage = "drained" =>
    /\ entries = {} /\ cleanup = {}
    /\ \A o \in Op : op[o].at \in {"idle", "called", "done"}

\* A staging file stays behind only when its removal failed, the connection was lost, or
\* its creation was not answered.
StagingAccounted ==
  \A o \in Op : op[o].at = "done" /\ o \notin cleanup /\ staging[o] # None
                  => past[o].refused \/ past[o].lost \/ past[o].untracked

\* The four: operations end with their login, their cancellation and their staging files
\* accounted for.
UploadsSound == FilesTypeOK /\ CurrentProfile /\ CancelledNeverStarts /\ DrainedClean /\ StagingAccounted

\* docs/files.md: "Newport attempts to remove it after cancellation or failure, but
\* connection loss or abrupt termination can leave it behind."
\* The code does not keep it: no run expects it to hold (README, "What the code does
\* not keep").
RemovalTried ==
  \A o \in Op : op[o].at = "done" /\ o \notin cleanup /\ staging[o] # None
                  => past[o].attempted \/ past[o].lost
=============================================================================

------------------------------ MODULE FilesProofs ------------------------------
(***************************************************************************)
(* The theorems of FileOperations, Downloads and Folders, for any number   *)
(* of operations, files of any length, folders of any size and any number  *)
(* of changes by others: FilesSound and PublishedWhole.                    *)
(***************************************************************************)
EXTENDS MCFileOperations, FiniteSetTheorems, SequenceTheorems, WellFoundedInduction, TLAPS

(* Uploads *)

Requests   == {"open", "write", "close", "rename"}
Requested  == [opening |-> "open", writing |-> "write", closing |-> "close", renaming |-> "rename"]
Wire       == Seq({"open", "write", "close", "rename", "remove"})
StagedSize == (0 .. MaxSize) \union {None}
OpRecord   == [at : {"idle", "called", "drop", "dropped", "done"} \union Working,
               rev : 0 .. MaxEdits, local : Size, total : 0 .. MaxSize, offset : 0 .. MaxSize,
               temp : BOOLEAN, cancel : BOOLEAN, answer : {"none", "ok", "error"}]
PastRecord == [early : BOOLEAN, lost : BOOLEAN, untracked : BOOLEAN, refused : BOOLEAN,
               attempted : BOOLEAN, published : BOOLEAN]
Ended      == {"dropped", "done"}
Holding    == Working \union {"drop", "dropped"}

\* Before the staging file is asked for.
Fresh(o) == op[o].offset = 0 /\ ~op[o].temp /\ staging[o] = None /\ wire[o] = <<>>

\* A request is on the wire as long as no answer came, and the staging file is what it
\* was asked for, or what the answer says it has become.
Awaiting(o) ==
  LET ok == op[o].answer = "ok" IN
  /\ wire[o] = <<>> \/ (wire[o] = <<Requested[op[o].at]>> /\ op[o].answer = "none")
  /\ op[o].at = "opening"  => ~op[o].temp /\ op[o].offset = 0 /\ staging[o] = IF ok THEN 0 ELSE None
  /\ op[o].at # "opening"  => op[o].temp
  /\ op[o].at = "writing"  => op[o].offset < MaxSize /\ staging[o] = IF ok THEN op[o].offset + 1 ELSE op[o].offset
  /\ op[o].at = "closing"  => staging[o] = op[o].offset
  /\ op[o].at = "renaming" => op[o].offset = op[o].total /\ staging[o] = IF ok THEN None ELSE op[o].total

Copying(o) == op[o].temp /\ wire[o] = <<>> /\ staging[o] = op[o].offset

\* A request that is left behind still finds the staging file it was asked for.
Left(o) ==
  /\ wire[o] # <<>> /\ Head(wire[o]) = "write"  => staging[o] \in 0 .. MaxSize - 1
  /\ wire[o] # <<>> /\ Head(wire[o]) = "rename" => staging[o] = op[o].total

OneLeft(o) == \E q \in Requests : wire[o] = <<q>>
Removing(o) == wire[o] = <<"remove">> \/ \E q \in Requests : wire[o] = <<q, "remove">>

Dropping(o) ==
  /\ wire[o] = <<>> \/ OneLeft(o)
  /\ ~op[o].temp => past[o].untracked \/ (staging[o] = None /\ wire[o] = <<>>)
  /\ Left(o)

\* A removal that was tried is on the wire, was answered, or went with its connection;
\* where none is to come, the staging file is accounted for.
OverNow(o) ==
  /\ wire[o] = <<>> \/ OneLeft(o) \/ (past[o].attempted /\ Removing(o))
  /\ o \notin cleanup =>
       past[o].refused \/ past[o].lost \/ past[o].untracked \/ (staging[o] = None /\ wire[o] = <<>>)
  /\ o \in cleanup /\ past[o].attempted =>
       past[o].lost \/ Removing(o) \/ (wire[o] = <<>> /\ (past[o].refused \/ staging[o] = None))
  /\ Left(o)

Fine(o) ==
  /\ op[o].at \in {"idle", "called", "setup", "ready"} => Fresh(o)
  /\ op[o].at \in Asking => Awaiting(o)
  /\ op[o].at = "copy" => Copying(o)
  /\ op[o].at = "drop" => Dropping(o)
  /\ op[o].at \in Ended => OverNow(o)
  /\ op[o].at \notin Ended => o \notin cleanup /\ ~past[o].attempted

Registered ==
  /\ \A o \in Op : o \in entries <=> op[o].at \in Holding
  /\ stage # "open" => closing
  /\ stage \in {"cleaning", "drained"} => entries = {}
  /\ stage = "drained" => cleanup = {}

Remembered ==
  \A o \in Op : past[o].early => op[o].at \in {"called", "done"} /\ (op[o].at = "called" => Mentioned(o))

FilesInv == FilesTypeOK /\ IsFiniteSet(entries) /\ (\A o \in Op : Fine(o)) /\ Registered /\ Remembered /\ CurrentProfile

\* The parts the theorem is about follow.
LEMMA FilesInvEnough == FilesInv => UploadsSound
<1> SUFFICES ASSUME FilesInv PROVE UploadsSound  OBVIOUS
<1>1. FilesTypeOK /\ CurrentProfile
  BY DEF FilesInv
<1>2. CancelledNeverStarts
  BY DEF FilesInv, Remembered, CancelledNeverStarts, Working, Asking
<1>3. DrainedClean
  BY DEF FilesInv, FilesTypeOK, Registered, DrainedClean, Holding, Working, Asking
<1>4. StagingAccounted
  BY DEF FilesInv, Fine, OverNow, Ended, StagingAccounted
<1> QED  BY <1>1, <1>2, <1>3, <1>4 DEF UploadsSound
-----------------------------------------------------------------------------
LEMMA WireFacts ==
  ASSUME NEW q \in Requests, NEW p \in {"remove"}
  PROVE  /\ Head(<<q>>) = q /\ Tail(<<q>>) = <<>> /\ Len(<<q>>) = 1 /\ <<q>> \in Wire
         /\ Head(<<p>>) = p /\ Tail(<<p>>) = <<>> /\ <<p>> \in Wire
         /\ Head(<<q, p>>) = q /\ Tail(<<q, p>>) = <<p>> /\ Len(<<q, p>>) = 2 /\ <<q, p>> \in Wire
         /\ Append(<<>>, q) = <<q>> /\ Append(<<>>, p) = <<p>> /\ Append(<<q>>, p) = <<q, p>>
         /\ <<>> # <<q>> /\ <<>> # <<p>> /\ <<>> # <<q, p>> /\ <<>> \in Wire /\ Len(<<>>) = 0
<1>1. Head(<<q>>) = q /\ Tail(<<q>>) = <<>> /\ Len(<<q>>) = 1
  OBVIOUS
<1>2. Head(<<p>>) = p /\ Tail(<<p>>) = <<>> /\ Len(<<p>>) = 1
  OBVIOUS
<1>3. Head(<<q, p>>) = q /\ Len(<<q, p>>) = 2
  OBVIOUS
<1>4. Tail(<<q, p>>) = <<p>>
  OBVIOUS
<1>5. Append(<<>>, q) = <<q>> /\ Append(<<>>, p) = <<p>>
  OBVIOUS
<1>6. <<>> # <<q>> /\ <<>> # <<p>> /\ <<>> # <<q, p>> /\ Len(<<>>) = 0
  OBVIOUS
<1>7. <<>> \in Wire /\ <<q>> \in Wire /\ <<p>> \in Wire /\ <<q, p>> \in Wire
  BY DEF Wire, Requests
<1>8. Append(<<q>>, p) = <<q, p>>
  <2>1. Append(<<q>>, p) \in Wire
    BY <1>7, AppendProperties DEF Wire
  <2>2. Len(Append(<<q>>, p)) = 2
    OBVIOUS
  <2>3. \A n \in 1 .. 2 : Append(<<q>>, p)[n] = <<q, p>>[n]
    OBVIOUS
  <2> QED  BY <1>3, <1>7, <2>1, <2>2, <2>3, SeqEqual DEF Wire
<1> QED  BY <1>1, <1>2, <1>3, <1>4, <1>5, <1>6, <1>7, <1>8

LEMMA FilesTypes ==
  ASSUME FilesTypeOK, NEW o \in Op
  PROVE  op[o] \in OpRecord /\ wire[o] \in Wire /\ staging[o] \in StagedSize /\ past[o] \in PastRecord
BY DEF FilesTypeOK, OpRecord, Wire, StagedSize, PastRecord

\* What an operation's part of the invariant reads.
LEMMA FineFrame ==
  ASSUME NEW o \in Op, Fine(o),
         op'[o].at = op[o].at, op'[o].offset = op[o].offset, op'[o].total = op[o].total,
         op'[o].temp = op[o].temp, op'[o].answer = op[o].answer,
         wire'[o] = wire[o], staging'[o] = staging[o], o \in cleanup' <=> o \in cleanup,
         past'[o].untracked = past[o].untracked, past'[o].refused = past[o].refused,
         past'[o].attempted = past[o].attempted, past'[o].lost = past[o].lost
  PROVE  Fine(o)'
BY DEF Fine, Fresh, Awaiting, Copying, Dropping, OverNow, Left, OneLeft, Removing

\* A step of one operation and its server.
LEMMA OneStep ==
  ASSUME FilesInv, NEW o \in Op,
         NEW r \in OpRecord, NEW w \in Wire, NEW s \in StagedSize, NEW h \in PastRecord,
         op' = [op EXCEPT ![o] = r], wire' = [wire EXCEPT ![o] = w],
         staging' = [staging EXCEPT ![o] = s], past' = [past EXCEPT ![o] = h],
         UNCHANGED <<profile, closing, stage>>,
         dest' \in {"absent", "other", "upload"},
         cleanup' \subseteq Op, \A p \in Op \ {o} : p \in cleanup' <=> p \in cleanup,
         entries' \subseteq Op, \A p \in Op \ {o} : p \in entries' <=> p \in entries,
         IsFiniteSet(entries'), Cardinality(entries') <= Limit,
         o \in entries' <=> r.at \in Holding,
         stage \in {"cleaning", "drained"} => entries' = {},
         stage = "drained" => cleanup' = {},
         cancelled' \in Seq(Op), Len(cancelled') <= Tombstones,
         \A p \in Op \ {o} : Mentioned(p) => Mentioned(p)',
         h.early => r.at \in {"called", "done"} /\ (r.at = "called" => Mentioned(o)'),
         r.at \in Working /\ ~r.cancel => profile.known /\ r.rev = profile.rev,
         Fine(o)'
  PROVE  FilesInv'
<1>1. /\ op \in [Op -> OpRecord] /\ wire \in [Op -> Wire]
      /\ staging \in [Op -> StagedSize] /\ past \in [Op -> PastRecord]
  BY DEF FilesInv, FilesTypeOK, OpRecord, Wire, StagedSize, PastRecord
<1>2. op'[o] = r /\ past'[o] = h /\ \A p \in Op \ {o} : op'[p] = op[p] /\ past'[p] = past[p]
  BY <1>1
<1>3. FilesTypeOK'
  <2>1. /\ op' \in [Op -> OpRecord] /\ wire' \in [Op -> Wire]
        /\ staging' \in [Op -> StagedSize] /\ past' \in [Op -> PastRecord]
    BY <1>1
  <2> QED  BY <2>1 DEF FilesInv, FilesTypeOK, OpRecord, Wire, StagedSize, PastRecord
<1>4. ASSUME NEW p \in Op PROVE Fine(p)'
  <2>1. CASE p = o  BY <2>1
  <2>2. CASE p # o
    <3>1. op'[p] = op[p] /\ wire'[p] = wire[p] /\ staging'[p] = staging[p] /\ past'[p] = past[p]
      BY <1>1, <2>2
    <3> QED  BY <2>2, <3>1, FineFrame DEF FilesInv
  <2> QED  BY <2>1, <2>2
<1>5. Registered'
  BY <1>2 DEF FilesInv, Registered
<1>6. Remembered'
  BY <1>2 DEF FilesInv, Remembered
<1>7. CurrentProfile'
  BY <1>2 DEF FilesInv, CurrentProfile
<1> QED  BY <1>3, <1>4, <1>5, <1>6, <1>7 DEF FilesInv
-----------------------------------------------------------------------------
(* The steps of an upload *)

\* A step that changes no more than where the upload is and what it has asked for.
LEMMA WorkStep ==
  ASSUME FilesInv, NEW o \in Op, NEW r \in OpRecord, NEW w \in Wire, NEW h \in PastRecord,
         op' = [op EXCEPT ![o] = r], wire' = [wire EXCEPT ![o] = w], past' = [past EXCEPT ![o] = h],
         Local,
         op[o].at \in Working, r.at \in Working \union {"drop"}, r.rev = op[o].rev, r.cancel = op[o].cancel,
         h.early = past[o].early,
         Fine(o)'
  PROVE  FilesInv'
<1>1. UNCHANGED <<profile, entries, cancelled, closing, cleanup, stage, staging, dest>>
  BY DEF Local
<1>2. staging' = [staging EXCEPT ![o] = staging[o]] /\ staging[o] \in StagedSize
  BY <1>1 DEF FilesInv, FilesTypeOK, StagedSize
<1>3. o \in entries /\ r.at \in Holding
  BY DEF FilesInv, Registered, Holding
<1>4. \A p \in Op : Mentioned(p)' <=> Mentioned(p)
  BY <1>1 DEF Mentioned
<1>5. r.at \in Working /\ ~r.cancel => profile.known /\ r.rev = profile.rev
  BY DEF FilesInv, CurrentProfile
<1>6. ~past[o].early
  BY DEF FilesInv, Remembered, Working, Asking
<1>7. /\ cleanup' \subseteq Op /\ entries' \subseteq Op /\ dest' \in {"absent", "other", "upload"}
      /\ IsFiniteSet(entries') /\ Cardinality(entries') <= Limit
      /\ cancelled' \in Seq(Op) /\ Len(cancelled') <= Tombstones
      /\ stage \in {"cleaning", "drained"} => entries' = {}
      /\ stage = "drained" => cleanup' = {}
  BY <1>1 DEF FilesInv, FilesTypeOK, Registered
<1> QED  BY <1>1, <1>2, <1>3, <1>4, <1>5, <1>6, <1>7, OneStep

\* What a step does to its operation.
LEMMA Own ==
  ASSUME FilesTypeOK, NEW o \in Op
  PROVE  /\ \A r \in OpRecord : op' = [op EXCEPT ![o] = r] => op'[o] = r
         /\ \A w \in Wire : wire' = [wire EXCEPT ![o] = w] => wire'[o] = w
         /\ \A s \in StagedSize : staging' = [staging EXCEPT ![o] = s] => staging'[o] = s
         /\ \A h \in PastRecord : past' = [past EXCEPT ![o] = h] => past'[o] = h
         /\ wire = [wire EXCEPT ![o] = wire[o]] /\ past = [past EXCEPT ![o] = past[o]]
         /\ staging = [staging EXCEPT ![o] = staging[o]] /\ op = [op EXCEPT ![o] = op[o]]
BY DEF FilesTypeOK, OpRecord, Wire, StagedSize, PastRecord

LEMMA SetupInv == ASSUME FilesInv, NEW o \in Op, Setup(o) PROVE FilesInv'
<1>1. op[o] \in OpRecord /\ wire[o] \in Wire /\ staging[o] \in StagedSize /\ past[o] \in PastRecord /\ Fine(o)
  BY FilesTypes DEF FilesInv
<1>2. op[o].at = "setup" /\ UNCHANGED wire /\ Local /\ UNCHANGED past
  BY DEF Setup, Going, Ask
<1>3. past' = [past EXCEPT ![o] = past[o]] /\ staging' = staging /\ cleanup' = cleanup
  BY <1>2, Own DEF FilesInv, Local
<1>4. Fresh(o) /\ wire[o] = <<>> /\ o \notin cleanup /\ ~past[o].attempted
  BY <1>1, <1>2, WireFacts DEF Fine, Fresh, Ended, Asking, Requests
<1>5. CASE op' = [op EXCEPT ![o].at = "drop"]
  <2> DEFINE r == [op[o] EXCEPT !.at = "drop"]
  <2>1. r \in OpRecord /\ r.at = "drop" /\ r.rev = op[o].rev /\ r.cancel = op[o].cancel /\ r.total = op[o].total
        /\ r.offset = op[o].offset /\ r.temp = op[o].temp /\ r.answer = op[o].answer
    BY <1>1, <1>2, <1>4, <1>5, UploadAssumption DEF OpRecord, Working, Asking, Size
  <2>2. op' = [op EXCEPT ![o] = r]
    BY <1>5
  <2>3. wire' = [wire EXCEPT ![o] = <<>>] /\ <<>> \in Wire
    BY <1>1, <1>2, <1>4, <1>5, Own DEF Setup, FilesInv
  <2>4. op'[o] = r /\ wire'[o] = <<>> /\ staging'[o] = staging[o] /\ past'[o] = past[o] /\ o \notin cleanup'
    BY <1>3, <1>4, <2>1, <2>2, <2>3, Own DEF FilesInv
  <2>5. Dropping(o)'
    BY <1>1, <1>2, <1>4, <1>5, <2>1, <2>4 DEF Fresh, Dropping, Left, OneLeft, Requests
  <2>6. Fine(o)'
    BY <1>4, <2>1, <2>4, <2>5 DEF Fine, Ended, Asking
  <2> QED  BY <1>1, <1>2, <1>3, <2>1, <2>2, <2>3, <2>6, WorkStep DEF Working, Asking
<1>6. CASE op' = [op EXCEPT ![o].at = "ready", ![o].total = op[o].local]
  <2> DEFINE r == [op[o] EXCEPT !.at = "ready", !.total = op[o].local]
  <2>1. r \in OpRecord /\ r.at = "ready" /\ r.total = op[o].local /\ r.rev = op[o].rev /\ r.cancel = op[o].cancel
        /\ r.offset = op[o].offset /\ r.temp = op[o].temp /\ r.answer = op[o].answer
    BY <1>1, <1>2, <1>4, <1>6, UploadAssumption DEF OpRecord, Working, Asking, Size
  <2>2. op' = [op EXCEPT ![o] = r]
    BY <1>6
  <2>3. wire' = [wire EXCEPT ![o] = <<>>] /\ <<>> \in Wire
    BY <1>1, <1>2, <1>4, <1>6, Own DEF Setup, FilesInv
  <2>4. op'[o] = r /\ wire'[o] = <<>> /\ staging'[o] = staging[o] /\ past'[o] = past[o] /\ o \notin cleanup'
    BY <1>3, <1>4, <2>1, <2>2, <2>3, Own DEF FilesInv
  <2>5. Fresh(o)'
    BY <1>1, <1>2, <1>4, <1>6, <2>1, <2>4 DEF Fresh, Fresh
  <2>6. Fine(o)'
    BY <1>4, <2>1, <2>4, <2>5 DEF Fine, Ended, Asking
  <2> QED  BY <1>1, <1>2, <1>3, <2>1, <2>2, <2>3, <2>6, WorkStep DEF Working, Asking
<1> QED  BY <1>2, <1>5, <1>6 DEF Setup

LEMMA OpenStagingInv == ASSUME FilesInv, NEW o \in Op, OpenStaging(o) PROVE FilesInv'
<1>1. op[o] \in OpRecord /\ wire[o] \in Wire /\ staging[o] \in StagedSize /\ past[o] \in PastRecord /\ Fine(o)
  BY FilesTypes DEF FilesInv
<1>2. op[o].at = "ready" /\ Local /\ UNCHANGED past
  BY DEF OpenStaging, Going, Ask
<1>3. past' = [past EXCEPT ![o] = past[o]] /\ staging' = staging /\ cleanup' = cleanup
  BY <1>2, Own DEF FilesInv, Local
<1>4. Fresh(o) /\ wire[o] = <<>> /\ o \notin cleanup /\ ~past[o].attempted
  BY <1>1, <1>2, WireFacts DEF Fine, Fresh, Ended, Asking, Requests
<1>5. CASE Ask(o, "open", "opening")
  <2> DEFINE r == [op[o] EXCEPT !.at = "opening", !.answer = "none"]
  <2>1. r \in OpRecord /\ r.at = "opening" /\ r.answer = "none" /\ r.rev = op[o].rev /\ r.cancel = op[o].cancel
        /\ r.total = op[o].total /\ r.offset = op[o].offset /\ r.temp = op[o].temp
    BY <1>1, <1>2, <1>4, <1>5, UploadAssumption DEF OpRecord, Working, Asking, Size
  <2>2. op' = [op EXCEPT ![o] = r]
    BY <1>5 DEF Ask
  <2>3. wire' = [wire EXCEPT ![o] = <<"open">>] /\ <<"open">> \in Wire
    BY <1>4, <1>5, WireFacts DEF Ask, Requests
  <2>4. op'[o] = r /\ wire'[o] = <<"open">> /\ staging'[o] = staging[o] /\ past'[o] = past[o] /\ o \notin cleanup'
    BY <1>3, <1>4, <2>1, <2>2, <2>3, Own DEF FilesInv
  <2>5. Awaiting(o)'
    BY <1>1, <1>2, <1>4, <1>5, <2>1, <2>4, WireFacts, StagingAssumption, UploadAssumption DEF Fresh, Awaiting, Requested, Requests, Asking, StagedSize, OpRecord, Size
  <2>6. Fine(o)'
    BY <1>4, <2>1, <2>4, <2>5 DEF Fine, Ended, Asking
  <2> QED  BY <1>1, <1>2, <1>3, <2>1, <2>2, <2>3, <2>6, WorkStep DEF Working, Asking
<1> QED  BY <1>2, <1>5 DEF OpenStaging

LEMMA OpenedInv == ASSUME FilesInv, NEW o \in Op, Opened(o) PROVE FilesInv'
<1>1. op[o] \in OpRecord /\ wire[o] \in Wire /\ staging[o] \in StagedSize /\ past[o] \in PastRecord /\ Fine(o)
  BY FilesTypes DEF FilesInv
<1>2. op[o].at = "opening" /\ op[o].answer = "ok" /\ UNCHANGED wire /\ Local /\ UNCHANGED past
  BY DEF Opened, Going, Ask
<1>3. past' = [past EXCEPT ![o] = past[o]] /\ staging' = staging /\ cleanup' = cleanup
  BY <1>2, Own DEF FilesInv, Local
<1>4. Awaiting(o) /\ wire[o] = <<>> /\ o \notin cleanup /\ ~past[o].attempted
  BY <1>1, <1>2, WireFacts DEF Fine, Awaiting, Requested, Requests, Asking, StagedSize, OpRecord, Size, Ended, Asking, Requests
<1>5. CASE op' = [op EXCEPT ![o].at = "copy", ![o].temp = TRUE]
  <2> DEFINE r == [op[o] EXCEPT !.at = "copy", !.temp = TRUE]
  <2>1. r \in OpRecord /\ r.at = "copy" /\ r.temp = TRUE /\ r.rev = op[o].rev /\ r.cancel = op[o].cancel
        /\ r.total = op[o].total /\ r.offset = op[o].offset /\ r.answer = op[o].answer
    BY <1>1, <1>2, <1>4, <1>5, UploadAssumption DEF OpRecord, Working, Asking, Size
  <2>2. op' = [op EXCEPT ![o] = r]
    BY <1>5
  <2>3. wire' = [wire EXCEPT ![o] = <<>>] /\ <<>> \in Wire
    BY <1>1, <1>2, <1>4, <1>5, Own DEF Opened, FilesInv
  <2>4. op'[o] = r /\ wire'[o] = <<>> /\ staging'[o] = staging[o] /\ past'[o] = past[o] /\ o \notin cleanup'
    BY <1>3, <1>4, <2>1, <2>2, <2>3, Own DEF FilesInv
  <2>50. staging[o] = r.offset /\ r.temp
    BY <1>1, <1>2, <1>4, <2>1 DEF Awaiting, Asking
  <2>5. Copying(o)'
    BY <1>1, <1>2, <1>4, <1>5, <2>1, <2>4, <2>50 DEF Awaiting, Copying
  <2>6. Fine(o)'
    BY <1>4, <2>1, <2>4, <2>5 DEF Fine, Ended, Asking
  <2> QED  BY <1>1, <1>2, <1>3, <2>1, <2>2, <2>3, <2>6, WorkStep DEF Working, Asking
<1> QED  BY <1>2, <1>5 DEF Opened

LEMMA CopyInv == ASSUME FilesInv, NEW o \in Op, Copy(o) PROVE FilesInv'
<1>1. op[o] \in OpRecord /\ wire[o] \in Wire /\ staging[o] \in StagedSize /\ past[o] \in PastRecord /\ Fine(o)
  BY FilesTypes DEF FilesInv
<1>2. op[o].at = "copy" /\ Local /\ UNCHANGED past
  BY DEF Copy, Going, Ask
<1>3. past' = [past EXCEPT ![o] = past[o]] /\ staging' = staging /\ cleanup' = cleanup
  BY <1>2, Own DEF FilesInv, Local
<1>4. Copying(o) /\ wire[o] = <<>> /\ o \notin cleanup /\ ~past[o].attempted
  BY <1>1, <1>2, WireFacts DEF Fine, Copying, Ended, Asking, Requests
<1>5. CASE op[o].offset < op[o].local /\ Ask(o, "write", "writing")
  <2> DEFINE r == [op[o] EXCEPT !.at = "writing", !.answer = "none"]
  <2>1. r \in OpRecord /\ r.at = "writing" /\ r.answer = "none" /\ r.rev = op[o].rev /\ r.cancel = op[o].cancel
        /\ r.total = op[o].total /\ r.offset = op[o].offset /\ r.temp = op[o].temp
    BY <1>1, <1>2, <1>4, <1>5, UploadAssumption DEF OpRecord, Working, Asking, Size
  <2>2. op' = [op EXCEPT ![o] = r]
    BY <1>5 DEF Ask
  <2>3. wire' = [wire EXCEPT ![o] = <<"write">>] /\ <<"write">> \in Wire
    BY <1>4, <1>5, WireFacts DEF Ask, Requests
  <2>4. op'[o] = r /\ wire'[o] = <<"write">> /\ staging'[o] = staging[o] /\ past'[o] = past[o] /\ o \notin cleanup'
    BY <1>3, <1>4, <2>1, <2>2, <2>3, Own DEF FilesInv
  <2>5. Awaiting(o)'
    BY <1>1, <1>2, <1>4, <1>5, <2>1, <2>4, WireFacts, StagingAssumption, UploadAssumption DEF Copying, Awaiting, Requested, Requests, Asking, StagedSize, OpRecord, Size
  <2>6. Fine(o)'
    BY <1>4, <2>1, <2>4, <2>5 DEF Fine, Ended, Asking
  <2> QED  BY <1>1, <1>2, <1>3, <2>1, <2>2, <2>3, <2>6, WorkStep DEF Working, Asking
<1>6. CASE ~(op[o].offset < op[o].local) /\ Ask(o, "close", "closing")
  <2> DEFINE r == [op[o] EXCEPT !.at = "closing", !.answer = "none"]
  <2>1. r \in OpRecord /\ r.at = "closing" /\ r.answer = "none" /\ r.rev = op[o].rev /\ r.cancel = op[o].cancel
        /\ r.total = op[o].total /\ r.offset = op[o].offset /\ r.temp = op[o].temp
    BY <1>1, <1>2, <1>4, <1>6, UploadAssumption DEF OpRecord, Working, Asking, Size
  <2>2. op' = [op EXCEPT ![o] = r]
    BY <1>6 DEF Ask
  <2>3. wire' = [wire EXCEPT ![o] = <<"close">>] /\ <<"close">> \in Wire
    BY <1>4, <1>6, WireFacts DEF Ask, Requests
  <2>4. op'[o] = r /\ wire'[o] = <<"close">> /\ staging'[o] = staging[o] /\ past'[o] = past[o] /\ o \notin cleanup'
    BY <1>3, <1>4, <2>1, <2>2, <2>3, Own DEF FilesInv
  <2>5. Awaiting(o)'
    BY <1>1, <1>2, <1>4, <1>6, <2>1, <2>4, WireFacts, StagingAssumption, UploadAssumption DEF Copying, Awaiting, Requested, Requests, Asking, StagedSize, OpRecord, Size
  <2>6. Fine(o)'
    BY <1>4, <2>1, <2>4, <2>5 DEF Fine, Ended, Asking
  <2> QED  BY <1>1, <1>2, <1>3, <2>1, <2>2, <2>3, <2>6, WorkStep DEF Working, Asking
<1> QED  BY <1>2, <1>5, <1>6 DEF Copy

LEMMA WrittenInv == ASSUME FilesInv, NEW o \in Op, Written(o) PROVE FilesInv'
<1>1. op[o] \in OpRecord /\ wire[o] \in Wire /\ staging[o] \in StagedSize /\ past[o] \in PastRecord /\ Fine(o)
  BY FilesTypes DEF FilesInv
<1>2. op[o].at = "writing" /\ op[o].answer = "ok" /\ UNCHANGED wire /\ Local /\ UNCHANGED past
  BY DEF Written, Going, Ask
<1>3. past' = [past EXCEPT ![o] = past[o]] /\ staging' = staging /\ cleanup' = cleanup
  BY <1>2, Own DEF FilesInv, Local
<1>4. Awaiting(o) /\ wire[o] = <<>> /\ o \notin cleanup /\ ~past[o].attempted
  BY <1>1, <1>2, WireFacts DEF Fine, Awaiting, Requested, Requests, Asking, StagedSize, OpRecord, Size, Ended, Asking, Requests
<1>5. CASE op' = [op EXCEPT ![o].at = "copy", ![o].offset = op[o].offset + 1]
  <2> DEFINE r == [op[o] EXCEPT !.at = "copy", !.offset = op[o].offset + 1]
  <2>0. op[o].offset + 1 \in 0 .. MaxSize
    BY <1>1, <1>2, <1>4, UploadAssumption DEF Awaiting, OpRecord
  <2>1. r \in OpRecord /\ r.at = "copy" /\ r.offset = op[o].offset + 1 /\ r.rev = op[o].rev /\ r.cancel = op[o].cancel
        /\ r.total = op[o].total /\ r.temp = op[o].temp /\ r.answer = op[o].answer
    BY <1>1, <1>2, <1>4, <1>5, <2>0, UploadAssumption DEF OpRecord, Working, Asking, Size
  <2>2. op' = [op EXCEPT ![o] = r]
    BY <1>5
  <2>3. wire' = [wire EXCEPT ![o] = <<>>] /\ <<>> \in Wire
    BY <1>1, <1>2, <1>4, <1>5, Own DEF Written, FilesInv
  <2>4. op'[o] = r /\ wire'[o] = <<>> /\ staging'[o] = staging[o] /\ past'[o] = past[o] /\ o \notin cleanup'
    BY <1>3, <1>4, <2>1, <2>2, <2>3, Own DEF FilesInv
  <2>50. staging[o] = r.offset /\ r.temp
    BY <1>1, <1>2, <1>4, <2>1 DEF Awaiting, Asking
  <2>5. Copying(o)'
    BY <1>1, <1>2, <1>4, <1>5, <2>1, <2>4, <2>50 DEF Awaiting, Copying
  <2>6. Fine(o)'
    BY <1>4, <2>1, <2>4, <2>5 DEF Fine, Ended, Asking
  <2> QED  BY <1>1, <1>2, <1>3, <2>1, <2>2, <2>3, <2>6, WorkStep DEF Working, Asking
<1> QED  BY <1>2, <1>5 DEF Written

LEMMA ClosedInv == ASSUME FilesInv, NEW o \in Op, Closed(o) PROVE FilesInv'
<1>1. op[o] \in OpRecord /\ wire[o] \in Wire /\ staging[o] \in StagedSize /\ past[o] \in PastRecord /\ Fine(o)
  BY FilesTypes DEF FilesInv
<1>2. op[o].at = "closing" /\ op[o].answer = "ok" /\ Local /\ UNCHANGED past
  BY DEF Closed, Going, Ask
<1>3. past' = [past EXCEPT ![o] = past[o]] /\ staging' = staging /\ cleanup' = cleanup
  BY <1>2, Own DEF FilesInv, Local
<1>4. Awaiting(o) /\ wire[o] = <<>> /\ o \notin cleanup /\ ~past[o].attempted
  BY <1>1, <1>2, WireFacts DEF Fine, Awaiting, Requested, Requests, Asking, StagedSize, OpRecord, Size, Ended, Asking, Requests
<1>5. CASE op[o].offset = op[o].total /\ Ask(o, "rename", "renaming")
  <2> DEFINE r == [op[o] EXCEPT !.at = "renaming", !.answer = "none"]
  <2>1. r \in OpRecord /\ r.at = "renaming" /\ r.answer = "none" /\ r.rev = op[o].rev /\ r.cancel = op[o].cancel
        /\ r.total = op[o].total /\ r.offset = op[o].offset /\ r.temp = op[o].temp
    BY <1>1, <1>2, <1>4, <1>5, UploadAssumption DEF OpRecord, Working, Asking, Size
  <2>2. op' = [op EXCEPT ![o] = r]
    BY <1>5 DEF Ask
  <2>3. wire' = [wire EXCEPT ![o] = <<"rename">>] /\ <<"rename">> \in Wire
    BY <1>4, <1>5, WireFacts DEF Ask, Requests
  <2>4. op'[o] = r /\ wire'[o] = <<"rename">> /\ staging'[o] = staging[o] /\ past'[o] = past[o] /\ o \notin cleanup'
    BY <1>3, <1>4, <2>1, <2>2, <2>3, Own DEF FilesInv
  <2>5. Awaiting(o)'
    BY <1>1, <1>2, <1>4, <1>5, <2>1, <2>4, WireFacts, StagingAssumption, UploadAssumption DEF Awaiting, Awaiting, Requested, Requests, Asking, StagedSize, OpRecord, Size
  <2>6. Fine(o)'
    BY <1>4, <2>1, <2>4, <2>5 DEF Fine, Ended, Asking
  <2> QED  BY <1>1, <1>2, <1>3, <2>1, <2>2, <2>3, <2>6, WorkStep DEF Working, Asking
<1>6. CASE op[o].offset # op[o].total /\ op' = [op EXCEPT ![o].at = "drop"] /\ UNCHANGED wire
  <2> DEFINE r == [op[o] EXCEPT !.at = "drop"]
  <2>1. r \in OpRecord /\ r.at = "drop" /\ r.rev = op[o].rev /\ r.cancel = op[o].cancel /\ r.total = op[o].total
        /\ r.offset = op[o].offset /\ r.temp = op[o].temp /\ r.answer = op[o].answer
    BY <1>1, <1>2, <1>4, <1>6, UploadAssumption DEF OpRecord, Working, Asking, Size
  <2>2. op' = [op EXCEPT ![o] = r]
    BY <1>6
  <2>3. wire' = [wire EXCEPT ![o] = <<>>] /\ <<>> \in Wire
    BY <1>1, <1>2, <1>4, <1>6, Own DEF Closed, FilesInv
  <2>4. op'[o] = r /\ wire'[o] = <<>> /\ staging'[o] = staging[o] /\ past'[o] = past[o] /\ o \notin cleanup'
    BY <1>3, <1>4, <2>1, <2>2, <2>3, Own DEF FilesInv
  <2>5. Dropping(o)'
    BY <1>1, <1>2, <1>4, <1>6, <2>1, <2>4 DEF Awaiting, Dropping, Left, OneLeft, Requests
  <2>6. Fine(o)'
    BY <1>4, <2>1, <2>4, <2>5 DEF Fine, Ended, Asking
  <2> QED  BY <1>1, <1>2, <1>3, <2>1, <2>2, <2>3, <2>6, WorkStep DEF Working, Asking
<1> QED  BY <1>2, <1>5, <1>6 DEF Closed

LEMMA RenamedInv == ASSUME FilesInv, NEW o \in Op, Renamed(o) PROVE FilesInv'
<1>1. op[o] \in OpRecord /\ wire[o] \in Wire /\ staging[o] \in StagedSize /\ past[o] \in PastRecord /\ Fine(o)
  BY FilesTypes DEF FilesInv
<1>2. op[o].at = "renaming" /\ op[o].answer = "ok" /\ UNCHANGED wire /\ Local /\ UNCHANGED past
  BY DEF Renamed, Going, Ask
<1>3. past' = [past EXCEPT ![o] = past[o]] /\ staging' = staging /\ cleanup' = cleanup
  BY <1>2, Own DEF FilesInv, Local
<1>4. Awaiting(o) /\ wire[o] = <<>> /\ o \notin cleanup /\ ~past[o].attempted
  BY <1>1, <1>2, WireFacts DEF Fine, Awaiting, Requested, Requests, Asking, StagedSize, OpRecord, Size, Ended, Asking, Requests
<1>5. CASE op' = [op EXCEPT ![o].at = "drop", ![o].temp = FALSE]
  <2> DEFINE r == [op[o] EXCEPT !.at = "drop", !.temp = FALSE]
  <2>1. r \in OpRecord /\ r.at = "drop" /\ r.temp = FALSE /\ r.rev = op[o].rev /\ r.cancel = op[o].cancel
        /\ r.total = op[o].total /\ r.offset = op[o].offset /\ r.answer = op[o].answer
    BY <1>1, <1>2, <1>4, <1>5, UploadAssumption DEF OpRecord, Working, Asking, Size
  <2>2. op' = [op EXCEPT ![o] = r]
    BY <1>5
  <2>3. wire' = [wire EXCEPT ![o] = <<>>] /\ <<>> \in Wire
    BY <1>1, <1>2, <1>4, <1>5, Own DEF Renamed, FilesInv
  <2>4. op'[o] = r /\ wire'[o] = <<>> /\ staging'[o] = staging[o] /\ past'[o] = past[o] /\ o \notin cleanup'
    BY <1>3, <1>4, <2>1, <2>2, <2>3, Own DEF FilesInv
  <2>5. Dropping(o)'
    BY <1>1, <1>2, <1>4, <1>5, <2>1, <2>4 DEF Awaiting, Dropping, Left, OneLeft, Requests
  <2>6. Fine(o)'
    BY <1>4, <2>1, <2>4, <2>5 DEF Fine, Ended, Asking
  <2> QED  BY <1>1, <1>2, <1>3, <2>1, <2>2, <2>3, <2>6, WorkStep DEF Working, Asking
<1> QED  BY <1>2, <1>5 DEF Renamed

\* Going to the drop, from wherever the upload works.
LEMMA GiveUpInv ==
  ASSUME FilesInv, NEW o \in Op, op[o].at \in Working,
         op' = [op EXCEPT ![o].at = "drop"], Untrack(o), UNCHANGED wire, Local
  PROVE  FilesInv'
<1>1. op[o] \in OpRecord /\ wire[o] \in Wire /\ staging[o] \in StagedSize /\ past[o] \in PastRecord /\ Fine(o)
  BY FilesTypes DEF FilesInv
<1> DEFINE u == past[o].untracked \/ (op[o].at = "opening" /\ op[o].answer # "error")
           r == [op[o] EXCEPT !.at = "drop"]
           h == [past[o] EXCEPT !.untracked = u]
<1>2. u \in BOOLEAN /\ h \in PastRecord /\ h.untracked = u /\ h.early = past[o].early /\ h.attempted = past[o].attempted
  BY <1>1 DEF PastRecord
<1>3. r \in OpRecord /\ r.at = "drop" /\ r.rev = op[o].rev /\ r.cancel = op[o].cancel
      /\ r.temp = op[o].temp /\ r.total = op[o].total
  BY <1>1 DEF OpRecord
<1>4. op' = [op EXCEPT ![o] = r] /\ past' = [past EXCEPT ![o] = h] /\ wire' = [wire EXCEPT ![o] = wire[o]]
      /\ UNCHANGED <<staging, cleanup>>
  BY Own DEF FilesInv, Untrack, Local
<1>5. op'[o] = r /\ past'[o] = h /\ wire'[o] = wire[o] /\ staging'[o] = staging[o]
  BY <1>1, <1>2, <1>3, <1>4, Own DEF FilesInv
<1>6. o \notin cleanup /\ ~past[o].attempted
  BY <1>1 DEF Fine, Ended, Working, Asking
<1>7. ASSUME op[o].at \in {"setup", "ready"} PROVE Dropping(o)'
  <2>1. Fresh(o)  BY <1>1, <1>7 DEF Fine
  <2> QED  BY <1>5, <2>1 DEF Fresh, Dropping, Left
<1>8. ASSUME op[o].at = "copy" PROVE Dropping(o)'
  <2>1. Copying(o)  BY <1>1, <1>8 DEF Fine
  <2> QED  BY <1>3, <1>5, <2>1 DEF Copying, Dropping, Left
<1>9. ASSUME op[o].at \in Asking PROVE Dropping(o)'
  <2>1. Awaiting(o)  BY <1>1, <1>9 DEF Fine
  <2>2. CASE wire[o] = <<>>
    BY <1>2, <1>3, <1>5, <1>9, <2>1, <2>2 DEF Awaiting, Dropping, Left, Asking
  <2>3. CASE wire[o] = <<Requested[op[o].at]>> /\ op[o].answer = "none"
    <3> DEFINE q == Requested[op[o].at]
    <3>1. q \in Requests /\ (op[o].at = "opening" <=> q = "open")
          /\ (op[o].at = "writing" <=> q = "write") /\ (op[o].at = "renaming" <=> q = "rename")
      BY <1>9 DEF Requested, Requests, Asking
    <3>2. Head(wire[o]) = q
      BY <2>3, <3>1, WireFacts
    <3>3. op[o].temp \/ op[o].at = "opening"
      BY <2>1 DEF Awaiting
    <3>4. op[o].at = "writing" => staging[o] \in 0 .. MaxSize - 1
      BY <1>1, <2>1, <2>3, UploadAssumption DEF Awaiting, OpRecord
    <3>5. op[o].at = "renaming" => staging[o] = op[o].total
      BY <2>1, <2>3 DEF Awaiting
    <3>6. Left(o)'
      BY <1>3, <1>5, <3>1, <3>2, <3>4, <3>5 DEF Left
    <3> HIDE DEF q
    <3>7. OneLeft(o)'
      BY <1>5, <2>3, <3>1 DEF OneLeft, q
    <3> QED  BY <1>2, <1>3, <1>5, <2>3, <3>3, <3>6, <3>7 DEF Dropping
  <2> QED  BY <2>1, <2>2, <2>3 DEF Awaiting
<1>10. Fine(o)'
  BY <1>2, <1>3, <1>4, <1>5, <1>6, <1>7, <1>8, <1>9 DEF Fine, Ended, Asking, Working
<1> HIDE DEF r, h
<1> QED  BY <1>1, <1>2, <1>3, <1>4, <1>10, WorkStep

LEMMA FailsInv == ASSUME FilesInv, NEW o \in Op, Fails(o) PROVE FilesInv'
BY GiveUpInv DEF Fails, Working

LEMMA AbandonInv == ASSUME FilesInv, NEW o \in Op, Abandon(o) PROVE FilesInv'
BY GiveUpInv DEF Abandon
-----------------------------------------------------------------------------
(* The registry *)

\* What the steps of one operation that leave the registry's lists alone need of OneStep.
LEMMA Kept1 ==
  ASSUME FilesInv, UNCHANGED <<entries, cancelled, cleanup, stage, dest>>
  PROVE  /\ cleanup' \subseteq Op /\ entries' \subseteq Op /\ dest' \in {"absent", "other", "upload"}
         /\ IsFiniteSet(entries') /\ Cardinality(entries') <= Limit
         /\ cancelled' \in Seq(Op) /\ Len(cancelled') <= Tombstones
         /\ stage \in {"cleaning", "drained"} => entries' = {}
         /\ stage = "drained" => cleanup' = {}
         /\ \A p \in Op : Mentioned(p)' <=> Mentioned(p)
BY DEF FilesInv, FilesTypeOK, Registered, Mentioned

LEMMA CallInv == ASSUME FilesInv, NEW o \in Op, Call(o) PROVE FilesInv'
<1>1. op[o] \in OpRecord /\ wire[o] \in Wire /\ staging[o] \in StagedSize /\ past[o] \in PastRecord /\ Fine(o)
  BY FilesTypes DEF FilesInv
<1>2. op[o].at = "idle" /\ UNCHANGED <<profile, entries, cancelled, closing, cleanup, stage, wire, staging, dest, past>>
  BY DEF Call, atServer
<1> DEFINE r == [op[o] EXCEPT !.at = "called"]
<1>3. r \in OpRecord /\ r.at = "called" /\ r.offset = op[o].offset /\ r.temp = op[o].temp
  BY <1>1 DEF OpRecord
<1>4. op' = [op EXCEPT ![o] = r] /\ wire' = [wire EXCEPT ![o] = wire[o]]
      /\ staging' = [staging EXCEPT ![o] = staging[o]] /\ past' = [past EXCEPT ![o] = past[o]]
  BY <1>2, Own DEF Call, FilesInv
<1>5. op'[o] = r
  BY <1>3, <1>4, Own DEF FilesInv
<1>6. Fine(o)'
  BY <1>1, <1>2, <1>3, <1>5 DEF Fine, Fresh, Ended, Asking
<1>7. ~past[o].early
  BY <1>2 DEF FilesInv, Remembered
<1>8. o \notin entries /\ r.at \notin Holding
  BY <1>2, <1>3 DEF FilesInv, Registered, Holding, Working, Asking
<1>9. r.at \notin Working
  BY <1>3 DEF Working, Asking
<1>10. /\ UNCHANGED <<profile, closing, stage>>
       /\ \A p \in Op \ {o} : p \in cleanup' <=> p \in cleanup
       /\ \A p \in Op \ {o} : p \in entries' <=> p \in entries
       /\ o \in entries' <=> r.at \in Holding
       /\ past[o].early => r.at \in {"called", "done"} /\ (r.at = "called" => Mentioned(o)')
       /\ r.at \in Working /\ ~r.cancel => profile.known /\ r.rev = profile.rev
  BY <1>2, <1>7, <1>8, <1>9
<1>11. UNCHANGED <<entries, cancelled, cleanup, stage, dest>>
  BY <1>2
<1> HIDE DEF r
<1> QED  BY <1>1, <1>3, <1>4, <1>6, <1>10, <1>11, Kept1, OneStep, ZenonT(60)

\* A set of numbers has a least one.
Below == {pair \in Nat \X Nat : pair[1] < pair[2]}

LEMMA Least == ASSUME NEW S, S \subseteq Nat, S # {} PROVE \E m \in S : \A k \in S : m <= k
<1>1. IsWellFoundedOn(Below, Nat)
  BY NatLessThanWellFounded DEF OpToRel, Below
<1>2. PICK m \in S : \A k \in S : <<k, m>> \notin Below
  BY <1>1, WFMin
<1>3. ASSUME NEW k \in S PROVE m <= k
  <2>1. k \in Nat /\ m \in Nat  OBVIOUS
  <2>2. ~(k < m)  BY <1>2, <2>1 DEF Below
  <2> QED  BY <2>1, <2>2
<1> QED  BY <1>3

\* A list without its first mention of o still has all the others.
LEMMA ForgottenFacts ==
  ASSUME FilesTypeOK, NEW o \in Op
  PROVE  /\ Forgotten(o) \in Seq(Op) /\ Len(Forgotten(o)) <= Tombstones
         /\ \A p \in Op \ {o} : Mentioned(p) => \E i \in DOMAIN Forgotten(o) : Forgotten(o)[i] = p
<1>1. cancelled \in Seq(Op) /\ Len(cancelled) \in Nat /\ Len(cancelled) <= Tombstones /\ Tombstones \in Nat
  BY UploadAssumption DEF FilesTypeOK
<1>2. CASE ~Mentioned(o)
  BY <1>1, <1>2 DEF Forgotten, Mentioned
<1>3. CASE Mentioned(o)
  <2> DEFINE n == Len(cancelled)
             at == PlaceOf(o)
             list == [i \in 1 .. n - 1 |-> cancelled[IF i < at THEN i ELSE i + 1]]
  <2>1. at \in 1 .. n /\ cancelled[at] = o
    <3>1. \E i \in DOMAIN cancelled : cancelled[i] = o /\ \A j \in DOMAIN cancelled : cancelled[j] = o => i <= j
      <4> DEFINE I == {i \in 1 .. n : cancelled[i] = o}
      <4>1. I \subseteq Nat /\ I # {}
        BY <1>1, <1>3 DEF Mentioned
      <4>2. PICK m \in I : \A k \in I : m <= k
        BY <4>1, Least
      <4> QED  BY <1>1, <4>2
    <3> QED  BY <1>1, <3>1 DEF PlaceOf
  <2>2. n \in Nat \ {0} /\ n - 1 \in Nat
    BY <1>1, <2>1
  <2>3. \A i \in 1 .. n - 1 : (IF i < at THEN i ELSE i + 1) \in 1 .. n
    BY <2>1, <2>2
  <2>4. list \in Seq(Op) /\ Len(list) = n - 1 /\ DOMAIN list = 1 .. n - 1
    BY <1>1, <2>2, <2>3
  <2>5. ASSUME NEW p \in Op \ {o}, Mentioned(p) PROVE \E i \in DOMAIN list : list[i] = p
    <3>1. PICK i \in 1 .. n : cancelled[i] = p
      BY <1>1, <2>5 DEF Mentioned
    <3>2. i < at \/ i > at
      BY <2>1, <3>1
    <3>3. CASE i < at
      <4>1. i \in 1 .. n - 1 /\ list[i] = p  BY <2>1, <2>2, <3>1, <3>3
      <4> QED  BY <2>4, <4>1
    <3>4. CASE i > at
      <4>1. i - 1 \in 1 .. n - 1 /\ ~(i - 1 < at) /\ i - 1 + 1 = i  BY <2>1, <2>2, <3>1, <3>4
      <4>2. list[i - 1] = p  BY <3>1, <4>1
      <4> QED  BY <2>4, <4>1, <4>2
    <3> QED  BY <3>2, <3>3, <3>4
  <2>6. Forgotten(o) = list
    BY <1>3 DEF Forgotten
  <2> HIDE DEF list, n
  <2>7. Len(list) <= Tombstones
    BY <1>1, <2>2, <2>4 DEF n
  <2> QED  BY <2>4, <2>5, <2>6, <2>7
<1> QED  BY <1>2, <1>3

LEMMA RegisterInv == ASSUME FilesInv, NEW o \in Op, Register(o) PROVE FilesInv'
<1>1. op[o] \in OpRecord /\ wire[o] \in Wire /\ staging[o] \in StagedSize /\ past[o] \in PastRecord /\ Fine(o)
  BY FilesTypes DEF FilesInv
<1>2. /\ op[o].at = "called" /\ UNCHANGED <<profile, closing, cleanup, stage, wire, staging, dest, past>>
      /\ wire' = [wire EXCEPT ![o] = wire[o]] /\ staging' = [staging EXCEPT ![o] = staging[o]]
      /\ past' = [past EXCEPT ![o] = past[o]]
  BY Own DEF Register, atServer, FilesInv
<1>3. o \notin entries /\ Fresh(o) /\ o \notin cleanup /\ ~past[o].attempted
  BY <1>1, <1>2 DEF FilesInv, Registered, Holding, Working, Asking, Fine, Ended
<1>4. /\ cancelled' \in Seq(Op) /\ Len(cancelled') <= Tombstones
      /\ \A p \in Op \ {o} : Mentioned(p) => Mentioned(p)'
  <2>1. cancelled' = cancelled \/ cancelled' = Forgotten(o)
    BY DEF Register
  <2>2. FilesTypeOK
    BY DEF FilesInv
  <2>3. \A p \in Op : Mentioned(p)' <=> \E i \in DOMAIN cancelled' : cancelled'[i] = p
    BY DEF Mentioned
  <2>4. CASE cancelled' = cancelled
    BY <2>2, <2>3, <2>4 DEF FilesTypeOK, Mentioned
  <2>5. CASE cancelled' = Forgotten(o)
    BY <2>2, <2>3, <2>5, ForgottenFacts
  <2> QED  BY <2>1, <2>4, <2>5
<1>5. CASE Refuse(o)
  <2> DEFINE r == [op[o] EXCEPT !.at = "done"]
  <2>1. r \in OpRecord /\ r.at = "done" /\ r.total = op[o].total
    BY <1>1 DEF OpRecord
  <2>2. op' = [op EXCEPT ![o] = r] /\ UNCHANGED entries
    BY <1>5 DEF Refuse
  <2>3. op'[o] = r
    BY <2>1, <2>2, Own DEF FilesInv
  <2>4. Fine(o)'
    BY <1>2, <1>3, <2>1, <2>3 DEF Fine, Fresh, OverNow, Left, Ended, Asking
  <2>5. r.at \notin Working \union Holding
    BY <2>1 DEF Working, Asking, Holding
  <2>6. /\ IsFiniteSet(entries') /\ entries' \subseteq Op /\ Cardinality(entries') <= Limit
        /\ cleanup' \subseteq Op /\ dest' \in {"absent", "other", "upload"}
        /\ stage \in {"cleaning", "drained"} => entries' = {}
        /\ stage = "drained" => cleanup' = {}
    BY <1>2, <2>2 DEF FilesInv, FilesTypeOK, Registered
  <2> HIDE DEF r
  <2> QED  BY <1>1, <1>2, <1>3, <1>4, <2>1, <2>2, <2>4, <2>5, <2>6, OneStep
<1>6. CASE /\ profile.known /\ ~closing /\ ~Mentioned(o) /\ ~(Cardinality(entries) >= Limit)
           /\ Admit(o, profile.rev)
  <2> DEFINE r == [op[o] EXCEPT !.at = "setup", !.rev = profile.rev]
  <2>1. /\ r \in OpRecord /\ r.at = "setup" /\ r.rev = profile.rev
        /\ r.offset = op[o].offset /\ r.temp = op[o].temp
    BY <1>1 DEF OpRecord, Working, FilesInv, FilesTypeOK
  <2>2. op' = [op EXCEPT ![o] = r] /\ entries' = entries \union {o}
    BY <1>6 DEF Admit
  <2>3. op'[o] = r
    BY <2>1, <2>2, Own DEF FilesInv
  <2>4. Fine(o)'
    BY <1>2, <1>3, <2>1, <2>3 DEF Fine, Fresh, Ended, Asking
  <2>5. r.at \in Holding
    BY <2>1 DEF Working, Holding
  <2>6. IsFiniteSet(entries') /\ Cardinality(entries') <= Limit
    <3>1. IsFiniteSet(entries) /\ Cardinality(entries) \in Nat
      BY FS_CardinalityType DEF FilesInv
    <3>2. Cardinality(entries') = Cardinality(entries) + 1 /\ IsFiniteSet(entries')
      BY <1>3, <2>2, <3>1, FS_AddElement
    <3> QED  BY <1>6, <3>1, <3>2, UploadAssumption
  <2>7. stage = "open" /\ entries' \subseteq Op /\ cleanup' \subseteq Op /\ dest' \in {"absent", "other", "upload"}
    BY <1>2, <1>6, <2>2 DEF FilesInv, FilesTypeOK, Registered
  <2>8. ~past[o].early
    BY <1>2, <1>6 DEF FilesInv, Remembered
  <2>9. /\ \A p \in Op \ {o} : p \in entries' <=> p \in entries
        /\ o \in entries' <=> r.at \in Holding
        /\ stage \in {"cleaning", "drained"} => entries' = {}
        /\ stage = "drained" => cleanup' = {}
        /\ r.at \in Working /\ ~r.cancel => profile.known /\ r.rev = profile.rev
        /\ past[o].early => r.at \in {"called", "done"} /\ (r.at = "called" => Mentioned(o)')
    BY <1>6, <2>1, <2>2, <2>5, <2>7, <2>8
  <2>10. UNCHANGED <<profile, closing, stage>> /\ \A p \in Op \ {o} : p \in cleanup' <=> p \in cleanup
    BY <1>2
  <2> HIDE DEF r
  <2> QED  BY <1>1, <1>2, <1>4, <2>1, <2>2, <2>4, <2>6, <2>7, <2>9, <2>10, OneStep, ZenonT(60)
<1> QED  BY <1>5, <1>6 DEF Register

\* A step of the registry or the shutdown that touches no upload's work.
LEMMA CancelsStep ==
  ASSUME FilesInv, op' \in [Op -> OpRecord], past' \in [Op -> PastRecord],
         \A o \in Op : /\ op'[o].at = op[o].at /\ op'[o].rev = op[o].rev /\ op'[o].offset = op[o].offset
                       /\ op'[o].total = op[o].total /\ op'[o].temp = op[o].temp /\ op'[o].answer = op[o].answer
                       /\ ~op'[o].cancel => ~op[o].cancel
                       /\ past'[o].untracked = past[o].untracked /\ past'[o].refused = past[o].refused
                       /\ past'[o].attempted = past[o].attempted /\ past'[o].lost = past[o].lost,
         UNCHANGED <<entries, cleanup, wire, staging>>,
         dest' \in {"absent", "other", "upload"},
         profile' \in [rev : 0 .. MaxEdits, known : BOOLEAN],
         profile' = profile \/ \A o \in entries : op'[o].cancel,
         cancelled' \in Seq(Op), Len(cancelled') <= Tombstones,
         closing' \in BOOLEAN, stage' \in {"open", "draining", "cleaning", "drained", "exited"},
         stage' # "open" => closing',
         stage' \in {"cleaning", "drained"} => entries = {},
         stage' = "drained" => cleanup = {},
         Remembered'
  PROVE  FilesInv'
<1>1. FilesTypeOK' /\ IsFiniteSet(entries')
  BY DEF FilesInv, FilesTypeOK, OpRecord, PastRecord
<1>2. ASSUME NEW o \in Op PROVE Fine(o)'
  BY FineFrame DEF FilesInv
<1>3. Registered'
  BY DEF FilesInv, Registered
<1>4. CurrentProfile'
  BY DEF FilesInv, CurrentProfile, Registered, Holding
<1> QED  BY <1>1, <1>2, <1>3, <1>4 DEF FilesInv

LEMMA CancelInv == ASSUME FilesInv, NEW o \in Op, Cancel(o) PROVE FilesInv'
<1>1. op \in [Op -> OpRecord] /\ past \in [Op -> PastRecord] /\ cancelled \in Seq(Op) /\ Len(cancelled) <= Tombstones
  BY DEF FilesInv, FilesTypeOK, OpRecord, PastRecord
<1>2. UNCHANGED <<profile, entries, closing, cleanup, stage, wire, staging, dest>>
  BY DEF Cancel, atServer
<1>3. CASE o \in entries /\ op' = [op EXCEPT ![o].cancel = TRUE] /\ UNCHANGED <<cancelled, past>>
  <2>1. op' \in [Op -> OpRecord]
    <3>1. [op[o] EXCEPT !.cancel = TRUE] \in OpRecord
      BY <1>1 DEF OpRecord
    <3>2. op' = [op EXCEPT ![o] = [op[o] EXCEPT !.cancel = TRUE]]
      BY <1>3
    <3> QED  BY <1>1, <3>1, <3>2
  <2>2. ASSUME NEW p \in Op
        PROVE  /\ op'[p].at = op[p].at /\ op'[p].rev = op[p].rev /\ op'[p].offset = op[p].offset
               /\ op'[p].total = op[p].total /\ op'[p].temp = op[p].temp /\ op'[p].answer = op[p].answer
               /\ ~op'[p].cancel => ~op[p].cancel
    BY <1>1, <1>3 DEF OpRecord
  <2>3. Remembered'
    BY <1>3, <2>2 DEF FilesInv, Remembered, Mentioned
  <2> QED  BY <1>1, <1>2, <1>3, <2>1, <2>2, <2>3, CancelsStep DEF FilesInv, FilesTypeOK, Registered
<1>4. CASE o \notin entries
  <2> DEFINE h(p) == (past[p].early \/ (p = o /\ op[o].at = "called")) /\ \E i \in DOMAIN cancelled' : cancelled'[i] = p
  <2>1. /\ cancelled' = Append(IF Len(cancelled) = Tombstones THEN Tail(cancelled) ELSE cancelled, o)
        /\ op' = op
    BY <1>4 DEF Cancel
  <2>2. past' = [p \in Op |-> [past[p] EXCEPT !.early = h(p)]]
    BY <1>4 DEF Cancel
  <2>3. \A p \in Op : h(p) \in BOOLEAN
    BY DEF h
  <2>4. /\ past' \in [Op -> PastRecord]
        /\ \A p \in Op : /\ past'[p].early = h(p)
                         /\ past'[p].untracked = past[p].untracked /\ past'[p].refused = past[p].refused
                         /\ past'[p].attempted = past[p].attempted /\ past'[p].lost = past[p].lost
    <3> HIDE DEF h
    <3> QED  BY <1>1, <2>2, <2>3 DEF PastRecord
  <2>5. cancelled' \in Seq(Op) /\ Len(cancelled') <= Tombstones
    <3> DEFINE kept == IF Len(cancelled) = Tombstones THEN Tail(cancelled) ELSE cancelled
    <3>1. kept \in Seq(Op) /\ Len(kept) < Tombstones
      <4>1. CASE Len(cancelled) = Tombstones
        <5>1. cancelled # <<>>  BY <1>1, <4>1, UploadAssumption
        <5>2. Tail(cancelled) \in Seq(Op) /\ Len(Tail(cancelled)) = Len(cancelled) - 1
          BY <1>1, <5>1, HeadTailProperties
        <5> QED  BY <4>1, <5>2, UploadAssumption
      <4>2. CASE Len(cancelled) # Tombstones
        BY <1>1, <4>2, UploadAssumption
      <4> QED  BY <4>1, <4>2
    <3>2. Append(kept, o) \in Seq(Op) /\ Len(Append(kept, o)) = Len(kept) + 1
      BY <3>1, AppendProperties
    <3>3. cancelled' = Append(kept, o)
      BY <2>1
    <3> HIDE DEF kept
    <3> QED  BY <3>1, <3>2, <3>3, UploadAssumption, LenProperties
  <2>6. Remembered'
    <3>1. op[o].at \notin Holding
      BY <1>4 DEF FilesInv, Registered
    <3>2. ASSUME NEW p \in Op, h(p) PROVE op[p].at \in {"called", "done"} /\ (op[p].at = "called" => Mentioned(p)')
      BY <3>2 DEF FilesInv, Remembered, Mentioned
    <3> HIDE DEF h
    <3> QED  BY <2>1, <2>4, <3>2 DEF Remembered
  <2> HIDE DEF h
  <2> QED  BY <1>1, <1>2, <2>1, <2>4, <2>5, <2>6, CancelsStep DEF FilesInv, FilesTypeOK, Registered
<1> QED  BY <1>3, <1>4 DEF Cancel

\* What cancelling all that is registered does.
LEMMA CancelEntriesFacts ==
  ASSUME FilesInv, CancelEntries
  PROVE  /\ op' \in [Op -> OpRecord] /\ \A o \in entries : op'[o].cancel
         /\ \A o \in Op : /\ op'[o].at = op[o].at /\ op'[o].rev = op[o].rev /\ op'[o].offset = op[o].offset
                          /\ op'[o].total = op[o].total /\ op'[o].temp = op[o].temp /\ op'[o].answer = op[o].answer
                          /\ ~op'[o].cancel => ~op[o].cancel
<1> DEFINE c(o) == op[o].cancel \/ o \in entries
<1>1. op \in [Op -> OpRecord] /\ entries \subseteq Op
  BY DEF FilesInv, FilesTypeOK, OpRecord
<1>2. op' = [o \in Op |-> [op[o] EXCEPT !.cancel = c(o)]] /\ \A o \in Op : c(o) \in BOOLEAN
  BY DEF CancelEntries
<1>3. (\A o \in entries : c(o)) /\ \A o \in Op : ~c(o) => ~op[o].cancel
  OBVIOUS
<1> HIDE DEF c
<1> QED  BY <1>1, <1>2, <1>3 DEF OpRecord

LEMMA EditServerInv == ASSUME FilesInv, EditServer PROVE FilesInv'
<1>1. CancelEntries /\ UNCHANGED <<entries, cancelled, closing, cleanup, stage, wire, staging, dest, past>>
  BY DEF EditServer, atServer
<1>2. profile' \in [rev : 0 .. MaxEdits, known : BOOLEAN]
  BY UploadAssumption DEF EditServer, FilesInv, FilesTypeOK
<1>3. Remembered'
  BY <1>1, CancelEntriesFacts DEF FilesInv, Remembered, Mentioned
<1> QED  BY <1>1, <1>2, <1>3, CancelEntriesFacts, CancelsStep DEF FilesInv, FilesTypeOK, Registered, PastRecord

LEMMA ShutdownInv == ASSUME FilesInv, Shutdown PROVE FilesInv'
<1>1. CancelEntries /\ UNCHANGED <<profile, entries, cancelled, cleanup, wire, staging, dest, past>>
      /\ closing' = TRUE /\ stage' = "draining"
  BY DEF Shutdown, atServer
<1>2. Remembered'
  BY <1>1, CancelEntriesFacts DEF FilesInv, Remembered, Mentioned
<1> QED  BY <1>1, <1>2, CancelEntriesFacts, CancelsStep DEF FilesInv, FilesTypeOK, PastRecord

LEMMA DrainInv == ASSUME FilesInv, Drained \/ Cleaned PROVE FilesInv'
<1>1. UNCHANGED <<profile, op, entries, cancelled, closing, cleanup, wire, staging, dest, past>>
  BY DEF Drained, Cleaned, atServer
<1>2. /\ stage # "open" /\ stage' \in {"cleaning", "drained"} /\ entries = {}
      /\ stage' = "drained" => cleanup = {}
  BY DEF Drained, Cleaned, FilesInv, Registered
<1>3. Remembered'
  BY <1>1 DEF FilesInv, Remembered, Mentioned
<1> QED  BY <1>1, <1>2, <1>3, CancelsStep DEF FilesInv, FilesTypeOK, Registered, OpRecord, PastRecord

LEMMA OthersInv == ASSUME FilesInv, Others PROVE FilesInv'
<1>1. UNCHANGED <<profile, entries, cancelled, closing, cleanup, stage, wire, staging, past>>
  BY DEF Others
<1>2. dest' \in {"absent", "other", "upload"}
  BY DEF Others, FilesInv, FilesTypeOK
<1> DEFINE Same == /\ op' \in [Op -> OpRecord]
                   /\ \A o \in Op : /\ op'[o].at = op[o].at /\ op'[o].rev = op[o].rev
                                    /\ op'[o].offset = op[o].offset /\ op'[o].total = op[o].total
                                    /\ op'[o].temp = op[o].temp /\ op'[o].answer = op[o].answer
                                    /\ op'[o].cancel = op[o].cancel
<1>3. Same
  <2>1. op \in [Op -> OpRecord]
    BY DEF FilesInv, FilesTypeOK, OpRecord
  <2>2. CASE UNCHANGED op  BY <2>1, <2>2
  <2>3. ASSUME NEW p \in Op, NEW n \in Size, op' = [op EXCEPT ![p].local = n] PROVE Same
    BY <2>1, <2>3 DEF OpRecord
  <2> QED  BY <2>2, <2>3 DEF Others
<1>4. Remembered'
  BY <1>1, <1>3 DEF FilesInv, Remembered, Mentioned
<1> QED  BY <1>1, <1>2, <1>3, <1>4, CancelsStep DEF FilesInv, FilesTypeOK, Registered, PastRecord
-----------------------------------------------------------------------------
(* The end of an upload, its cleanup, and the server *)

LEMMA NotCalledType == NotCalled \in OpRecord /\ NotCalled.at = "idle" /\ NotCalled.offset = 0 /\ ~NotCalled.temp
BY UploadAssumption DEF OpRecord, NotCalled, Size

LEMMA DropWorkInv == ASSUME FilesInv, NEW o \in Op, DropWork(o) PROVE FilesInv'
<1>1. op[o] \in OpRecord /\ wire[o] \in Wire /\ staging[o] \in StagedSize /\ past[o] \in PastRecord /\ Fine(o)
  BY FilesTypes DEF FilesInv
<1> DEFINE r == [NotCalled EXCEPT !.at = "dropped", !.cancel = op[o].cancel, !.total = op[o].total]
<1>2. /\ op[o].at = "drop" /\ op' = [op EXCEPT ![o] = r]
      /\ cleanup' = IF op[o].temp THEN cleanup \union {o} ELSE cleanup
      /\ UNCHANGED <<profile, entries, cancelled, closing, stage, wire, staging, dest, past>>
  BY DEF DropWork, atServer
<1>3. /\ wire' = [wire EXCEPT ![o] = wire[o]] /\ staging' = [staging EXCEPT ![o] = staging[o]]
      /\ past' = [past EXCEPT ![o] = past[o]]
  BY <1>2, Own DEF FilesInv
<1>4. r \in OpRecord /\ r.at = "dropped" /\ r.total = op[o].total
  <2>2. op[o].cancel \in BOOLEAN /\ op[o].total \in 0 .. MaxSize
    BY <1>1 DEF OpRecord
  <2> QED  BY <2>2, NotCalledType DEF OpRecord
<1>5. op'[o] = r
  BY <1>2, <1>4, Own DEF FilesInv
<1>6. Dropping(o) /\ o \notin cleanup /\ ~past[o].attempted /\ o \in entries /\ ~past[o].early
  BY <1>1, <1>2 DEF Fine, Ended, FilesInv, Registered, Remembered, Holding
<1>7. o \in cleanup' <=> op[o].temp
  BY <1>2, <1>6
<1>8. OverNow(o)'
  BY <1>2, <1>4, <1>5, <1>6, <1>7 DEF Dropping, OverNow, OneLeft, Left
<1>9. Fine(o)'
  BY <1>4, <1>5, <1>8 DEF Fine, Ended, Asking
<1>10. /\ cleanup' \subseteq Op /\ \A p \in Op \ {o} : p \in cleanup' <=> p \in cleanup
       /\ stage \notin {"cleaning", "drained"}
       /\ r.at \in Holding /\ r.at \notin Working
  BY <1>2, <1>4, <1>6 DEF FilesInv, FilesTypeOK, Registered, Holding, Working, Asking
<1>11. /\ entries' \subseteq Op /\ IsFiniteSet(entries') /\ Cardinality(entries') <= Limit
       /\ dest' \in {"absent", "other", "upload"}
       /\ cancelled' \in Seq(Op) /\ Len(cancelled') <= Tombstones
       /\ \A p \in Op : Mentioned(p)' <=> Mentioned(p)
  BY <1>2 DEF FilesInv, FilesTypeOK, Mentioned
<1> HIDE DEF r
<1> QED  BY <1>1, <1>2, <1>3, <1>4, <1>6, <1>9, <1>10, <1>11, OneStep

LEMMA UnregisterInv == ASSUME FilesInv, NEW o \in Op, Unregister(o) PROVE FilesInv'
<1>1. op[o] \in OpRecord /\ wire[o] \in Wire /\ staging[o] \in StagedSize /\ past[o] \in PastRecord /\ Fine(o)
  BY FilesTypes DEF FilesInv
<1> DEFINE r == [op[o] EXCEPT !.at = "done"]
<1>2. /\ op[o].at = "dropped" /\ op' = [op EXCEPT ![o] = r] /\ entries' = entries \ {o}
      /\ UNCHANGED <<profile, cancelled, closing, cleanup, stage, wire, staging, dest, past>>
  BY DEF Unregister, atServer
<1>3. /\ wire' = [wire EXCEPT ![o] = wire[o]] /\ staging' = [staging EXCEPT ![o] = staging[o]]
      /\ past' = [past EXCEPT ![o] = past[o]]
  BY <1>2, Own DEF FilesInv
<1>4. r \in OpRecord /\ r.at = "done" /\ r.total = op[o].total
  BY <1>1 DEF OpRecord
<1>5. op'[o] = r
  BY <1>2, <1>4, Own DEF FilesInv
<1>6. OverNow(o)
  BY <1>1, <1>2 DEF Fine, Ended
<1>7. Fine(o)'
  BY <1>2, <1>4, <1>5, <1>6 DEF Fine, OverNow, OneLeft, Removing, Left, Ended, Asking
<1>8. IsFiniteSet(entries') /\ Cardinality(entries') <= Limit
  <2>1. IsFiniteSet(entries) /\ entries' \subseteq entries /\ Cardinality(entries) \in Nat
    BY <1>2, FS_CardinalityType DEF FilesInv
  <2>2. IsFiniteSet(entries') /\ Cardinality(entries') <= Cardinality(entries)
    BY <2>1, FS_Subset
  <2>3. Cardinality(entries') \in Nat
    BY <2>2, FS_CardinalityType
  <2> QED  BY <2>1, <2>2, <2>3, UploadAssumption DEF FilesInv, FilesTypeOK
<1>9. r.at \notin Holding /\ r.at \notin Working /\ ~past[o].early
  BY <1>2, <1>4 DEF Holding, Working, Asking, FilesInv, Remembered
<1>10. /\ cleanup' \subseteq Op /\ entries' \subseteq Op /\ dest' \in {"absent", "other", "upload"}
       /\ stage \in {"cleaning", "drained"} => entries' = {}
       /\ stage = "drained" => cleanup' = {}
       /\ cancelled' \in Seq(Op) /\ Len(cancelled') <= Tombstones
       /\ \A p \in Op : Mentioned(p)' <=> Mentioned(p)
  BY <1>2 DEF FilesInv, FilesTypeOK, Registered, Mentioned
<1> HIDE DEF r
<1> QED  BY <1>1, <1>2, <1>3, <1>4, <1>7, <1>8, <1>9, <1>10, OneStep

\* A step of the server or of a cleanup: the upload stays where it is.
LEMMA ServerStep ==
  ASSUME FilesInv, NEW o \in Op,
         NEW r \in OpRecord, NEW w \in Wire, NEW s \in StagedSize, NEW h \in PastRecord,
         op' = [op EXCEPT ![o] = r], wire' = [wire EXCEPT ![o] = w],
         staging' = [staging EXCEPT ![o] = s], past' = [past EXCEPT ![o] = h],
         UNCHANGED <<profile, entries, cancelled, closing, stage>>,
         dest' \in {"absent", "other", "upload"},
         cleanup' \subseteq cleanup, \A p \in Op \ {o} : p \in cleanup' <=> p \in cleanup,
         r.at = op[o].at, r.cancel = op[o].cancel, r.rev = op[o].rev, h.early = past[o].early,
         Fine(o)'
  PROVE  FilesInv'
<1>1. /\ cleanup' \subseteq Op /\ entries' \subseteq Op
      /\ IsFiniteSet(entries') /\ Cardinality(entries') <= Limit
      /\ stage \in {"cleaning", "drained"} => entries' = {}
      /\ stage = "drained" => cleanup' = {}
      /\ cancelled' \in Seq(Op) /\ Len(cancelled') <= Tombstones
      /\ \A p \in Op : Mentioned(p)' <=> Mentioned(p)
      /\ o \in entries' <=> r.at \in Holding
  BY DEF FilesInv, FilesTypeOK, Registered, Mentioned
<1>2. h.early => r.at \in {"called", "done"} /\ (r.at = "called" => Mentioned(o)')
  BY <1>1 DEF FilesInv, Remembered
<1>3. r.at \in Working /\ ~r.cancel => profile.known /\ r.rev = profile.rev
  BY DEF FilesInv, CurrentProfile
<1> QED  BY <1>1, <1>2, <1>3, OneStep

LEMMA RemoveInv == ASSUME FilesInv, NEW o \in Op, Remove(o) PROVE FilesInv'
<1>1. op[o] \in OpRecord /\ wire[o] \in Wire /\ staging[o] \in StagedSize /\ past[o] \in PastRecord /\ Fine(o)
  BY FilesTypes DEF FilesInv
<1>2. /\ o \in cleanup /\ ~past[o].attempted
      /\ UNCHANGED <<profile, op, entries, cancelled, closing, cleanup, stage, staging, dest>>
  BY DEF Remove
<1>3. OverNow(o) /\ op[o].at \in Ended
  BY <1>1, <1>2 DEF Fine
<1> DEFINE h == [past[o] EXCEPT !.attempted = TRUE]
<1>4. past' = [past EXCEPT ![o] = h] /\ h \in PastRecord /\ h.attempted /\ h.early = past[o].early
      /\ h.lost = past[o].lost /\ h.refused = past[o].refused /\ h.untracked = past[o].untracked
  BY <1>1 DEF Remove, PastRecord
<1>5. PICK w \in Wire : /\ wire' = [wire EXCEPT ![o] = w]
                        /\ \/ past[o].lost /\ w = wire[o]
                           \/ wire[o] = <<>> /\ w = <<"remove">>
                           \/ \E q \in Requests : wire[o] = <<q>> /\ w = <<q, "remove">>
  <2>1. CASE past[o].lost
    BY <1>1, <2>1 DEF Remove
  <2>2. CASE ~past[o].lost
    <3>1. wire' = [wire EXCEPT ![o] = Append(wire[o], "remove")]
      BY <1>1, <2>2 DEF Remove, FilesInv, FilesTypeOK
    <3>2. wire[o] = <<>> \/ \E q \in Requests : wire[o] = <<q>>
      BY <1>2, <1>3 DEF OverNow, OneLeft
    <3>3. CASE wire[o] = <<>>
      <4>1. "open" \in Requests  BY DEF Requests
      <4> QED  BY <3>1, <3>3, <4>1, WireFacts
    <3>4. CASE \E q \in Requests : wire[o] = <<q>>
      BY <3>1, <3>4, WireFacts
    <3> QED  BY <3>2, <3>3, <3>4
  <2> QED  BY <2>1, <2>2
<1>6. op'[o] = op[o] /\ wire'[o] = w /\ staging'[o] = staging[o] /\ past'[o] = h
  BY <1>2, <1>4, <1>5, Own DEF FilesInv
<1> HIDE DEF h
<1>7. Left(o)'
  <2>1. Left(o)  BY <1>3 DEF OverNow
  <2>2. CASE wire[o] = <<>> /\ w = <<"remove">>
    <3>1. Head(<<"remove">>) = "remove"  OBVIOUS
    <3> QED  BY <1>6, <2>2, <3>1 DEF Left
  <2>3. ASSUME NEW q \in Requests, wire[o] = <<q>>, w = <<q, "remove">> PROVE Left(o)'
    <3>1. Head(wire[o]) = q /\ wire[o] # <<>> /\ Head(w) = q  BY <2>3, WireFacts
    <3> QED  BY <1>6, <2>1, <3>1 DEF Left
  <2> QED  BY <1>5, <1>6, <2>1, <2>2, <2>3 DEF Left
<1>8. Fine(o)'
  <2>1. OverNow(o)'
    BY <1>2, <1>3, <1>4, <1>5, <1>6, <1>7 DEF OverNow, OneLeft, Removing
  <2> QED  BY <1>3, <1>6, <2>1 DEF Fine, Ended, Asking
<1>9. op' = [op EXCEPT ![o] = op[o]] /\ staging' = [staging EXCEPT ![o] = staging[o]] /\ dest' \in {"absent", "other", "upload"}
  BY <1>2, Own DEF FilesInv, FilesTypeOK
<1> QED  BY <1>1, <1>2, <1>4, <1>5, <1>8, <1>9, ServerStep

LEMMA RemovedInv == ASSUME FilesInv, NEW o \in Op, Removed(o) PROVE FilesInv'
<1>1. op[o] \in OpRecord /\ wire[o] \in Wire /\ staging[o] \in StagedSize /\ past[o] \in PastRecord /\ Fine(o)
  BY FilesTypes DEF FilesInv
<1>2. /\ o \in cleanup /\ past[o].attempted /\ cleanup' = cleanup \ {o}
      /\ UNCHANGED <<profile, op, entries, cancelled, closing, stage, staging, dest>>
  BY DEF Removed
<1>3. OverNow(o) /\ op[o].at \in Ended
  BY <1>1, <1>2 DEF Fine
<1>4. <<>> \in Wire  BY DEF Wire
<1>5. PICK h \in PastRecord :
        /\ past' = [past EXCEPT ![o] = h] /\ wire' = [wire EXCEPT ![o] = <<>>]
        /\ h.early = past[o].early /\ h.refused = past[o].refused
        /\ \/ wire[o] = <<>> /\ h.lost = past[o].lost
           \/ h.lost
  <2>1. CASE wire[o] = <<>> /\ UNCHANGED <<wire, past>>
    BY <1>1, <2>1, Own DEF FilesInv
  <2>2. CASE wire' = [wire EXCEPT ![o] = <<>>] /\ past' = [past EXCEPT ![o].lost = TRUE]
    <3> DEFINE h == [past[o] EXCEPT !.lost = TRUE]
    <3>1. h \in PastRecord /\ h.early = past[o].early /\ h.refused = past[o].refused /\ h.lost
      BY <1>1 DEF PastRecord
    <3>2. past' = [past EXCEPT ![o] = h]
      BY <2>2
    <3> QED  BY <2>2, <3>1, <3>2
  <2> QED  BY <2>1, <2>2 DEF Removed
<1>6. op'[o] = op[o] /\ wire'[o] = <<>> /\ staging'[o] = staging[o] /\ past'[o] = h
  BY <1>2, <1>4, <1>5, Own DEF FilesInv
<1>7. wire[o] = <<>> => past[o].lost \/ past[o].refused \/ staging[o] = None
  <2>1. ASSUME Removing(o) PROVE wire[o] # <<>>
    <3>1. <<"remove">> # <<>>  OBVIOUS
    <3> QED  BY <2>1, <3>1, WireFacts DEF Removing
  <2> QED  BY <1>2, <1>3, <2>1 DEF OverNow
<1>8. Fine(o)'
  <2>1. OverNow(o)'
    BY <1>2, <1>5, <1>6, <1>7 DEF OverNow, OneLeft, Left
  <2> QED  BY <1>3, <1>6, <2>1 DEF Fine, Ended, Asking
<1>9. /\ op' = [op EXCEPT ![o] = op[o]] /\ staging' = [staging EXCEPT ![o] = staging[o]]
      /\ dest' \in {"absent", "other", "upload"}
      /\ cleanup' \subseteq cleanup /\ \A p \in Op \ {o} : p \in cleanup' <=> p \in cleanup
  BY <1>2, Own DEF FilesInv, FilesTypeOK
<1> QED  BY <1>1, <1>2, <1>4, <1>5, <1>8, <1>9, ServerStep

\* What is on the wire, and the staging file under it, whatever the upload is at.
LEMMA WireForm ==
  ASSUME FilesInv, NEW o \in Op, wire[o] # <<>>
  PROVE  /\ OneLeft(o) \/ (Removing(o) /\ past[o].attempted /\ op[o].at \in Ended)
         /\ op[o].at \in Asking \union {"drop"} \union Ended
         /\ Left(o)
<1>1. Fine(o) /\ op[o] \in OpRecord /\ staging[o] \in StagedSize
  BY FilesTypes DEF FilesInv
<1>2. op[o].at \in Asking \union {"drop"} \union Ended
  BY <1>1 DEF Fine, Fresh, Copying, OpRecord, Working, Ended
<1>3. CASE op[o].at \in Asking
  <2> DEFINE q == Requested[op[o].at]
  <2>1. Awaiting(o) /\ wire[o] = <<q>> /\ op[o].answer = "none"
    BY <1>1, <1>3 DEF Fine, Awaiting
  <2>2. q \in Requests /\ (q = "write" => op[o].at = "writing") /\ (q = "rename" => op[o].at = "renaming")
    BY <1>3 DEF Requested, Requests, Asking
  <2>3. Head(wire[o]) = q
    BY <2>1, <2>2, WireFacts
  <2>4. op[o].at = "writing" => staging[o] \in 0 .. MaxSize - 1
    BY <1>1, <2>1, UploadAssumption DEF Awaiting, OpRecord
  <2>5. op[o].at = "renaming" => staging[o] = op[o].total
    BY <2>1 DEF Awaiting
  <2>6. OneLeft(o)
    <3> HIDE DEF q
    <3> QED  BY <2>1, <2>2 DEF OneLeft
  <2> HIDE DEF q
  <2> QED  BY <1>2, <2>2, <2>3, <2>4, <2>5, <2>6 DEF Left
<1>4. CASE op[o].at = "drop"
  BY <1>1, <1>2, <1>4 DEF Fine, Dropping
<1>5. CASE op[o].at \in Ended
  BY <1>1, <1>2, <1>5 DEF Fine, OverNow
<1> QED  BY <1>2, <1>3, <1>4, <1>5

\* The answer goes to a waiting upload, and to no other.
LEMMA AnswerFacts ==
  ASSUME FilesInv, NEW o \in Op, NEW a \in {"ok", "error"}, wire[o] # <<>>, Answer(o, a)
  PROVE  \E r \in OpRecord :
           /\ op' = [op EXCEPT ![o] = r]
           /\ r.at = op[o].at /\ r.rev = op[o].rev /\ r.cancel = op[o].cancel /\ r.total = op[o].total
           /\ r.offset = op[o].offset /\ r.temp = op[o].temp
           /\ op[o].at \in Asking => r.answer = a
           /\ op[o].at \notin Asking => r.answer = op[o].answer
<1>1. op[o] \in OpRecord  BY FilesTypes DEF FilesInv
<1>2. CASE op[o].at \in Asking
  <2>1. Len(wire[o]) = 1
    <3>1. OneLeft(o)  BY <1>2, WireForm DEF Asking, Ended
    <3> QED  BY <3>1, WireFacts DEF OneLeft
  <2> DEFINE r == [op[o] EXCEPT !.answer = a]
  <2>2. op' = [op EXCEPT ![o] = r]
    BY <1>2, <2>1 DEF Answer
  <2>3. /\ r \in OpRecord /\ r.answer = a
        /\ r.at = op[o].at /\ r.rev = op[o].rev /\ r.cancel = op[o].cancel /\ r.total = op[o].total
        /\ r.offset = op[o].offset /\ r.temp = op[o].temp
    BY <1>1 DEF OpRecord
  <2> HIDE DEF r
  <2> QED  BY <1>2, <2>2, <2>3
<1>3. CASE op[o].at \notin Asking
  <2>1. op' = [op EXCEPT ![o] = op[o]]
    BY <1>3, Own DEF Answer, FilesInv
  <2> QED  BY <1>1, <1>3, <2>1
<1> QED  BY <1>2, <1>3

LEMMA ServeInv == ASSUME FilesInv, NEW o \in Op, Serve(o) PROVE FilesInv'
<1>1. op[o] \in OpRecord /\ wire[o] \in Wire /\ staging[o] \in StagedSize /\ past[o] \in PastRecord /\ Fine(o)
  BY FilesTypes DEF FilesInv
<1> DEFINE w == Tail(wire[o])
           request == Head(wire[o])
<1>2. /\ wire[o] # <<>> /\ wire' = [wire EXCEPT ![o] = w]
      /\ UNCHANGED <<profile, entries, cancelled, closing, cleanup, stage>>
  BY DEF Serve, FilesInv, FilesTypeOK
<1>3. /\ OneLeft(o) \/ (Removing(o) /\ past[o].attempted /\ op[o].at \in Ended)
      /\ op[o].at \in Asking \union {"drop"} \union Ended /\ Left(o)
  BY <1>2, WireForm
<1>4. /\ \/ OneLeft(o) /\ w = <<>> /\ request \in Requests
         \/ past[o].attempted /\ op[o].at \in Ended /\ w = <<"remove">> /\ request \in Requests
         \/ past[o].attempted /\ op[o].at \in Ended /\ w = <<>> /\ request = "remove"
      /\ w \in Wire
  <2>1. CASE OneLeft(o)
    BY <2>1, WireFacts DEF OneLeft
  <2>2. ASSUME Removing(o), past[o].attempted, op[o].at \in Ended
        PROVE  w \in Wire /\ (\/ w = <<"remove">> /\ request \in Requests
                              \/ w = <<>> /\ request = "remove")
    <3>1. CASE wire[o] = <<"remove">>
      <4>1. "open" \in Requests  BY DEF Requests
      <4> QED  BY <3>1, <4>1, WireFacts
    <3>2. CASE \E q \in Requests : wire[o] = <<q, "remove">>
      BY <3>2, WireFacts
    <3> QED  BY <2>2, <3>1, <3>2 DEF Removing
  <2> QED  BY <1>3, <2>1, <2>2
<1>5. op[o].at \in Asking => request = Requested[op[o].at] /\ w = <<>> /\ Awaiting(o) /\ op[o].answer = "none"
  <2> SUFFICES ASSUME op[o].at \in Asking
               PROVE  request = Requested[op[o].at] /\ w = <<>> /\ Awaiting(o) /\ op[o].answer = "none"
    OBVIOUS
  <2>1. Awaiting(o) /\ wire[o] = <<Requested[op[o].at]>> /\ op[o].answer = "none"
    BY <1>1, <1>2 DEF Fine, Awaiting
  <2>2. Requested[op[o].at] \in Requests
    BY DEF Requested, Requests, Asking
  <2> QED  BY <2>1, <2>2, WireFacts
<1>6. request = "write" => staging[o] \in 0 .. MaxSize - 1
  BY <1>2, <1>3 DEF Left
<1>7. request = "rename" => staging[o] = op[o].total
  BY <1>2, <1>3 DEF Left
<1> HIDE DEF w, request
\* Whatever came of the request, the rest of the wire is right for what the staging file has become.
<1>8. ASSUME NEW a \in {"ok", "error"}, Answer(o, a), NEW s \in StagedSize, NEW h \in PastRecord,
             staging' = [staging EXCEPT ![o] = s], past' = [past EXCEPT ![o] = h],
             dest' \in {"absent", "other", "upload"},
             h.early = past[o].early, h.lost = past[o].lost, h.untracked = past[o].untracked,
             h.attempted = past[o].attempted, past[o].refused => h.refused,
             a = "ok" => \/ request = "open" /\ s = 0
                         \/ request = "write" /\ s = staging[o] + 1
                         \/ request = "close" /\ s = staging[o]
                         \/ request = "rename" /\ s = None
                         \/ request = "remove" /\ s = None,
             a = "error" => s = staging[o] /\ (request = "remove" => h.refused)
      PROVE  FilesInv'
  <2>1. PICK r \in OpRecord :
           /\ op' = [op EXCEPT ![o] = r]
           /\ r.at = op[o].at /\ r.rev = op[o].rev /\ r.cancel = op[o].cancel /\ r.total = op[o].total
           /\ r.offset = op[o].offset /\ r.temp = op[o].temp
           /\ op[o].at \in Asking => r.answer = a
           /\ op[o].at \notin Asking => r.answer = op[o].answer
    BY <1>2, <1>8, AnswerFacts
  <2>2. op'[o] = r /\ wire'[o] = w /\ staging'[o] = s /\ past'[o] = h /\ (o \in cleanup' <=> o \in cleanup)
    BY <1>2, <1>4, <1>8, <2>1, Own DEF FilesInv
  <2>3. Left(o)'
    <3>1. <<"remove">> # <<>> /\ Head(<<"remove">>) = "remove"  OBVIOUS
    <3> QED  BY <1>4, <2>2, <3>1 DEF Left
  <2>4. ASSUME op[o].at \in Asking PROVE Fine(o)'
    <3>1. Awaiting(o)'
      BY <1>1, <1>5, <1>8, <2>1, <2>2, <2>4, StagingAssumption DEF Awaiting, Requested, Asking, OpRecord, StagedSize
    <3>2. o \notin cleanup /\ ~past[o].attempted
      BY <1>1, <2>4 DEF Fine, Asking, Ended
    <3> QED  BY <1>8, <2>1, <2>2, <2>4, <3>1, <3>2 DEF Fine, Ended, Asking
  <2>5. ASSUME op[o].at = "drop" PROVE Fine(o)'
    <3>1. Dropping(o) /\ o \notin cleanup /\ ~past[o].attempted
      BY <1>1, <2>5 DEF Fine, Ended
    <3>2. w = <<>>
      BY <1>4, <3>1
    <3>3. Dropping(o)'
      BY <1>2, <1>8, <2>1, <2>2, <2>3, <3>1, <3>2 DEF Dropping
    <3> QED  BY <1>8, <2>1, <2>2, <2>5, <3>1, <3>3 DEF Fine, Ended, Asking
  <2>6. ASSUME op[o].at \in Ended PROVE Fine(o)'
    <3>1. OverNow(o)
      BY <1>1, <2>6 DEF Fine
    <3>2. OverNow(o)'
      <4>1. (wire[o] = <<>> \/ OneLeft(o) \/ (past[o].attempted /\ Removing(o)))'
        BY <1>4, <1>8, <2>2 DEF Removing
      <4>2. o \notin cleanup => past[o].refused \/ past[o].lost \/ past[o].untracked
        BY <1>2, <3>1 DEF OverNow
      <4>3. ASSUME o \in cleanup, past[o].attempted, ~past[o].lost
            PROVE  w = <<"remove">> \/ (w = <<>> /\ (h.refused \/ s = None))
        <5>1. Removing(o)
          BY <1>2, <3>1, <4>3 DEF OverNow
        <5>2. ~OneLeft(o)
          <6>1. ASSUME NEW q \in Requests PROVE <<q>> # <<"remove">> /\ \A p \in Requests : <<q>> # <<p, "remove">>
            BY WireFacts DEF Requests
          <6> QED  BY <5>1, <6>1 DEF OneLeft, Removing
        <5> QED  BY <1>4, <1>8, <5>2
      <4> QED  BY <1>8, <2>2, <2>3, <4>1, <4>2, <4>3 DEF OverNow, Removing
    <3> QED  BY <1>8, <2>1, <2>2, <2>6, <3>2 DEF Fine, Ended, Asking
  <2>7. Fine(o)'
    BY <1>3, <2>4, <2>5, <2>6
  <2> QED  BY <1>2, <1>4, <1>8, <2>1, <2>7, ServerStep
<1>9. CASE Answer(o, "error") /\ past' = [past EXCEPT ![o].refused = @ \/ request = "remove"] /\ UNCHANGED <<staging, dest>>
  <2> DEFINE refused == past[o].refused \/ request = "remove"
             h == [past[o] EXCEPT !.refused = refused]
  <2>1. refused \in BOOLEAN  OBVIOUS
  <2>2. /\ h \in PastRecord /\ h.refused = refused /\ h.early = past[o].early /\ h.lost = past[o].lost
        /\ h.untracked = past[o].untracked /\ h.attempted = past[o].attempted
    <3> HIDE DEF refused
    <3> QED  BY <1>1, <2>1 DEF PastRecord
  <2>3. past' = [past EXCEPT ![o] = h] /\ staging' = [staging EXCEPT ![o] = staging[o]]
        /\ dest' \in {"absent", "other", "upload"}
    BY <1>9, Own DEF FilesInv, FilesTypeOK
  <2>4. (past[o].refused => h.refused) /\ (request = "remove" => h.refused)
    BY <2>2
  <2> HIDE DEF h
  <2> QED  BY <1>1, <1>8, <1>9, <2>2, <2>3, <2>4
<1>10. CASE /\ Answer(o, "ok")
            /\ \/ request = "open" /\ staging' = [staging EXCEPT ![o] = 0] /\ UNCHANGED <<dest, past>>
               \/ request = "write" /\ staging' = [staging EXCEPT ![o] = @ + 1] /\ UNCHANGED <<dest, past>>
               \/ request = "close" /\ UNCHANGED <<staging, dest, past>>
               \/ request = "remove" /\ staging' = [staging EXCEPT ![o] = None] /\ UNCHANGED <<dest, past>>
  <2>1. dest' \in {"absent", "other", "upload"} /\ past' = [past EXCEPT ![o] = past[o]]
    BY <1>10, Own DEF FilesInv, FilesTypeOK
  <2>2. PICK s \in StagedSize :
           /\ staging' = [staging EXCEPT ![o] = s]
           /\ \/ request = "open" /\ s = 0
              \/ request = "write" /\ s = staging[o] + 1
              \/ request = "close" /\ s = staging[o]
              \/ request = "remove" /\ s = None
    <3>1. 0 \in StagedSize /\ None \in StagedSize /\ (request = "write" => staging[o] + 1 \in StagedSize)
      BY <1>6, UploadAssumption DEF StagedSize
    <3> QED  BY <1>1, <1>10, <3>1, Own DEF FilesInv
  <2> QED  BY <1>1, <1>8, <1>10, <2>1, <2>2
<1>11. CASE /\ Answer(o, "ok") /\ request = "rename" /\ dest' = "upload"
            /\ staging' = [staging EXCEPT ![o] = None] /\ past' = [past EXCEPT ![o].published = TRUE]
  <2> DEFINE h == [past[o] EXCEPT !.published = TRUE]
  <2>1. /\ h \in PastRecord /\ h.early = past[o].early /\ h.lost = past[o].lost /\ h.refused = past[o].refused
        /\ h.untracked = past[o].untracked /\ h.attempted = past[o].attempted
    BY <1>1 DEF PastRecord
  <2>2. past' = [past EXCEPT ![o] = h] /\ None \in StagedSize
    BY <1>11 DEF StagedSize
  <2> HIDE DEF h
  <2> QED  BY <1>8, <1>11, <2>1, <2>2
<1> QED  BY <1>9, <1>10, <1>11 DEF Serve, request

LEMMA LoseConnectionInv == ASSUME FilesInv, NEW o \in Op, LoseConnection(o) PROVE FilesInv'
<1>1. op[o] \in OpRecord /\ wire[o] \in Wire /\ staging[o] \in StagedSize /\ past[o] \in PastRecord /\ Fine(o)
  BY FilesTypes DEF FilesInv
<1>2. /\ wire[o] # <<>> /\ wire' = [wire EXCEPT ![o] = <<>>] /\ <<>> \in Wire
      /\ UNCHANGED <<profile, entries, cancelled, closing, cleanup, stage, staging, dest>>
  BY DEF LoseConnection, Wire
<1> DEFINE h == [past[o] EXCEPT !.lost = TRUE]
<1>3. /\ past' = [past EXCEPT ![o] = h] /\ h \in PastRecord /\ h.lost /\ h.early = past[o].early
      /\ h.refused = past[o].refused /\ h.untracked = past[o].untracked /\ h.attempted = past[o].attempted
  BY <1>1 DEF LoseConnection, PastRecord
<1>4. op[o].at \in Asking \union {"drop"} \union Ended
  BY <1>2, WireForm
<1>5. PICK r \in OpRecord :
        /\ op' = [op EXCEPT ![o] = r]
        /\ r.at = op[o].at /\ r.rev = op[o].rev /\ r.cancel = op[o].cancel /\ r.total = op[o].total
        /\ r.offset = op[o].offset /\ r.temp = op[o].temp
        /\ op[o].at \in Asking => r.answer = "error"
  <2>1. CASE op[o].at \in Asking
    <3> DEFINE r == [op[o] EXCEPT !.answer = "error"]
    <3>1. /\ r \in OpRecord /\ r.answer = "error"
          /\ r.at = op[o].at /\ r.rev = op[o].rev /\ r.cancel = op[o].cancel /\ r.total = op[o].total
          /\ r.offset = op[o].offset /\ r.temp = op[o].temp
      BY <1>1 DEF OpRecord
    <3>2. op' = [op EXCEPT ![o] = r]
      BY <2>1 DEF LoseConnection
    <3> HIDE DEF r
    <3> QED  BY <3>1, <3>2
  <2>2. CASE op[o].at \notin Asking
    BY <1>1, <2>2, Own DEF LoseConnection, FilesInv
  <2> QED  BY <2>1, <2>2
<1>6. op'[o] = r /\ wire'[o] = <<>> /\ staging'[o] = staging[o] /\ past'[o] = h
  BY <1>2, <1>3, <1>5, Own DEF FilesInv
<1> HIDE DEF h
<1>7. Fine(o)'
  <2>1. CASE op[o].at \in Asking
    <3>1. Awaiting(o) /\ op[o].answer = "none"
      BY <1>1, <1>2, <2>1 DEF Fine, Awaiting
    <3>2. Awaiting(o)'
      BY <1>5, <1>6, <2>1, <3>1 DEF Awaiting, Asking
    <3> QED  BY <1>1, <1>2, <1>3, <1>5, <1>6, <2>1, <3>2 DEF Fine, Ended, Asking
  <2>2. CASE op[o].at = "drop"
    <3>1. Dropping(o)  BY <1>1, <2>2 DEF Fine
    <3>2. Dropping(o)'
      BY <1>2, <1>3, <1>5, <1>6, <3>1 DEF Dropping, Left
    <3> QED  BY <1>1, <1>2, <1>3, <1>5, <1>6, <2>2, <3>2 DEF Fine, Ended, Asking
  <2>3. CASE op[o].at \in Ended
    <3>1. OverNow(o)'
      BY <1>2, <1>3, <1>6 DEF OverNow, Left
    <3> QED  BY <1>5, <1>6, <2>3, <3>1 DEF Fine, Ended, Asking
  <2> QED  BY <1>4, <2>1, <2>2, <2>3
<1>8. /\ staging' = [staging EXCEPT ![o] = staging[o]] /\ dest' \in {"absent", "other", "upload"}
  BY <1>2, Own DEF FilesInv, FilesTypeOK
<1> QED  BY <1>1, <1>2, <1>3, <1>5, <1>7, <1>8, ServerStep

\* With the process go all connections.
LEMMA ExitInv == ASSUME FilesInv, Exit PROVE FilesInv'
<1>1. /\ stage' = "exited" /\ stage # "open" /\ wire' = [o \in Op |-> <<>>]
      /\ UNCHANGED <<profile, op, entries, cancelled, closing, cleanup, staging, dest>>
  BY DEF Exit
<1> DEFINE l(o) == past[o].lost \/ stage # "drained"
<1>2. /\ past' = [o \in Op |-> [past[o] EXCEPT !.lost = l(o)]] /\ \A o \in Op : l(o) \in BOOLEAN
  BY DEF Exit
<1>3. past \in [Op -> PastRecord] /\ <<>> \in Wire
  BY DEF FilesInv, FilesTypeOK, PastRecord, Wire
<1>4. /\ past' \in [Op -> PastRecord]
      /\ \A o \in Op : /\ past'[o].lost = l(o) /\ past'[o].early = past[o].early
                       /\ past'[o].refused = past[o].refused /\ past'[o].untracked = past[o].untracked
                       /\ past'[o].attempted = past[o].attempted
  <2> HIDE DEF l
  <2> QED  BY <1>2, <1>3 DEF PastRecord
<1>5. FilesTypeOK' /\ IsFiniteSet(entries')
  BY <1>1, <1>3, <1>4 DEF FilesInv, FilesTypeOK, PastRecord, Wire
<1>6. ASSUME NEW o \in Op PROVE Fine(o)'
  <2>1. Fine(o) /\ op'[o] = op[o] /\ wire'[o] = <<>> /\ staging'[o] = staging[o] /\ cleanup' = cleanup
    BY <1>1 DEF FilesInv
  <2>2. op[o].at \in Asking => Awaiting(o)'
    BY <2>1 DEF Fine, Awaiting
  <2>3. op[o].at = "drop" => Dropping(o)'
    BY <1>4, <2>1 DEF Fine, Dropping, Left
  <2>4. op[o].at \in Ended => OverNow(o)'
    <3>1. CASE stage # "drained"
      BY <1>4, <2>1, <3>1 DEF OverNow, Left
    <3>2. CASE stage = "drained"
      <4>1. o \notin cleanup  BY <3>2 DEF FilesInv, Registered
      <4> QED  BY <1>4, <2>1, <4>1 DEF Fine, OverNow, Left
    <3> QED  BY <3>1, <3>2
  <2> QED  BY <1>4, <2>1, <2>2, <2>3, <2>4 DEF Fine, Fresh, Copying
<1>7. Registered'
  BY <1>1 DEF FilesInv, Registered
<1>8. Remembered'
  BY <1>1, <1>4 DEF FilesInv, Remembered, Mentioned
<1>9. CurrentProfile'
  BY <1>1 DEF FilesInv, CurrentProfile
<1> QED  BY <1>5, <1>6, <1>7, <1>8, <1>9 DEF FilesInv
-----------------------------------------------------------------------------
LEMMA FilesInitInv == FilesInit => FilesInv
<1> SUFFICES ASSUME FilesInit PROVE FilesInv  OBVIOUS
<1>1. IsFiniteSet(entries) /\ Cardinality(entries) = 0 /\ entries = {}
  BY FS_EmptySet DEF FilesInit
<1>2. op \in [Op -> OpRecord] /\ \A o \in Op : op[o].at = "idle" /\ op[o].offset = 0 /\ ~op[o].temp
  <2>1. \A n \in Size : /\ [NotCalled EXCEPT !.local = n] \in OpRecord
                        /\ [NotCalled EXCEPT !.local = n].at = "idle"
                        /\ [NotCalled EXCEPT !.local = n].offset = 0
                        /\ ~[NotCalled EXCEPT !.local = n].temp
    BY NotCalledType DEF OpRecord
  <2>2. op \in [Op -> {[NotCalled EXCEPT !.local = n] : n \in Size}]
    BY DEF FilesInit
  <2>3. ASSUME NEW o \in Op PROVE op[o] \in OpRecord /\ op[o].at = "idle" /\ op[o].offset = 0 /\ ~op[o].temp
    <3>1. PICK n \in Size : op[o] = [NotCalled EXCEPT !.local = n]
      BY <2>2
    <3> QED  BY <2>1, <3>1
  <2> QED  BY <2>2, <2>3
<1>3. past \in [Op -> PastRecord] /\ \A o \in Op : ~past[o].early /\ ~past[o].attempted
  BY DEF FilesInit, NoPast, PastRecord
<1>4. wire \in [Op -> Wire] /\ staging \in [Op -> StagedSize] /\ \A o \in Op : wire[o] = <<>> /\ staging[o] = None
  BY DEF FilesInit, Wire, StagedSize
<1>5. cancelled \in Seq(Op) /\ Len(cancelled) <= Tombstones
  BY UploadAssumption DEF FilesInit
<1>6. FilesTypeOK
  <2>1. 0 \in 0 .. MaxEdits /\ 0 <= Limit
    BY UploadAssumption
  <2> QED  BY <1>1, <1>2, <1>3, <1>4, <1>5, <2>1
     DEF FilesInit, FilesTypeOK, OpRecord, PastRecord, Wire, StagedSize
<1>7. \A o \in Op : Fine(o)
  BY <1>2, <1>3, <1>4 DEF FilesInit, Fine, Fresh, Asking, Ended
<1>8. Registered /\ Remembered /\ CurrentProfile
  BY <1>1, <1>2, <1>3 DEF FilesInit, Registered, Remembered, CurrentProfile, Holding, Working, Asking
<1> QED  BY <1>1, <1>6, <1>7, <1>8 DEF FilesInv

LEMMA FilesStep == FilesInv /\ [FilesNext]_fileVars => FilesInv'
<1> SUFFICES ASSUME FilesInv, [FilesNext]_fileVars PROVE FilesInv'  OBVIOUS
<1>1. ASSUME NEW o \in Op, Upload(o) PROVE FilesInv'
  BY <1>1, RegisterInv, SetupInv, OpenStagingInv, OpenedInv, CopyInv, WrittenInv, ClosedInv, RenamedInv,
     FailsInv, AbandonInv, DropWorkInv, UnregisterInv DEF Upload
<1>2. ASSUME NEW o \in Op, Call(o) \/ Cancel(o) \/ Remove(o) \/ Removed(o) \/ Serve(o) \/ LoseConnection(o)
      PROVE  FilesInv'
  BY <1>2, CallInv, CancelInv, RemoveInv, RemovedInv, ServeInv, LoseConnectionInv
<1>3. CASE EditServer \/ Shutdown \/ Drained \/ Cleaned \/ Exit \/ Others
  BY <1>3, EditServerInv, ShutdownInv, DrainInv, ExitInv, OthersInv
<1>4. CASE UNCHANGED fileVars
  <2>1. \A o \in Op : Fine(o)'
    BY <1>4, FineFrame DEF fileVars, FilesInv
  <2> QED  BY <1>4, <2>1 DEF fileVars, FilesInv, FilesTypeOK, Registered, Remembered, Mentioned, CurrentProfile
<1> QED  BY <1>1, <1>2, <1>3, <1>4 DEF FilesNext

\* Only a rename that is served publishes, and it finds the whole file wherever it is served.
LEMMA FilesPublish ==
  ASSUME FilesInv, [FilesNext]_fileVars, NEW o \in Op, past'[o].published, ~past[o].published
  PROVE  staging[o] = op[o].total
<1>1. past \in [Op -> PastRecord]
  BY DEF FilesInv, FilesTypeOK, PastRecord
<1>2. past' # past
  OBVIOUS
<1>3. ASSUME NEW p \in Op, Serve(p) PROVE p = o /\ Head(wire[p]) = "rename" /\ wire[p] # <<>>
  <2> DEFINE refused == past[p].refused \/ Head(wire[p]) = "remove"
  <2>1. refused \in BOOLEAN  OBVIOUS
  <2>2. \/ past' = past
        \/ past' = [past EXCEPT ![p].refused = refused]
        \/ Head(wire[p]) = "rename" /\ past' = [past EXCEPT ![p].published = TRUE]
    BY <1>3 DEF Serve
  <2>3. wire[p] # <<>>
    BY <1>3 DEF Serve
  <2> HIDE DEF refused
  <2>4. past' # [past EXCEPT ![p].refused = refused]
    BY <1>1, <2>1 DEF PastRecord
  <2>5. past' = [past EXCEPT ![p].published = TRUE] => p = o
    BY <1>1 DEF PastRecord
  <2> QED  BY <1>2, <2>2, <2>3, <2>4, <2>5
<1>4. ASSUME NEW p \in Op, Untrack(p) PROVE FALSE
  BY <1>1, <1>4 DEF Untrack, PastRecord
<1>5. ASSUME NEW p \in Op, Cancel(p) PROVE FALSE
  BY <1>1, <1>2, <1>5 DEF Cancel, PastRecord
<1>6. ASSUME NEW p \in Op, Remove(p) \/ Removed(p) \/ LoseConnection(p) PROVE FALSE
  BY <1>1, <1>2, <1>6 DEF Remove, Removed, LoseConnection, PastRecord
<1>7. ~Exit
  BY <1>1 DEF Exit, PastRecord
<1>8. PICK p \in Op : Serve(p)
  BY <1>2, <1>4, <1>5, <1>6, <1>7
     DEF FilesNext, fileVars, Upload, Call, Register, Setup, OpenStaging, Opened, Copy, Written, Closed, Renamed,
         Fails, Abandon, DropWork, Unregister, EditServer, Shutdown, Drained, Cleaned, Others
<1> QED  BY <1>3, <1>8, WireForm DEF Left
-----------------------------------------------------------------------------
(* Downloads and previews *)

File    == 1 .. MaxRewrites + 1
Content == Seq(Nat)
HandleOpen  == {"read", "close", "again"}
Looked  == {"open", "sync"} \union HandleOpen
Over    == {"classify", "shown", "refused", "done"}

ReadingType ==
  [kind : {"download", "preview"}, at : {"stat"} \union Looked \union Over,
   attrs : [size : Nat, mtime : Nat], handle : {0} \union File, bytes : Content]

DownloadTypeOK ==
  /\ second \in Nat
  /\ inode \in [File -> [content : Content, mtime : Nat]]
  /\ named \in {0} \union File
  /\ tells \in BOOLEAN
  /\ reading \in ReadingType
  /\ reading.at \in {"stat", "open"} => reading.bytes = <<>>
  /\ reading.at \in HandleOpen => reading.handle \in File
  /\ story \in [changes : 0 .. MaxRewrites, first : Content, unseen : BOOLEAN]

\* What was read is the beginning of what there was at the first look.
Prefix(bytes, first) ==
  Len(bytes) <= Len(first) /\ \A n \in 1 .. Len(bytes) : bytes[n] = first[n]

\* The name leads to a file with the stamp of the first look.
SameStamp == named # 0 /\ Attributes(inode[named]) = reading.attrs

\* As long as every change is seen, a file with that stamp is the one that was looked at
\* and opened.
Untouched ==
  reading.at \in Looked /\ SameStamp =>
    /\ inode[named].content = story.first
    /\ reading.at \in HandleOpen => reading.handle = named /\ Prefix(reading.bytes, story.first)

Verified == reading.at = "sync" => reading.bytes = story.first

DownloadInv ==
  /\ DownloadTypeOK
  /\ saved # "old" => reading.at = "done"
  /\ tells /\ ~story.unseen => Untouched /\ Verified /\ (saved # "old" => saved = story.first)
-----------------------------------------------------------------------------
LEMMA DownloadInitInv == DownloadInit => DownloadInv
<1> SUFFICES ASSUME DownloadInit PROVE DownloadInv  OBVIOUS
<1>1. 1 \in File /\ 0 \in 0 .. MaxRewrites
  BY DownloadAssumption DEF File
<1>2. inode \in [File -> [content : Content, mtime : Nat]]
  <2>1. PICK n \in 0 .. MaxChunks :
          inode = [i \in 1 .. MaxRewrites + 1 |-> [content |-> [c \in 1 .. n |-> 0], mtime |-> 1]]
    BY DEF DownloadInit
  <2>2. [c \in 1 .. n |-> 0] \in Content
    BY DownloadAssumption DEF Content
  <2> QED  BY <2>1, <2>2 DEF File
<1>3. PICK kind \in {"download", "preview"} :
        reading = [kind |-> kind, at |-> "stat", attrs |-> NoAttributes, handle |-> 0, bytes |-> <<>>]
  BY DEF DownloadInit
<1>4. <<>> \in Content  BY DEF Content
<1>5. DownloadTypeOK
  BY <1>1, <1>2, <1>3, <1>4 DEF DownloadInit, DownloadTypeOK, ReadingType, NoAttributes, Looked, HandleOpen
<1> QED  BY <1>3, <1>5 DEF DownloadInit, DownloadInv, Untouched, Verified, Looked, HandleOpen

LEMMA AttributesType ==
  ASSUME NEW f \in [content : Content, mtime : Nat]
  PROVE  Attributes(f) \in [size : Nat, mtime : Nat]
BY DEF Attributes, NoAttributes, Content
-----------------------------------------------------------------------------
(* The operation *)

LEMMA StatFileInv == ASSUME DownloadInv, StatFile PROVE DownloadInv'
<1> DEFINE f == inode[named]
<1>1. f \in [content : Content, mtime : Nat] /\ named \in File /\ reading.at = "stat"
  BY DEF DownloadInv, DownloadTypeOK, StatFile
<1>2. PICK at \in {"refused", "open"} :
        reading' = [reading EXCEPT !.attrs = Attributes(f), !.at = at]
  BY DEF StatFile
<1>3. /\ reading' \in ReadingType
      /\ reading'.at = at /\ reading'.attrs = Attributes(f) /\ reading'.bytes = reading.bytes
  BY <1>1, <1>2, AttributesType DEF DownloadInv, DownloadTypeOK, ReadingType, Looked, Over
<1>4. /\ story' = [story EXCEPT !.first = f.content]
      /\ UNCHANGED <<second, inode, named, tells, saved>>
  BY DEF StatFile, Remote
<1>5. story' \in [changes : 0 .. MaxRewrites, first : Content, unseen : BOOLEAN] /\ story'.first = f.content
  BY <1>1, <1>4 DEF DownloadInv, DownloadTypeOK
<1>6. DownloadTypeOK'
  BY <1>1, <1>2, <1>3, <1>4, <1>5 DEF DownloadInv, DownloadTypeOK, HandleOpen
<1>7. saved' = "old"
  BY <1>1, <1>4 DEF DownloadInv
<1> QED  BY <1>2, <1>3, <1>4, <1>5, <1>6, <1>7 DEF DownloadInv, Untouched, Verified, HandleOpen

\* Steps that only move on leave the invariant, if what the step they reach promises holds.
LEMMA GoToInv ==
  ASSUME DownloadInv, Kept, reading.at \in Looked \union {"classify"},
         NEW at \in {"close", "again", "sync"} \union Over, at # "done", GoTo(at),
         at \in Looked => reading.at \in HandleOpen,
         tells /\ ~story.unseen /\ at = "sync" => reading.bytes = story.first
  PROVE  DownloadInv'
<1>1. /\ UNCHANGED <<second, inode, named, tells, saved, story>>
      /\ reading' = [reading EXCEPT !.at = at]
  BY DEF Kept, Remote, GoTo
<1>2. /\ reading' \in ReadingType /\ reading'.at = at
      /\ UNCHANGED <<reading.attrs, reading.handle, reading.bytes>>
  BY <1>1 DEF DownloadInv, DownloadTypeOK, ReadingType, Looked, HandleOpen
<1>3. DownloadTypeOK'
  BY <1>1, <1>2 DEF DownloadInv, DownloadTypeOK, Looked, HandleOpen, Over
<1>4. saved = "old"
  BY DEF DownloadInv, Looked, HandleOpen
<1>5. ASSUME tells, ~story.unseen PROVE Untouched' /\ Verified'
  <2>1. Untouched  BY <1>5 DEF DownloadInv
  <2>2. SameStamp' = SameStamp
    BY <1>1, <1>2 DEF SameStamp, Attributes, NoAttributes
  <2>3. Untouched'
    BY <1>1, <1>2, <2>1, <2>2 DEF Untouched, Looked, HandleOpen, Over, Prefix
  <2>4. Verified'
    BY <1>1, <1>2, <1>5 DEF Verified
  <2> QED  BY <2>3, <2>4
<1> QED  BY <1>1, <1>3, <1>4, <1>5 DEF DownloadInv

LEMMA OpenFileInv == ASSUME DownloadInv, OpenFile PROVE DownloadInv'
<1>1. /\ UNCHANGED <<second, inode, named, tells, saved, story>> /\ reading.at = "open" /\ named \in File
      /\ reading' = [reading EXCEPT !.at = "read", !.handle = named]
  BY DEF OpenFile, Kept, Remote, DownloadInv, DownloadTypeOK
<1>2. /\ reading' \in ReadingType /\ reading'.at = "read" /\ reading'.handle = named
      /\ UNCHANGED <<reading.attrs, reading.bytes>>
  BY <1>1 DEF DownloadInv, DownloadTypeOK, ReadingType, Looked, HandleOpen
<1>3. DownloadTypeOK'
  BY <1>1, <1>2 DEF DownloadInv, DownloadTypeOK, HandleOpen
<1>4. ASSUME tells, ~story.unseen PROVE Untouched'
  <2>1. Untouched  BY <1>4 DEF DownloadInv
  <2>2. SameStamp' = SameStamp
    BY <1>1, <1>2 DEF SameStamp, Attributes, NoAttributes
  <2>3. Prefix(reading'.bytes, story.first)
    BY <1>1, <1>2 DEF DownloadInv, DownloadTypeOK, Prefix, Content
  <2> QED  BY <1>1, <1>2, <2>1, <2>2, <2>3 DEF Untouched, Looked, HandleOpen, Prefix
<1>5. Verified' /\ saved = "old"
  BY <1>1, <1>2 DEF Verified, DownloadInv
<1> QED  BY <1>1, <1>3, <1>4, <1>5 DEF DownloadInv

LEMMA ReadChunkInv == ASSUME DownloadInv, ReadChunk PROVE DownloadInv'
<1> DEFINE content == inode[reading.handle].content
           next    == Len(reading.bytes) + 1
<1>1. reading.at = "read" /\ Kept  BY DEF ReadChunk
<1>2. CASE next > Len(content) /\ GoTo("close")
  BY <1>1, <1>2, GoToInv DEF Looked, HandleOpen, Over
<1>3. CASE GoTo("refused")
  BY <1>1, <1>3, GoToInv DEF Looked, HandleOpen, Over
<1>4. CASE next <= Len(content) /\ reading' = [reading EXCEPT !.bytes = Append(@, content[next])]
  <2>1. content \in Seq(Nat) /\ reading.bytes \in Seq(Nat)
    BY <1>1 DEF DownloadInv, DownloadTypeOK, ReadingType, HandleOpen, Content
  <2>2. next \in 1 .. Len(content) /\ content[next] \in Nat
    <3>1. Len(reading.bytes) \in Nat /\ Len(content) \in Nat
      BY <2>1
    <3>2. next \in 1 .. Len(content)
      BY <1>4, <3>1
    <3>3. ASSUME NEW q \in Seq(Nat), NEW n \in 1 .. Len(q) PROVE q[n] \in Nat
      OBVIOUS
    <3> HIDE DEF content, next
    <3> QED  BY <2>1, <3>2, <3>3
  <2>3. Append(reading.bytes, content[next]) \in Content
    BY <2>1, <2>2 DEF Content
  <2>4. /\ reading' \in ReadingType /\ reading'.bytes = Append(reading.bytes, content[next])
        /\ UNCHANGED <<reading.at, reading.attrs, reading.handle>>
    BY <1>4, <2>3 DEF DownloadInv, DownloadTypeOK, ReadingType
  <2>5. UNCHANGED <<second, inode, named, tells, saved, story>>
    BY <1>1 DEF Kept, Remote
  <2>6. DownloadTypeOK'
    BY <1>1, <2>4, <2>5 DEF DownloadInv, DownloadTypeOK, HandleOpen
  <2>7. ASSUME tells, ~story.unseen, SameStamp PROVE Untouched'
    <3>1. content = story.first /\ reading.handle = named /\ Prefix(reading.bytes, story.first)
      BY <1>1, <2>7 DEF DownloadInv, Untouched, Looked, HandleOpen
    <3>2. Prefix(Append(reading.bytes, content[next]), story.first)
      BY <2>1, <2>2, <3>1 DEF Prefix
    <3> QED  BY <2>4, <2>5, <3>1, <3>2 DEF Untouched, Prefix
  <2>8. SameStamp' = SameStamp
    BY <2>4, <2>5 DEF SameStamp, Attributes, NoAttributes
  <2>9. tells /\ ~story.unseen => Untouched'
    BY <2>7, <2>8 DEF Untouched
  <2>10. Verified' /\ saved = "old"
    BY <1>1, <2>4 DEF Verified, DownloadInv
  <2> QED  BY <2>5, <2>6, <2>9, <2>10 DEF DownloadInv
<1>5. next > Len(content) \/ next <= Len(content)
  BY <1>1 DEF DownloadInv, DownloadTypeOK, ReadingType, HandleOpen, Content
<1> QED  BY <1>2, <1>3, <1>4, <1>5 DEF ReadChunk

\* What a second look with the same stamp shows: the whole file was read.
LEMMA StatAgainInv == ASSUME DownloadInv, StatAgain PROVE DownloadInv'
<1>1. reading.at = "again" /\ named # 0 /\ Kept  BY DEF StatAgain
<1>2. CASE Changed(Attributes(inode[named])) /\ GoTo("refused")
  BY <1>1, <1>2, GoToInv DEF Looked, HandleOpen, Over
<1>3. CASE ~Changed(Attributes(inode[named])) /\ GoTo("sync")
  <2>1. ASSUME tells, ~story.unseen PROVE reading.bytes = story.first
    <3>1. SameStamp /\ reading.attrs.size = Len(reading.bytes)
      BY <1>1, <1>3, <2>1 DEF Changed, SameStamp
    <3>2. inode[named].content = story.first /\ Prefix(reading.bytes, story.first)
      BY <1>1, <2>1, <3>1 DEF DownloadInv, Untouched, Looked, HandleOpen
    <3>3. Len(reading.bytes) = Len(story.first)
      BY <2>1, <3>1, <3>2 DEF SameStamp, Attributes
    <3>4. reading.bytes \in Seq(Nat) /\ story.first \in Seq(Nat)
      BY DEF DownloadInv, DownloadTypeOK, ReadingType, Content
    <3> QED  BY <3>2, <3>3, <3>4 DEF Prefix
  <2> QED  BY <1>1, <1>3, <2>1, GoToInv DEF Looked, HandleOpen, Over
<1> QED  BY <1>2, <1>3 DEF StatAgain

LEMMA CloseFileInv == ASSUME DownloadInv, CloseFile PROVE DownloadInv'
<1>1. reading.at = "close" /\ Kept /\ (GoTo("classify") \/ GoTo("again"))
  BY DEF CloseFile
<1> QED  BY <1>1, GoToInv DEF Looked, HandleOpen, Over

LEMMA ClassifyInv == ASSUME DownloadInv, Classify PROVE DownloadInv'
<1>1. reading.at = "classify" /\ Kept /\ (GoTo("shown") \/ GoTo("refused"))
  BY DEF Classify
<1> QED  BY <1>1, GoToInv DEF Looked, HandleOpen, Over

LEMMA PersistInv == ASSUME DownloadInv, Persist PROVE DownloadInv'
<1>1. /\ UNCHANGED <<second, inode, named, tells, story>> /\ reading.at = "sync"
      /\ reading' = [reading EXCEPT !.at = "done"] /\ saved' = reading.bytes
  BY DEF Persist, Remote, GoTo
<1>2. reading' \in ReadingType /\ reading'.at = "done" /\ UNCHANGED <<reading.handle, reading.bytes>>
  BY <1>1 DEF DownloadInv, DownloadTypeOK, ReadingType, Over
<1>3. DownloadTypeOK'
  BY <1>1, <1>2 DEF DownloadInv, DownloadTypeOK, HandleOpen
<1> QED  BY <1>1, <1>2, <1>3 DEF DownloadInv, Untouched, Verified, Looked, HandleOpen

LEMMA GiveUpReadingInv == ASSUME DownloadInv, GiveUpReading PROVE DownloadInv'
<1>1. Kept /\ GoTo("refused") /\ reading.at \in {"stat"} \union Looked
  BY DEF GiveUpReading, Looked, HandleOpen
<1>2. CASE reading.at \in Looked  BY <1>1, <1>2, GoToInv DEF Looked, HandleOpen, Over
<1>3. CASE reading.at = "stat"
  <2>1. /\ UNCHANGED <<second, inode, named, tells, saved, story>>
        /\ reading' = [reading EXCEPT !.at = "refused"]
    BY <1>1 DEF Kept, Remote, GoTo
  <2>2. reading' \in ReadingType /\ reading'.at = "refused"
    BY <2>1 DEF DownloadInv, DownloadTypeOK, ReadingType, Over
  <2>3. DownloadTypeOK'
    BY <2>1, <2>2 DEF DownloadInv, DownloadTypeOK, HandleOpen
  <2> QED  BY <1>3, <2>1, <2>2, <2>3 DEF DownloadInv, Untouched, Verified, Looked, HandleOpen
<1> QED  BY <1>1, <1>2, <1>3
-----------------------------------------------------------------------------
(* Other programs *)

\* Whoever has the name after a change has another stamp, or the change is not seen.
LEMMA RewriteInv ==
  ASSUME DownloadInv, NEW i \in File, NEW content \in Content, NEW mtime \in Nat,
         Rewrite(i, content, mtime), named' = i
  PROVE  DownloadInv'
<1>1. /\ inode' = [inode EXCEPT ![i] = [content |-> content, mtime |-> mtime]]
      /\ UNCHANGED <<second, tells, reading, saved>> /\ story.changes < MaxRewrites
      /\ story' = [story EXCEPT !.changes = @ + 1,
                      !.unseen = @ \/ Attributes(inode'[i]) = reading.attrs]
  BY DEF Rewrite
<1>2. inode' \in [File -> [content : Content, mtime : Nat]]
  BY <1>1 DEF DownloadInv, DownloadTypeOK
<1>3. PICK unseen \in BOOLEAN :
        /\ story' = [story EXCEPT !.changes = @ + 1, !.unseen = unseen]
        /\ unseen <=> story.unseen \/ Attributes(inode'[i]) = reading.attrs
  <2>1. (story.unseen \/ Attributes(inode'[i]) = reading.attrs) \in BOOLEAN
    BY DEF DownloadInv, DownloadTypeOK
  <2> QED  BY <1>1, <2>1
<1>4. /\ story' \in [changes : 0 .. MaxRewrites, first : Content, unseen : BOOLEAN]
      /\ story'.unseen = unseen /\ story'.first = story.first
  <2>1. story.changes + 1 \in 0 .. MaxRewrites
    BY <1>1, DownloadAssumption DEF DownloadInv, DownloadTypeOK
  <2>2. story' = [changes |-> story.changes + 1, first |-> story.first, unseen |-> unseen]
    BY <1>3 DEF DownloadInv, DownloadTypeOK
  <2>3. story.first \in Content
    BY DEF DownloadInv, DownloadTypeOK
  <2> QED  BY <2>1, <2>2, <2>3
<1>5. DownloadTypeOK'
  BY <1>1, <1>2, <1>4 DEF DownloadInv, DownloadTypeOK
<1>6. ASSUME ~unseen PROVE ~SameStamp' /\ ~story.unseen
  BY <1>1, <1>3, <1>6 DEF SameStamp, Attributes, NoAttributes
<1>7. Verified => Verified'
  BY <1>1, <1>4 DEF Verified
<1> QED  BY <1>1, <1>4, <1>5, <1>6, <1>7 DEF DownloadInv, Untouched

LEMMA ChangeInPlaceInv == ASSUME DownloadInv, ChangeInPlace PROVE DownloadInv'
<1> DEFINE content == inode[named].content
<1>1. named \in File /\ named' = named /\ content \in Seq(Nat) /\ second \in Nat /\ ChangeNumber \in Nat
  BY DownloadAssumption DEF ChangeInPlace, DownloadInv, DownloadTypeOK, Content, ChangeNumber
<1>2. ASSUME NEW c \in DOMAIN content, Rewrite(named, [content EXCEPT ![c] = ChangeNumber], second)
      PROVE  DownloadInv'
  <2>1. [content EXCEPT ![c] = ChangeNumber] \in Content
    BY <1>1 DEF Content
  <2> QED  BY <1>1, <1>2, <2>1, RewriteInv
<1>3. CASE Rewrite(named, Append(content, ChangeNumber), second)
  <2>1. Append(content, ChangeNumber) \in Content  BY <1>1 DEF Content
  <2> QED  BY <1>1, <1>3, <2>1, RewriteInv
<1>4. ASSUME NEW c \in DOMAIN content, Rewrite(named, SubSeq(content, 1, c - 1), second)
      PROVE  DownloadInv'
  <2>1. SubSeq(content, 1, c - 1) \in Content
    <3> HIDE DEF content
    <3>1. c \in 1 .. Len(content) /\ Len(content) \in Nat  BY <1>1, <1>4
    <3>2. \A n \in 1 .. c - 1 : content[n] \in Nat  BY <1>1, <3>1, ElementOfSeq
    <3> QED  BY <1>1, <3>1, <3>2, SubSeqProperties DEF Content
  <2> QED  BY <1>1, <1>4, <2>1, RewriteInv
<1> QED  BY <1>2, <1>3, <1>4 DEF ChangeInPlace

LEMMA ReplaceFileInv == ASSUME DownloadInv, ReplaceFile PROVE DownloadInv'
<1>1. story.changes \in 0 .. MaxRewrites /\ second \in Nat
  BY DEF DownloadInv, DownloadTypeOK
<1>2. ASSUME NEW n \in 0 .. MaxChunks, NEW mtime \in 1 .. second, named' = ChangeNumber + 1,
             Rewrite(named', [c \in 1 .. n |-> ChangeNumber], mtime)
      PROVE  DownloadInv'
  <2>1. story.changes < MaxRewrites  BY <1>2 DEF Rewrite
  <2>2. named' \in File
    BY <1>1, <1>2, <2>1, DownloadAssumption DEF File, ChangeNumber
  <2>3. [c \in 1 .. n |-> ChangeNumber] \in Content
    BY <1>1, DownloadAssumption DEF Content, ChangeNumber
  <2> QED  BY <1>1, <1>2, <2>2, <2>3, RewriteInv
<1>3. ASSUME named' \in (1 .. ChangeNumber) \ {named},
             Rewrite(named', inode[named'].content, inode[named'].mtime)
      PROVE  DownloadInv'
  <2>1. story.changes < MaxRewrites  BY <1>3 DEF Rewrite
  <2>2. named' \in File
    BY <1>1, <1>3, <2>1, DownloadAssumption DEF File, ChangeNumber
  <2>3. inode[named'].content \in Content /\ inode[named'].mtime \in Nat
    BY <2>2 DEF DownloadInv, DownloadTypeOK
  <2> QED  BY <1>3, <2>2, <2>3, RewriteInv
<1> QED  BY <1>2, <1>3 DEF ReplaceFile

LEMMA RemoveFileInv == ASSUME DownloadInv, RemoveFile PROVE DownloadInv'
<1>1. named' = 0 /\ UNCHANGED <<second, inode, tells, reading, saved, story>>
  BY DEF RemoveFile
<1>2. ~SameStamp'  BY <1>1 DEF SameStamp
<1> QED  BY <1>1, <1>2 DEF DownloadInv, DownloadTypeOK, Untouched, Verified

LEMMA SecondPassesInv == ASSUME DownloadInv, SecondPasses PROVE DownloadInv'
<1>1. second' = second + 1 /\ UNCHANGED <<inode, named, tells, reading, saved, story>>
  BY DEF SecondPasses
<1> QED  BY <1>1 DEF DownloadInv, DownloadTypeOK, Untouched, Verified, SameStamp, Attributes, NoAttributes, Prefix
-----------------------------------------------------------------------------
LEMMA DownloadStep == DownloadInv /\ [DownloadNext]_downloadVars => DownloadInv'
<1> SUFFICES ASSUME DownloadInv, [DownloadNext]_downloadVars PROVE DownloadInv'  OBVIOUS
<1>1. CASE StatFile       BY <1>1, StatFileInv
<1>2. CASE OpenFile       BY <1>2, OpenFileInv
<1>3. CASE ReadChunk      BY <1>3, ReadChunkInv
<1>4. CASE CloseFile      BY <1>4, CloseFileInv
<1>5. CASE StatAgain      BY <1>5, StatAgainInv
<1>6. CASE Persist        BY <1>6, PersistInv
<1>7. CASE Classify       BY <1>7, ClassifyInv
<1>8. CASE GiveUpReading  BY <1>8, GiveUpReadingInv
<1>9. CASE ChangeInPlace  BY <1>9, ChangeInPlaceInv
<1>10. CASE ReplaceFile   BY <1>10, ReplaceFileInv
<1>11. CASE RemoveFile    BY <1>11, RemoveFileInv
<1>12. CASE SecondPasses  BY <1>12, SecondPassesInv
<1>13. CASE UNCHANGED downloadVars
  BY <1>13 DEF downloadVars, DownloadInv, DownloadTypeOK, Untouched, Verified, SameStamp, Attributes,
               NoAttributes, Prefix
<1> QED  BY <1>1, <1>2, <1>3, <1>4, <1>5, <1>6, <1>7, <1>8, <1>9, <1>10, <1>11, <1>12, <1>13 DEF DownloadNext

\* A preview stops at its limit, however the file grows.
LEMMA PreviewStep == DownloadInv /\ PreviewBounded /\ [DownloadNext]_downloadVars => PreviewBounded'
<1> SUFFICES ASSUME DownloadInv, PreviewBounded, [DownloadNext]_downloadVars PROVE PreviewBounded'
  OBVIOUS
<1>1. reading \in ReadingType /\ Len(reading.bytes) \in Nat
  BY DEF DownloadInv, DownloadTypeOK, ReadingType, Content
<1>2. reading'.kind = reading.kind /\ reading'.bytes = reading.bytes => PreviewBounded'
  BY DEF PreviewBounded
<1>3. ASSUME NEW at, GoTo(at) PROVE PreviewBounded'
  BY <1>1, <1>2, <1>3 DEF GoTo, ReadingType
<1>4. UNCHANGED reading => PreviewBounded'
  BY DEF PreviewBounded
<1>5. CASE StatFile
  <2>1. PICK at : reading' = [reading EXCEPT !.attrs = Attributes(inode[named]), !.at = at]
    BY <1>5 DEF StatFile
  <2> QED  BY <1>1, <1>2, <2>1 DEF ReadingType
<1>6. CASE OpenFile
  BY <1>1, <1>2, <1>6 DEF OpenFile, ReadingType
<1>7. CASE ReadChunk
  <2> DEFINE next == Len(reading.bytes) + 1
             chunk == inode[reading.handle].content[next]
  <2>1. CASE \E at : GoTo(at)  BY <1>3, <2>1
  <2>2. CASE /\ ~(reading.kind = "preview" /\ next > PreviewLimit)
             /\ reading' = [reading EXCEPT !.bytes = Append(@, chunk)]
    <3>1. reading'.bytes = Append(reading.bytes, chunk) /\ reading'.kind = reading.kind
      BY <1>1, <2>2 DEF ReadingType
    <3>2. Len(Append(reading.bytes, chunk)) = next
      BY <1>1 DEF ReadingType, Content
    <3> QED  BY <1>1, <2>2, <3>1, <3>2, DownloadAssumption DEF PreviewBounded
  <2> QED  BY <1>7, <2>1, <2>2 DEF ReadChunk
<1>8. CASE CloseFile \/ StatAgain \/ Persist \/ Classify \/ GiveUpReading
  BY <1>3, <1>8 DEF CloseFile, StatAgain, Persist, Classify, GiveUpReading
<1>9. CASE ChangeInPlace \/ ReplaceFile
  BY <1>4, <1>9 DEF ChangeInPlace, ReplaceFile, Rewrite
<1>10. CASE RemoveFile \/ SecondPasses \/ UNCHANGED downloadVars
  BY <1>4, <1>10 DEF RemoveFile, SecondPasses, downloadVars
<1> QED  BY <1>5, <1>6, <1>7, <1>8, <1>9, <1>10 DEF DownloadNext

LEMMA PreviewInit == DownloadInit => PreviewBounded
<1> SUFFICES ASSUME DownloadInit PROVE PreviewBounded  OBVIOUS
<1>1. reading.bytes = <<>>  BY DEF DownloadInit
<1> QED  BY <1>1, DownloadAssumption DEF PreviewBounded

\* A download that replaces the local file has one version of the remote file, whole,
\* unless the server tells no stamps or a change left the stamp of the first look
\* (transfer.rs, download).
THEOREM DownloadsAreWhole == DownloadSpec => []DownloadWhole
<1>1. DownloadInv => DownloadWhole
  BY DEF DownloadInv, DownloadWhole
<1>2. DownloadSpec => []DownloadInv
  BY DownloadInitInv, DownloadStep, PTL DEF DownloadSpec
<1> QED  BY <1>1, <1>2, PTL
-----------------------------------------------------------------------------
(* Folders *)

Entry == [name : Item, kind : ItemKind \ {"absent"}]
Row   == [name : Item, kind : {"file", "directory", "symlink"}]

FolderTypeOK ==
  /\ items \in [Item -> ItemKind]
  /\ listing.at \in {"open", "batch", "close", "shown", "refused"}
  /\ listing.batch \subseteq Entry /\ listing.rows \subseteq Row
  /\ listing = [at |-> listing.at, batch |-> listing.batch, rows |-> listing.rows,
                given |-> listing.given, shown |-> listing.shown]
  /\ IsFiniteSet(listing.rows)

\* Each name that was given is in the batch or has its row, once.
GivenOnce ==
  /\ \A e \in listing.batch \union listing.rows : e.name \in listing.given
  /\ \A i \in listing.given : \E e \in listing.batch \union listing.rows : e.name = i
  /\ \A a, b \in listing.batch : a.name = b.name => a = b
  /\ \A a, b \in listing.rows : a.name = b.name => a = b
  /\ \A e \in listing.batch, r \in listing.rows : e.name # r.name

\* What stayed is what its entry or its row says.
StayedTrue ==
  /\ listing.at # "open" => \A e \in listing.batch : e.name \in stayed => items[e.name] = e.kind
  /\ listing.at # "open" => \A r \in listing.rows :
       r.name \in stayed /\ items[r.name] \in {"file", "directory"} => r.kind = items[r.name]

FolderInv ==
  /\ FolderTypeOK /\ GivenOnce /\ StayedTrue
  /\ listing.at = "open" => listing.batch = {} /\ listing.rows = {} /\ listing.given = {}
  /\ listing.at \in {"close", "shown"} => listing.batch = {} /\ stayed \subseteq listing.given
  /\ listing.at = "shown" => listing.shown \in Sorted(listing.rows)

\* A row stands once in the order.
LEMMA SortedOnce ==
  ASSUME NEW rows, rows \subseteq Row, IsFiniteSet(rows), NEW row \in Sorted(rows), NEW r \in rows
  PROVE  \E n \in DOMAIN row : row[n] = r /\ \A m \in DOMAIN row : row[m] = r => m = n
<1> DEFINE N == Cardinality(rows)
<1>1. N \in Nat /\ row \in [1 .. N -> rows] /\ \A m, n \in 1 .. N : m < n => RowBefore(row[m], row[n])
  BY FS_CardinalityType DEF Sorted
<1>2. \A a \in Row : ~RowBefore(a, a)
  <2> TAKE a \in Row
  <2>1. a.name \in Nat  BY FolderAssumption DEF Row
  <2>2. ~(a.name < a.name)  BY <2>1
  <2> QED  BY <2>2 DEF RowBefore
<1>3. ASSUME NEW m \in 1 .. N, NEW n \in 1 .. N, row[m] = row[n] PROVE m = n
  <2>1. row[m] \in Row  BY <1>1
  <2>2. ~(m < n) /\ ~(n < m)  BY <1>1, <1>2, <1>3, <2>1
  <2> QED  BY <1>1, <2>2
<1>4. row \in Injection(1 .. N, rows)
  BY <1>1, <1>3 DEF Injection, IsInjective
<1>5. IsFiniteSet(1 .. N) /\ Cardinality(1 .. N) = N
  BY <1>1, FS_Interval
<1>6. row \in Surjection(1 .. N, rows)
  BY <1>4, <1>5, FS_Injection
<1>7. PICK n \in 1 .. N : row[n] = r
  BY <1>6 DEF Surjection
<1> QED  BY <1>1, <1>3, <1>7

LEMMA ShownWhole == FolderInv => ListingWhole
<1> SUFFICES ASSUME FolderInv, listing.at = "shown" PROVE ListingWhole
  BY DEF ListingWhole
<1> DEFINE rows == listing.shown
<1>1. rows \in Sorted(listing.rows) /\ listing.rows \subseteq Row /\ IsFiniteSet(listing.rows)
  BY DEF FolderInv, FolderTypeOK
<1>2. \A n \in DOMAIN rows : rows[n] \in listing.rows
  BY <1>1 DEF Sorted
<1>3. ASSUME NEW i \in stayed PROVE Cardinality({n \in DOMAIN rows : rows[n].name = i}) = 1
  <2>1. PICK r \in listing.rows : r.name = i
    BY DEF FolderInv, GivenOnce
  <2>2. PICK n \in DOMAIN rows : rows[n] = r /\ \A m \in DOMAIN rows : rows[m] = r => m = n
    BY <1>1, SortedOnce
  <2>3. \A m \in DOMAIN rows : rows[m].name = i => rows[m] = r
    BY <1>2, <2>1 DEF FolderInv, GivenOnce
  <2>4. {m \in DOMAIN rows : rows[m].name = i} = {n}
    BY <2>1, <2>2, <2>3
  <2> QED  BY <2>4, FS_Singleton
<1>4. \A n \in DOMAIN rows : rows[n].name \in stayed /\ items[rows[n].name] \in {"file", "directory"}
                               => rows[n].kind = items[rows[n].name]
  BY <1>2 DEF FolderInv, StayedTrue
<1>5. \A m, n \in DOMAIN rows : m < n => RowBefore(rows[m], rows[n])
  BY <1>1 DEF Sorted
<1> QED  BY <1>3, <1>4, <1>5 DEF ListingWhole

LEMMA FolderInitInv == FolderInit => FolderInv
<1> SUFFICES ASSUME FolderInit PROVE FolderInv  OBVIOUS
<1>1. IsFiniteSet({})  BY FS_EmptySet
<1> QED  BY <1>1 DEF FolderInit, FolderInv, FolderTypeOK, GivenOnce, StayedTrue

\* A step to another place with nothing else changed.
LEMMA ListToInv ==
  ASSUME FolderInv, NEW at \in {"batch", "close", "refused"}, ListTo(at), UNCHANGED items,
         stayed' = stayed \/ (listing.at = "open" /\ at = "batch"),
         at = "close" => listing.batch = {} /\ stayed \subseteq listing.given,
         at = "close" => stayed' = stayed
  PROVE  FolderInv'
<1>1. /\ listing'.at = at /\ listing'.batch = listing.batch /\ listing'.rows = listing.rows
      /\ listing'.given = listing.given /\ listing'.shown = listing.shown
      /\ listing' = [at |-> at, batch |-> listing.batch, rows |-> listing.rows, given |-> listing.given,
                     shown |-> listing.shown]
  BY DEF ListTo, FolderInv, FolderTypeOK
<1>2. FolderTypeOK' /\ GivenOnce'
  BY <1>1 DEF FolderInv, FolderTypeOK, GivenOnce
<1>3. StayedTrue'
  BY <1>1 DEF FolderInv, StayedTrue
<1> QED  BY <1>1, <1>2, <1>3 DEF FolderInv

LEMMA NextBatchInv == ASSUME FolderInv, NextBatch PROVE FolderInv'
<1>1. PICK more \in SUBSET (There \ listing.given) :
        listing' = [listing EXCEPT !.batch = {[name |-> i, kind |-> items[i]] : i \in more},
                                   !.given = listing.given \union more]
  BY DEF NextBatch
<1>2. listing.at = "batch" /\ listing.batch = {} /\ UNCHANGED <<items, stayed>>
  BY DEF NextBatch
<1> DEFINE batch == {[name |-> i, kind |-> items[i]] : i \in more}
<1>3. /\ listing'.at = "batch" /\ listing'.batch = batch /\ listing'.rows = listing.rows
      /\ listing'.given = listing.given \union more /\ listing'.shown = listing.shown
      /\ listing' = [at |-> "batch", batch |-> batch, rows |-> listing.rows,
                     given |-> listing.given \union more, shown |-> listing.shown]
  BY <1>1, <1>2 DEF FolderInv, FolderTypeOK
<1>4. more \subseteq Item /\ (\A i \in more : items[i] \in ItemKind \ {"absent"}) /\ more \cap listing.given = {}
  BY DEF There, FolderInv, FolderTypeOK
<1>5. batch \subseteq Entry
  BY <1>4 DEF Entry
<1>6. FolderTypeOK'
  BY <1>2, <1>3, <1>5 DEF FolderInv, FolderTypeOK
<1>7. GivenOnce'
  <2>1. \A e \in batch : e.name \in more /\ e = [name |-> e.name, kind |-> items[e.name]]
    OBVIOUS
  <2>2. \A i \in more : \E e \in batch : e.name = i
    <3> TAKE i \in more
    <3>1. [name |-> i, kind |-> items[i]] \in batch  OBVIOUS
    <3> QED  BY <3>1
  <2> HIDE DEF batch
  <2>3. \A e \in batch \union listing.rows : e.name \in listing.given \union more
    BY <2>1 DEF FolderInv, GivenOnce
  <2>4. \A i \in listing.given \union more : \E e \in batch \union listing.rows : e.name = i
    BY <1>2, <2>2 DEF FolderInv, GivenOnce
  <2>5. \A a, b \in batch : a.name = b.name => a = b
    BY <2>1
  <2>6. \A e \in batch, r \in listing.rows : e.name # r.name
    BY <1>4, <2>1 DEF FolderInv, GivenOnce
  <2> QED  BY <1>3, <2>3, <2>4, <2>5, <2>6 DEF FolderInv, GivenOnce
<1>8. StayedTrue'
  <2>1. \A e \in batch : items[e.name] = e.kind
    OBVIOUS
  <2> HIDE DEF batch
  <2> QED  BY <1>2, <1>3, <2>1 DEF FolderInv, StayedTrue
<1> QED  BY <1>3, <1>6, <1>7, <1>8 DEF FolderInv

LEMMA TakeEntryInv == ASSUME FolderInv, TakeEntry PROVE FolderInv'
<1>1. listing.at = "batch" /\ UNCHANGED <<items, stayed>>
  BY DEF TakeEntry
<1>2. CASE ListTo("refused")
  BY <1>1, <1>2, ListToInv
<1>3. ASSUME NEW entry \in listing.batch, NEW kind \in RowKind(entry),
             listing' = [listing EXCEPT !.batch = listing.batch \ {entry},
                                        !.rows = listing.rows \union {[name |-> entry.name, kind |-> kind]}]
      PROVE  FolderInv'
  <2> DEFINE row == [name |-> entry.name, kind |-> kind]
             batch == listing.batch \ {entry}
             rows == listing.rows \union {row}
  <2>1. entry \in Entry /\ row \in Row /\ row.name = entry.name /\ row.kind = kind
    BY DEF RowKind, Entry, Row, ItemKind, FolderInv, FolderTypeOK
  <2>2. /\ listing'.at = "batch" /\ listing'.batch = batch /\ listing'.rows = rows
        /\ listing'.given = listing.given /\ listing'.shown = listing.shown
        /\ listing' = [at |-> "batch", batch |-> batch, rows |-> rows,
                       given |-> listing.given, shown |-> listing.shown]
    BY <1>1, <1>3 DEF FolderInv, FolderTypeOK
  <2>3. entry.name \in stayed /\ items[entry.name] \in {"file", "directory"} => kind = items[entry.name]
    BY <1>1, <2>1 DEF FolderInv, StayedTrue, RowKind, Entry, ItemKind
  <2> HIDE DEF row
  <2>4. FolderTypeOK'
    <3>1. IsFiniteSet(rows)  BY FS_AddElement DEF FolderInv, FolderTypeOK
    <3>2. batch \subseteq Entry /\ rows \subseteq Row  BY <2>1 DEF FolderInv, FolderTypeOK
    <3> QED  BY <1>1, <2>2, <3>1, <3>2 DEF FolderInv, FolderTypeOK
  <2>5. GivenOnce'
    <3>1. \A e \in batch \union rows : e.name \in listing.given
      BY <2>1 DEF FolderInv, GivenOnce
    <3>2. ASSUME NEW i \in listing.given PROVE \E e \in batch \union rows : e.name = i
      <4>1. PICK e \in listing.batch \union listing.rows : e.name = i
        BY DEF FolderInv, GivenOnce
      <4> QED  BY <2>1, <4>1
    <3>3. \A a, b \in batch : a.name = b.name => a = b
      BY DEF FolderInv, GivenOnce
    <3>4. \A a, b \in rows : a.name = b.name => a = b
      BY <2>1 DEF FolderInv, GivenOnce
    <3>5. \A e \in batch, r \in rows : e.name # r.name
      BY <2>1 DEF FolderInv, GivenOnce
    <3> QED  BY <2>2, <3>1, <3>2, <3>3, <3>4, <3>5 DEF GivenOnce
  <2>6. StayedTrue'
    BY <1>1, <2>1, <2>2, <2>3 DEF FolderInv, StayedTrue
  <2> QED  BY <2>2, <2>4, <2>5, <2>6 DEF FolderInv
<1> QED  BY <1>2, <1>3 DEF TakeEntry

LEMMA CloseFolderInv == ASSUME FolderInv, CloseFolder PROVE FolderInv'
<1>1. listing.at = "close" /\ UNCHANGED <<items, stayed>>
  BY DEF CloseFolder
<1>2. PICK row \in Sorted(listing.rows) : listing' = [listing EXCEPT !.at = "shown", !.shown = row]
  BY DEF CloseFolder
<1>3. /\ listing'.at = "shown" /\ listing'.batch = listing.batch /\ listing'.rows = listing.rows
      /\ listing'.given = listing.given /\ listing'.shown = row
      /\ listing' = [at |-> "shown", batch |-> listing.batch, rows |-> listing.rows, given |-> listing.given,
                     shown |-> row]
  BY <1>2 DEF FolderInv, FolderTypeOK
<1> QED  BY <1>1, <1>2, <1>3 DEF FolderInv, FolderTypeOK, GivenOnce, StayedTrue

LEMMA OthersMoveInv == ASSUME FolderInv, OthersMove PROVE FolderInv'
<1>1. PICK i \in Item, kind \in ItemKind : items' = [items EXCEPT ![i] = kind] /\ stayed' = stayed \ {i}
  BY DEF OthersMove
<1>2. listing' = listing  BY DEF OthersMove
<1>3. items \in [Item -> ItemKind]  BY DEF FolderInv, FolderTypeOK
<1>4. FolderTypeOK' /\ GivenOnce'
  BY <1>1, <1>2 DEF FolderInv, FolderTypeOK, GivenOnce
<1>5. \A j \in stayed' : items'[j] = items[j]
  BY <1>1, <1>3
<1>6. StayedTrue'
  BY <1>1, <1>2, <1>5 DEF FolderInv, StayedTrue
<1> QED  BY <1>1, <1>2, <1>4, <1>6 DEF FolderInv

LEMMA FolderStep == FolderInv /\ [FolderNext]_folderVars => FolderInv'
<1> SUFFICES ASSUME FolderInv, [FolderNext]_folderVars PROVE FolderInv'  OBVIOUS
<1>1. CASE OpenFolder   BY <1>1, ListToInv DEF OpenFolder
<1>2. CASE NextBatch    BY <1>2, NextBatchInv
<1>3. CASE TakeEntry    BY <1>3, TakeEntryInv
<1>4. CASE EndOfFolder  BY <1>4, ListToInv DEF EndOfFolder
<1>5. CASE CloseFolder  BY <1>5, CloseFolderInv
<1>6. CASE ListFails    BY <1>6, ListToInv DEF ListFails
<1>7. CASE OthersMove   BY <1>7, OthersMoveInv
<1>8. CASE UNCHANGED folderVars
  BY <1>8 DEF folderVars, FolderInv, FolderTypeOK, GivenOnce, StayedTrue
<1> QED  BY <1>1, <1>2, <1>3, <1>4, <1>5, <1>6, <1>7, <1>8 DEF FolderNext
-----------------------------------------------------------------------------
(* The three together *)

OperationsInv == FilesInv /\ DownloadInv /\ PreviewBounded /\ FolderInv

LEMMA OperationsInitInv == OperationsInit => OperationsInv
BY FilesInitInv, DownloadInitInv, PreviewInit, FolderInitInv
   DEF OperationsInit, OperationsInv, RestUploads, RestDownloads, RestFolders

LEMMA OperationsStep ==
  OperationsInv /\ [OperationsNext]_<<fileVars, downloadVars, folderVars, serving>>
    => /\ OperationsInv'
       /\ [FilesNext]_fileVars
BY FilesStep, DownloadStep, PreviewStep, FolderStep DEF OperationsNext, OperationsInv

LEMMA OperationsInvariant == OperationsSpec => []OperationsInv
BY OperationsInitInv, OperationsStep, PTL DEF OperationsSpec

\* Uploads end with their login, their cancellation and their staging files accounted for;
\* a download is of one version of the file, a preview is small, and a folder that is
\* shown is the whole one (files/operations.rs, files/transfer.rs, files/mod.rs).
THEOREM FilesAreSound == OperationsSpec => []FilesSound
<1>1. OperationsInv => FilesSound
  BY FilesInvEnough, ShownWhole DEF OperationsInv, FilesSound, DownloadInv, DownloadWhole
<1> QED  BY <1>1, OperationsInvariant, PTL

\* Whatever is cancelled, times out, is lost with its connection or changes meanwhile:
\* the rename that publishes an upload finds it whole (transfer.rs, upload).
THEOREM PublishesWhole == OperationsSpec => PublishedWhole
<1> DEFINE Whole == \A o \in Op : past'[o].published /\ ~past[o].published => staging[o] = op[o].total
<1>1. OperationsInv /\ [OperationsNext]_<<fileVars, downloadVars, folderVars, serving>> => [Whole]_fileVars
  BY OperationsStep, FilesPublish DEF OperationsInv
<1> QED  BY <1>1, OperationsInvariant, PTL DEF OperationsSpec, PublishedWhole
=============================================================================

------------------------------ MODULE Downloads ------------------------------
(***************************************************************************)
(* Reading a remote file that other programs change: downloads, which must *)
(* be of one version of it, and previews, which must stay small:           *)
(*                                                                         *)
(*   src-tauri/src/files/transfer.rs  download, files_download             *)
(*   src-tauri/src/files/mod.rs       preview, classify, files_preview     *)
(*                                                                         *)
(* A content is the sequence of its chunks, each the number of the change  *)
(* that wrote it.  The modification time has seconds, the clock's ticks.   *)
(* How calls are registered and cancelled is FileOperations; here an       *)
(* operation may be dropped wherever it waits.                             *)
(***************************************************************************)
EXTENDS Naturals, Sequences

CONSTANTS MaxChunks,     \* bound: chunks of a file
          PreviewLimit,  \* PREVIEW_LIMIT in chunks
          TextLimit,     \* TEXT_LIMIT in chunks
          MaxSeconds,    \* bound: seconds
          MaxRewrites    \* bound: changes by other programs

ASSUME DownloadAssumption ==
  /\ MaxChunks \in Nat \ {0} /\ PreviewLimit \in Nat /\ TextLimit \in 0 .. PreviewLimit
  /\ MaxSeconds \in Nat /\ MaxRewrites \in Nat

VARIABLES
  second,    \* the server's clock
  inode,     \* files, the one at first and one for each change: content and modification time
  named,     \* the one the path names, 0 when there is none
  tells,     \* whether the server tells sizes and times
  reading,   \* the operation
  saved,     \* the local destination: "old", or what was saved
  story      \* history: changes; the content at the first look; one left the stamp as it was

downloadVars == <<second, inode, named, tells, reading, saved, story>>
-----------------------------------------------------------------------------
NoAttributes == [size |-> 0, mtime |-> 0]
Attributes(f) == IF tells THEN [size |-> Len(f.content), mtime |-> f.mtime] ELSE NoAttributes

DownloadInit ==
  /\ second = 1
  /\ \E n \in 0 .. MaxChunks :
       inode = [i \in 1 .. MaxRewrites + 1 |-> [content |-> [c \in 1 .. n |-> 0], mtime |-> 1]]
  /\ named = 1
  /\ tells \in BOOLEAN
  /\ \E kind \in {"download", "preview"} :
       reading = [kind |-> kind, at |-> "stat", attrs |-> NoAttributes, handle |-> 0, bytes |-> <<>>]
  /\ saved = "old"
  /\ story = [changes |-> 0, first |-> <<>>, unseen |-> FALSE]

Remote  == UNCHANGED <<second, inode, named, tells>>
GoTo(at) == reading' = [reading EXCEPT !.at = at]
Kept    == Remote /\ UNCHANGED <<saved, story>>

\* stat; a preview refuses a file that is too large already.
StatFile ==
  /\ reading.at = "stat" /\ named # 0
  /\ LET attrs == Attributes(inode[named]) IN
       reading' = [reading EXCEPT !.attrs = attrs,
                     !.at = IF reading.kind = "preview" /\ attrs.size > PreviewLimit THEN "refused" ELSE "open"]
  /\ story' = [story EXCEPT !.first = inode[named].content]
  /\ Remote /\ UNCHANGED saved

OpenFile ==
  /\ reading.at = "open" /\ named # 0
  /\ reading' = [reading EXCEPT !.at = "read", !.handle = named]
  /\ Kept

\* Each answer has the next chunk of the file as it is, an empty one or EOF at its end.
ReadChunk ==
  /\ reading.at = "read"
  /\ LET content == inode[reading.handle].content
         next    == Len(reading.bytes) + 1
     IN  IF next > Len(content) THEN GoTo("close")
         ELSE IF reading.kind = "preview" /\ next > PreviewLimit THEN GoTo("refused")
         ELSE reading' = [reading EXCEPT !.bytes = Append(@, content[next])]
  /\ Kept

\* Variant: the size of the first look is all that is compared.
ChangedSize(after) == reading.attrs.size # after.size
\* The size that was told is the one that was read, and neither it nor the time has moved.
Changed(after) ==
  \/ tells /\ reading.attrs.size # Len(reading.bytes)
  \/ reading.attrs # after

CloseFile ==
  /\ reading.at = "close"
  /\ GoTo(IF reading.kind = "preview" THEN "classify" ELSE "again")
  /\ Kept

StatAgain ==
  /\ reading.at = "again" /\ named # 0
  /\ GoTo(IF Changed(Attributes(inode[named])) THEN "refused" ELSE "sync")
  /\ Kept

\* sync_all; then persist replaces the destination at once.
Persist ==
  /\ reading.at = "sync"
  /\ saved' = reading.bytes
  /\ GoTo("done")
  /\ Remote /\ UNCHANGED story

\* What the content is decides how it is shown; a text must be short.
Classify ==
  /\ reading.at = "classify"
  /\ \/ Len(reading.bytes) <= TextLimit /\ GoTo("shown")
     \/ reading.bytes # <<>> /\ GoTo("shown")
     \/ GoTo("refused")
  /\ Kept

\* An error answer, a connection that is lost, or the operation is cancelled or timed
\* out: what was staged is dropped.
GiveUpReading ==
  /\ reading.at \in {"stat", "open", "read", "close", "again", "sync"}
  /\ GoTo("refused")
  /\ Kept
-----------------------------------------------------------------------------
(* Other programs *)

\* File i has the name, with this content and time.
Rewrite(i, content, mtime) ==
  /\ story.changes < MaxRewrites
  /\ inode' = [inode EXCEPT ![i] = [content |-> content, mtime |-> mtime]]
  /\ story' = [story EXCEPT !.changes = @ + 1,
                 !.unseen = @ \/ Attributes(inode'[i]) = reading.attrs]
  /\ UNCHANGED <<second, tells, reading, saved>>

ChangeNumber == story.changes + 1

\* In place: a chunk is overwritten, appended, or the file is cut.
ChangeInPlace ==
  /\ named # 0 /\ UNCHANGED named
  /\ LET content == inode[named].content IN
       \/ \E c \in DOMAIN content : Rewrite(named, [content EXCEPT ![c] = ChangeNumber], second)
       \/ Len(content) < MaxChunks /\ Rewrite(named, Append(content, ChangeNumber), second)
       \/ \E c \in DOMAIN content : Rewrite(named, SubSeq(content, 1, c - 1), second)

\* Another file takes the name: a new one, written now or earlier, or an earlier one again.
ReplaceFile ==
  \/ /\ named' = ChangeNumber + 1
     /\ \E n \in 0 .. MaxChunks, mtime \in 1 .. second :
          Rewrite(named', [c \in 1 .. n |-> ChangeNumber], mtime)
  \/ /\ named' \in (1 .. ChangeNumber) \ {named}
     /\ Rewrite(named', inode[named'].content, inode[named'].mtime)

RemoveFile ==
  /\ named # 0 /\ named' = 0
  /\ UNCHANGED <<second, inode, tells, reading, saved, story>>

SecondPasses ==
  /\ second < MaxSeconds
  /\ second' = second + 1
  /\ UNCHANGED <<inode, named, tells, reading, saved, story>>

DownloadNext ==
  \/ StatFile \/ OpenFile \/ ReadChunk \/ CloseFile \/ StatAgain \/ Persist \/ Classify \/ GiveUpReading
  \/ ChangeInPlace \/ ReplaceFile \/ RemoveFile \/ SecondPasses

DownloadSpec == DownloadInit /\ [][DownloadNext]_downloadVars
-----------------------------------------------------------------------------
(* Properties *)

\* What replaces the destination is the whole file as it was at the first look, whatever
\* was written, replaced or cut while it was read; except when the server tells nothing of
\* its files, or a change left size and time as they were (download).
DownloadWhole == saved # "old" => saved = story.first \/ ~tells \/ story.unseen

\* A preview never holds more than its limit, also of a file that grows while it is read.
PreviewBounded == reading.kind = "preview" => Len(reading.bytes) <= PreviewLimit
=============================================================================

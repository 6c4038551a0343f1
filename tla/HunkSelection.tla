---------------------------- MODULE HunkSelection ----------------------------
(***************************************************************************)
(* Staging, unstaging and discarding selected hunks and lines              *)
(* (tools/agent/src/git/cli/diff.rs patch, working and selection;          *)
(* writes.rs apply). The client names hunks and lines of a difference it   *)
(* was shown; the agent computes the difference again, leaves out what was *)
(* not named, and gives the rest to git apply: as it is, or reversed.      *)
(*                                                                         *)
(* A difference is one script: lines that stay, are removed, or are added. *)
(* git diff (which cuts it into hunks) and git apply are external and      *)
(* modelled by what they do with one; a line ends in a line feed.          *)
(***************************************************************************)
EXTENDS Integers, Sequences, FiniteSets, SequencesExt

CONSTANTS ScriptLength,  \* lines of a script; bound: another program adds one more
          Context,       \* contextLines of the request
          MaxIds,        \* hunks of a request (1024 in the code)
          Elsewhere      \* where another program adds a line: "top", "bottom"

ASSUME SelectionAssumption == Context \in 1..100 /\ MaxIds \in Nat /\ Elsewhere \subseteq {"top", "bottom"}

VARIABLES
  file,       \* the changed file: its difference, and what became of the file
  shown,      \* the same as the client saw it
  request,    \* what was selected of it
  reverse,    \* unstage or discard: the difference is taken back
  progress,   \* where the agent is
  difference, \* the file as the agent read it
  patch,      \* what git apply is given
  applied     \* None before the answer, then its code and the file afterwards
selectVars == <<file, shown, request, reverse, progress, difference, patch, applied>>

Origin == {"keep", "del", "add"}
Changed(s) == {i \in DOMAIN s : s[i].o # "keep"}

\* The texts of a line: changed lines are told apart by their place, lines that stay
\* are all alike in a file of repetitions, and all different otherwise.
Texts(origins, alike) ==
  [i \in DOMAIN origins |-> [o |-> origins[i], t |-> IF alike /\ origins[i] = "keep" THEN 0 ELSE i]]

\* git lists what was removed before what was added in its place.
Scripts ==
  {Texts(o, alike) : alike \in BOOLEAN, o \in
     {q \in [1..ScriptLength -> Origin] :
        /\ \E i \in DOMAIN q : q[i] # "keep"
        /\ \A i \in 1..(ScriptLength - 1) : ~(q[i] = "add" /\ q[i + 1] = "del")}}

\* A file that is created or removed has lines of one kind; a binary or renamed one
\* cannot be edited in part.
Files ==
  [lines : Scripts, kind : {"modified", "unsupported"}]
    \union [lines : {s \in Scripts : \A i \in DOMAIN s : s[i].o = "add"}, kind : {"added"}]
    \union [lines : {s \in Scripts : \A i \in DOMAIN s : s[i].o = "del"}, kind : {"deleted"}]

TextsOf(lines) == [i \in DOMAIN lines |-> lines[i].t]
Before(s) == TextsOf(SelectSeq(s, LAMBDA l : l.o # "add"))
After(s)  == TextsOf(SelectSeq(s, LAMBDA l : l.o # "del"))
-----------------------------------------------------------------------------
(* git diff and patch: the hunks of a script, and where each starts *)

Covered(s) == {i \in DOMAIN s : \E j \in Changed(s) : i - j \in -Context..Context}
HunkStart(s) == LET covered == Covered(s) IN {i \in covered : i - 1 \notin covered}
HunkLines(s, h) == LET covered == Covered(s) IN {i \in covered : i >= h /\ h..i \subseteq covered}

\* The number of the hunk's first line on one side, or of the line before it when the
\* hunk has none there.
StartOn(s, h, absent) ==
  LET before == Cardinality({i \in 1..(h - 1) : s[i].o # absent})
  IN  IF \E i \in HunkLines(s, h) : s[i].o # absent THEN before + 1 ELSE before
OldStart(s, h) == StartOn(s, h, "add")
NewStart(s, h) == StartOn(s, h, "del")
-----------------------------------------------------------------------------
(* selection: the patch that is made of the chosen lines *)

\* What a hunk's id is the hash of: the file, the positions and every line.
HunkId(f, h) == [kind |-> f.kind, old |-> OldStart(f.lines, h), new |-> NewStart(f.lines, h),
                 lines |-> [i \in HunkLines(f.lines, h) |-> f.lines[i]]]
LineId(f, i) == [hunk |-> HunkId(f, CHOOSE h \in HunkStart(f.lines) : i \in HunkLines(f.lines, h)),
                 ordinal |-> i]

\* Ids the client sends are of what it was shown, or of nothing.
HunkIds == {IF h = 0 THEN [kind |-> "unknown"] ELSE HunkId(shown, h) : h \in request.hunks}
LineIds == {IF i = 0 THEN [hunk |-> [kind |-> "unknown"]] ELSE LineId(shown, i) : i \in request.lines}

SelectedHunks(f) == LET ids == HunkIds IN {h \in HunkStart(f.lines) : HunkId(f, h) \in ids}

\* Without line ids, a hunk is selected whole.
SelectedLines(f) ==
  LET ids   == LineIds
      lines == UNION {HunkLines(f.lines, h) : h \in SelectedHunks(f)} \cap Changed(f.lines)
  IN  {i \in lines : request.whole \/ LineId(f, i) \in ids}

Turned(o) == CASE ~reverse -> o [] o = "add" -> "del" [] o = "del" -> "add" [] OTHER -> o

\* Variant: unselected removals are dropped from the patch.
StaysDropping(i, wanted) == difference.lines[i].o = "keep" \/ i \in wanted

\* What was not asked for is not added, and stays when it would be removed.
Stays(i, wanted) == Turned(difference.lines[i].o) # "add" \/ i \in wanted
LineOf(i, wanted) == [o |-> IF i \in wanted THEN Turned(difference.lines[i].o) ELSE "keep",
                      t |-> difference.lines[i].t]

Ascending(S) == SelectSeq([i \in 1..(ScriptLength + 1) |-> i], LAMBDA i : i \in S)
PatchLines(h, wanted) ==
  LET kept == Ascending({i \in HunkLines(difference.lines, h) : Stays(i, wanted)})
  IN  [n \in DOMAIN kept |-> LineOf(kept[n], wanted)]

\* The position on the other side is given as the one on this side.
PatchHunk(h, wanted) ==
  LET start == IF reverse THEN NewStart(difference.lines, h) ELSE OldStart(difference.lines, h)
      lines == PatchLines(h, wanted)
      new   == Len(SelectSeq(lines, LAMBDA l : l.o # "del"))
  IN  [old |-> start, new |-> IF new > 0 /\ start = 0 THEN 1 ELSE start, lines |-> lines]

\* The modes of the patch: a file of which lines remain is not deleted.
Patch ==
  LET wanted  == SelectedLines(difference)
      order   == Ascending(SelectedHunks(difference))
      hunks   == [n \in DOMAIN order |-> PatchHunk(order[n], wanted)]
      remains == \E n \in DOMAIN hunks : \E k \in DOMAIN hunks[n].lines : hunks[n].lines[k].o # "del"
      creates == difference.kind = (IF reverse THEN "deleted" ELSE "added")
      deletes == difference.kind = (IF reverse THEN "added" ELSE "deleted")
  IN  [hunks |-> hunks, creates |-> creates, deletes |-> deletes /\ (request.whole \/ ~remains)]
-----------------------------------------------------------------------------
(* git apply: each hunk is looked for at its position, then further and further from *)
(* it, in what the hunks before it have left untouched                               *)

Preimage(lines)  == SelectSeq(lines, LAMBDA l : l.o # "add")
Postimage(lines) == SelectSeq(lines, LAMBDA l : l.o # "del")

Fits(image, pre, hunk, at) ==
      /\ at + Len(pre) <= Len(image)
      /\ hunk.old <= 1 => at = 0
      /\ Last(hunk.lines).o # "keep" => at + Len(pre) = Len(image)
      /\ \A i \in 1..Len(pre) : image[at + i] = [t |-> pre[i].t, done |-> FALSE]

Distance(a, b) == IF a < b THEN b - a ELSE a - b
Nearer(want, a, b) == \/ Distance(a, want) < Distance(b, want)
                      \/ Distance(a, want) = Distance(b, want) /\ a > b
Place(image, hunk) ==
  LET want  == IF hunk.new = 0 THEN 0 ELSE hunk.new - 1
      pre   == Preimage(hunk.lines)
      fits  == {at \in 0..Len(image) : Fits(image, pre, hunk, at)}
  IN  IF fits = {} THEN -1
      ELSE CHOOSE at \in fits : \A other \in fits \ {at} : Nearer(want, at, other)

NotApplied == <<[t |-> -1, done |-> TRUE]>>
ApplyHunk(image, hunk) ==
  LET at == IF image = NotApplied THEN -1 ELSE Place(image, hunk)
  IN  IF at < 0 THEN NotApplied
      ELSE SubSeq(image, 1, at)
           \o [i \in DOMAIN Postimage(hunk.lines) |-> [t |-> Postimage(hunk.lines)[i].t, done |-> TRUE]]
           \o SubSeq(image, at + Len(Preimage(hunk.lines)) + 1, Len(image))

Image(texts) == [i \in DOMAIN texts |-> [t |-> texts[i], done |-> FALSE]]

\* git apply changes the side the patch is for; only an emptied file is deleted.
Result ==
  LET after[n \in 0..Len(patch.hunks)] ==
        IF n = 0 THEN Image(IF reverse THEN After(file.lines) ELSE Before(file.lines))
        ELSE ApplyHunk(after[n - 1], patch.hunks[n])
      image == after[Len(patch.hunks)]
      there == file.kind # (IF reverse THEN "deleted" ELSE "added")
  IN  IF image = NotApplied \/ patch.creates = there \/ (patch.deletes /\ image # <<>>)
      THEN [code |-> "GIT_FAILED", content |-> <<>>, exists |-> TRUE]
      ELSE [code |-> "applied", content |-> TextsOf(image), exists |-> ~patch.deletes]
-----------------------------------------------------------------------------
None     == "None"
NoPatch  == [hunks |-> <<>>, creates |-> FALSE, deletes |-> FALSE]
NoChoice == [entries |-> 0, hunks |-> {}, lines |-> {}, whole |-> TRUE, twice |-> FALSE]
NoFile   == [lines |-> <<>>, kind |-> "none"]

SelectInit ==
  /\ file \in Files /\ shown = file
  /\ request = NoChoice /\ reverse = FALSE
  /\ progress = "idle" /\ difference = NoFile /\ patch = NoPatch /\ applied = None

\* Hunks, or lines of hunks of a file; as well two files, an empty selection, ids given twice, and ids of
\* nothing that is there (0).
Selections(f) ==
  LET starts == HunkStart(f.lines)
      all    == [entries |-> 1, hunks |-> starts, lines |-> {}, whole |-> TRUE, twice |-> FALSE]
  IN  {[all EXCEPT !.hunks = h] : h \in SUBSET starts}
        \union {[all EXCEPT !.hunks = h, !.lines = l, !.whole = FALSE] :
                  h \in SUBSET starts \ {{}}, l \in SUBSET Changed(f.lines)}
        \union {[all EXCEPT !.entries = 2], [all EXCEPT !.hunks = @ \union {0}], [all EXCEPT !.twice = TRUE],
                [all EXCEPT !.whole = FALSE, !.lines = {0}]}

\* The client selects, and the action comes to partial staging, unstaging or discarding.
Select ==
  /\ progress = "idle"
  /\ request' \in Selections(shown) /\ reverse' \in BOOLEAN
  /\ progress' = "asked"
  /\ UNCHANGED <<file, shown, difference, patch, applied>>

Ends(result) ==
  /\ applied' = result /\ progress' = "done"
  /\ UNCHANGED <<file, shown, request, reverse, difference, patch>>
Denied(code) == Ends([code |-> code, content |-> <<>>, exists |-> TRUE])

\* working, its first half: the status the client names is the current one.
Capture ==
  /\ progress = "asked"
  /\ IF request.entries # 1 \/ Cardinality(request.hunks) \notin 1..MaxIds THEN Denied("INVALID")
     ELSE IF shown # file THEN Denied("STALE_SNAPSHOT")
     ELSE progress' = "captured" /\ UNCHANGED <<file, shown, request, reverse, difference, patch, applied>>

ReadDifference ==
  /\ progress = "captured"
  /\ difference' = file /\ progress' = "read"
  /\ UNCHANGED <<file, shown, request, reverse, patch, applied>>

\* Everything that was named must be found.
Missing ==
  \/ Cardinality(SelectedHunks(difference)) # Cardinality(HunkIds)
  \/ ~request.whole /\ Cardinality(SelectedLines(difference)) # Cardinality(LineIds)

\* working's second half, and the patch of what was selected.
Reconstruct ==
  /\ progress = "read"
  /\ CASE shown # file -> Denied("STALE_SNAPSHOT")
       [] shown = file /\ (request.twice \/ (~request.whole /\ request.lines = {})) -> Denied("INVALID")
       [] OTHER ->
            IF difference.kind = "unsupported" THEN Denied("UNSUPPORTED_CAPABILITY")
            ELSE IF Missing THEN Denied("STALE_HUNK")
            ELSE /\ patch' = Patch /\ progress' = "patched"
                 /\ UNCHANGED <<file, shown, request, reverse, difference, applied>>

\* git apply, --cached or in the worktree.
Apply == progress = "patched" /\ Ends(Result)

\* Another program adds a line to the file: to the new side of the difference.
AddedLine == [o |-> "add", t |-> -3]
EditFile ==
  /\ Len(file.lines) = ScriptLength /\ progress \notin {"idle", "done"} /\ file.kind = "modified"
  /\ \E place \in Elsewhere :
       file' = [file EXCEPT !.lines = IF place = "top" THEN <<AddedLine>> \o @ ELSE Append(@, AddedLine)]
  /\ UNCHANGED <<shown, request, reverse, progress, difference, patch, applied>>

\* The client reads the difference again and selects anew.
SelectAgain ==
  /\ progress = "done"
  /\ shown' = file /\ progress' = "idle" /\ request' = NoChoice /\ reverse' = FALSE
  /\ difference' = NoFile /\ patch' = NoPatch /\ applied' = None
  /\ UNCHANGED file

SelectNext == Select \/ Capture \/ ReadDifference \/ Reconstruct \/ Apply \/ EditFile \/ SelectAgain
SelectSpec == SelectInit /\ [][SelectNext]_selectVars
-----------------------------------------------------------------------------
(* Properties *)

\* What was asked for, straight from what the client saw: the side the patch is for,
\* with the chosen changes made and no other.
Chosen ==
  IF request.whole THEN UNION {HunkLines(shown.lines, h) : h \in request.hunks} \cap Changed(shown.lines)
  ELSE request.lines
Wanted ==
  LET gone == IF reverse THEN "add" ELSE "del"
      kept == {i \in DOMAIN shown.lines : \/ shown.lines[i].o = "keep"
                                          \/ (shown.lines[i].o = gone) # (i \in Chosen)}
      order == Ascending(kept)
  IN  [n \in DOMAIN order |-> shown.lines[order[n]].t]

\* The file is only removed when each of its lines is.
WantedExists == ~(shown.kind = (IF reverse THEN "added" ELSE "deleted") /\ Chosen = Changed(shown.lines))

Alike == \E i, j \in DOMAIN shown.lines : i # j /\ shown.lines[i].t = shown.lines[j].t
Done(code) == progress = "done" /\ applied.code = code

\* Partial staging, unstaging and discarding write exactly the selected lines of what the
\* client saw, and remove a file only with its last line: when the selection is in one
\* hunk or the file does not repeat itself, and no other program has written to the side
\* the patch is for since the agent looked (diff.rs selection, writes.rs apply).
WritesSelected ==
  /\ Done("applied") /\ (Cardinality(request.hunks) = 1 \/ ~Alike) /\ (reverse => shown = file) =>
       applied.content = Wanted /\ applied.exists = WantedExists
  /\ Done("GIT_FAILED") => shown # file \/ Alike

\* What the client saw can be selected: only ids that are not in the selected hunks are
\* stale, and nothing is refused for a change that did not happen.
SelectionServed ==
  /\ Done("STALE_SNAPSHOT") => shown # file
  /\ Done("STALE_HUNK") =>
       \/ 0 \in request.hunks \union request.lines
       \/ \E i \in request.lines : \A h \in request.hunks : i \notin HunkLines(shown.lines, h)

\* Both: a selection of what was shown is written as selected, or refused for a reason.
SelectionExact == WritesSelected /\ SelectionServed

\* "Reconstruct a patch from current server-side lines" (diff.rs): whatever is selected,
\* the result is the file with exactly the selected lines changed.
SelectionAlwaysExact == Done("applied") /\ shown = file => applied.content = Wanted
=============================================================================

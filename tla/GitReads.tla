------------------------------- MODULE GitReads -------------------------------
(***************************************************************************)
(* Reading a repository page by page (tools/agent/src/git/cli: pages.rs,   *)
(* status.rs, history.rs, refs.rs, diff.rs, objects.rs and their like).    *)
(* The agent keeps nothing between two requests: a cursor carries what the *)
(* listing was (tokens.rs), and every page reads the repository again with *)
(* several git commands, between which other programs change it.           *)
(***************************************************************************)
EXTENDS Integers, Sequences, FiniteSets, SequencesExt, FiniteSetsExt

CONSTANTS Query,     \* the requests to run: [kind, count, of, context, budget] records
          RowSize,   \* bytes of each row a listing can have, by its number
          FrameHalf, \* MAX_FRAME / 2, the bytes of rows in a page
          Budgets,   \* what a difference's page may be limited to: 4096..524288 bytes
          MaxFiles,  \* files of a difference of untracked paths (10000 in the code)
          MaxEdits   \* changes by other programs

VARIABLES
  query,     \* the listing the client reads
  world,     \* the repository
  step,      \* where the agent is in the request; "idle" between requests
  sent,      \* the cursor of the request
  held,      \* what the request has read so far
  answer,    \* the last answer
  got,       \* the rows the client has put together
  truth,     \* history: what the repository held when the first page was read
  edits
readVars == <<query, world, step, sent, held, answer, got, truth, edits>>

Listing == {"branches", "names", "tags", "stashes", "worktrees", "remoteRefs"}
ReadKind == Listing \cup {"commitFiles", "status", "history", "working", "commitDiff", "blob"}
Row  == DOMAIN RowSize

ASSUME ReadAssumption ==
  /\ \A q \in Query : /\ q.kind \in ReadKind /\ {q.count, q.context, q.budget} \subseteq Nat
                       /\ q.of \in {"tracked", "untracked", "missing"}
  /\ Budgets \subseteq Nat /\ MaxFiles \in Nat \ {0}
  /\ RowSize \in Seq(Nat \ {0}) /\ RowSize # <<>> /\ FrameHalf \in Nat \ {0} /\ MaxEdits \in Nat
-----------------------------------------------------------------------------
(* Tokens and fingerprints *)

\* What a fingerprint tells apart: the rows, the content and time stamps of the files
\* behind them, the files of a difference, the tip a history started from, and the
\* shallow boundary.
NoPrint == [rows |-> {}, files |-> <<>>, stamp |-> 0, tip |-> 0, shallow |-> 0]
SnapshotRef(id, q, f) == [r |-> [id |-> id], q |-> q, f |-> f]
CursorRef(s, o) == [s |-> s, o |-> o]
NoCursor == CursorRef(SnapshotRef(1, "none", NoPrint), 0)

Invalid(code) == [code |-> code, rows |-> <<>>, next |-> NoCursor, files |-> <<>>]
Page(rows, next) == [code |-> "page", rows |-> rows, next |-> next, files |-> <<>>]
NoAnswer == Invalid("none")

Bytes(rows) ==
  LET sum[n \in 0..Len(rows)] == IF n = 0 THEN 0 ELSE sum[n - 1] + RowSize[rows[n]]
  IN  sum[Len(rows)]
Upto(a, b)  == IF a < b THEN a ELSE b

\* A row that does not fit any page is left for the next one.
FittingNone(rows, offset, count) ==
  Max({n \in 0..Upto(count, Len(rows) - offset) :
        Bytes(SubSeq(rows, offset + 1, offset + n)) <= FrameHalf})

\* As many rows as the count and the frame allow, from an offset; -1 when the next row
\* alone is too large.
Fitting(rows, offset, count) ==
  LET most == Upto(count, Len(rows) - offset)
      fit  == Max({n \in 0..most : Bytes(SubSeq(rows, offset + 1, offset + n)) <= FrameHalf})
  IN  IF fit < most /\ RowSize[rows[offset + fit + 1]] > FrameHalf THEN -1 ELSE fit

\* A page that does not compare what it lists with what the cursor was made for.
PageOfUnchecked(rows, f) ==
  LET offset == IF sent # NoCursor THEN sent.o ELSE 0
      n      == Fitting(rows, Upto(offset, Len(rows)), query.count)
  IN  IF query.count \notin 1..200 THEN Invalid("INVALID")
      ELSE IF n < 0 THEN Invalid("LIMIT_EXCEEDED")
      ELSE Page(SubSeq(rows, offset + 1, offset + n),
                IF offset + n < Len(rows) THEN CursorRef(SnapshotRef(held.id, query.kind, f), offset + n)
                ELSE NoCursor)

\* pages::page: every listing that is fingerprinted as a whole.
PageOf(rows, f) ==
  LET snapshot == SnapshotRef(held.id, query.kind, f)
      own      == sent # NoCursor
      offset   == IF own THEN sent.o ELSE 0
      n        == Fitting(rows, offset, query.count)
  IN  IF query.count \notin 1..200 THEN Invalid("INVALID")
      ELSE IF own /\ (sent.s.r # snapshot.r \/ sent.s.q # snapshot.q) THEN Invalid("INVALID")
      ELSE IF own /\ sent.s.f # f THEN Invalid("SNAPSHOT_EXPIRED")
      ELSE IF offset > Len(rows) THEN Invalid("INVALID")
      ELSE IF n < 0 THEN Invalid("LIMIT_EXCEEDED")
      ELSE Page(SubSeq(rows, offset + 1, offset + n),
                IF offset + n < Len(rows) THEN CursorRef(snapshot, offset + n) ELSE NoCursor)
-----------------------------------------------------------------------------
(* The repository and other programs *)

\* The commits a walk lists: from the tip down to the shallow boundary.
Walk(tip, shallow) == [i \in 1..(tip - shallow) |-> tip - i + 1]
InOrder(rows) == [n \in 1..Cardinality(rows) |->
                    CHOOSE r \in rows : Cardinality({other \in rows : other < r}) = n - 1]
BlobRows == [i \in DOMAIN RowSize |-> i]

\* A file that a client asks the difference of has none any more (0) or one of two; an
\* untracked entry has as many paths. A difference is its files, and the lines of them as
\* pieces that fit a page.
Deltas(content) == IF content = 0 THEN <<>> ELSE <<content>>
Lines(content)  == CASE content = 0 -> <<>> [] content = 1 -> Tail(BlobRows) [] OTHER -> Tail(Tail(BlobRows))

NothingRead == [id |-> 0, rows |-> <<>>, files |-> <<>>, paths |-> 0, f |-> NoPrint]

ReadInit ==
  /\ query \in Query
  /\ \E rows \in IF query.kind \in Listing \cup {"status"} THEN SUBSET Row ELSE {Row} :
       world = [id |-> 1, rows |-> rows, stamp |-> 0, content |-> 1, remote |-> 1,
                tip |-> Len(RowSize), shallow |-> 1]
  /\ step = "idle" /\ sent = NoCursor
  /\ held = NothingRead
  /\ answer = NoAnswer /\ got = <<>> /\ truth = <<>> /\ edits = 0

\* References, files and configuration change in any way; the stamp of a file that was
\* written is new even when its content is what it was before.
OtherEdit ==
  /\ edits < MaxEdits /\ edits' = edits + 1
  /\ CASE query.kind \in Listing ->
            \/ \E rows \in SUBSET Row : world' = [world EXCEPT !.rows = rows]
            \/ query.kind = "remoteRefs" /\ world' = [world EXCEPT !.remote = 2]
       [] query.kind = "status" ->
            \E rows \in SUBSET Row : world' = [world EXCEPT !.rows = rows, !.stamp = @ + 1]
       [] query.kind = "history" ->
            \E tip \in Row, shallow \in 0..(Len(RowSize) - 1) :
              shallow < tip /\ world' = [world EXCEPT !.tip = tip, !.shallow = shallow]
       [] query.kind = "working" ->
            \E content \in {0, 1, 2} : world' = [world EXCEPT !.content = content, !.stamp = @ + 1]
       [] OTHER -> FALSE   \* commits and blobs do not change
  /\ UNCHANGED <<query, step, sent, held, answer, got, truth>>

\* The directory is deleted and another repository put in its place.
OtherReplace ==
  /\ edits < MaxEdits /\ edits' = edits + 1 /\ world.id = 1
  /\ world' = [world EXCEPT !.id = 2]
  /\ UNCHANGED <<query, step, sent, held, answer, got, truth>>
-----------------------------------------------------------------------------
(* The client: the first page, the next, and again from the first *)

Ask(cursor) ==
  /\ step = "idle"
  /\ step' = "identify" /\ sent' = cursor
  /\ UNCHANGED <<query, world, held, answer, got, truth, edits>>

AskFirst == answer = NoAnswer /\ Ask(NoCursor)
AskNext  == answer.code = "page" /\ answer.next # NoCursor /\ Ask(answer.next)
\* Worktrees again from the first, as they were: "atSnapshot".
AskAt == /\ query.kind = "worktrees" /\ answer.code = "page" /\ answer.next # NoCursor
         /\ Ask([answer.next EXCEPT !.o = 0])
\* A cursor of another listing.
AskForeign == answer = NoAnswer /\ Ask(CursorRef(SnapshotRef(1, "other", NoPrint), 1))
\* "Restart from the first page."
Restart ==
  /\ step = "idle" /\ answer # NoAnswer
  /\ answer.code # "page" \/ answer.next = NoCursor
  /\ answer' = NoAnswer /\ got' = <<>> /\ truth' = <<>> /\ sent' = NoCursor
  /\ UNCHANGED <<query, world, step, held, edits>>
-----------------------------------------------------------------------------
(* The agent: one step for each command or file it reads *)

\* A request that ends: its rows go to those the client has.
Reply(a, whole) ==
  /\ answer' = a /\ step' = "idle"
  /\ held' = NothingRead
  /\ got' = IF a.code = "page" THEN (IF sent.o = 0 THEN <<>> ELSE got) \o a.rows ELSE got
  /\ truth' = IF a.code = "page" THEN whole ELSE truth
  /\ UNCHANGED <<query, world, sent, edits>>
Fail(code) == Reply(Invalid(code), <<>>)
Whole(rows) == IF sent = NoCursor THEN rows ELSE truth

Hold(value, next) ==
  /\ held' = value /\ step' = next
  /\ UNCHANGED <<query, world, sent, answer, got, truth, edits>>

\* Repo::from_id: the directory the token names must still be the same one.
FirstRead == [branches |-> "config", names |-> "rows", tags |-> "tags", stashes |-> "stash",
              worktrees |-> "rows", remoteRefs |-> "remote", commitFiles |-> "commit",
              status |-> "status", history |-> "tip", working |-> "status",
              commitDiff |-> "commit", blob |-> "objects"]
Identify ==
  /\ step = "identify"
  /\ IF world.id # 1 THEN Fail("REPO_REPLACED")
     ELSE Hold([held EXCEPT !.id = world.id], FirstRead[query.kind])

\* One command lists the rows, and the fingerprint is of them.
PageOfRows(rows) == PageOf(InOrder(rows), [NoPrint EXCEPT !.rows = rows])

\* Remote names, worktrees, and the references another repository advertises.
ListRows ==
  /\ step = "rows"
  /\ Reply(PageOfRows(world.rows), Whole(InOrder(world.rows)))

\* remote_refs: the configured remote must be the one the client saw.
CheckRemote ==
  /\ step = "remote"
  /\ IF world.remote # 1 THEN Fail("STALE_REMOTE") ELSE Hold(held, "rows")

\* branches: the configuration is read before the references it is about.
ReadConfig ==
  /\ step = "config"
  /\ Hold(held, "rows")

\* stashes: no reference, no stashes; the log of a reference that has gone is an error.
StashReference ==
  /\ step = "stash"
  /\ IF world.rows = {} THEN Reply(PageOfRows({}), Whole(<<>>)) ELSE Hold(held, "log")
StashLog ==
  /\ step = "log"
  /\ IF world.rows = {} THEN Fail("GIT_FAILED")
     ELSE Reply(PageOfRows(world.rows), Whole(InOrder(world.rows)))

\* tags: the details of a page are read after it has been cut, by object.
ListTags ==
  /\ step = "tags"
  /\ LET page == PageOfRows(world.rows)
     IN  IF page.code # "page" THEN Fail(page.code)
         ELSE Hold([held EXCEPT !.rows = InOrder(world.rows)], "details")
TagDetails ==
  /\ step = "details"
  /\ Reply(PageOfRows(ToSet(held.rows)), Whole(held.rows))

\* The files a commit changed: commits do not change, and neither does this listing.
CommitFiles ==
  /\ step = "raw" /\ query.kind = "commitFiles"
  /\ Reply(PageOfRows(Row), Whole(InOrder(Row)))

\* status::capture: git status first, then the index and every changed file are hashed.
StatusRows ==
  /\ step \in {"status", "again"}
  /\ Hold([held EXCEPT !.f = [@ EXCEPT !.rows = world.rows]],
          IF step = "again" THEN "rehash" ELSE "hash")
StatusPage ==
  /\ step = "hash" /\ query.kind = "status"
  /\ LET f == [held.f EXCEPT !.stamp = world.stamp]
     IN  Reply(PageOf(InOrder(f.rows), f), Whole(InOrder(f.rows)))

\* history::page: a cursor keeps the commit the walk began at.
HistoryTip ==
  /\ step = "tip"
  /\ IF sent # NoCursor /\ sent.s.q # query.kind THEN Fail("INVALID")
     ELSE Hold([held EXCEPT !.f.tip = IF sent = NoCursor THEN world.tip ELSE sent.s.f.tip], "shallow")
HistoryShallow ==
  /\ step = "shallow"
  /\ LET f == [held.f EXCEPT !.shallow = world.shallow]
     IN  IF sent # NoCursor /\ sent.s.f # f THEN Fail("SNAPSHOT_EXPIRED")
         ELSE Hold([held EXCEPT !.f = f], "walk")

\* One commit more than the count is asked for, to know whether there is a next page.
HistoryPage ==
  /\ step = "walk"
  /\ LET offset == IF sent = NoCursor THEN 0 ELSE sent.o
         walk   == Walk(held.f.tip, world.shallow)
         ids    == SubSeq(walk, offset + 1, Upto(offset + query.count + 1, Len(walk)))
         n      == Fitting(ids, 0, Upto(query.count, Len(ids)))
     IN  IF query.count \notin 1..200 THEN Fail("INVALID")
         ELSE IF ids = <<>> /\ offset > 0 THEN Fail("INVALID")
         ELSE IF n < 0 THEN Fail("LIMIT_EXCEEDED")
         ELSE Reply(Page(SubSeq(ids, 1, n),
                         IF Len(ids) > n THEN CursorRef(SnapshotRef(held.id, query.kind, held.f), offset + n)
                         ELSE NoCursor),
                    IF sent = NoCursor THEN walk ELSE Walk(truth[1], world.shallow))

\* comparison: what the commit is compared with, one of its parents.
Comparison ==
  /\ step = "commit"
  /\ IF query.of = "missing" THEN Fail("INVALID") ELSE Hold(held, "raw")

\* diff::working, asked for an entry of the status the client saw: content 1, stamp 0.
Source == [NoPrint EXCEPT !.rows = Row]
WorkingCapture ==
  /\ step = "hash" /\ query.kind = "working"
  /\ LET f == [held.f EXCEPT !.stamp = world.stamp]
     IN  CASE f # Source -> Fail("STALE_SNAPSHOT")
           [] f = Source /\ query.of = "missing" -> Fail("STALE_ENTRY")
           [] OTHER -> Hold([held EXCEPT !.f = f], "raw")

\* What git diff compares: an untracked file is not in the index; a commit stays.
Compared == IF query.kind = "commitDiff" THEN 1
            ELSE IF query.of = "untracked" THEN 0 ELSE world.content
AfterRead == IF query.kind = "commitDiff" THEN "page"
             ELSE IF query.of = "untracked" THEN "others" ELSE "again"

\* read: the files of a difference and their hunks come from two commands; there is
\* nothing more to read of no files.
DiffRaw ==
  /\ step = "raw" /\ query.kind # "commitFiles"
  /\ IF query.context > 100 THEN Fail("INVALID")
     ELSE Hold([held EXCEPT !.files = Deltas(Compared)],
               IF Deltas(Compared) = <<>> THEN AfterRead ELSE "patch")
DiffPatch ==
  /\ step = "patch"
  /\ IF Len(Deltas(Compared)) # Len(held.files) THEN Fail("GIT_FAILED")
     ELSE Hold([held EXCEPT !.rows = Lines(Compared)], AfterRead)

\* An untracked entry: the paths below it, then each of them against nothing.
ListOthers ==
  /\ step = "others"
  /\ Hold([held EXCEPT !.paths = world.content], IF world.content = 0 THEN "again" ELSE "other")
ReadOther ==
  /\ step = "other"
  /\ CASE Len(held.files) >= MaxFiles -> Fail("LIMIT_EXCEEDED")
       [] Len(held.files) < MaxFiles /\ world.content = 0 -> Fail("GIT_FAILED")
       [] OTHER -> Hold([held EXCEPT !.files = Append(@, 1), !.rows = @ \o Lines(world.content), !.paths = @ - 1],
                        IF held.paths = 1 THEN "again" ELSE "other")

\* The lines of the difference from an offset that fit the page, with the files they are
\* of: half as many until they do.
Shrunk(start) ==
  LET size(e) == Bytes(SubSeq(held.rows, start + 1, e))
      end[e \in 0..Len(held.rows)] ==
        IF size(e) <= query.budget THEN e
        ELSE IF e <= start + 1 THEN -1 ELSE end[start + (e - start) \div 2]
  IN  end[Upto(start + query.count, Len(held.rows))]

\* A page of a difference; its cursor is of every line and file of it.
DiffPage ==
  LET f        == [NoPrint EXCEPT !.rows = ToSet(held.rows), !.files = held.files]
      snapshot == SnapshotRef(held.id, query.kind, f)
      own      == sent # NoCursor
      start    == IF own THEN sent.o ELSE 0
      end      == Shrunk(start)
  IN  IF query.count \notin 1..5000 \/ query.budget \notin Budgets THEN Invalid("INVALID")
      ELSE IF own /\ (sent.s.r # snapshot.r \/ sent.s.q # snapshot.q) THEN Invalid("INVALID")
      ELSE IF own /\ sent.s.f # f THEN Invalid("SNAPSHOT_EXPIRED")
      ELSE IF start > Len(held.rows) THEN Invalid("INVALID")
      ELSE IF end < 0 THEN Invalid("LIMIT_EXCEEDED")
      ELSE [Page(SubSeq(held.rows, start + 1, end),
                 IF end < Len(held.rows) THEN CursorRef(snapshot, end) ELSE NoCursor)
              EXCEPT !.files = held.files]

WorkingAnswerUnchecked ==
  /\ step = "rehash"
  /\ Reply(DiffPage, Lines(1))
\* The difference is only given when the status is the client's still.
WorkingAnswer ==
  /\ step = "rehash"
  /\ LET f == [held.f EXCEPT !.stamp = world.stamp]
     IN  IF f # Source THEN Fail("STALE_SNAPSHOT") ELSE Reply(DiffPage, Lines(1))

\* diff::history: the difference of a commit with a parent of it.
CommitDiff ==
  /\ step = "page"
  /\ Reply(DiffPage, Lines(1))

\* objects::blob: a window of an object, which never changes.
BlobPage ==
  /\ step = "objects" /\ query.kind = "blob"
  /\ LET offset == IF sent = NoCursor THEN 0 ELSE sent.o
         end    == Upto(offset + Upto(query.count, FrameHalf), Len(BlobRows))
     IN  IF query.count = 0 \/ (sent # NoCursor /\ sent.s # SnapshotRef(held.id, "blob", NoPrint))
         THEN Fail("INVALID")
         ELSE Reply(Page(SubSeq(BlobRows, offset + 1, end),
                         IF end < Len(BlobRows) THEN CursorRef(SnapshotRef(held.id, "blob", NoPrint), end)
                         ELSE NoCursor), BlobRows)

\* A command fails, takes longer than 30 seconds, or says more than is kept of it.
CommandFails == step \notin {"idle", "identify"} /\ Fail("GIT_FAILED")

ReadStep ==
  \/ Identify \/ ListRows \/ CheckRemote \/ ReadConfig \/ StashReference \/ StashLog
  \/ ListTags \/ TagDetails \/ CommitFiles \/ StatusRows \/ StatusPage
  \/ HistoryTip \/ HistoryShallow \/ HistoryPage
  \/ Comparison \/ WorkingCapture \/ DiffRaw \/ DiffPatch \/ ListOthers \/ ReadOther
  \/ WorkingAnswer \/ CommitDiff
  \/ BlobPage \/ CommandFails
ReadNext == AskFirst \/ AskNext \/ AskAt \/ AskForeign \/ Restart \/ ReadStep \/ OtherEdit \/ OtherReplace
ReadSpec == ReadInit /\ [][ReadNext]_readVars
-----------------------------------------------------------------------------
(* Properties *)

\* The pages a client has put together are a beginning of what the repository held when
\* the first of them was read, and all of it when no next page is announced: each row
\* once, none from a later state (SNAPSHOT_EXPIRED and STALE_SNAPSHOT see to it). A
\* history ends where the clone is cut off when its last page is walked; the lines of a
\* difference come under the files they are of.
PagesWhole ==
  answer.code = "page" =>
    /\ IsPrefix(got, truth)
    /\ answer.next = NoCursor => got = truth
    /\ query.kind \in {"working", "commitDiff"} => answer.files = <<1>>

\* A cursor the agent gave out is never called invalid, and the page before it was not
\* empty, so that reading on ends: except when a history is cut off between the check
\* of its boundary and its walk.
CursorsWork ==
  /\ answer.code = "INVALID" =>
       \/ sent = NoCursor \/ sent.s.q = "other"
       \/ query.kind = "history" /\ edits > 0
  /\ answer.code = "page" /\ answer.next # NoCursor => answer.rows # <<>>

\* Both: reading on ends, with a whole listing.
PagesSound == PagesWhole /\ CursorsWork
=============================================================================

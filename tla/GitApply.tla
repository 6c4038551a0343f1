------------------------------ MODULE GitApply ------------------------------
(***************************************************************************)
(* What the agent does between beginning a write and recording its outcome *)
(* (tools/agent/src/git/cli/writes.rs apply, worktrees.rs apply, create.rs):*)
(* an action is a short plan of argument checks, reads that compare with   *)
(* what the user confirmed, git commands that write, and reads after them. *)
(* The journal lock keeps other agents out; other Git programs change the  *)
(* repository between any two steps.                                       *)
(*                                                                         *)
(* Of each part of a repository it matters whether it is still what the    *)
(* user confirmed ("seen"), was written by this action ("ours"), or by     *)
(* somebody else ("other").                                                *)
(***************************************************************************)
EXTENDS Naturals, Sequences

CONSTANTS Kind,        \* the actions to run, of DOMAIN Plans
          MaxOther     \* changes by other programs during one action

VARIABLES
  plan,      \* the steps of the action
  at,        \* the step it is at; 0 when no action runs
  part,      \* each part of the repository
  integ,     \* the merge, rebase, cherry-pick or revert in progress: whose, which
  marker,    \* .git/newport-cli-integration exists
  temp,      \* the temporary directory of a worktree or repository
  dest,      \* the destination path
  result,    \* how a git command ended whose end a later step judges
  outcome,   \* the state start records, and the class of its error
  killed,    \* history: a git command of this action ended unconfirmed
  replaced,  \* history: what a write with a lease replaced
  others     \* changes by other programs during this action

vars == <<plan, at, part, integ, marker, temp, dest, result, outcome, killed, replaced, others>>
-----------------------------------------------------------------------------
(* Steps *)

Integration == {"merge", "pick", "rebase"}   \* pick: cherry-pick or revert
Part == {"index", "tree", "head", "refs", "config", "remote", "stash", "worktree"}

Check     == <<"check", "none">>        \* arguments, tokens, names: may refuse
Expect(p) == <<"expect", p>>            \* compare a part with what was confirmed
Look      == <<"look", "none">>         \* a read whose failure fails the action
Run(p)    == <<"run", p>>               \* a git command that writes
Leased(p) == <<"leased", p>>            \* one that also carries the expected old value
RunKept(p) == <<"kept", p>>             \* one whose result is kept for the next step
Conflicts == <<"conflicts", "none">>    \* judge a kept result by the conflicts it left
Merging   == <<"merging", "none">>      \* remember whether a merge is being committed
Commit    == <<"commit", "head">>       \* git commit: concludes a merge or a cherry-pick
Unmark    == <<"unmark", "none">>       \* forget a managed merge that was committed
Clean     == <<"clean", "none">>        \* integrate: no integration may be in progress
Mark      == <<"mark", "none">>
Managed   == <<"managed", "none">>      \* only what the backend started is continued
Begin(k)  == <<"begin", k>>             \* git merge, rebase, cherry-pick, revert
Proceed   == <<"proceed", "none">>      \* git ... --continue, --skip
Abort     == <<"abort", "none">>
Finish    == <<"finish", "none">>
Absent    == <<"absent", "none">>       \* the destination must not exist
MakeTemp  == <<"temp", "none">>
Add       == <<"add", "worktree">>      \* git worktree add into the temporary directory
Move      == <<"move", "worktree">>
Prepare   == <<"prepare", "none">>      \* git init or clone into the temporary directory
Sync      == <<"sync", "none">>
Publish   == <<"publish", "none">>

\* Each action has one plan, or one for each of its forms.
StagePlans       == {<<Check, Run("index")>>, <<Check, Expect("index"), Run("index")>>}
CommitPlans      == {<<Check, Merging, Commit, Look, Unmark>>}
AmendPlans       == {<<Expect("head"), Check, Run("head"), Look>>}
BranchPlans      == {<<Check, Look, Run("refs")>>, <<Check, Expect("refs"), Run("refs")>>}
UpstreamPlans    == {<<Check, Expect("refs"), Expect("config"), Check, Run("config"), Look>>}
CheckoutPlans    == {<<Check, Expect("refs"), Run("head"), Look>>, <<Look, Run("head"), Look>>}
RemotePlans      == {<<Check, Run("config")>>, <<Expect("config"), Check, Look, Run("config"), Look>>,
                     <<Expect("config"), Check, Run("config")>>, <<Expect("config"), Run("config")>>}
FetchPlans       == {<<Expect("config"), Run("refs")>>, <<Expect("config"), Check, Run("refs"), Run("head")>>}
ForwardPlans     == {<<Look, Run("head"), Look>>}
PushPlans        == {<<Expect("config"), Check, Expect("refs"), Check, Run("remote")>>}
PushLeasePlans   == {<<Expect("config"), Check, Expect("refs"), Check, Expect("remote"), Leased("remote")>>}
DeleteRemotePlans == {<<Expect("config"), Check, Expect("remote"), Leased("remote")>>}
TagPlans         == {<<Check, Run("refs"), Look>>, <<Check, Expect("refs"), Leased("refs")>>,
                     <<Expect("config"), Check, Expect("refs"), Run("remote")>>}
ResetPlans       == {<<Expect("head"), Look, Run("head")>>}
DiscardPlans     == {<<Check, Expect("index"), Run("tree")>>, <<Check, Run("index")>>,
                     <<Check, Run("tree")>>, <<Check, Run("index"), Run("tree"), Run("tree")>>}
StashPlans       == {<<Check, Run("stash"), Look>>, <<Expect("stash"), Run("stash")>>,
                     <<Expect("stash"), RunKept("stash"), Conflicts>>}
IntegratePlans   == {<<Look, Check, Clean, Mark, Begin(k), Finish>> : k \in Integration}
ContinuePlans    == {<<Managed, Check, Proceed, Finish>>, <<Managed, Abort, Finish>>}
ResolvePlans     == {<<Check, Run("index")>>, <<Check, Run("tree"), Run("index")>>}
WorktreeAddPlans == {<<Check, Check, Absent, MakeTemp, Add, Move>>,
                     <<Check, Check, Absent, MakeTemp, Add, Move, Run("worktree")>>,
                     <<Check, Expect("refs"), Check, Absent, MakeTemp, Add, Move>>,
                     <<Check, Expect("refs"), Check, Absent, MakeTemp, Add, Move, Run("worktree")>>}
WorktreePlans    == {<<Look, Check, Run("worktree")>>}
CreatePlans      == {<<MakeTemp, Prepare, Sync, Publish>>, <<MakeTemp, Check, Prepare, Look, Sync, Publish>>}

Plans == [
  stage |-> StagePlans, commit |-> CommitPlans, amend |-> AmendPlans, branch |-> BranchPlans,
  upstream |-> UpstreamPlans, checkout |-> CheckoutPlans, remote |-> RemotePlans,
  fetch |-> FetchPlans, forward |-> ForwardPlans, push |-> PushPlans, pushLease |-> PushLeasePlans,
  deleteRemote |-> DeleteRemotePlans, tag |-> TagPlans, reset |-> ResetPlans, discard |-> DiscardPlans,
  stash |-> StashPlans, integrate |-> IntegratePlans, continue |-> ContinuePlans, resolve |-> ResolvePlans,
  worktreeAdd |-> WorktreeAddPlans, worktree |-> WorktreePlans, create |-> CreatePlans]

Action == DOMAIN Plans
ASSUME KindAssumption == Kind \subseteq Action
ASSUME MaxOtherAssumption == MaxOther \in Nat
-----------------------------------------------------------------------------
NoIntegration == [by |-> "none", kind |-> "none"]

Init ==
  /\ plan = <<>> /\ at = 0
  /\ part = [p \in Part |-> "seen"]
  /\ integ = NoIntegration /\ marker = FALSE
  /\ temp = "none" /\ dest = "absent" /\ result = "none"
  /\ outcome = [state |-> "none", why |-> "none"]
  /\ killed = FALSE /\ replaced = "none" /\ others = 0

\* begin has written the record: the repository is what the user confirmed. The
\* record of the action before is final, or it is "running" and start of this
\* one has read it as unknown.
Start(p) ==
  /\ at = 0
  /\ plan' = p /\ at' = 1
  /\ part' = [q \in Part |-> "seen"]
  /\ temp' = "none" /\ dest' = "absent" /\ result' = "none"
  /\ outcome' = [state |-> "running", why |-> "none"]
  /\ killed' = FALSE /\ replaced' = "none" /\ others' = 0
  /\ UNCHANGED <<integ, marker>>

At(verb) == at # 0 /\ plan[at][1] = verb
On == plan[at][2]
Writing == {"run", "leased", "kept", "commit", "begin", "proceed", "abort", "add", "move"}
HasWritten == \E i \in 1..(at - 1) : plan[i][1] \in Writing

\* The temporary directory is deleted when apply returns, unless it was kept.
DropTemp(t) == CASE t = "holds" -> "lost" [] t = "kept" -> "kept" [] OTHER -> "none"

Return(state, why, t) ==
  /\ at' = 0
  /\ outcome' = [state |-> state, why |-> why]
  /\ temp' = DropTemp(t)

Refuse  == Return("failed", "refused", temp)
\* A read that fails after git has written is recorded like one before.
Unread  == Return("failed", IF HasWritten THEN "read" ELSE "refused", temp)
Rejected == Return("failed", "git", temp)
Unknown == Return("outcome_unknown", "unknown", temp)
Resolve == Return("needs_resolution", "none", temp)

\* The last step is not the end.
AdvancePast(t) == at' = at + 1 /\ temp' = t /\ UNCHANGED outcome

\* The last step of a plan succeeds with the action.
Advance(t) ==
  IF at = Len(plan) THEN Return("succeeded", "none", t)
  ELSE at' = at + 1 /\ temp' = t /\ UNCHANGED outcome

Judge(r) == CASE r = "ok" -> Advance(temp) [] r = "error" -> Rejected [] r = "unknown" -> Unknown

Repository == <<part, integ, marker, dest>>
-----------------------------------------------------------------------------
(* Steps that write nothing *)

CheckStep ==
  /\ At("check")
  /\ Advance(temp) \/ Refuse
  /\ UNCHANGED <<plan, Repository, result, killed, replaced, others>>

LookStep ==
  /\ At("look")
  /\ Advance(temp) \/ Unread
  /\ UNCHANGED <<plan, Repository, result, killed, replaced, others>>

Compare(P) ==
  /\ At("expect") /\ On \in P
  /\ \/ part[On] = "seen" /\ Advance(temp)
     \/ Refuse
  /\ UNCHANGED <<plan, Repository, result, killed, replaced, others>>

ExpectReference == Compare({"head", "refs"})
ExpectConfig    == Compare({"config"})
ExpectRemote    == Compare({"remote"})   \* git skips the lease of a push that is up to date
ExpectStash     == Compare({"stash"})
ExpectContent   == Compare({"index"})    \* the patch of selected lines is made again

\* Whether the commit will conclude a merge is read before it.
MergingStep ==
  /\ At("merging")
  /\ \/ Advance(temp) /\ result' = IF integ.kind = "merge" THEN "merge" ELSE "none"
     \/ Unread /\ UNCHANGED result
  /\ UNCHANGED <<plan, Repository, killed, replaced, others>>

CleanStep ==
  /\ At("clean")
  /\ \/ integ = NoIntegration /\ Advance(temp)
     \/ Refuse
  /\ UNCHANGED <<plan, Repository, result, killed, replaced, others>>

ManagedStep ==
  /\ At("managed")
  /\ \/ integ # NoIntegration /\ marker /\ Advance(temp)
     \/ Refuse
  /\ UNCHANGED <<plan, Repository, result, killed, replaced, others>>

AbsentStep ==
  /\ At("absent")
  /\ \/ dest = "absent" /\ Advance(temp)
     \/ Refuse
  /\ UNCHANGED <<plan, Repository, result, killed, replaced, others>>
-----------------------------------------------------------------------------
(* Git commands that write: git exits with success, with an error (having written *)
(* all, or none, of what it was asked to), or is killed or not heard of again.    *)

Wrote(p) == [part EXCEPT ![p] = "ours"]

RunStep ==
  /\ At("run")
  /\ \/ part' = Wrote(On) /\ Advance(temp) /\ UNCHANGED killed
     \/ part' \in {part, Wrote(On)} /\ Rejected /\ UNCHANGED killed
     \/ part' \in {part, Wrote(On)} /\ Unknown /\ killed' = TRUE
  /\ UNCHANGED <<plan, integ, marker, dest, result, replaced, others>>

\* Without the lease: the value was compared before the push, and that is all.
LeasedUnchecked ==
  /\ At("leased")
  /\ part' = Wrote(On) /\ replaced' = part[On]
  /\ Advance(temp)
  /\ UNCHANGED <<plan, integ, marker, dest, result, killed, others>>

\* push --force-with-lease, update-ref -d with the old value.
LeasedStep ==
  /\ At("leased")
  /\ \/ /\ part[On] = "seen"
        /\ part' = Wrote(On) /\ replaced' = part[On]
        /\ \/ Advance(temp) /\ UNCHANGED killed
           \/ Unknown /\ killed' = TRUE
     \/ /\ UNCHANGED <<part, replaced>>
        /\ \/ Rejected /\ UNCHANGED killed
           \/ Unknown /\ killed' = TRUE
  /\ UNCHANGED <<plan, integ, marker, dest, result, others>>

KeptStep ==
  /\ At("kept")
  /\ \/ part' = Wrote(On) /\ result' = "ok" /\ UNCHANGED killed
     \/ part' \in {part, Wrote(On)} /\ result' = "error" /\ UNCHANGED killed
     \/ part' \in {part, Wrote(On)} /\ result' = "unknown" /\ killed' = TRUE
  /\ Advance(temp)
  /\ UNCHANGED <<plan, integ, marker, dest, replaced, others>>

\* The command's own result is forgotten when there are no conflicts.
ConflictsOnly ==
  /\ At("conflicts")
  /\ Resolve \/ Advance(temp) \/ Unread
  /\ UNCHANGED <<plan, Repository, result, killed, replaced, others>>

\* Conflicts are what the user has to see, however the command ended.
ConflictsStep ==
  /\ At("conflicts")
  /\ Resolve \/ Judge(result) \/ Unread
  /\ UNCHANGED <<plan, Repository, result, killed, replaced, others>>

CommitStep ==
  /\ At("commit")
  /\ \/ /\ part' = Wrote("head")
        /\ integ' = IF integ.kind \in {"merge", "pick"} THEN NoIntegration ELSE integ
        /\ \/ Advance(temp) /\ UNCHANGED killed
           \/ Unknown /\ killed' = TRUE
     \/ /\ UNCHANGED <<part, integ>>
        /\ \/ Rejected /\ UNCHANGED killed
           \/ Unknown /\ killed' = TRUE
  /\ UNCHANGED <<plan, marker, dest, result, replaced, others>>

\* Any commit forgets the integration, a rebase's too.
UnmarkAlways ==
  /\ At("unmark")
  /\ marker' = FALSE
  /\ Advance(temp)
  /\ UNCHANGED <<plan, part, integ, dest, result, killed, replaced, others>>

UnmarkStep ==
  /\ At("unmark")
  /\ marker' = (marker /\ result # "merge")
  /\ Advance(temp)
  /\ UNCHANGED <<plan, part, integ, dest, result, killed, replaced, others>>
-----------------------------------------------------------------------------
(* Integrations *)

MarkStep ==
  /\ At("mark")
  /\ \/ marker' = TRUE /\ Advance(temp)
     \/ UNCHANGED marker /\ Refuse
  /\ UNCHANGED <<plan, part, integ, dest, result, killed, replaced, others>>

\* How a git process ends: by its exit code, or killed after thirty seconds, by a
\* signal, with output that could not be read or was too long.
Ending == {"ok", "error", "unknown"}

Completed == part' = Wrote("head") /\ integ' = NoIntegration
Untouched == UNCHANGED <<part, integ>>

\* Git refuses to begin while an integration is in progress.
BeginStep ==
  /\ At("begin")
  /\ \E r \in Ending :
       /\ result' = r
       /\ killed' = (r = "unknown")
       /\ IF integ # NoIntegration THEN r # "ok" /\ Untouched
          ELSE \/ r # "error" /\ Completed
               \/ r # "ok" /\ Untouched
               \/ r # "ok" /\ integ' = [by |-> "ours", kind |-> On] /\ UNCHANGED part
  /\ Advance(temp)
  /\ UNCHANGED <<plan, marker, dest, replaced, others>>

\* commit, --continue, --skip: the next commit of a rebase may conflict again.
ProceedStep ==
  /\ At("proceed")
  /\ \E r \in Ending :
       /\ result' = r
       /\ killed' = (r = "unknown")
       /\ \/ integ # NoIntegration /\ r # "error" /\ Completed
          \/ r # "ok" /\ Untouched
  /\ Advance(temp)
  /\ UNCHANGED <<plan, marker, dest, replaced, others>>

AbortStep ==
  /\ At("abort")
  /\ \E r \in Ending :
       /\ result' = r
       /\ killed' = (r = "unknown")
       /\ \/ integ # NoIntegration /\ r # "error" /\ integ' = NoIntegration
          \/ r # "ok" /\ UNCHANGED integ
  /\ Advance(temp)
  /\ UNCHANGED <<plan, part, marker, dest, replaced, others>>

\* finish_integration. The state is read; whatever ended, nothing is in progress
\* any more when it is clean.
FinishStep ==
  /\ At("finish")
  /\ \/ Unread /\ UNCHANGED marker
     \/ integ # NoIntegration /\ marker /\ Resolve /\ UNCHANGED marker
     \/ integ # NoIntegration /\ ~marker /\ Judge(result) /\ UNCHANGED marker
     \/ /\ integ = NoIntegration
        /\ marker' = FALSE
        /\ Judge(result) \/ (result = "ok" /\ Unread)
  /\ UNCHANGED <<plan, part, integ, dest, result, killed, replaced, others>>
-----------------------------------------------------------------------------
(* Worktrees and new repositories: made in a temporary directory, then moved *)

MakeTempStep ==
  /\ At("temp")
  /\ Advance("empty") \/ Refuse
  /\ UNCHANGED <<plan, Repository, result, killed, replaced, others>>

\* A failed add may leave a registered worktree in the directory.
AddStep ==
  /\ At("add")
  /\ \/ part' = Wrote(On) /\ Advance("holds") /\ UNCHANGED killed
     \/ part' \in {part, Wrote(On)} /\ Return("failed", "git", "kept") /\ UNCHANGED killed
     \/ part' \in {part, Wrote(On)} /\ Return("outcome_unknown", "unknown", "kept") /\ killed' = TRUE
  /\ UNCHANGED <<plan, integ, marker, dest, result, replaced, others>>

\* The temporary directory is left to its destructor.
MoveDropping ==
  /\ At("move")
  /\ \/ dest = "absent" /\ dest' = "ours" /\ Advance("empty")
     \/ UNCHANGED dest /\ Rejected
  /\ UNCHANGED <<plan, part, integ, marker, result, killed, replaced, others>>

\* git worktree move: into the destination, if it has become a directory.
MoveStep ==
  /\ At("move")
  /\ \/ dest = "absent" /\ dest' = "ours" /\ Advance("empty") /\ UNCHANGED killed
     \/ dest = "other" /\ UNCHANGED dest /\ Advance("empty") /\ UNCHANGED killed
     \/ UNCHANGED dest /\ Return("failed", "git", "kept") /\ UNCHANGED killed
     \/ /\ dest' \in IF dest = "absent" THEN {"absent", "ours"} ELSE {dest}
        /\ Return("outcome_unknown", "unknown", "kept") /\ killed' = TRUE
  /\ UNCHANGED <<plan, part, integ, marker, result, replaced, others>>

\* init and clone write only the temporary directory: any failure of theirs, a
\* timeout too, leaves nothing behind.
PrepareStep ==
  /\ At("prepare")
  /\ Advance("made") \/ Rejected
  /\ UNCHANGED <<plan, Repository, result, killed, replaced, others>>

SyncStep ==
  /\ At("sync")
  /\ Advance(temp) \/ Refuse
  /\ UNCHANGED <<plan, Repository, result, killed, replaced, others>>

\* A rename that replaces nothing; only the sync of the directory after it is in doubt.
PublishStep ==
  /\ At("publish")
  /\ \/ /\ dest = "absent"
        /\ dest' = "ours" /\ replaced' = dest
        /\ Advance("empty") \/ Return("outcome_unknown", "unknown", "empty")
     \/ UNCHANGED <<dest, replaced>> /\ Refuse
  /\ UNCHANGED <<plan, part, integ, marker, result, killed, others>>
-----------------------------------------------------------------------------
(* The world around the agent *)

\* The agent dies: what it was running may still take effect, its record stays
\* "running", and its temporary directory stays.
Crash ==
  /\ at # 0
  /\ at' = 0
  /\ part' \in {part} \cup (IF plan[at][1] \in {"run", "kept", "add"} THEN {Wrote(On)} ELSE {})
  /\ integ' \in {integ} \cup (IF At("begin") /\ integ = NoIntegration
                              THEN {[by |-> "ours", kind |-> On]} ELSE {})
  /\ UNCHANGED <<plan, marker, temp, dest, result, outcome, killed, replaced, others>>

Other == at # 0 /\ others < MaxOther /\ others' = others + 1

\* Another Git program changes a part the action relies on.
OtherChanges ==
  /\ Other
  /\ \E p \in Part :
       /\ \E i \in at..Len(plan) : plan[i] \in {Expect(p), Leased(p), Run(p)}
       /\ part' = [part EXCEPT ![p] = "other"]
  /\ UNCHANGED <<plan, at, integ, marker, temp, dest, result, outcome, killed, replaced>>

OtherBegins ==
  /\ Other
  /\ integ = NoIntegration
  /\ \E k \in Integration : integ' = [by |-> "other", kind |-> k]
  /\ UNCHANGED <<plan, at, part, marker, temp, dest, result, outcome, killed, replaced>>

\* The marker is not theirs to remove.
OtherEnds ==
  /\ Other
  /\ integ # NoIntegration
  /\ integ' = NoIntegration
  /\ UNCHANGED <<plan, at, part, marker, temp, dest, result, outcome, killed, replaced>>

OtherCreates ==
  /\ Other
  /\ dest = "absent"
  /\ dest' = "other"
  /\ UNCHANGED <<plan, at, part, integ, marker, temp, result, outcome, killed, replaced>>

Begins == \E k \in Kind : \E p \in Plans[k] : Start(p)

Next ==
  \/ Begins
  \/ CheckStep \/ LookStep \/ MergingStep \/ CleanStep \/ ManagedStep \/ AbsentStep
  \/ ExpectReference \/ ExpectConfig \/ ExpectRemote \/ ExpectStash \/ ExpectContent
  \/ RunStep \/ LeasedStep \/ KeptStep \/ ConflictsStep \/ CommitStep \/ UnmarkStep
  \/ MarkStep \/ BeginStep \/ ProceedStep \/ AbortStep \/ FinishStep
  \/ MakeTempStep \/ AddStep \/ MoveStep \/ PrepareStep \/ SyncStep \/ PublishStep
  \/ Crash \/ OtherChanges \/ OtherBegins \/ OtherEnds \/ OtherCreates

Spec == Init /\ [][Next]_vars
-----------------------------------------------------------------------------
(* Properties *)

TypeOK ==
  /\ plan = <<>> \/ \E k \in Kind : plan \in Plans[k]
  /\ at \in 0..Len(plan)
  /\ part \in [Part -> {"seen", "ours", "other"}]
  /\ integ = NoIntegration \/ integ \in [by : {"ours", "other"}, kind : Integration]
  /\ marker \in BOOLEAN /\ killed \in BOOLEAN
  /\ temp \in {"none", "empty", "holds", "made", "kept", "lost"}
  /\ dest \in {"absent", "ours", "other"}
  /\ result \in {"none", "merge", "ok", "error", "unknown"}
  /\ outcome \in [state : {"none", "running", "succeeded", "needs_resolution", "failed", "outcome_unknown"},
                 why : {"none", "refused", "read", "git", "unknown"}]
  /\ replaced \in {"none", "absent", "seen", "other"}
  /\ others \in 0..MaxOther

\* What the action is to write, by a command whose success it needs.
Written == {plan[i][2] : i \in {j \in DOMAIN plan : plan[j][1] \in {"run", "leased", "kept", "commit", "add"}}}

\* start turns what apply returns into the record's state. "succeeded" is only said
\* when every write of the action happened; an action that was refused has written
\* nothing at all, whatever of its plan came first; and a git command that was killed
\* never ends as a plain failure or a success, unless the agent could not even read
\* the repository afterwards.
HonestVerdict ==
  /\ outcome.state = "succeeded" => \A p \in Written : part[p] = "ours"
  /\ outcome.why = "refused" => dest # "ours" /\ \A p \in Part : part[p] # "ours"
  /\ at = 0 /\ killed /\ outcome.state \in {"succeeded", "failed"} => outcome.why = "read"

\* What somebody else has put in the place since the user confirmed is never
\* overwritten by a write that carries a lease, nor by a publication.
LeaseHonored == replaced # "other"

\* Whatever is done in between, and wherever the agent dies: an integration the
\* backend began carries its marker, so that it can be continued or aborted.
OursIsManaged == integ.by = "ours" => marker

\* The temporary directory is never deleted with the only copy of a worktree in it.
WorktreeKept == temp # "lost"

\* The four: what is said of a write is what happened, and nothing of another program or
\* of the user is lost to it.
ActionSound == TypeOK /\ HonestVerdict /\ LeaseHonored /\ OursIsManaged /\ WorktreeKept

\* "This integration was not started by the CLI backend." (writes.rs): an integration
\* that another program began is only ended by that program, not by a continue, a
\* skip or an abort of the backend.
\* The code does not keep it: no run expects it to hold (README, "What the code does
\* not keep").
ForeignIntegrationKept ==
  [][integ.by = "other" /\ integ'.by # "other" => others' # others]_vars
=============================================================================

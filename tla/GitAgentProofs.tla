--------------------------- MODULE GitAgentProofs ---------------------------
(***************************************************************************)
(* What TLAPS proves of the agent's Git commands: the verdict on an action *)
(* is true (GitApply), and so are the pages of a listing (GitReads).       *)
(*                                                                         *)
(* Most of the argument about actions is about the order of the steps of a *)
(* plan, so each of the plans is first shown to keep that order            *)
(* (StepSound). Then every step either fails the action (Fails, Refuses,   *)
(* FailsUnread) or goes on (Advances), and each needs only to say what it  *)
(* writes and keeps.                                                       *)
(*                                                                         *)
(* Of the listings, what a page has to be (GoodPage) is shown of each of   *)
(* the four ways to cut one: of a whole listing, of a difference, of a     *)
(* history and of an object. A step of a request either answers with such  *)
(* a page, refuses, or reads something and goes on (ReplyInv, FailInv,     *)
(* GoOn).                                                                  *)
(***************************************************************************)
EXTENDS GitApply, GitReads, FiniteSetTheorems, SequenceTheorems, WellFoundedInduction, TLAPS

\* Steps that can refuse the action; steps that change something; steps about one part.
Refusing == {"check", "expect", "merging", "clean", "managed", "absent", "mark", "temp", "sync", "publish"}
Changing == Writing \cup {"publish"}
OnPart == {"run", "leased", "kept", "commit", "add", "expect"}
CommitPlan == <<Check, Merging, Commit, Look, Unmark>>
Verbs == Refusing \cup Writing \cup {"look", "conflicts", "unmark", "finish", "prepare"}
Steps == Verbs \X (Part \cup Integration \cup {"none"})


\* What every plan keeps: whatever can refuse the action comes before the first write;
\* a command whose end is judged is followed by its judge; an integration begins marked;
\* a worktree is moved at once; and only a commit has the steps of a commit.
StepSound(p, i) ==
  /\ p[i][1] \in OnPart => p[i][2] \in Part
  /\ p[i][1] \in Refusing => \A j \in 1..(i - 1) : p[j][1] \notin Changing
  /\ p[i][1] = "kept" => i < Len(p) /\ p[i + 1][1] = "conflicts"
  /\ p[i][1] = "conflicts" => i > 1 /\ p[i - 1][1] = "kept" /\ i = Len(p)
  /\ p[i][1] = "begin" => i > 1 /\ p[i - 1][1] = "mark" /\ p[i][2] \in Integration
  /\ p[i][1] \in {"begin", "proceed", "abort"} => i < Len(p) /\ p[i + 1][1] = "finish"
  /\ p[i][1] = "finish" => i > 1 /\ i = Len(p) /\ p[i - 1][1] \in {"begin", "proceed", "abort"}
  /\ p[i][1] = "add" => i < Len(p) /\ p[i + 1][1] = "move"
  /\ p[i][1] = "move" => i > 1 /\ p[i - 1][1] = "add"
  /\ p[i][1] \in {"commit", "merging", "unmark"} => p = CommitPlan
  /\ p[i][1] \in {"publish"} => i = Len(p)
PlanSound(p) ==
  /\ p \in Seq(Steps)
  /\ p # <<>>
  /\ \A i \in 1..Len(p) : StepSound(p, i)


-----------------------------------------------------------------------------
(* The plans *)

LEMMA StepsAre ==
  /\ \A q \in Part : {Expect(q), Run(q), Leased(q), RunKept(q)} \subseteq Steps
  /\ \A k \in Integration : Begin(k) \in Steps
  /\ {Check, Look, Conflicts, Merging, Commit, Unmark} \subseteq Steps
  /\ {Clean, Mark, Managed, Proceed, Abort, Finish, Absent} \subseteq Steps
  /\ {MakeTemp, Add, Move, Prepare, Sync, Publish} \subseteq Steps
<1>. USE DEF Steps, Verbs, Refusing, Writing
<1>1. \A q \in Part : {Expect(q), Run(q), Leased(q), RunKept(q)} \subseteq Steps
  BY DEF Expect, Run, Leased, RunKept
<1>2. \A k \in Integration : Begin(k) \in Steps
  BY DEF Begin
<1>3. {Check, Look, Conflicts, Merging, Commit, Unmark} \subseteq Steps
  BY DEF Check, Look, Conflicts, Merging, Commit, Unmark, Part
<1>4. {Clean, Mark, Managed, Proceed, Abort, Finish, Absent} \subseteq Steps
  BY DEF Clean, Mark, Managed, Proceed, Abort, Finish, Absent
<1>5. {MakeTemp, Add, Move, Prepare, Sync, Publish} \subseteq Steps
  BY DEF MakeTemp, Add, Move, Prepare, Sync, Publish, Part
<1>. QED
  BY <1>1, <1>2, <1>3, <1>4, <1>5

LEMMA Plan2 ==
  ASSUME NEW a \in Steps, NEW b \in Steps,
         StepSound(<<a, b>>, 1), StepSound(<<a, b>>, 2)
  PROVE  PlanSound(<<a, b>>)
  BY DEF PlanSound

LEMMA Plan3 ==
  ASSUME NEW a \in Steps, NEW b \in Steps, NEW c \in Steps,
         StepSound(<<a, b, c>>, 1), StepSound(<<a, b, c>>, 2), StepSound(<<a, b, c>>, 3)
  PROVE  PlanSound(<<a, b, c>>)
  BY DEF PlanSound

LEMMA Plan4 ==
  ASSUME NEW a \in Steps, NEW b \in Steps, NEW c \in Steps, NEW d \in Steps,
         StepSound(<<a, b, c, d>>, 1), StepSound(<<a, b, c, d>>, 2), StepSound(<<a, b, c, d>>, 3), StepSound(<<a, b, c, d>>, 4)
  PROVE  PlanSound(<<a, b, c, d>>)
  BY DEF PlanSound

LEMMA Plan5 ==
  ASSUME NEW a \in Steps, NEW b \in Steps, NEW c \in Steps, NEW d \in Steps, NEW e \in Steps,
         StepSound(<<a, b, c, d, e>>, 1), StepSound(<<a, b, c, d, e>>, 2), StepSound(<<a, b, c, d, e>>, 3), StepSound(<<a, b, c, d, e>>, 4), StepSound(<<a, b, c, d, e>>, 5)
  PROVE  PlanSound(<<a, b, c, d, e>>)
  BY DEF PlanSound

LEMMA Plan6 ==
  ASSUME NEW a \in Steps, NEW b \in Steps, NEW c \in Steps, NEW d \in Steps, NEW e \in Steps, NEW f \in Steps,
         StepSound(<<a, b, c, d, e, f>>, 1), StepSound(<<a, b, c, d, e, f>>, 2), StepSound(<<a, b, c, d, e, f>>, 3), StepSound(<<a, b, c, d, e, f>>, 4), StepSound(<<a, b, c, d, e, f>>, 5), StepSound(<<a, b, c, d, e, f>>, 6)
  PROVE  PlanSound(<<a, b, c, d, e, f>>)
  BY DEF PlanSound

LEMMA Plan7 ==
  ASSUME NEW a \in Steps, NEW b \in Steps, NEW c \in Steps, NEW d \in Steps, NEW e \in Steps, NEW f \in Steps, NEW g \in Steps,
         StepSound(<<a, b, c, d, e, f, g>>, 1), StepSound(<<a, b, c, d, e, f, g>>, 2), StepSound(<<a, b, c, d, e, f, g>>, 3), StepSound(<<a, b, c, d, e, f, g>>, 4), StepSound(<<a, b, c, d, e, f, g>>, 5), StepSound(<<a, b, c, d, e, f, g>>, 6), StepSound(<<a, b, c, d, e, f, g>>, 7)
  PROVE  PlanSound(<<a, b, c, d, e, f, g>>)
  BY DEF PlanSound

LEMMA Plan8 ==
  ASSUME NEW a \in Steps, NEW b \in Steps, NEW c \in Steps, NEW d \in Steps, NEW e \in Steps, NEW f \in Steps, NEW g \in Steps, NEW h \in Steps,
         StepSound(<<a, b, c, d, e, f, g, h>>, 1), StepSound(<<a, b, c, d, e, f, g, h>>, 2), StepSound(<<a, b, c, d, e, f, g, h>>, 3), StepSound(<<a, b, c, d, e, f, g, h>>, 4), StepSound(<<a, b, c, d, e, f, g, h>>, 5), StepSound(<<a, b, c, d, e, f, g, h>>, 6), StepSound(<<a, b, c, d, e, f, g, h>>, 7), StepSound(<<a, b, c, d, e, f, g, h>>, 8)
  PROVE  PlanSound(<<a, b, c, d, e, f, g, h>>)
  BY DEF PlanSound

LEMMA StagePlansAre == ASSUME NEW p \in StagePlans PROVE PlanSound(p)
<1>1. CASE p = <<Check, Run("index")>>
  <2>1. StepSound(p, 1) /\ StepSound(p, 2)
    BY <1>1 DEF StepSound, OnPart, Refusing, Changing, Writing, Part, CommitPlan,
           Check, Run
  <2>. QED
    BY <1>1, <2>1, StepsAre, Plan2 DEF Part
<1>2. CASE p = <<Check, Expect("index"), Run("index")>>
  <2>1. StepSound(p, 1) /\ StepSound(p, 2) /\ StepSound(p, 3)
    BY <1>2 DEF StepSound, OnPart, Refusing, Changing, Writing, Part, CommitPlan,
           Check, Expect, Run
  <2>. QED
    BY <1>2, <2>1, StepsAre, Plan3 DEF Part
<1>. QED
  BY <1>1, <1>2 DEF StagePlans

LEMMA CommitPlansAre == ASSUME NEW p \in CommitPlans PROVE PlanSound(p)
<1>1. p = <<Check, Merging, Commit, Look, Unmark>>
  BY DEF CommitPlans
<1>2. /\ StepSound(p, 1) /\ StepSound(p, 2) /\ StepSound(p, 3) /\ StepSound(p, 4)
         /\ StepSound(p, 5)
  BY <1>1 DEF StepSound, OnPart, Refusing, Changing, Writing, Part, CommitPlan,
           Check, Merging, Commit, Look, Unmark
<1>. QED
  BY <1>1, <1>2, StepsAre, Plan5 DEF Part

LEMMA AmendPlansAre == ASSUME NEW p \in AmendPlans PROVE PlanSound(p)
<1>1. p = <<Expect("head"), Check, Run("head"), Look>>
  BY DEF AmendPlans
<1>2. StepSound(p, 1) /\ StepSound(p, 2) /\ StepSound(p, 3) /\ StepSound(p, 4)
  BY <1>1 DEF StepSound, OnPart, Refusing, Changing, Writing, Part, CommitPlan,
           Expect, Check, Run, Look
<1>. QED
  BY <1>1, <1>2, StepsAre, Plan4 DEF Part

LEMMA BranchPlansAre == ASSUME NEW p \in BranchPlans PROVE PlanSound(p)
<1>1. CASE p = <<Check, Look, Run("refs")>>
  <2>1. StepSound(p, 1) /\ StepSound(p, 2) /\ StepSound(p, 3)
    BY <1>1 DEF StepSound, OnPart, Refusing, Changing, Writing, Part, CommitPlan,
           Check, Look, Run
  <2>. QED
    BY <1>1, <2>1, StepsAre, Plan3 DEF Part
<1>2. CASE p = <<Check, Expect("refs"), Run("refs")>>
  <2>1. StepSound(p, 1) /\ StepSound(p, 2) /\ StepSound(p, 3)
    BY <1>2 DEF StepSound, OnPart, Refusing, Changing, Writing, Part, CommitPlan,
           Check, Expect, Run
  <2>. QED
    BY <1>2, <2>1, StepsAre, Plan3 DEF Part
<1>. QED
  BY <1>1, <1>2 DEF BranchPlans

LEMMA UpstreamPlansAre == ASSUME NEW p \in UpstreamPlans PROVE PlanSound(p)
<1>1. p = <<Check, Expect("refs"), Expect("config"), Check, Run("config"), Look>>
  BY DEF UpstreamPlans
<1>2. /\ StepSound(p, 1) /\ StepSound(p, 2) /\ StepSound(p, 3) /\ StepSound(p, 4)
         /\ StepSound(p, 5) /\ StepSound(p, 6)
  BY <1>1 DEF StepSound, OnPart, Refusing, Changing, Writing, Part, CommitPlan,
           Check, Expect, Run, Look
<1>. QED
  BY <1>1, <1>2, StepsAre, Plan6 DEF Part

LEMMA CheckoutPlansAre == ASSUME NEW p \in CheckoutPlans PROVE PlanSound(p)
<1>1. CASE p = <<Check, Expect("refs"), Run("head"), Look>>
  <2>1. StepSound(p, 1) /\ StepSound(p, 2) /\ StepSound(p, 3) /\ StepSound(p, 4)
    BY <1>1 DEF StepSound, OnPart, Refusing, Changing, Writing, Part, CommitPlan,
           Check, Expect, Run, Look
  <2>. QED
    BY <1>1, <2>1, StepsAre, Plan4 DEF Part
<1>2. CASE p = <<Look, Run("head"), Look>>
  <2>1. StepSound(p, 1) /\ StepSound(p, 2) /\ StepSound(p, 3)
    BY <1>2 DEF StepSound, OnPart, Refusing, Changing, Writing, Part, CommitPlan,
           Look, Run
  <2>. QED
    BY <1>2, <2>1, StepsAre, Plan3 DEF Part
<1>. QED
  BY <1>1, <1>2 DEF CheckoutPlans

LEMMA RemotePlansAre == ASSUME NEW p \in RemotePlans PROVE PlanSound(p)
<1>1. CASE p = <<Check, Run("config")>>
  <2>1. StepSound(p, 1) /\ StepSound(p, 2)
    BY <1>1 DEF StepSound, OnPart, Refusing, Changing, Writing, Part, CommitPlan,
           Check, Run
  <2>. QED
    BY <1>1, <2>1, StepsAre, Plan2 DEF Part
<1>2. CASE p = <<Expect("config"), Check, Look, Run("config"), Look>>
  <2>1. /\ StepSound(p, 1) /\ StepSound(p, 2) /\ StepSound(p, 3) /\ StepSound(p, 4)
         /\ StepSound(p, 5)
    BY <1>2 DEF StepSound, OnPart, Refusing, Changing, Writing, Part, CommitPlan,
           Expect, Check, Look, Run
  <2>. QED
    BY <1>2, <2>1, StepsAre, Plan5 DEF Part
<1>3. CASE p = <<Expect("config"), Check, Run("config")>>
  <2>1. StepSound(p, 1) /\ StepSound(p, 2) /\ StepSound(p, 3)
    BY <1>3 DEF StepSound, OnPart, Refusing, Changing, Writing, Part, CommitPlan,
           Expect, Check, Run
  <2>. QED
    BY <1>3, <2>1, StepsAre, Plan3 DEF Part
<1>4. CASE p = <<Expect("config"), Run("config")>>
  <2>1. StepSound(p, 1) /\ StepSound(p, 2)
    BY <1>4 DEF StepSound, OnPart, Refusing, Changing, Writing, Part, CommitPlan,
           Expect, Run
  <2>. QED
    BY <1>4, <2>1, StepsAre, Plan2 DEF Part
<1>. QED
  BY <1>1, <1>2, <1>3, <1>4 DEF RemotePlans

LEMMA FetchPlansAre == ASSUME NEW p \in FetchPlans PROVE PlanSound(p)
<1>1. CASE p = <<Expect("config"), Run("refs")>>
  <2>1. StepSound(p, 1) /\ StepSound(p, 2)
    BY <1>1 DEF StepSound, OnPart, Refusing, Changing, Writing, Part, CommitPlan,
           Expect, Run
  <2>. QED
    BY <1>1, <2>1, StepsAre, Plan2 DEF Part
<1>2. CASE p = <<Expect("config"), Check, Run("refs"), Run("head")>>
  <2>1. StepSound(p, 1) /\ StepSound(p, 2) /\ StepSound(p, 3) /\ StepSound(p, 4)
    BY <1>2 DEF StepSound, OnPart, Refusing, Changing, Writing, Part, CommitPlan,
           Expect, Check, Run
  <2>. QED
    BY <1>2, <2>1, StepsAre, Plan4 DEF Part
<1>. QED
  BY <1>1, <1>2 DEF FetchPlans

LEMMA ForwardPlansAre == ASSUME NEW p \in ForwardPlans PROVE PlanSound(p)
<1>1. p = <<Look, Run("head"), Look>>
  BY DEF ForwardPlans
<1>2. StepSound(p, 1) /\ StepSound(p, 2) /\ StepSound(p, 3)
  BY <1>1 DEF StepSound, OnPart, Refusing, Changing, Writing, Part, CommitPlan,
           Look, Run
<1>. QED
  BY <1>1, <1>2, StepsAre, Plan3 DEF Part

LEMMA PushPlansAre == ASSUME NEW p \in PushPlans PROVE PlanSound(p)
<1>1. p = <<Expect("config"), Check, Expect("refs"), Check, Run("remote")>>
  BY DEF PushPlans
<1>2. /\ StepSound(p, 1) /\ StepSound(p, 2) /\ StepSound(p, 3) /\ StepSound(p, 4)
         /\ StepSound(p, 5)
  BY <1>1 DEF StepSound, OnPart, Refusing, Changing, Writing, Part, CommitPlan,
           Expect, Check, Run
<1>. QED
  BY <1>1, <1>2, StepsAre, Plan5 DEF Part

LEMMA PushLeasePlansAre == ASSUME NEW p \in PushLeasePlans PROVE PlanSound(p)
<1>1. p = <<Expect("config"), Check, Expect("refs"), Check, Expect("remote"), Leased("remote")>>
  BY DEF PushLeasePlans
<1>2. /\ StepSound(p, 1) /\ StepSound(p, 2) /\ StepSound(p, 3) /\ StepSound(p, 4)
         /\ StepSound(p, 5) /\ StepSound(p, 6)
  BY <1>1 DEF StepSound, OnPart, Refusing, Changing, Writing, Part, CommitPlan,
           Expect, Check, Leased
<1>. QED
  BY <1>1, <1>2, StepsAre, Plan6 DEF Part

LEMMA DeleteRemotePlansAre == ASSUME NEW p \in DeleteRemotePlans PROVE PlanSound(p)
<1>1. p = <<Expect("config"), Check, Expect("remote"), Leased("remote")>>
  BY DEF DeleteRemotePlans
<1>2. StepSound(p, 1) /\ StepSound(p, 2) /\ StepSound(p, 3) /\ StepSound(p, 4)
  BY <1>1 DEF StepSound, OnPart, Refusing, Changing, Writing, Part, CommitPlan,
           Expect, Check, Leased
<1>. QED
  BY <1>1, <1>2, StepsAre, Plan4 DEF Part

LEMMA TagPlansAre == ASSUME NEW p \in TagPlans PROVE PlanSound(p)
<1>1. CASE p = <<Check, Run("refs"), Look>>
  <2>1. StepSound(p, 1) /\ StepSound(p, 2) /\ StepSound(p, 3)
    BY <1>1 DEF StepSound, OnPart, Refusing, Changing, Writing, Part, CommitPlan,
           Check, Run, Look
  <2>. QED
    BY <1>1, <2>1, StepsAre, Plan3 DEF Part
<1>2. CASE p = <<Check, Expect("refs"), Leased("refs")>>
  <2>1. StepSound(p, 1) /\ StepSound(p, 2) /\ StepSound(p, 3)
    BY <1>2 DEF StepSound, OnPart, Refusing, Changing, Writing, Part, CommitPlan,
           Check, Expect, Leased
  <2>. QED
    BY <1>2, <2>1, StepsAre, Plan3 DEF Part
<1>3. CASE p = <<Expect("config"), Check, Expect("refs"), Run("remote")>>
  <2>1. StepSound(p, 1) /\ StepSound(p, 2) /\ StepSound(p, 3) /\ StepSound(p, 4)
    BY <1>3 DEF StepSound, OnPart, Refusing, Changing, Writing, Part, CommitPlan,
           Expect, Check, Run
  <2>. QED
    BY <1>3, <2>1, StepsAre, Plan4 DEF Part
<1>. QED
  BY <1>1, <1>2, <1>3 DEF TagPlans

LEMMA ResetPlansAre == ASSUME NEW p \in ResetPlans PROVE PlanSound(p)
<1>1. p = <<Expect("head"), Look, Run("head")>>
  BY DEF ResetPlans
<1>2. StepSound(p, 1) /\ StepSound(p, 2) /\ StepSound(p, 3)
  BY <1>1 DEF StepSound, OnPart, Refusing, Changing, Writing, Part, CommitPlan,
           Expect, Look, Run
<1>. QED
  BY <1>1, <1>2, StepsAre, Plan3 DEF Part

LEMMA DiscardPlansAre == ASSUME NEW p \in DiscardPlans PROVE PlanSound(p)
<1>1. CASE p = <<Check, Expect("index"), Run("tree")>>
  <2>1. StepSound(p, 1) /\ StepSound(p, 2) /\ StepSound(p, 3)
    BY <1>1 DEF StepSound, OnPart, Refusing, Changing, Writing, Part, CommitPlan,
           Check, Expect, Run
  <2>. QED
    BY <1>1, <2>1, StepsAre, Plan3 DEF Part
<1>2. CASE p = <<Check, Run("index")>>
  <2>1. StepSound(p, 1) /\ StepSound(p, 2)
    BY <1>2 DEF StepSound, OnPart, Refusing, Changing, Writing, Part, CommitPlan,
           Check, Run
  <2>. QED
    BY <1>2, <2>1, StepsAre, Plan2 DEF Part
<1>3. CASE p = <<Check, Run("tree")>>
  <2>1. StepSound(p, 1) /\ StepSound(p, 2)
    BY <1>3 DEF StepSound, OnPart, Refusing, Changing, Writing, Part, CommitPlan,
           Check, Run
  <2>. QED
    BY <1>3, <2>1, StepsAre, Plan2 DEF Part
<1>4. CASE p = <<Check, Run("index"), Run("tree"), Run("tree")>>
  <2>1. StepSound(p, 1) /\ StepSound(p, 2) /\ StepSound(p, 3) /\ StepSound(p, 4)
    BY <1>4 DEF StepSound, OnPart, Refusing, Changing, Writing, Part, CommitPlan,
           Check, Run
  <2>. QED
    BY <1>4, <2>1, StepsAre, Plan4 DEF Part
<1>. QED
  BY <1>1, <1>2, <1>3, <1>4 DEF DiscardPlans

LEMMA StashPlansAre == ASSUME NEW p \in StashPlans PROVE PlanSound(p)
<1>1. CASE p = <<Check, Run("stash"), Look>>
  <2>1. StepSound(p, 1) /\ StepSound(p, 2) /\ StepSound(p, 3)
    BY <1>1 DEF StepSound, OnPart, Refusing, Changing, Writing, Part, CommitPlan,
           Check, Run, Look
  <2>. QED
    BY <1>1, <2>1, StepsAre, Plan3 DEF Part
<1>2. CASE p = <<Expect("stash"), Run("stash")>>
  <2>1. StepSound(p, 1) /\ StepSound(p, 2)
    BY <1>2 DEF StepSound, OnPart, Refusing, Changing, Writing, Part, CommitPlan,
           Expect, Run
  <2>. QED
    BY <1>2, <2>1, StepsAre, Plan2 DEF Part
<1>3. CASE p = <<Expect("stash"), RunKept("stash"), Conflicts>>
  <2>1. StepSound(p, 1) /\ StepSound(p, 2) /\ StepSound(p, 3)
    BY <1>3 DEF StepSound, OnPart, Refusing, Changing, Writing, Part, CommitPlan,
           Expect, RunKept, Conflicts
  <2>. QED
    BY <1>3, <2>1, StepsAre, Plan3 DEF Part
<1>. QED
  BY <1>1, <1>2, <1>3 DEF StashPlans

LEMMA IntegratePlansAre == ASSUME NEW p \in IntegratePlans PROVE PlanSound(p)
<1>1. PICK k \in Integration : p = <<Look, Check, Clean, Mark, Begin(k), Finish>>
  BY DEF IntegratePlans
<1>2. /\ StepSound(p, 1) /\ StepSound(p, 2) /\ StepSound(p, 3) /\ StepSound(p, 4)
         /\ StepSound(p, 5) /\ StepSound(p, 6)
  BY <1>1 DEF StepSound, OnPart, Refusing, Changing, Writing, Part, CommitPlan,
           Look, Check, Clean, Mark, Begin, Finish
<1>. QED
  BY <1>1, <1>2, StepsAre, Plan6 DEF Part

LEMMA ContinuePlansAre == ASSUME NEW p \in ContinuePlans PROVE PlanSound(p)
<1>1. CASE p = <<Managed, Check, Proceed, Finish>>
  <2>1. StepSound(p, 1) /\ StepSound(p, 2) /\ StepSound(p, 3) /\ StepSound(p, 4)
    BY <1>1 DEF StepSound, OnPart, Refusing, Changing, Writing, Part, CommitPlan,
           Managed, Check, Proceed, Finish
  <2>. QED
    BY <1>1, <2>1, StepsAre, Plan4 DEF Part
<1>2. CASE p = <<Managed, Abort, Finish>>
  <2>1. StepSound(p, 1) /\ StepSound(p, 2) /\ StepSound(p, 3)
    BY <1>2 DEF StepSound, OnPart, Refusing, Changing, Writing, Part, CommitPlan,
           Managed, Abort, Finish
  <2>. QED
    BY <1>2, <2>1, StepsAre, Plan3 DEF Part
<1>. QED
  BY <1>1, <1>2 DEF ContinuePlans

LEMMA ResolvePlansAre == ASSUME NEW p \in ResolvePlans PROVE PlanSound(p)
<1>1. CASE p = <<Check, Run("index")>>
  <2>1. StepSound(p, 1) /\ StepSound(p, 2)
    BY <1>1 DEF StepSound, OnPart, Refusing, Changing, Writing, Part, CommitPlan,
           Check, Run
  <2>. QED
    BY <1>1, <2>1, StepsAre, Plan2 DEF Part
<1>2. CASE p = <<Check, Run("tree"), Run("index")>>
  <2>1. StepSound(p, 1) /\ StepSound(p, 2) /\ StepSound(p, 3)
    BY <1>2 DEF StepSound, OnPart, Refusing, Changing, Writing, Part, CommitPlan,
           Check, Run
  <2>. QED
    BY <1>2, <2>1, StepsAre, Plan3 DEF Part
<1>. QED
  BY <1>1, <1>2 DEF ResolvePlans

LEMMA WorktreeAddPlansAre == ASSUME NEW p \in WorktreeAddPlans PROVE PlanSound(p)
<1>1. CASE p = <<Check, Check, Absent, MakeTemp, Add, Move>>
  <2>1. /\ StepSound(p, 1) /\ StepSound(p, 2) /\ StepSound(p, 3) /\ StepSound(p, 4)
         /\ StepSound(p, 5) /\ StepSound(p, 6)
    BY <1>1 DEF StepSound, OnPart, Refusing, Changing, Writing, Part, CommitPlan,
           Check, Absent, MakeTemp, Add, Move
  <2>. QED
    BY <1>1, <2>1, StepsAre, Plan6 DEF Part
<1>2. CASE p = <<Check, Check, Absent, MakeTemp, Add, Move, Run("worktree")>>
  <2>1. /\ StepSound(p, 1) /\ StepSound(p, 2) /\ StepSound(p, 3) /\ StepSound(p, 4)
         /\ StepSound(p, 5) /\ StepSound(p, 6) /\ StepSound(p, 7)
    BY <1>2 DEF StepSound, OnPart, Refusing, Changing, Writing, Part, CommitPlan,
           Check, Absent, MakeTemp, Add, Move, Run
  <2>. QED
    BY <1>2, <2>1, StepsAre, Plan7 DEF Part
<1>3. CASE p = <<Check, Expect("refs"), Check, Absent, MakeTemp, Add, Move>>
  <2>1. /\ StepSound(p, 1) /\ StepSound(p, 2) /\ StepSound(p, 3) /\ StepSound(p, 4)
         /\ StepSound(p, 5) /\ StepSound(p, 6) /\ StepSound(p, 7)
    BY <1>3 DEF StepSound, OnPart, Refusing, Changing, Writing, Part, CommitPlan,
           Check, Expect, Absent, MakeTemp, Add, Move
  <2>. QED
    BY <1>3, <2>1, StepsAre, Plan7 DEF Part
<1>4. CASE p = <<Check, Expect("refs"), Check, Absent, MakeTemp, Add, Move, Run("worktree")>>
  <2>1. /\ StepSound(p, 1) /\ StepSound(p, 2) /\ StepSound(p, 3) /\ StepSound(p, 4)
         /\ StepSound(p, 5) /\ StepSound(p, 6) /\ StepSound(p, 7) /\ StepSound(p, 8)
    BY <1>4 DEF StepSound, OnPart, Refusing, Changing, Writing, Part, CommitPlan,
           Check, Expect, Absent, MakeTemp, Add, Move, Run
  <2>. QED
    BY <1>4, <2>1, StepsAre, Plan8 DEF Part
<1>. QED
  BY <1>1, <1>2, <1>3, <1>4 DEF WorktreeAddPlans

LEMMA WorktreePlansAre == ASSUME NEW p \in WorktreePlans PROVE PlanSound(p)
<1>1. p = <<Look, Check, Run("worktree")>>
  BY DEF WorktreePlans
<1>2. StepSound(p, 1) /\ StepSound(p, 2) /\ StepSound(p, 3)
  BY <1>1 DEF StepSound, OnPart, Refusing, Changing, Writing, Part, CommitPlan,
           Look, Check, Run
<1>. QED
  BY <1>1, <1>2, StepsAre, Plan3 DEF Part

LEMMA CreatePlansAre == ASSUME NEW p \in CreatePlans PROVE PlanSound(p)
<1>1. CASE p = <<MakeTemp, Prepare, Sync, Publish>>
  <2>1. StepSound(p, 1) /\ StepSound(p, 2) /\ StepSound(p, 3) /\ StepSound(p, 4)
    BY <1>1 DEF StepSound, OnPart, Refusing, Changing, Writing, Part, CommitPlan,
           MakeTemp, Prepare, Sync, Publish
  <2>. QED
    BY <1>1, <2>1, StepsAre, Plan4 DEF Part
<1>2. CASE p = <<MakeTemp, Check, Prepare, Look, Sync, Publish>>
  <2>1. /\ StepSound(p, 1) /\ StepSound(p, 2) /\ StepSound(p, 3) /\ StepSound(p, 4)
         /\ StepSound(p, 5) /\ StepSound(p, 6)
    BY <1>2 DEF StepSound, OnPart, Refusing, Changing, Writing, Part, CommitPlan,
           MakeTemp, Check, Prepare, Look, Sync, Publish
  <2>. QED
    BY <1>2, <2>1, StepsAre, Plan6 DEF Part
<1>. QED
  BY <1>1, <1>2 DEF CreatePlans
LEMMA PlansAre == ASSUME NEW k \in Action, NEW p \in Plans[k] PROVE PlanSound(p)
<1>1. \/ p \in StagePlans \/ p \in CommitPlans \/ p \in AmendPlans \/ p \in BranchPlans \/ p \in UpstreamPlans \/ p \in CheckoutPlans \/ p \in RemotePlans \/ p \in FetchPlans
      \/ p \in ForwardPlans \/ p \in PushPlans \/ p \in PushLeasePlans \/ p \in DeleteRemotePlans \/ p \in TagPlans \/ p \in ResetPlans \/ p \in DiscardPlans \/ p \in StashPlans
      \/ p \in IntegratePlans \/ p \in ContinuePlans \/ p \in ResolvePlans \/ p \in WorktreeAddPlans \/ p \in WorktreePlans \/ p \in CreatePlans
  BY DEF Action, Plans
<1>. QED
  BY <1>1, StagePlansAre, CommitPlansAre, AmendPlansAre, BranchPlansAre, UpstreamPlansAre, CheckoutPlansAre, RemotePlansAre, FetchPlansAre, ForwardPlansAre, PushPlansAre, PushLeasePlansAre, DeleteRemotePlansAre, TagPlansAre, ResetPlansAre, DiscardPlansAre, StashPlansAre, IntegratePlansAre, ContinuePlansAre, ResolvePlansAre, WorktreeAddPlansAre, WorktreePlansAre, CreatePlansAre
-----------------------------------------------------------------------------
(* The invariant *)

\* What TypeOK says of the repository and the histories.
Pieces ==
  /\ part \in [Part -> {"seen", "ours", "other"}]
  /\ integ = NoIntegration \/ integ \in [by : {"ours", "other"}, kind : Integration]
  /\ marker \in BOOLEAN /\ killed \in BOOLEAN
  /\ dest \in {"absent", "ours", "other"}
  /\ result \in {"none", "merge", "ok", "error", "unknown"}
  /\ replaced \in {"none", "absent", "seen", "other"}
  /\ others \in 0..MaxOther

\* The step it is at; a write of p is still to come; the write of step i has happened;
\* the first n steps' writes hold, if nobody but this action is to write there again;
\* nothing was changed by them; a merge was in progress before the commit.
Doing == plan[at][1]
Later(p, n) == \E j \in (n + 1)..Len(plan) : plan[j] \in {Leased(p), Run(p)}
Wrought(i, r) == plan[i][1] \in {"run", "leased", "commit", "add"} \/ (plan[i][1] = "kept" /\ r = "ok")
HeldTo(n, pt, r) == \A i \in 1..n : Wrought(i, r) => pt[plan[i][2]] = "ours" \/ Later(plan[i][2], n)
Quiet(n) == \A j \in 1..n : plan[j][1] \notin Changing
NothingTo(n, pt, d) == Quiet(n) => d # "ours" /\ \A p \in Part : pt[p] # "ours"
MergeTo(n, r, ig) ==
  r = "merge" => /\ plan = CommitPlan /\ n >= 3
                 /\ n = 3 /\ ig.by = "ours" => ig.kind = "merge"
                 /\ n > 3 => ig.by # "ours"
\* While the action runs.
Underway ==
  /\ outcome = [state |-> "running", why |-> "none"]
  /\ HeldTo(at - 1, part, result)
  /\ NothingTo(at - 1, part, dest)
  /\ killed => result = "unknown" /\ Doing \in {"conflicts", "finish"}
  /\ Doing \in {"conflicts", "finish"} => result \in Ending
  /\ Doing = "begin" => marker
  /\ temp # "lost" /\ (temp = "holds" => Doing = "move")
  /\ MergeTo(at, result, integ)
ActionInv == ActionSound /\ (at # 0 => Underway)

LEMMA Planned ==
  ASSUME ActionInv, at # 0
  PROVE  /\ plan \in Seq(Steps) /\ at \in 1..Len(plan) /\ Len(plan) \in Nat
         /\ \A i \in 1..Len(plan) : StepSound(plan, i)
         /\ plan[at] \in Steps
<1>1. TypeOK
  BY DEF ActionInv, ActionSound
<1>2. PICK k \in Kind : plan \in Plans[k]
  BY <1>1, at # 0 DEF TypeOK
<1>3. PlanSound(plan)
  BY <1>2, PlansAre, KindAssumption
<1>. QED
  BY <1>1, <1>3, at # 0 DEF TypeOK, PlanSound

LEMMA TypedNext ==
  ASSUME TypeOK, UNCHANGED plan, at' \in 0..Len(plan), Pieces',
         temp' \in {"none", "empty", "holds", "made", "kept", "lost"},
         outcome' \in [state : {"none", "running", "succeeded", "needs_resolution", "failed", "outcome_unknown"},
                       why : {"none", "refused", "read", "git", "unknown"}]
  PROVE  TypeOK'
  BY DEF TypeOK, Pieces

\* The writes so far still hold after a step that writes no more than its own part.
LEMMA HeldNext ==
  ASSUME ActionInv, at # 0, NEW pt, NEW r,
         pt = part \/ pt = Wrote(On), Wrought(at, r) => pt[On] = "ours" /\ On \in Part,
         r = result \/ Doing # "conflicts"
  PROVE  HeldTo(at, pt, r)
<1>1. /\ at \in 1..Len(plan) /\ Len(plan) \in Nat
      /\ \A i \in 1..Len(plan) : StepSound(plan, i)
  BY Planned
<1>2. HeldTo(at - 1, part, result) /\ part \in [Part -> {"seen", "ours", "other"}]
  BY DEF ActionInv, Underway, ActionSound, TypeOK
<1>. SUFFICES ASSUME NEW i \in 1..at, Wrought(i, r)
              PROVE  pt[plan[i][2]] = "ours" \/ Later(plan[i][2], at)
  BY DEF HeldTo
<1>3. CASE i = at
  BY <1>3 DEF On
<1>4. CASE i # at
  <2>1. i \in 1..(at - 1) /\ i \in 1..Len(plan)
    BY <1>1, <1>4
  <2>2. plan[i][2] \in Part
    BY <1>1, <2>1 DEF StepSound, Wrought, OnPart
  <2>3. Wrought(i, result)
    <3>1. CASE plan[i][1] = "kept"
      <4>1. plan[i + 1][1] = "conflicts" /\ i < Len(plan)
        BY <1>1, <2>1, <3>1 DEF StepSound
      <4>2. i + 1 \in 1..Len(plan)
        BY <4>1, <2>1, <1>1
      <4>3. i + 1 = Len(plan)
        BY <1>1, <4>1, <4>2 DEF StepSound
      <4>4. at = i + 1
        BY <4>3, <2>1, <1>1
      <4>. QED
        BY <4>1, <4>4 DEF Doing
    <3>. QED
      BY <3>1 DEF Wrought
  <2>4. part[plan[i][2]] = "ours" => pt[plan[i][2]] = "ours"
    BY <1>2, <2>2 DEF Wrote
  <2>5. part[plan[i][2]] = "ours" \/ Later(plan[i][2], at - 1)
    BY <1>2, <2>1, <2>3 DEF HeldTo
  <2>6. ASSUME NEW j \in (at - 1 + 1)..Len(plan), plan[j] \in {Leased(plan[i][2]), Run(plan[i][2])}, j = at
        PROVE  pt[plan[i][2]] = "ours"
    <3>1. On = plan[i][2] /\ Wrought(at, r)
      BY <2>6 DEF On, Leased, Run, Wrought
    <3>. QED
      BY <3>1
  <2>7. ASSUME NEW j \in (at - 1 + 1)..Len(plan), plan[j] \in {Leased(plan[i][2]), Run(plan[i][2])}, j # at
        PROVE  Later(plan[i][2], at)
    <3>1. j \in (at + 1)..Len(plan)
      BY <1>1, <2>7
    <3>. QED
      BY <2>7, <3>1 DEF Later
  <2>. QED
    BY <2>4, <2>5, <2>6, <2>7 DEF Later
<1>. QED
  BY <1>3, <1>4

LEMMA NothingNext ==
  ASSUME ActionInv, at # 0, NEW pt, NEW d,
         pt = part \/ Doing \in Changing, d = dest \/ Doing \in Changing
  PROVE  NothingTo(at, pt, d)
<1>1. at \in 1..Len(plan) /\ Len(plan) \in Nat
  BY Planned
<1>. SUFFICES ASSUME Quiet(at)
              PROVE  d # "ours" /\ \A p \in Part : pt[p] # "ours"
  BY DEF NothingTo
<1>2. Doing \notin Changing /\ Quiet(at - 1)
  BY <1>1 DEF Quiet, Doing
<1>. QED
  BY <1>2 DEF ActionInv, Underway, NothingTo

\* Only between a command and the step that judges it has one been killed.
LEMMA NotKilled ==
  ASSUME ActionInv, at # 0, Doing \notin {"conflicts", "finish"}
  PROVE  ~killed
  BY DEF ActionInv, Underway

LEMMA Drops ==
  ASSUME NEW t \in {"none", "empty", "made", "kept"}
  PROVE  DropTemp(t) \in {"none", "kept"}
  BY DEF DropTemp

\* A step ends the action, not with success.
LEMMA Fails ==
  ASSUME ActionInv, at # 0, NEW state \in {"failed", "outcome_unknown", "needs_resolution"},
         NEW why \in {"none", "refused", "read", "git", "unknown"}, NEW t \in {"none", "empty", "made", "kept"},
         Return(state, why, t), UNCHANGED plan, Pieces', LeaseHonored', OursIsManaged',
         why = "refused" => UNCHANGED <<part, dest>> /\ Quiet(at - 1),
         state = "failed" /\ killed' => why = "read"
  PROVE  ActionInv'
<1>1. /\ at' = 0 /\ temp' \in {"none", "kept"}
      /\ outcome' = [state |-> state, why |-> why]
  BY Drops DEF Return
<1>2. TypeOK' /\ WorktreeKept'
  <2>1. at' \in 0..Len(plan)
    BY <1>1, Planned
  <2>. QED
    BY <1>1, <2>1, TypedNext DEF ActionInv, ActionSound, WorktreeKept
<1>3. HonestVerdict'
  <2>1. outcome'.state = state /\ outcome'.why = why
    BY <1>1
  <2>2. why = "refused" => dest' # "ours" /\ \A p \in Part : part'[p] # "ours"
    BY DEF ActionInv, Underway, NothingTo
  <2>. QED
    BY <2>1, <2>2 DEF HonestVerdict
<1>. QED
  BY <1>1, <1>2, <1>3 DEF ActionInv, ActionSound

\* A step that comes before any write can refuse the action.
LEMMA QuietBefore ==
  ASSUME ActionInv, at # 0, Doing \in Refusing
  PROVE  Quiet(at - 1)
<1>1. at \in 1..Len(plan) /\ StepSound(plan, at)
  BY Planned
<1>. QED
  BY <1>1 DEF StepSound, Quiet, Doing

LEMMA TempOf ==
  ASSUME ActionInv, at # 0, Doing # "move"
  PROVE  temp \in {"none", "empty", "made", "kept"}
  BY DEF ActionInv, ActionSound, TypeOK, Underway

LEMMA Refuses ==
  ASSUME ActionInv, at # 0, Refuse, Doing \in Refusing,
         UNCHANGED <<plan, part, dest, killed>>, Pieces', LeaseHonored', OursIsManaged'
  PROVE  ActionInv'
<1>1. Doing \notin {"conflicts", "finish", "move"}
  BY DEF Refusing
<1>2. ~killed /\ temp \in {"none", "empty", "made", "kept"} /\ Quiet(at - 1)
  BY <1>1, NotKilled, TempOf, QuietBefore
<1>3. Return("failed", "refused", temp)
  BY DEF Refuse
<1>. QED
  BY <1>2, <1>3, Fails

LEMMA FailsUnread ==
  ASSUME ActionInv, at # 0, Unread, Doing # "move",
         UNCHANGED <<plan, part, dest, killed>>, Pieces', LeaseHonored', OursIsManaged'
  PROVE  ActionInv'
<1>1. /\ at \in 1..Len(plan) /\ Len(plan) \in Nat
      /\ \A i \in 1..Len(plan) : StepSound(plan, i)
  BY Planned
<1>2. temp \in {"none", "empty", "made", "kept"}
  BY TempOf
<1>3. CASE HasWritten
  <2>1. Return("failed", "read", temp)
    BY <1>3 DEF Unread
  <2>. QED
    BY <1>2, <2>1, Fails
<1>4. CASE ~HasWritten
  <2>1. Return("failed", "refused", temp)
    BY <1>4 DEF Unread
  <2>2. Quiet(at - 1)
    <3>. SUFFICES ASSUME NEW j \in 1..(at - 1), plan[j][1] = "publish" PROVE FALSE
      BY <1>4 DEF HasWritten, Quiet, Changing
    <3>1. j \in 1..Len(plan) /\ j < Len(plan)
      BY <1>1
    <3>. QED
      BY <3>1, <1>1 DEF StepSound
  <2>3. ~killed
    <3>1. CASE Doing \in {"conflicts", "finish"}
      <4>1. at > 1 /\ plan[at - 1][1] \in Writing
        BY <1>1, <3>1 DEF StepSound, Doing, Writing
      <4>2. at - 1 \in 1..(at - 1)
        BY <4>1, <1>1
      <4>. QED
        BY <1>4, <4>1, <4>2 DEF HasWritten
    <3>. QED
      BY <3>1, NotKilled
  <2>. QED
    BY <1>2, <2>1, <2>2, <2>3, Fails
<1>. QED
  BY <1>3, <1>4

\* A step succeeds: the action goes on with the next, or has succeeded.
LEMMA Advances ==
  ASSUME ActionInv, at # 0, NEW t \in {"none", "empty", "holds", "made", "kept"}, Advance(t),
         UNCHANGED plan, Pieces', LeaseHonored', OursIsManaged',
         t = "holds" => Doing = "add",
         HeldTo(at, part', result'), NothingTo(at, part', dest'),
         killed' => result' = "unknown" /\ Doing \in {"kept", "begin", "proceed", "abort"},
         Doing \in {"kept", "begin", "proceed", "abort"} => result' \in Ending,
         Doing = "mark" => marker',
         Doing = "conflicts" => result' = "ok",
         MergeTo(at + 1, result', integ')
  PROVE  ActionInv'
<1>1. /\ at \in 1..Len(plan) /\ Len(plan) \in Nat
      /\ \A i \in 1..Len(plan) : StepSound(plan, i)
  BY Planned
<1>2. StepSound(plan, at)
  BY <1>1
<1>3. CASE at = Len(plan)
  <2>1. Doing \notin {"kept", "begin", "proceed", "abort", "add"}
    BY <1>1, <1>2, <1>3 DEF StepSound, Doing
  <2>2. t \in {"none", "empty", "made", "kept"} /\ ~killed'
    BY <2>1
  <2>3. /\ at' = 0 /\ temp' \in {"none", "kept"}
        /\ outcome' = [state |-> "succeeded", why |-> "none"]
    BY <1>3, <2>2, Drops DEF Advance, Return
  <2>4. TypeOK' /\ WorktreeKept'
    <3>1. at' \in 0..Len(plan)
      BY <2>3, <1>1
    <3>2. outcome' \in [state : {"none", "running", "succeeded", "needs_resolution", "failed", "outcome_unknown"},
                       why : {"none", "refused", "read", "git", "unknown"}]
      BY <2>3
    <3>. QED
      BY <2>3, <3>1, <3>2, TypedNext DEF ActionInv, ActionSound, WorktreeKept
  <2>5. \A p \in Written' : part'[p] = "ours"
    <3>. SUFFICES ASSUME NEW i \in DOMAIN plan, plan[i][1] \in {"run", "leased", "kept", "commit", "add"}
                  PROVE  part'[plan[i][2]] = "ours"
      BY DEF Written
    <3>1. i \in 1..Len(plan)
      BY Planned
    <3>2. ASSUME plan[i][1] = "kept" PROVE result' = "ok"
      <4>1. i + 1 = Len(plan) /\ plan[i + 1][1] = "conflicts"
        BY <1>1, <3>1, <3>2 DEF StepSound
      <4>. QED
        BY <4>1, <1>3 DEF Doing
    <3>3. Wrought(i, result')
      BY <3>2 DEF Wrought
    <3>4. ~Later(plan[i][2], at)
      BY <1>1, <1>3 DEF Later
    <3>. QED
      BY <1>3, <3>1, <3>3, <3>4 DEF HeldTo
  <2>6. HonestVerdict'
    <3>1. outcome'.state = "succeeded" /\ outcome'.why = "none"
      BY <2>3
    <3>. QED
      BY <2>2, <2>5, <3>1 DEF HonestVerdict
  <2>. QED
    BY <2>3, <2>4, <2>6 DEF ActionInv, ActionSound
<1>4. CASE at # Len(plan)
  <2>1. at' = at + 1 /\ temp' = t /\ outcome' = [state |-> "running", why |-> "none"]
    BY <1>4 DEF Advance, ActionInv, Underway
  <2>2. at' \in 1..Len(plan) /\ at' - 1 = at /\ at' # 0
    BY <1>1, <1>4, <2>1
  <2>3. TypeOK' /\ WorktreeKept'
    <3>2. outcome' \in [state : {"none", "running", "succeeded", "needs_resolution", "failed", "outcome_unknown"},
                       why : {"none", "refused", "read", "git", "unknown"}]
      BY <2>1
    <3>. QED
      BY <2>1, <2>2, <3>2, TypedNext DEF ActionInv, ActionSound, WorktreeKept
  <2>4. HonestVerdict'
    <3>1. outcome'.state = "running" /\ outcome'.why = "none"
      BY <2>1
    <3>. QED
      BY <3>1, <2>2 DEF HonestVerdict
  <2>5. StepSound(plan, at')
    <3>. HIDE DEF StepSound
    <3>. QED
      BY <1>1, <2>2
  <2>6. /\ Doing \in {"kept", "begin", "proceed", "abort"} => Doing' \in {"conflicts", "finish"}
        /\ Doing' \in {"conflicts", "finish"} => Doing \in {"kept", "begin", "proceed", "abort"}
        /\ Doing' = "begin" => Doing = "mark"
        /\ Doing = "add" => Doing' = "move"
    <3>1. Doing = plan[at][1] /\ Doing' = plan[at + 1][1] /\ Doing = plan[at' - 1][1] /\ Doing' = plan[at'][1]
      BY <2>1, <2>2 DEF Doing
    <3>2. /\ Doing \in {"kept", "begin", "proceed", "abort"} => Doing' \in {"conflicts", "finish"}
          /\ Doing = "add" => Doing' = "move"
      BY <1>2, <3>1 DEF StepSound
    <3>3. /\ Doing' \in {"conflicts", "finish"} => Doing \in {"kept", "begin", "proceed", "abort"}
          /\ Doing' = "begin" => Doing = "mark"
      BY <2>5, <3>1 DEF StepSound
    <3>. QED
      BY <3>2, <3>3
  <2>7. HeldTo(at - 1, part, result)' /\ NothingTo(at - 1, part, dest)'
    <3>1. HeldTo(at - 1, part, result)'
      BY <2>2 DEF HeldTo, Wrought, Later
    <3>. QED
      BY <3>1, <2>2 DEF NothingTo, Quiet
  <2>8. MergeTo(at, result, integ)'
    BY <2>1 DEF MergeTo
  <2>9. Underway'
    BY <2>1, <2>6, <2>7, <2>8 DEF Underway
  <2>. QED
    BY <2>3, <2>4, <2>9 DEF ActionInv, ActionSound
<1>. QED
  BY <1>3, <1>4

LEMMA PiecesNow ==
  ASSUME ActionInv
  PROVE  Pieces /\ LeaseHonored /\ OursIsManaged /\ TypeOK
  BY DEF ActionInv, ActionSound, TypeOK, Pieces

LEMMA MergeNext ==
  ASSUME ActionInv, at # 0, Doing # "commit", NEW r, r = "merge" => result = "merge",
         NEW ig, ig = integ \/ ig.by # "ours"
  PROVE  MergeTo(at + 1, r, ig)
<1>1. at \in 1..Len(plan) /\ MergeTo(at, result, integ)
  BY Planned DEF ActionInv, Underway
<1>2. plan = CommitPlan => at # 3
  BY DEF CommitPlan, Commit, Doing
<1>. QED
  BY <1>1, <1>2 DEF MergeTo

-----------------------------------------------------------------------------
(* Steps that write nothing *)

\* The steps that write nothing and keep nothing.
Reading == {"check", "look", "expect", "clean", "managed", "absent", "temp", "prepare", "sync"}

LEMMA Passes ==
  ASSUME ActionInv, at # 0, NEW t \in {"none", "empty", "made", "kept"}, Advance(t), Doing \in Reading,
         UNCHANGED <<plan, Repository, result, killed, replaced, others>>
  PROVE  ActionInv'
<1>1. /\ Doing \notin {"kept", "begin", "proceed", "abort", "mark", "conflicts", "finish", "commit"}
      /\ ~Wrought(at, result)
  BY DEF Reading, Wrought, Doing
<1>2. Pieces /\ LeaseHonored /\ OursIsManaged
  BY PiecesNow
<1>3. Pieces' /\ LeaseHonored' /\ OursIsManaged'
  BY <1>2 DEF Pieces, LeaseHonored, OursIsManaged, Repository
<1>4. HeldTo(at, part, result) /\ NothingTo(at, part, dest) /\ MergeTo(at + 1, result, integ)
  BY <1>1, HeldNext, NothingNext, MergeNext
<1>5. HeldTo(at, part', result') /\ NothingTo(at, part', dest') /\ MergeTo(at + 1, result', integ')
  BY <1>4 DEF Repository
<1>6. ~killed'
  BY <1>1, NotKilled
<1>. QED
  BY <1>1, <1>3, <1>5, <1>6, Advances

LEMMA DoingIs == ASSUME NEW v, At(v) PROVE at # 0 /\ Doing = v
  BY DEF At, Doing

LEMMA StillPieces ==
  ASSUME ActionInv, UNCHANGED <<Repository, result, killed, replaced, others>>
  PROVE  Pieces' /\ LeaseHonored' /\ OursIsManaged'
  BY PiecesNow DEF Pieces, LeaseHonored, OursIsManaged, Repository

\* Checks, comparisons and the other steps that let the action go on or refuse it.
LEMMA PassOrRefuse ==
  ASSUME ActionInv, at # 0, Doing \in Reading \cap Refusing,
         NEW t \in {"empty", "kept", "made", "none"}, Advance(t) \/ Refuse,
         UNCHANGED <<plan, Repository, result, killed, replaced, others>>
  PROVE  ActionInv'
<1>1. CASE Advance(t)
  BY <1>1, Passes
<1>2. CASE Refuse
  BY <1>2, StillPieces, Refuses DEF Repository
<1>. QED
  BY <1>1, <1>2

LEMMA TempStays ==
  ASSUME ActionInv, at # 0, Doing # "move"
  PROVE  temp \in {"empty", "kept", "made", "none"}
  BY TempOf

LEMMA CheckSound == ASSUME ActionInv, CheckStep PROVE ActionInv'
<1>1. at # 0 /\ Doing = "check" /\ Doing \in Reading \cap Refusing
  BY DoingIs DEF CheckStep, Reading, Refusing
<1>. QED
  BY <1>1, TempStays, PassOrRefuse DEF CheckStep

LEMMA CompareSound == ASSUME ActionInv, NEW P, Compare(P) PROVE ActionInv'
<1>1. at # 0 /\ Doing = "expect" /\ Doing \in Reading \cap Refusing
  BY DoingIs DEF Compare, Reading, Refusing
<1>. QED
  BY <1>1, TempStays, PassOrRefuse DEF Compare

LEMMA CleanSound == ASSUME ActionInv, CleanStep PROVE ActionInv'
<1>1. at # 0 /\ Doing = "clean" /\ Doing \in Reading \cap Refusing
  BY DoingIs DEF CleanStep, Reading, Refusing
<1>. QED
  BY <1>1, TempStays, PassOrRefuse DEF CleanStep

LEMMA ManagedSound == ASSUME ActionInv, ManagedStep PROVE ActionInv'
<1>1. at # 0 /\ Doing = "managed" /\ Doing \in Reading \cap Refusing
  BY DoingIs DEF ManagedStep, Reading, Refusing
<1>. QED
  BY <1>1, TempStays, PassOrRefuse DEF ManagedStep

LEMMA AbsentSound == ASSUME ActionInv, AbsentStep PROVE ActionInv'
<1>1. at # 0 /\ Doing = "absent" /\ Doing \in Reading \cap Refusing
  BY DoingIs DEF AbsentStep, Reading, Refusing
<1>. QED
  BY <1>1, TempStays, PassOrRefuse DEF AbsentStep

LEMMA SyncSound == ASSUME ActionInv, SyncStep PROVE ActionInv'
<1>1. at # 0 /\ Doing = "sync" /\ Doing \in Reading \cap Refusing
  BY DoingIs DEF SyncStep, Reading, Refusing
<1>. QED
  BY <1>1, TempStays, PassOrRefuse DEF SyncStep

LEMMA MakeTempSound == ASSUME ActionInv, MakeTempStep PROVE ActionInv'
<1>1. at # 0 /\ Doing = "temp" /\ Doing \in Reading \cap Refusing
  BY DoingIs DEF MakeTempStep, Reading, Refusing
<1>. QED
  BY <1>1, PassOrRefuse DEF MakeTempStep

LEMMA LookSound == ASSUME ActionInv, LookStep PROVE ActionInv'
<1>1. at # 0 /\ Doing = "look" /\ Doing \in Reading
  BY DoingIs DEF LookStep, Reading
<1>2. CASE Advance(temp)
  BY <1>1, <1>2, TempOf, Passes DEF LookStep
<1>3. CASE Unread
  BY <1>1, <1>3, StillPieces, FailsUnread DEF LookStep, Repository
<1>. QED
  BY <1>2, <1>3 DEF LookStep

LEMMA PrepareSound == ASSUME ActionInv, PrepareStep PROVE ActionInv'
<1>1. at # 0 /\ Doing = "prepare" /\ Doing \in Reading
  BY DoingIs DEF PrepareStep, Reading
<1>2. CASE Advance("made")
  BY <1>1, <1>2, Passes DEF PrepareStep
<1>3. CASE Rejected
  <2>1. ~killed' /\ Return("failed", "git", temp)
    BY <1>1, <1>3, NotKilled DEF PrepareStep, Rejected
  <2>. QED
    BY <1>1, <2>1, TempOf, StillPieces, Fails DEF PrepareStep
<1>. QED
  BY <1>2, <1>3 DEF PrepareStep

LEMMA MergingSound == ASSUME ActionInv, MergingStep PROVE ActionInv'
<1>1. at # 0 /\ Doing = "merging" /\ UNCHANGED <<plan, part, integ, marker, dest, killed, replaced, others>>
  BY DoingIs DEF MergingStep, Repository
<1>2. CASE Unread /\ UNCHANGED result
  BY <1>1, <1>2, StillPieces, FailsUnread DEF Repository
<1>3. CASE Advance(temp) /\ result' = IF integ.kind = "merge" THEN "merge" ELSE "none"
  <2>1. Pieces' /\ LeaseHonored' /\ OursIsManaged'
    BY <1>1, <1>3, PiecesNow DEF Pieces, LeaseHonored, OursIsManaged
  <2>2. ~Wrought(at, result') /\ ~killed'
    BY <1>1, NotKilled DEF Wrought, Doing
  <2>3. HeldTo(at, part, result') /\ NothingTo(at, part, dest)
    BY <1>1, <2>2, HeldNext, NothingNext
  <2>4. at \in 1..Len(plan) /\ StepSound(plan, at)
    BY <1>1, Planned
  <2>5. plan = CommitPlan
    BY <1>1, <2>4 DEF StepSound, Doing
  <2>6. at = 2
    BY <1>1, <2>4, <2>5 DEF CommitPlan, Check, Merging, Commit, Look, Unmark, Doing
  <2>7. MergeTo(at + 1, result', integ')
    BY <1>1, <1>3, <2>5, <2>6 DEF MergeTo
  <2>. QED
    BY <1>1, <1>3, <2>1, <2>2, <2>3, <2>7, TempOf, Advances
<1>. QED
  BY <1>2, <1>3 DEF MergingStep

\* The place a step is at, and what the plan says of it.
LEMMA Here ==
  ASSUME ActionInv, at # 0
  PROVE  /\ at \in 1..Len(plan) /\ Len(plan) \in Nat
         /\ StepSound(plan, at) /\ Doing = plan[at][1] /\ On = plan[at][2]
  BY Planned DEF Doing, On

LEMMA OnPartIs ==
  ASSUME ActionInv, at # 0, Doing \in OnPart
  PROVE  On \in Part
  BY Here DEF StepSound

\* Writing keeps the pieces what they are.
LEMMA WroteIs ==
  ASSUME ActionInv, at # 0, On \in Part
  PROVE  Wrote(On) \in [Part -> {"seen", "ours", "other"}] /\ Wrote(On)[On] = "ours"
  BY PiecesNow DEF Pieces, Wrote

-----------------------------------------------------------------------------
(* Git commands that write *)

LEMMA RunSound == ASSUME ActionInv, RunStep PROVE ActionInv'
<1>1. /\ at # 0 /\ Doing = "run" /\ part' \in {part, Wrote(On)}
      /\ UNCHANGED <<plan, integ, marker, dest, result, replaced, others>>
  BY DoingIs DEF RunStep
<1>2. On \in Part /\ ~killed
  BY <1>1, OnPartIs, NotKilled DEF OnPart
<1>3. killed' \in BOOLEAN
  BY <1>2, PiecesNow DEF RunStep, Pieces
<1>4. Pieces' /\ LeaseHonored' /\ OursIsManaged'
  BY <1>1, <1>2, <1>3, PiecesNow, WroteIs DEF Pieces, LeaseHonored, OursIsManaged
<1>5. temp \in {"none", "empty", "made", "kept"}
  BY <1>1, TempOf
<1>6. CASE part' = Wrote(On) /\ Advance(temp) /\ UNCHANGED killed
  <2>1. HeldTo(at, part', result) /\ NothingTo(at, part', dest)
    BY <1>1, <1>2, <1>6, WroteIs, HeldNext, NothingNext DEF Changing, Writing
  <2>2. MergeTo(at + 1, result, integ)
    BY <1>1, MergeNext
  <2>. QED
    BY <1>1, <1>2, <1>4, <1>5, <1>6, <2>1, <2>2, Advances
<1>7. CASE Rejected /\ UNCHANGED killed
  BY <1>1, <1>2, <1>4, <1>5, <1>7, Fails DEF Rejected
<1>8. CASE Unknown
  BY <1>1, <1>2, <1>4, <1>5, <1>8, Fails DEF Unknown
<1>. QED
  BY <1>6, <1>7, <1>8 DEF RunStep

LEMMA LeasedSound == ASSUME ActionInv, LeasedStep PROVE ActionInv'
<1>1. /\ at # 0 /\ Doing = "leased"
      /\ \/ part[On] = "seen" /\ part' = Wrote(On) /\ replaced' = part[On]
         \/ UNCHANGED <<part, replaced>>
      /\ UNCHANGED <<plan, integ, marker, dest, result, others>>
  BY DoingIs DEF LeasedStep
<1>2. On \in Part /\ ~killed
  BY <1>1, OnPartIs, NotKilled DEF OnPart
<1>3. killed' \in BOOLEAN
  BY <1>2, PiecesNow DEF LeasedStep, Pieces
<1>4. Pieces' /\ LeaseHonored' /\ OursIsManaged'
  BY <1>1, <1>2, <1>3, PiecesNow, WroteIs DEF Pieces, LeaseHonored, OursIsManaged
<1>5. temp \in {"none", "empty", "made", "kept"}
  BY <1>1, TempOf
<1>6. CASE part' = Wrote(On) /\ Advance(temp) /\ UNCHANGED killed
  <2>1. HeldTo(at, part', result) /\ NothingTo(at, part', dest)
    BY <1>1, <1>2, <1>6, WroteIs, HeldNext, NothingNext DEF Changing, Writing
  <2>2. MergeTo(at + 1, result, integ)
    BY <1>1, MergeNext
  <2>. QED
    BY <1>1, <1>2, <1>4, <1>5, <1>6, <2>1, <2>2, Advances
<1>7. CASE Rejected /\ UNCHANGED killed
  BY <1>1, <1>2, <1>4, <1>5, <1>7, Fails DEF Rejected
<1>8. CASE Unknown
  BY <1>1, <1>2, <1>4, <1>5, <1>8, Fails DEF Unknown
<1>. QED
  BY <1>6, <1>7, <1>8 DEF LeasedStep

LEMMA KeptSound == ASSUME ActionInv, KeptStep PROVE ActionInv'
<1>1. /\ at # 0 /\ Doing = "kept" /\ part' \in {part, Wrote(On)} /\ Advance(temp)
      /\ result' \in Ending /\ (result' = "ok" => part' = Wrote(On))
      /\ UNCHANGED <<plan, integ, marker, dest, replaced, others>>
  BY DoingIs DEF KeptStep, Ending
<1>2. On \in Part /\ ~killed
  BY <1>1, OnPartIs, NotKilled DEF OnPart
<1>3. killed' \in BOOLEAN /\ (killed' => result' = "unknown")
  <2>1. CASE UNCHANGED killed
    BY <1>2, <2>1, PiecesNow DEF Pieces
  <2>2. CASE result' = "unknown" /\ killed' = TRUE
    BY <2>2
  <2>. QED
    BY <2>1, <2>2 DEF KeptStep
<1>4. Pieces' /\ LeaseHonored' /\ OursIsManaged'
  BY <1>1, <1>2, <1>3, PiecesNow, WroteIs DEF Pieces, LeaseHonored, OursIsManaged, Ending
<1>5. temp \in {"none", "empty", "made", "kept"}
  BY <1>1, TempOf
<1>6. Wrought(at, result') => part'[On] = "ours"
  BY <1>1, <1>2, WroteIs DEF Wrought, Doing
<1>7. HeldTo(at, part', result') /\ NothingTo(at, part', dest)
  BY <1>1, <1>2, <1>6, HeldNext, NothingNext DEF Changing, Writing
<1>8. MergeTo(at + 1, result', integ)
  BY <1>1, MergeNext DEF Ending
<1>. QED
  BY <1>1, <1>3, <1>4, <1>5, <1>7, <1>8, Advances

LEMMA ConflictsSound == ASSUME ActionInv, ConflictsStep PROVE ActionInv'
<1>1. /\ at # 0 /\ Doing = "conflicts"
      /\ UNCHANGED <<plan, Repository, result, killed, replaced, others>>
  BY DoingIs DEF ConflictsStep
<1>2. temp \in {"none", "empty", "made", "kept"} /\ Pieces' /\ LeaseHonored' /\ OursIsManaged'
  BY <1>1, TempOf, StillPieces
<1>3. result \in Ending /\ (killed => result = "unknown")
  BY <1>1 DEF ActionInv, Underway
<1>4. CASE Resolve
  BY <1>1, <1>2, <1>4, Fails DEF Resolve
<1>5. CASE Unread
  BY <1>1, <1>2, <1>5, FailsUnread DEF Repository
<1>6. CASE result = "ok" /\ Advance(temp)
  <2>1. HeldTo(at, part, result) /\ NothingTo(at, part, dest) /\ MergeTo(at + 1, result, integ)
    BY <1>1, HeldNext, NothingNext, MergeNext DEF Wrought, Doing
  <2>2. HeldTo(at, part', result') /\ NothingTo(at, part', dest') /\ MergeTo(at + 1, result', integ')
    BY <1>1, <2>1 DEF Repository
  <2>. QED
    BY <1>1, <1>2, <1>3, <1>6, <2>2, Advances
<1>7. CASE result = "error" /\ Rejected
  BY <1>1, <1>2, <1>3, <1>7, Fails DEF Rejected
<1>8. CASE result = "unknown" /\ Unknown
  BY <1>1, <1>2, <1>8, Fails DEF Unknown
<1>. QED
  BY <1>3, <1>4, <1>5, <1>6, <1>7, <1>8 DEF ConflictsStep, Judge, Ending

\* The step of a commit: the third of its plan.
LEMMA CommitIs ==
  ASSUME ActionInv, at # 0, Doing \in {"commit", "unmark"}
  PROVE  plan = CommitPlan /\ at = IF Doing = "commit" THEN 3 ELSE 5
<1>1. at \in 1..Len(plan) /\ plan = CommitPlan
  BY Here DEF StepSound
<1>2. at \in 1..5 /\ Doing = CommitPlan[at][1]
  BY <1>1 DEF CommitPlan, Doing
<1>. QED
  BY <1>1, <1>2 DEF CommitPlan, Check, Merging, Commit, Look, Unmark

LEMMA CommitSound == ASSUME ActionInv, CommitStep PROVE ActionInv'
<1>1. /\ at # 0 /\ Doing = "commit"
      /\ UNCHANGED <<plan, marker, dest, result, replaced, others>>
      /\ \/ part' = Wrote("head") /\ integ' = IF integ.kind \in {"merge", "pick"} THEN NoIntegration ELSE integ
         \/ UNCHANGED <<part, integ>>
  BY DoingIs DEF CommitStep
<1>2. plan = CommitPlan /\ at = 3 /\ ~killed
  BY <1>1, CommitIs, NotKilled
<1>3. On = "head" /\ "head" \in Part
  BY <1>2 DEF On, CommitPlan, Commit, Part
<1>4. killed' \in BOOLEAN
  BY <1>2, PiecesNow DEF CommitStep, Pieces
<1>5. integ' = integ \/ integ' = NoIntegration
  BY <1>1
<1>6. Pieces' /\ LeaseHonored' /\ OursIsManaged'
  <2>1. part' \in [Part -> {"seen", "ours", "other"}]
    BY <1>1, <1>3, PiecesNow, WroteIs DEF Pieces
  <2>2. NoIntegration.by # "ours"
    BY DEF NoIntegration
  <2>. QED
    BY <1>1, <1>4, <1>5, <2>1, <2>2, PiecesNow DEF Pieces, LeaseHonored, OursIsManaged
<1>7. temp \in {"none", "empty", "made", "kept"}
  BY <1>1, TempOf
<1>8. CASE /\ part' = Wrote("head") /\ integ' = IF integ.kind \in {"merge", "pick"} THEN NoIntegration ELSE integ
           /\ Advance(temp) /\ UNCHANGED killed
  <2>1. HeldTo(at, part', result) /\ NothingTo(at, part', dest)
    BY <1>1, <1>3, <1>8, WroteIs, HeldNext, NothingNext DEF Changing, Writing
  <2>2. result = "merge" => integ'.by # "ours"
    <3>1. result = "merge" /\ integ.by = "ours" => integ.kind = "merge"
      BY <1>1, <1>2 DEF ActionInv, Underway, MergeTo
    <3>2. integ'.by = "ours" => integ' = integ
      BY <1>5 DEF NoIntegration
    <3>3. integ.kind = "merge" => integ'.by = "none"
      BY <1>8 DEF NoIntegration
    <3>. QED
      BY <3>1, <3>2, <3>3
  <2>3. MergeTo(at + 1, result, integ')
    BY <1>2, <2>2 DEF MergeTo
  <2>. QED
    BY <1>1, <1>2, <1>6, <1>7, <1>8, <2>1, <2>3, Advances
<1>9. CASE Rejected /\ UNCHANGED killed
  BY <1>1, <1>2, <1>6, <1>7, <1>9, Fails DEF Rejected
<1>10. CASE Unknown
  BY <1>1, <1>2, <1>6, <1>7, <1>10, Fails DEF Unknown
<1>. QED
  BY <1>8, <1>9, <1>10 DEF CommitStep

LEMMA UnmarkSound == ASSUME ActionInv, UnmarkStep PROVE ActionInv'
<1>1. /\ at # 0 /\ Doing = "unmark" /\ Advance(temp) /\ marker' = (marker /\ result # "merge")
      /\ UNCHANGED <<plan, part, integ, dest, result, killed, replaced, others>>
  BY DoingIs DEF UnmarkStep
<1>2. plan = CommitPlan /\ at = 5 /\ ~killed
  BY <1>1, CommitIs, NotKilled
<1>3. OursIsManaged'
  <2>1. result = "merge" => integ.by # "ours"
    BY <1>1, <1>2 DEF ActionInv, Underway, MergeTo
  <2>2. integ.by = "ours" => marker
    BY PiecesNow DEF OursIsManaged
  <2>. QED
    BY <1>1, <2>1, <2>2 DEF OursIsManaged
<1>4. Pieces' /\ LeaseHonored'
  BY <1>1, PiecesNow DEF Pieces, LeaseHonored
<1>5. HeldTo(at, part, result) /\ NothingTo(at, part, dest) /\ MergeTo(at + 1, result, integ)
  BY <1>1, HeldNext, NothingNext, MergeNext DEF Wrought, Doing
<1>6. temp \in {"none", "empty", "made", "kept"}
  BY <1>1, TempOf
<1>. QED
  BY <1>1, <1>2, <1>3, <1>4, <1>5, <1>6, Advances

-----------------------------------------------------------------------------
(* Integrations, worktrees, new repositories *)

LEMMA MarkSound == ASSUME ActionInv, MarkStep PROVE ActionInv'
<1>1. /\ at # 0 /\ Doing = "mark"
      /\ UNCHANGED <<plan, part, integ, dest, result, killed, replaced, others>>
  BY DoingIs DEF MarkStep
<1>2. temp \in {"none", "empty", "made", "kept"} /\ ~killed
  BY <1>1, TempOf, NotKilled
<1>3. CASE marker' = TRUE /\ Advance(temp)
  <2>1. Pieces' /\ LeaseHonored' /\ OursIsManaged'
    BY <1>1, <1>3, PiecesNow DEF Pieces, LeaseHonored, OursIsManaged
  <2>2. HeldTo(at, part, result) /\ NothingTo(at, part, dest) /\ MergeTo(at + 1, result, integ)
    BY <1>1, HeldNext, NothingNext, MergeNext DEF Wrought, Doing
  <2>. QED
    BY <1>1, <1>2, <1>3, <2>1, <2>2, Advances
<1>4. CASE UNCHANGED marker /\ Refuse
  BY <1>1, <1>4, StillPieces, Refuses DEF Repository, Refusing
<1>. QED
  BY <1>3, <1>4 DEF MarkStep

\* A git command whose end the next step judges: how it ended is kept.
LEMMA Ended ==
  ASSUME ActionInv, at # 0, Doing \in {"begin", "proceed", "abort"}, Advance(temp),
         NEW r \in Ending, result' = r, killed' = (r = "unknown"),
         UNCHANGED <<plan, marker, dest, replaced, others>>,
         part' = part \/ part' = Wrote("head"),
         \/ integ' = integ \/ integ' = NoIntegration
         \/ marker /\ integ' \in [by : {"ours"}, kind : Integration]
  PROVE  ActionInv'
<1>1. part' \in [Part -> {"seen", "ours", "other"}]
  BY PiecesNow DEF Pieces, Wrote
<1>2. Pieces'
  BY <1>1, PiecesNow DEF Pieces, Ending
<1>3. LeaseHonored' /\ OursIsManaged'
  <2>1. NoIntegration.by # "ours"
    BY DEF NoIntegration
  <2>. QED
    BY <2>1, PiecesNow DEF LeaseHonored, OursIsManaged
<1>4. temp \in {"none", "empty", "made", "kept"}
  BY TempOf
<1>5. MergeTo(at + 1, result', integ')
  BY DEF MergeTo, Ending
<1>6. NothingTo(at, part', dest')
  BY NothingNext DEF Changing, Writing
<1>7. HeldTo(at, part', result')
  <2>1. /\ at \in 1..Len(plan) /\ HeldTo(at - 1, part, result)
        /\ \A i \in 1..Len(plan) : StepSound(plan, i)
    BY Planned DEF ActionInv, Underway
  <2>. SUFFICES ASSUME NEW i \in 1..at, Wrought(i, result')
                PROVE  part'[plan[i][2]] = "ours" \/ Later(plan[i][2], at)
    BY DEF HeldTo
  <2>2. i # at /\ i \in 1..(at - 1) /\ i \in 1..Len(plan)
    BY <2>1 DEF Wrought, Doing
  <2>3. plan[i][1] # "kept"
    <3>1. ASSUME plan[i][1] = "kept" PROVE FALSE
      <4>1. i < Len(plan) /\ i + 1 \in 1..Len(plan) /\ plan[i + 1][1] = "conflicts"
        BY <2>1, <2>2, <3>1, Planned DEF StepSound
      <4>2. i + 1 = Len(plan)
        BY <2>1, <4>1 DEF StepSound
      <4>3. at = i + 1
        BY <4>2, <2>1, <2>2, Planned
      <4>. QED
        BY <4>1, <4>3 DEF Doing
    <3>. QED
      BY <3>1
  <2>4. plan[i][2] \in Part /\ Wrought(i, result)
    BY <2>1, <2>2, <2>3 DEF StepSound, Wrought, OnPart
  <2>5. part[plan[i][2]] = "ours" \/ Later(plan[i][2], at - 1)
    BY <2>1, <2>2, <2>4 DEF HeldTo
  <2>6. part[plan[i][2]] = "ours" => part'[plan[i][2]] = "ours"
    BY <2>4, PiecesNow DEF Wrote, Pieces
  <2>7. Later(plan[i][2], at - 1) => Later(plan[i][2], at)
    <3>1. ASSUME NEW j \in (at - 1 + 1)..Len(plan), plan[j] \in {Leased(plan[i][2]), Run(plan[i][2])}
          PROVE  j \in (at + 1)..Len(plan)
      <4>1. j # at
        BY <3>1 DEF Leased, Run, Doing
      <4>. QED
        BY <4>1, <2>1, Planned
    <3>. QED
      BY <3>1 DEF Later
  <2>. QED
    BY <2>5, <2>6, <2>7
<1>. QED
  BY <1>2, <1>3, <1>4, <1>5, <1>6, <1>7, Advances DEF Ending

LEMMA BeginSound == ASSUME ActionInv, BeginStep PROVE ActionInv'
<1>1. at # 0 /\ Doing = "begin" /\ Advance(temp) /\ UNCHANGED <<plan, marker, dest, replaced, others>>
  BY DoingIs DEF BeginStep
<1>2. marker /\ On \in Integration
  BY <1>1, Here DEF ActionInv, Underway, StepSound
<1>3. PICK r \in Ending :
        /\ result' = r /\ killed' = (r = "unknown")
        /\ Completed \/ Untouched \/ (integ' = [by |-> "ours", kind |-> On] /\ UNCHANGED part)
  BY DEF BeginStep
<1>. QED
  BY <1>1, <1>2, <1>3, Ended DEF Completed, Untouched

LEMMA ProceedSound == ASSUME ActionInv, ProceedStep PROVE ActionInv'
<1>1. at # 0 /\ Doing = "proceed" /\ Advance(temp) /\ UNCHANGED <<plan, marker, dest, replaced, others>>
  BY DoingIs DEF ProceedStep
<1>2. PICK r \in Ending : result' = r /\ killed' = (r = "unknown") /\ (Completed \/ Untouched)
  BY DEF ProceedStep
<1>. QED
  BY <1>1, <1>2, Ended DEF Completed, Untouched

LEMMA AbortSound == ASSUME ActionInv, AbortStep PROVE ActionInv'
<1>1. at # 0 /\ Doing = "abort" /\ Advance(temp) /\ UNCHANGED <<plan, part, marker, dest, replaced, others>>
  BY DoingIs DEF AbortStep
<1>2. PICK r \in Ending : result' = r /\ killed' = (r = "unknown") /\ integ' \in {integ, NoIntegration}
  BY DEF AbortStep
<1>. QED
  BY <1>1, <1>2, Ended

LEMMA FinishSound == ASSUME ActionInv, FinishStep PROVE ActionInv'
<1>1. /\ at # 0 /\ Doing = "finish"
      /\ UNCHANGED <<plan, part, integ, dest, result, killed, replaced, others>>
  BY DoingIs DEF FinishStep
<1>10. UNCHANGED marker \/ (integ = NoIntegration /\ marker' = FALSE)
  BY Zenon DEF FinishStep
<1>2. temp \in {"none", "empty", "made", "kept"}
  BY <1>1, TempOf
<1>3. result \in Ending /\ (killed => result = "unknown")
  BY <1>1 DEF ActionInv, Underway
<1>4. Pieces' /\ LeaseHonored' /\ OursIsManaged'
  <2>1. NoIntegration.by # "ours"
    BY DEF NoIntegration
  <2>. QED
    <3>1. CASE UNCHANGED marker
      BY <1>1, <3>1, PiecesNow DEF Pieces, LeaseHonored, OursIsManaged
    <3>2. CASE integ = NoIntegration /\ marker' = FALSE
      BY <1>1, <2>1, <3>2, PiecesNow DEF Pieces, LeaseHonored, OursIsManaged
    <3>. QED
      BY <1>10, <3>1, <3>2
<1>5. CASE Resolve
  BY <1>1, <1>2, <1>4, <1>5, Fails DEF Resolve
<1>6. CASE Unread
  BY <1>1, <1>4, <1>6, FailsUnread
<1>7. CASE result = "ok" /\ Advance(temp)
  <2>1. HeldTo(at, part, result) /\ NothingTo(at, part, dest) /\ MergeTo(at + 1, result, integ)
    BY <1>1, HeldNext, NothingNext, MergeNext DEF Wrought, Doing
  <2>. QED
    BY <1>1, <1>2, <1>3, <1>4, <1>7, <2>1, Advances
<1>8. CASE result = "error" /\ Rejected
  BY <1>1, <1>2, <1>3, <1>4, <1>8, Fails DEF Rejected
<1>9. CASE result = "unknown" /\ Unknown
  BY <1>1, <1>2, <1>4, <1>9, Fails DEF Unknown
<1>. QED
  BY <1>3, <1>5, <1>6, <1>7, <1>8, <1>9 DEF FinishStep, Judge, Ending

LEMMA AddSound == ASSUME ActionInv, AddStep PROVE ActionInv'
<1>1. /\ at # 0 /\ Doing = "add" /\ part' \in {part, Wrote(On)}
      /\ UNCHANGED <<plan, integ, marker, dest, result, replaced, others>>
  BY DoingIs DEF AddStep
<1>2. On \in Part /\ ~killed
  BY <1>1, OnPartIs, NotKilled DEF OnPart
<1>3. killed' \in BOOLEAN
  BY <1>2, PiecesNow DEF AddStep, Pieces
<1>4. Pieces' /\ LeaseHonored' /\ OursIsManaged'
  BY <1>1, <1>2, <1>3, PiecesNow, WroteIs DEF Pieces, LeaseHonored, OursIsManaged
<1>5. CASE part' = Wrote(On) /\ Advance("holds") /\ UNCHANGED killed
  <2>1. HeldTo(at, part', result) /\ NothingTo(at, part', dest)
    BY <1>1, <1>2, <1>5, WroteIs, HeldNext, NothingNext DEF Changing, Writing
  <2>2. MergeTo(at + 1, result, integ)
    BY <1>1, MergeNext
  <2>. QED
    BY <1>1, <1>2, <1>4, <1>5, <2>1, <2>2, Advances
<1>6. CASE Return("failed", "git", "kept") /\ UNCHANGED killed
  BY <1>1, <1>2, <1>4, <1>6, Fails
<1>7. CASE Return("outcome_unknown", "unknown", "kept")
  BY <1>1, <1>2, <1>4, <1>7, Fails
<1>. QED
  BY <1>5, <1>6, <1>7 DEF AddStep

LEMMA MoveSound == ASSUME ActionInv, MoveStep PROVE ActionInv'
<1>1. /\ at # 0 /\ Doing = "move" /\ dest' \in {dest, "ours"}
      /\ UNCHANGED <<plan, part, integ, marker, result, replaced, others>>
  BY PiecesNow, DoingIs DEF MoveStep, Pieces
<1>2. ~killed
  BY <1>1, NotKilled
<1>3. killed' \in BOOLEAN
  BY <1>2, PiecesNow DEF MoveStep, Pieces
<1>4. Pieces' /\ LeaseHonored' /\ OursIsManaged'
  BY <1>1, <1>3, PiecesNow DEF Pieces, LeaseHonored, OursIsManaged
<1>5. CASE Advance("empty") /\ UNCHANGED killed
  <2>1. HeldTo(at, part, result) /\ NothingTo(at, part, dest') /\ MergeTo(at + 1, result, integ)
    BY <1>1, HeldNext, NothingNext, MergeNext DEF Wrought, Doing, Changing, Writing
  <2>. QED
    BY <1>1, <1>2, <1>4, <1>5, <2>1, Advances
<1>6. CASE Return("failed", "git", "kept") /\ UNCHANGED killed
  BY <1>1, <1>2, <1>4, <1>6, Fails
<1>7. CASE Return("outcome_unknown", "unknown", "kept")
  BY <1>1, <1>2, <1>4, <1>7, Fails
<1>. QED
  BY <1>5, <1>6, <1>7 DEF MoveStep

LEMMA PublishSound == ASSUME ActionInv, PublishStep PROVE ActionInv'
<1>1. /\ at # 0 /\ Doing = "publish"
      /\ \/ dest = "absent" /\ dest' = "ours" /\ replaced' = "absent"
         \/ UNCHANGED <<dest, replaced>>
      /\ UNCHANGED <<plan, part, integ, marker, result, killed, others>>
  BY DoingIs DEF PublishStep
<1>2. ~killed
  BY <1>1, NotKilled
<1>3. Pieces' /\ LeaseHonored' /\ OursIsManaged'
  BY <1>1, PiecesNow DEF Pieces, LeaseHonored, OursIsManaged
<1>4. CASE Advance("empty")
  <2>1. HeldTo(at, part, result) /\ NothingTo(at, part, dest') /\ MergeTo(at + 1, result, integ)
    BY <1>1, HeldNext, NothingNext, MergeNext DEF Wrought, Doing, Changing
  <2>. QED
    BY <1>1, <1>2, <1>3, <1>4, <2>1, Advances
<1>5. CASE Return("outcome_unknown", "unknown", "empty")
  BY <1>1, <1>2, <1>3, <1>5, Fails
<1>6. CASE UNCHANGED <<dest, replaced>> /\ Refuse
  BY <1>1, <1>3, <1>6, Refuses DEF Refusing
<1>. QED
  BY <1>4, <1>5, <1>6 DEF PublishStep

-----------------------------------------------------------------------------
(* The world around the agent, and the theorem *)

LEMMA StartSound == ASSUME ActionInv, NEW k \in Kind, NEW p \in Plans[k], Start(p) PROVE ActionInv'
<1>1. PlanSound(p)
  BY PlansAre, KindAssumption
<1>2. Len(p) \in Nat /\ 1 \in 1..Len(p) /\ StepSound(p, 1)
  BY <1>1 DEF PlanSound
<1>3. /\ plan' = p /\ at' = 1 /\ part' = [q \in Part |-> "seen"]
      /\ temp' = "none" /\ dest' = "absent" /\ result' = "none"
      /\ outcome' = [state |-> "running", why |-> "none"]
      /\ killed' = FALSE /\ replaced' = "none" /\ others' = 0
      /\ UNCHANGED <<integ, marker>>
  BY DEF Start
<1>4. TypeOK'
  <2>1. others' \in 0..MaxOther
    BY <1>3, MaxOtherAssumption
  <2>2. at' \in 0..Len(plan')
    BY <1>2, <1>3
  <2>. QED
    BY <1>3, <2>1, <2>2, PiecesNow DEF TypeOK
<1>5. HonestVerdict' /\ LeaseHonored' /\ OursIsManaged' /\ WorktreeKept'
  BY <1>3, PiecesNow DEF HonestVerdict, LeaseHonored, OursIsManaged, WorktreeKept
<1>6. Doing' \notin {"conflicts", "finish", "begin"}
  BY <1>2, <1>3 DEF StepSound, Doing
<1>7. HeldTo(at - 1, part, result)' /\ NothingTo(at - 1, part, dest)' /\ MergeTo(at, result, integ)'
  BY <1>3 DEF HeldTo, NothingTo, MergeTo
<1>. QED
  BY <1>3, <1>4, <1>5, <1>6, <1>7 DEF ActionInv, ActionSound, Underway

LEMMA CrashSound == ASSUME ActionInv, Crash PROVE ActionInv'
<1>1. /\ at # 0 /\ at' = 0
      /\ UNCHANGED <<plan, marker, temp, dest, result, outcome, killed, replaced, others>>
  BY DEF Crash
<1>2. /\ outcome = [state |-> "running", why |-> "none"]
      /\ Doing = "begin" => marker
      /\ Pieces /\ WorktreeKept /\ TypeOK
  BY <1>1, PiecesNow DEF ActionInv, Underway, ActionSound
<1>3. part' \in [Part -> {"seen", "ours", "other"}]
  <2>1. part' = part \/ part' = Wrote(On)
    BY DEF Crash
  <2>. QED
    BY <1>2, <2>1 DEF Pieces, Wrote
<1>4. integ' = integ \/ (Doing = "begin" /\ integ' \in [by : {"ours"}, kind : Integration])
  <2>1. integ' = integ \/ (At("begin") /\ integ' = [by |-> "ours", kind |-> On])
    BY DEF Crash
  <2>2. Doing = "begin" => On \in Integration
    BY <1>1, Here DEF StepSound
  <2>. QED
    BY <2>1, <2>2, DoingIs
<1>5. Pieces'
  BY <1>1, <1>2, <1>3, <1>4 DEF Pieces
<1>6. TypeOK'
  BY <1>1, <1>2, <1>5, TypedNext, Planned DEF TypeOK
<1>7. OursIsManaged' /\ LeaseHonored' /\ WorktreeKept'
  BY <1>1, <1>2, <1>4, PiecesNow DEF OursIsManaged, LeaseHonored, WorktreeKept
<1>8. HonestVerdict'
  <2>1. outcome'.state = "running" /\ outcome'.why = "none"
    BY <1>1, <1>2
  <2>. QED
    BY <2>1 DEF HonestVerdict
<1>. QED
  BY <1>1, <1>6, <1>7, <1>8 DEF ActionInv, ActionSound

\* A change by another program keeps what is said of the action while it runs.
LEMMA OthersKeep ==
  ASSUME ActionInv, Other,
         UNCHANGED <<plan, at, marker, temp, result, outcome, killed, replaced>>,
         part' \in [Part -> {"seen", "ours", "other"}],
         \A p \in Part : part'[p] = part[p] \/ (part'[p] = "other" /\ (HeldTo(at - 1, part, result) => HeldTo(at - 1, part', result))),
         dest' \in {dest, "other"},
         integ' = integ \/ integ' = NoIntegration \/ integ' \in [by : {"other"}, kind : Integration]
  PROVE  ActionInv'
<1>1. at # 0 /\ others' \in 0..MaxOther
  BY PiecesNow, MaxOtherAssumption DEF Other, Pieces
<1>2. NoIntegration.by # "ours"
  BY DEF NoIntegration
<1>3. integ'.by = "ours" => integ' = integ
  BY <1>2
<1>4. Pieces'
  BY <1>1, PiecesNow DEF Pieces
<1>5. TypeOK'
  BY <1>4, PiecesNow, TypedNext DEF TypeOK
<1>6. LeaseHonored' /\ OursIsManaged' /\ WorktreeKept'
  BY <1>3 DEF ActionInv, ActionSound, LeaseHonored, OursIsManaged, WorktreeKept
<1>7. outcome' = [state |-> "running", why |-> "none"]
  BY <1>1 DEF ActionInv, Underway
<1>8. HonestVerdict'
  <2>1. outcome'.state = "running" /\ outcome'.why = "none"
    BY <1>7
  <2>. QED
    BY <2>1 DEF HonestVerdict
<1>9. HeldTo(at - 1, part, result)'
  <2>1. HeldTo(at - 1, part', result)
    <3>1. HeldTo(at - 1, part, result)
      BY <1>1 DEF ActionInv, Underway
    <3>2. CASE \A p \in Part : part'[p] = part[p]
      <4>1. part' = part
        BY <3>2, PiecesNow DEF Pieces
      <4>. QED
        BY <3>1, <4>1
    <3>. QED
      BY <3>1, <3>2
  <2>. QED
    BY <2>1 DEF HeldTo, Wrought, Later
<1>10. NothingTo(at - 1, part, dest)'
  <2>1. NothingTo(at - 1, part, dest)
    BY <1>1 DEF ActionInv, Underway
  <2>. QED
    BY <2>1 DEF NothingTo, Quiet
<1>11. MergeTo(at, result, integ)'
  <2>1. MergeTo(at, result, integ)
    BY <1>1 DEF ActionInv, Underway
  <2>. QED
    BY <1>3, <2>1 DEF MergeTo
<1>12. Underway'
  BY <1>1, <1>7, <1>9, <1>10, <1>11 DEF ActionInv, Underway, Doing
<1>. QED
  BY <1>5, <1>6, <1>8, <1>12 DEF ActionInv, ActionSound

LEMMA OtherChangesSound == ASSUME ActionInv, OtherChanges PROVE ActionInv'
<1>1. PICK p \in Part : /\ \E i \in at..Len(plan) : plan[i] \in {Expect(p), Leased(p), Run(p)}
                        /\ part' = [part EXCEPT ![p] = "other"]
  BY DEF OtherChanges
<1>2. at # 0 /\ Other /\ UNCHANGED <<plan, at, integ, marker, temp, dest, result, outcome, killed, replaced>>
  BY DEF OtherChanges, Other
<1>3. PICK i \in at..Len(plan) : plan[i] \in {Expect(p), Leased(p), Run(p)}
  BY <1>1
<1>4. /\ at \in 1..Len(plan) /\ i \in 1..Len(plan) /\ i >= at
      /\ StepSound(plan, i) /\ Len(plan) \in Nat
  BY <1>2, <1>3, Planned
<1>5. part \in [Part -> {"seen", "ours", "other"}]
  BY PiecesNow DEF Pieces
<1>6. HeldTo(at - 1, part, result) => HeldTo(at - 1, part', result)
  <2>1. CASE plan[i] = Expect(p)
    <3>1. \A j \in 1..(i - 1) : plan[j][1] \notin Changing
      BY <1>4, <2>1 DEF StepSound, Expect, Refusing
    <3>2. \A j \in 1..(at - 1) : ~Wrought(j, result)
      BY <1>4, <3>1 DEF Wrought, Changing, Writing
    <3>. QED
      BY <3>2 DEF HeldTo
  <2>2. CASE plan[i] \in {Leased(p), Run(p)}
    <3>1. i \in (at - 1 + 1)..Len(plan)
      BY <1>4
    <3>2. Later(p, at - 1)
      BY <2>2, <3>1 DEF Later
    <3>3. \A j \in 1..(at - 1) : Wrought(j, result) => plan[j][2] \in Part
      BY <1>2, Planned DEF Wrought, StepSound, OnPart
    <3>4. \A q \in Part : q # p => part'[q] = part[q]
      BY <1>1, <1>5
    <3>. QED
      BY <3>2, <3>3, <3>4 DEF HeldTo
  <2>. QED
    BY <1>3, <2>1, <2>2
<1>7. /\ part' \in [Part -> {"seen", "ours", "other"}]
      /\ \A q \in Part : part'[q] = part[q] \/ part'[q] = "other"
  BY <1>1, <1>5
<1>. QED
  BY <1>2, <1>6, <1>7, OthersKeep

LEMMA OtherBeginsSound == ASSUME ActionInv, OtherBegins PROVE ActionInv'
<1>1. PICK k \in Integration : integ' = [by |-> "other", kind |-> k]
  BY DEF OtherBegins
<1>2. integ' \in [by : {"other"}, kind : Integration]
  BY <1>1
<1>. QED
  BY <1>2, PiecesNow, OthersKeep DEF OtherBegins, Pieces

LEMMA OtherEndsSound == ASSUME ActionInv, OtherEnds PROVE ActionInv'
  BY PiecesNow, OthersKeep DEF OtherEnds, Pieces

LEMMA OtherCreatesSound == ASSUME ActionInv, OtherCreates PROVE ActionInv'
  BY PiecesNow, OthersKeep DEF OtherCreates, Pieces

LEMMA InitSound == Init => ActionInv
<1>. SUFFICES ASSUME Init PROVE ActionInv
  OBVIOUS
<1>1. TypeOK
  <2>1. 0 \in 0..MaxOther
    BY MaxOtherAssumption
  <2>2. at \in 0..Len(plan)
    BY DEF Init
  <2>. QED
    BY <2>1, <2>2 DEF Init, TypeOK
<1>2. LeaseHonored /\ OursIsManaged /\ WorktreeKept
  BY DEF Init, LeaseHonored, OursIsManaged, WorktreeKept, NoIntegration
<1>3. HonestVerdict
  BY DEF Init, HonestVerdict
<1>. QED
  BY <1>1, <1>2, <1>3 DEF ActionInv, ActionSound, Init

LEMMA StepSoundly == ActionInv /\ [Next]_vars => ActionInv'
<1>. SUFFICES ASSUME ActionInv, [Next]_vars PROVE ActionInv'
  OBVIOUS
<1>1. CASE Begins
  BY <1>1, StartSound DEF Begins
<1>2. CASE CheckStep \/ LookStep \/ MergingStep \/ CleanStep \/ ManagedStep \/ AbsentStep
  BY <1>2, CheckSound, LookSound, MergingSound, CleanSound, ManagedSound, AbsentSound
<1>3. CASE ExpectReference \/ ExpectConfig \/ ExpectRemote \/ ExpectStash \/ ExpectContent
  BY <1>3, CompareSound DEF ExpectReference, ExpectConfig, ExpectRemote, ExpectStash, ExpectContent
<1>4. CASE RunStep \/ LeasedStep \/ KeptStep \/ ConflictsStep \/ CommitStep \/ UnmarkStep
  BY <1>4, RunSound, LeasedSound, KeptSound, ConflictsSound, CommitSound, UnmarkSound
<1>5. CASE MarkStep \/ BeginStep \/ ProceedStep \/ AbortStep \/ FinishStep
  BY <1>5, MarkSound, BeginSound, ProceedSound, AbortSound, FinishSound
<1>6. CASE MakeTempStep \/ AddStep \/ MoveStep \/ PrepareStep \/ SyncStep \/ PublishStep
  BY <1>6, MakeTempSound, AddSound, MoveSound, PrepareSound, SyncSound, PublishSound
<1>7. CASE Crash \/ OtherChanges \/ OtherBegins \/ OtherEnds \/ OtherCreates
  BY <1>7, CrashSound, OtherChangesSound, OtherBeginsSound, OtherEndsSound, OtherCreatesSound
<1>8. CASE UNCHANGED vars
  BY <1>8 DEF vars, ActionInv, ActionSound, TypeOK, HonestVerdict, Written, LeaseHonored, OursIsManaged, WorktreeKept,
     Underway, HeldTo, NothingTo, MergeTo, Later, Wrought, Quiet, Doing
<1>. QED
  BY <1>1, <1>2, <1>3, <1>4, <1>5, <1>6, <1>7, <1>8 DEF Next

\* apply of the agent (writes.rs, worktrees.rs, create.rs): what the record of an action
\* will say is what its git commands did to the repository, in whatever order other
\* programs change it in between and wherever the agent is killed; a lease and a
\* publication overwrite nobody's value; an integration of the backend is always marked;
\* and no directory with the only copy of a worktree is deleted.
THEOREM ActionIsSound == Spec => []ActionSound
<1>1. ActionInv => ActionSound
  BY DEF ActionInv
<1>. QED
  BY <1>1, InitSound, StepSoundly, PTL DEF Spec

-----------------------------------------------------------------------------
(* Numbers *)

\* A set of numbers has a least one.
Below == {pair \in Nat \X Nat : pair[1] < pair[2]}

LEMMA Least == ASSUME NEW S, S \subseteq Nat, S # {} PROVE \E m \in S : \A k \in S : m <= k
<1>1. IsWellFoundedOn(Below, Nat)
  BY NatLessThanWellFounded DEF OpToRel, Below
<1>2. PICK m \in S : \A k \in S : <<k, m>> \notin Below
  BY <1>1, WFMin
<1>3. ASSUME NEW k \in S PROVE m <= k
  <2>1. k \in Nat /\ m \in Nat  OBVIOUS
  <2>2. ~(k < m)  BY <1>2, <2>1 DEF Below
  <2> QED  BY <2>1, <2>2
<1> QED  BY <1>3

-----------------------------------------------------------------------------
(* Reading page by page *)

\* Kinds whose rows are fingerprinted as a whole, and differences.
Fingerprinted == Listing \cup {"commitFiles", "status"}
Difference == {"working", "commitDiff"}

\* A request that is not refused for what it asks.
FewRows == query.count \in 1..200
FewLines == query.count \in 1..5000
LittleContext == query.context <= 100
Paged ==
  /\ query.kind \in Fingerprinted \cup {"history"} => FewRows
  /\ query.kind \in Difference => FewLines /\ query.budget \in Budgets /\ LittleContext
  /\ query.kind \in {"commitFiles", "commitDiff"} => query.of # "missing"
  /\ query.kind = "blob" => query.count # 0

\* The commits that can be at the end of a branch, and none.
Tips == 0..Len(RowSize)

\* What a fingerprint says of the listing it was made for.
Shows(f, whole) ==
  /\ query.kind \in Fingerprinted => f.rows \subseteq Row /\ whole = InOrder(f.rows)
  /\ query.kind = "history" => f.tip \in Tips /\ \A i \in 1..Len(whole) : whole[i] = f.tip - i + 1
  /\ query.kind \in Difference => whole = Lines(1)
  /\ query.kind = "blob" => whole = BlobRows /\ f = NoPrint
Unedited(f, whole) == query.kind = "history" /\ edits = 0 => whole = Walk(f.tip, world.shallow)

\* A cursor that the agent gave out: of the listing the client reads, and not past its end.
Own(c) ==
  /\ c = CursorRef(SnapshotRef(1, query.kind, c.s.f), c.o)
  /\ Shows(c.s.f, truth) /\ Unedited(c.s.f, truth) /\ Paged
  /\ c.o \in Nat /\ c.o < Len(truth) /\ c.o \in {0, Len(got)}
Foreign == CursorRef(SnapshotRef(1, "other", NoPrint), 1)

\* The rows the client has put together are the first of the listing.
Collected ==
  /\ got \in Seq(Nat) /\ truth \in Seq(Nat)
  /\ Len(got) <= Len(truth) /\ \A i \in 1..Len(got) : got[i] = truth[i]

Answered ==
  answer.code = "page" =>
    /\ answer.next = NoCursor => got = truth
    /\ answer.next # NoCursor => Own(answer.next) /\ answer.next.o = Len(got) /\ answer.rows # <<>>
    /\ query.kind \in Difference => answer.files = <<1>>
Excused == sent = NoCursor \/ sent.s.q = "other" \/ (query.kind = "history" /\ edits > 0)

\* The steps of each kind of request.
ReadSteps ==
  [branches |-> {"config", "rows"}, names |-> {"rows"}, tags |-> {"tags", "details"},
   stashes |-> {"stash", "log"}, worktrees |-> {"rows"}, remoteRefs |-> {"remote", "rows"},
   commitFiles |-> {"commit", "raw"}, status |-> {"status", "hash"},
   history |-> {"tip", "shallow", "walk"},
   working |-> {"status", "hash", "raw", "patch", "others", "other", "again", "rehash"},
   commitDiff |-> {"commit", "raw", "patch", "page"}, blob |-> {"objects"}]

Prints == [rows : SUBSET Row, files : {<<>>}, stamp : Nat, tip : Tips, shallow : Nat]
ReadTypes ==
  /\ query \in Query /\ edits \in Nat
  /\ world \in [id : {1, 2}, rows : SUBSET Row, stamp : Nat, content : {0, 1, 2}, remote : {1, 2},
                tip : Tips, shallow : Nat]
  /\ held = [id |-> held.id, rows |-> held.rows, files |-> held.files, paths |-> held.paths, f |-> held.f]
  /\ held.f \in Prints
  /\ step \in {"idle", "identify"} \cup ReadSteps[query.kind]
  /\ step \in {"idle", "identify"} => held = NothingRead
  /\ step \notin {"idle", "identify"} => held.id = 1

\* A file without a new stamp is the one the client saw, and so is its difference.
Still == query.kind = "commitDiff" \/ world.stamp = 0
Content == query.kind \in Difference /\ Still => world.content = 1
Files(steps, files, rows) == step \in steps => held.files = files /\ held.rows = rows
DifferenceRead ==
  query.kind \in Difference /\ Still =>
    /\ Files({"status", "commit", "hash", "raw", "others"}, <<>>, <<>>)
    /\ Files({"other"}, <<>>, <<>>) /\ (step = "other" => held.paths = 1)
    /\ Files({"patch"}, <<1>>, <<>>)
    /\ Files({"again", "rehash", "page"}, <<1>>, Lines(1))
    /\ step = "patch" => query.kind = "commitDiff" \/ query.of # "untracked"
    /\ step \in {"others", "other"} => query.kind = "working" /\ query.of = "untracked"

Asking ==
  step # "idle" =>
    /\ sent = NoCursor \/ sent = Foreign \/ Own(sent)
    /\ query.kind \in {"commitFiles", "commitDiff"} /\ step \in {"raw", "patch", "page"} => query.of # "missing"
    /\ step \in {"patch", "others", "other", "again", "rehash", "page"} => LittleContext
    /\ step = "details" => \E rows \in SUBSET Row : held.rows = InOrder(rows)
    /\ step \in {"shallow", "walk"} => sent # Foreign
    /\ step = "shallow" /\ sent # NoCursor => held.f.tip = sent.s.f.tip
    /\ step = "walk" /\ sent # NoCursor => held.f = sent.s.f

ReadInv ==
  /\ ReadTypes /\ Collected /\ Answered /\ Content /\ DifferenceRead /\ Asking
  /\ answer.code = "INVALID" => Excused

LEMMA NothingTyped == NothingRead.f \in Prints /\ NoPrint \in Prints
<1>1. Len(RowSize) \in Nat
  BY ReadAssumption
<1> QED  BY <1>1 DEF NothingRead, NoPrint, Prints, Tips

-----------------------------------------------------------------------------
(* Pages of rows *)

\* The bytes of no row and of one.
Summed(rows, sum) == sum = [n \in 0..Len(rows) |-> IF n = 0 THEN 0 ELSE sum[n - 1] + RowSize[rows[n]]]

LEMMA BytesSummed == ASSUME NEW rows PROVE Bytes(rows) = (CHOOSE sum : Summed(rows, sum))[Len(rows)]
BY DEF Bytes, Summed

LEMMA BytesOfNone == Bytes(<<>>) = 0
<1>1. PICK c : c = [n \in 0..0 |-> 0]
  OBVIOUS
<1>2. Len(<<>>) = 0
  OBVIOUS
<1>3. Summed(<<>>, c)
  BY <1>1, <1>2 DEF Summed
<1>4. PICK s : s = CHOOSE sum : Summed(<<>>, sum)
  OBVIOUS
<1>5. Summed(<<>>, s)
  BY <1>3, <1>4
<1>6. s[0] = 0
  BY <1>5, <1>2 DEF Summed
<1> QED  BY <1>2, <1>4, <1>6, BytesSummed

LEMMA BytesOfOne == ASSUME NEW r, RowSize[r] \in Nat PROVE Bytes(<<r>>) = RowSize[r]
<1>1. PICK c : c = [n \in 0..1 |-> IF n = 0 THEN 0 ELSE RowSize[r]]
  OBVIOUS
<1>2. Len(<<r>>) = 1 /\ <<r>>[1] = r
  OBVIOUS
<1>3. Summed(<<r>>, c)
  <2>1. c[0] = 0 /\ c[1] = RowSize[r]
    BY <1>1
  <2>2. \A n \in 0..1 : n = 0 \/ n = 1
    OBVIOUS
  <2>3. [n \in 0..Len(<<r>>) |-> IF n = 0 THEN 0 ELSE c[n - 1] + RowSize[<<r>>[n]]] = [n \in 0..1 |-> IF n = 0 THEN 0 ELSE RowSize[r]]
    <3>1. ASSUME NEW n \in 0..1
          PROVE  (IF n = 0 THEN 0 ELSE c[n - 1] + RowSize[<<r>>[n]]) = (IF n = 0 THEN 0 ELSE RowSize[r])
      <4>1. CASE n = 0
        BY <4>1
      <4>2. CASE n = 1
        BY <4>2, <2>1, <1>2
      <4> QED  BY <4>1, <4>2, <2>2
    <3> QED  BY <3>1, <1>2
  <2> QED  BY <2>3, <1>1 DEF Summed
<1>4. PICK s : s = CHOOSE sum : Summed(<<r>>, sum)
  OBVIOUS
<1>5. Summed(<<r>>, s)
  BY <1>3, <1>4
<1>6. s[0] = 0 /\ s[1] = RowSize[r]
  <2>1. s[0] = 0
    BY <1>5, <1>2 DEF Summed
  <2>2. s[1] = s[0] + RowSize[<<r>>[1]]
    BY <1>5, <1>2 DEF Summed
  <2> QED  BY <2>1, <2>2, <1>2
<1> QED  BY <1>2, <1>4, <1>6, BytesSummed

\* A set of numbers up to a bound has a greatest one.
LEMMA Greatest ==
  ASSUME NEW b \in Nat, NEW S, S \subseteq 0..b, S # {}
  PROVE  Max(S) \in S /\ \A k \in S : k <= Max(S)
<1> DEFINE T == {b - k : k \in S}
<1>1. T \subseteq Nat /\ T # {}
  <2>1. \A k \in S : b - k \in Nat
    OBVIOUS
  <2> QED  BY <2>1
<1>2. PICK m \in T : \A k \in T : m <= k
  BY <1>1, Least
<1>3. PICK x \in S : m = b - x
  BY <1>2
<1>4. \A k \in S : x >= k
  <2> SUFFICES ASSUME NEW k \in S PROVE x >= k  OBVIOUS
  <2>1. b - x <= b - k
    BY <1>2, <1>3
  <2> QED  BY <2>1
<1>5. Max(S) = CHOOSE y \in S : \A k \in S : y >= k
  BY DEF Max
<1>6. Max(S) \in S /\ \A k \in S : Max(S) >= k
  BY <1>4, <1>5
<1> QED  BY <1>6

\* What fits a page: no more than was asked for and is there, and something unless nothing is.
LEMMA FittingIs ==
  ASSUME NEW rows \in Seq(Row), NEW offset \in 0..Len(rows), NEW count \in Nat, NEW n, n = Fitting(rows, offset, count), n # -1
  PROVE  n \in Nat /\ n <= count /\ offset + n <= Len(rows) /\ (n = 0 => offset = Len(rows) \/ count = 0)
<1> DEFINE most == Upto(count, Len(rows) - offset)
           piece(k) == SubSeq(rows, offset + 1, offset + k)
           fits == {k \in 0..most : Bytes(piece(k)) <= FrameHalf}
           fit == Max(fits)
<1>1. Len(rows) \in Nat /\ offset \in Nat /\ most \in Nat /\ most <= count /\ offset + most <= Len(rows)
  BY DEF Upto
<1>2. FrameHalf \in Nat
  BY ReadAssumption
<1>3. piece(0) = <<>>
  <2>1. offset + 1 \in Int /\ offset + 0 \in Int /\ offset + 0 < offset + 1
    OBVIOUS
  <2> QED  BY <2>1, SubSeqEmpty
<1>4. 0 \in fits
  <2>1. Bytes(piece(0)) = 0
    BY <1>3, BytesOfNone
  <2> HIDE DEF piece
  <2>2. 0 \in 0..most /\ Bytes(piece(0)) <= FrameHalf
    BY <2>1, <1>1, <1>2
  <2> QED  BY <2>2
<1>5. fit \in fits /\ \A k \in fits : k <= fit
  <2> HIDE DEF piece
  <2>1. fits \subseteq 0..most /\ fits # {}
    BY <1>4
  <2> HIDE DEF fits, most
  <2> QED  BY <2>1, <1>1, Greatest
<1>6. n = IF fit < most /\ RowSize[rows[offset + fit + 1]] > FrameHalf THEN -1 ELSE fit
  BY DEF Fitting
<1>7. fit \in 0..most
  BY <1>5
<1>8. ASSUME fit = 0, most # 0, ~(RowSize[rows[offset + 1]] > FrameHalf) PROVE FALSE
  <2>1. offset + 1 \in 1..Len(rows) /\ 1 \in 0..most
    BY <1>1, <1>8
  <2>2. rows[offset + 1] \in Row
    BY <2>1
  <2>3. RowSize[rows[offset + 1]] \in Nat
    BY <2>2, ReadAssumption DEF Row
  <2>4. piece(1) = <<rows[offset + 1]>>
    <3>1. offset + 1 \in Int /\ \A i \in (offset + 1)..(offset + 1) : rows[i] \in Row
      BY <2>2
    <3>2. /\ piece(1) \in Seq(Row) /\ Len(piece(1)) = 1
          /\ \A i \in 1..1 : piece(1)[i] = rows[offset + 1 + i - 1]
      BY <3>1, SubSeqProperties
    <3>3. piece(1)[1] = rows[offset + 1]
      BY <3>2
    <3> DEFINE p == piece(1)
               r == rows[offset + 1]
    <3>4. p \in Seq(Row) /\ Len(p) = 1 /\ p[1] = r
      BY <3>2, <3>3
    <3> HIDE DEF p, r
    <3>5. p = <<r>>
      BY <3>4
    <3> QED  BY <3>5 DEF p, r
  <2>5. Bytes(piece(1)) <= FrameHalf
    <3>1. Bytes(piece(1)) = RowSize[rows[offset + 1]]
      BY <2>3, <2>4, BytesOfOne
    <3> HIDE DEF piece
    <3> QED  BY <3>1, <2>3, <1>2, <1>8
  <2>6. 1 \in fits
    BY <2>1, <2>5
  <2> QED  BY <2>6, <1>5, <1>8
<1>9. most = 0 => offset = Len(rows) \/ count = 0
  BY <1>1 DEF Upto
<1> HIDE DEF fit, fits, most
<1>10. CASE fit < most /\ RowSize[rows[offset + fit + 1]] > FrameHalf
  BY <1>10, <1>6
<1>11. CASE ~(fit < most /\ RowSize[rows[offset + fit + 1]] > FrameHalf)
  <2>1. n = fit
    BY <1>11, <1>6
  <2>2. n \in Nat /\ n <= count /\ offset + n <= Len(rows)
    BY <2>1, <1>1, <1>7
  <2>3. ASSUME n = 0 PROVE offset = Len(rows) \/ count = 0
    <3>1. CASE most = 0
      BY <3>1, <1>9
    <3>2. CASE most # 0
      <4>1. fit < most /\ offset + fit + 1 = offset + 1
        BY <3>2, <2>3, <2>1, <1>1
      <4> QED  BY <4>1, <3>2, <2>3, <2>1, <1>8, <1>11
    <3> QED  BY <3>1, <3>2
  <2> QED  BY <2>2, <2>3
<1> QED  BY <1>10, <1>11

-----------------------------------------------------------------------------
(* Rows in their order *)

LEMMA InOrderIs ==
  ASSUME NEW S \in SUBSET Row
  PROVE  InOrder(S) \in Seq(Row) /\ InOrder(S) \in Seq(Nat) /\ ToSet(InOrder(S)) = S
<1>. DEFINE Before(f) == {g \in S : g < f}
            rank == [f \in S |-> Cardinality(Before(f)) + 1]
<1>0. S \subseteq Nat /\ IsFiniteSet(S) /\ Row \subseteq Nat
  <2>1. Row = 1..Len(RowSize) /\ Len(RowSize) \in Nat
    BY ReadAssumption DEF Row
  <2>2. IsFiniteSet(Row)
    BY <2>1, FS_Interval
  <2>3. Row \subseteq Nat
    BY <2>1
  <2> HIDE DEF Row
  <2>4. IsFiniteSet(S)
    BY <2>2, FS_Subset
  <2> QED  BY <2>3, <2>4
<1>1. PICK n \in Nat : n = Cardinality(S)
  BY <1>0, FS_CardinalityType
<1>2. \A f \in S : IsFiniteSet(Before(f)) /\ Cardinality(Before(f)) \in Nat
  <2>. SUFFICES ASSUME NEW f \in S PROVE IsFiniteSet(Before(f)) /\ Cardinality(Before(f)) \in Nat
    OBVIOUS
  <2>1. Before(f) \in SUBSET S
    OBVIOUS
  <2>. HIDE DEF Before
  <2>. QED
    BY <1>0, <2>1, FS_Subset, FS_CardinalityType
<1>3. ASSUME NEW f \in S PROVE Cardinality(Before(f)) + 1 \in 1..n
  <2>1. Before(f) \in SUBSET (S \ {f})
    BY <1>0
  <2>2. IsFiniteSet(S \ {f}) /\ Cardinality(S \ {f}) = n - 1
    BY <1>0, <1>1, FS_RemoveElement
  <2> HIDE DEF Before
  <2>3. Cardinality(Before(f)) <= Cardinality(S \ {f})
    BY <2>1, <2>2, FS_Subset
  <2>. QED
    BY <1>1, <1>2, <2>2, <2>3
<1>4. ASSUME NEW f \in S, NEW h \in S, f < h PROVE Cardinality(Before(f)) < Cardinality(Before(h))
  <2>1. Before(f) \union {f} \in SUBSET Before(h) /\ f \notin Before(f)
    <3>1. f \in Nat /\ h \in Nat /\ \A g \in S : g \in Nat
      BY <1>0
    <3>2. ~(f < f) /\ \A g \in S : g < f => g < h
      BY <1>4, <3>1
    <3> QED  BY <1>4, <3>2
  <2> HIDE DEF Before
  <2>2. Cardinality(Before(f) \union {f}) = Cardinality(Before(f)) + 1
    BY <1>2, <2>1, FS_AddElement
  <2>3. Cardinality(Before(f) \union {f}) <= Cardinality(Before(h))
    BY <1>2, <2>1, FS_Subset
  <2>. QED
    BY <1>2, <2>2, <2>3
<1>. HIDE DEF Before
<1>5. rank \in [S -> 1..n]
  BY <1>3
<1>6. \A f, h \in S : Cardinality(Before(f)) = Cardinality(Before(h)) => f = h
  <2>. SUFFICES ASSUME NEW f \in S, NEW h \in S, Cardinality(Before(f)) = Cardinality(Before(h)), f # h PROVE FALSE
    OBVIOUS
  <2>1. f \in Nat /\ h \in Nat
    BY <1>0
  <2>2. CASE f < h
    BY <1>2, <1>4, <2>2
  <2>3. CASE h < f
    BY <1>2, <1>4, <2>3
  <2>. QED
    BY <2>1, <2>2, <2>3
<1>7. PICK rk : rk = rank
  OBVIOUS
<1>8. rk \in Injection(S, 1..n)
  <2>1. \A f, h \in S : rk[f] = rk[h] => f = h
    BY <1>2, <1>6, <1>7
  <2>. QED
    BY <2>1, <1>5, <1>7 DEF Injection, IsInjective
<1>9. IsFiniteSet(1..n) /\ Cardinality(1..n) = n
  <2>1. IsFiniteSet(1..n) /\ Cardinality(1..n) = (IF 1 > n THEN 0 ELSE n - 1 + 1)
    BY FS_Interval
  <2>. QED
    BY <2>1
<1>10. rk \in Surjection(S, 1..n)
  BY <1>0, <1>1, <1>8, <1>9, FS_Injection
<1>11. \A i \in 1..n : \E f \in S : Cardinality(Before(f)) = i - 1
  <2>. SUFFICES ASSUME NEW i \in 1..n PROVE \E f \in S : Cardinality(Before(f)) = i - 1
    OBVIOUS
  <2>1. PICK f \in S : rk[f] = i
    BY <1>10 DEF Surjection
  <2>2. Cardinality(Before(f)) + 1 = i /\ Cardinality(Before(f)) \in Nat
    BY <1>2, <1>7, <2>1
  <2>. QED
    BY <2>2
<1>12. InOrder(S) = [i \in 1..n |-> CHOOSE f \in S : Cardinality(Before(f)) = i - 1]
  BY <1>1 DEF InOrder, Before
<1>13. \A i \in 1..n : InOrder(S)[i] \in S /\ Cardinality(Before(InOrder(S)[i])) = i - 1
  BY <1>11, <1>12
<1>14. DOMAIN InOrder(S) = 1..n /\ InOrder(S) \in [1..n -> Row]
  BY <1>12, <1>13
<1>15. ASSUME NEW f \in S PROVE \E i \in 1..n : InOrder(S)[i] = f
  <2>1. PICK i \in 1..n : i = Cardinality(Before(f)) + 1
    BY <1>3, <1>15
  <2>2. Cardinality(Before(InOrder(S)[i])) = Cardinality(Before(f))
    BY <2>1, <1>2, <1>13
  <2>. QED
    BY <2>2, <1>6, <1>13
<1>16. InOrder(S) \in Seq(Row) /\ InOrder(S) \in Seq(Nat)
  <2>1. InOrder(S) \in [1..n -> Nat]
    BY <1>0, <1>14
  <2> QED  BY <2>1, <1>1, <1>14
<1>17. ToSet(InOrder(S)) = {InOrder(S)[i] : i \in 1..n}
  BY <1>14 DEF ToSet
<1>18. {InOrder(S)[i] : i \in 1..n} = S
  BY <1>13, <1>15
<1>. QED
  BY <1>16, <1>17, <1>18

\* The rows of a page.
LEMMA PartIs ==
  ASSUME NEW T, NEW rows \in Seq(T), NEW o \in Nat, NEW e \in Nat, o <= e, e <= Len(rows)
  PROVE  /\ SubSeq(rows, o + 1, e) \in Seq(T) /\ Len(SubSeq(rows, o + 1, e)) = e - o
         /\ \A i \in 1..(e - o) : SubSeq(rows, o + 1, e)[i] = rows[o + i]
<1>1. o + 1 \in Int /\ e \in Int /\ \A i \in (o + 1)..e : rows[i] \in T
  OBVIOUS
<1>2. /\ SubSeq(rows, o + 1, e) \in Seq(T)
      /\ Len(SubSeq(rows, o + 1, e)) = IF o + 1 <= e THEN e - (o + 1) + 1 ELSE 0
      /\ \A i \in 1..(e - (o + 1) + 1) : SubSeq(rows, o + 1, e)[i] = rows[o + 1 + i - 1]
  BY <1>1, SubSeqProperties
<1> DEFINE s == SubSeq(rows, o + 1, e)
<1>3. s \in Seq(T) /\ Len(s) = (IF o + 1 <= e THEN e - (o + 1) + 1 ELSE 0)
      /\ \A i \in 1..(e - (o + 1) + 1) : s[i] = rows[o + 1 + i - 1]
  BY <1>2
<1> HIDE DEF s
<1>4. s \in Seq(T) /\ Len(s) = e - o /\ \A i \in 1..(e - o) : s[i] = rows[o + i]
  <2>1. e - (o + 1) + 1 = e - o /\ \A i \in 1..(e - o) : o + 1 + i - 1 = o + i
    OBVIOUS
  <2> QED  BY <1>3, <2>1
<1> QED  BY <1>4 DEF s

-----------------------------------------------------------------------------
(* Arithmetic of pages *)

LEMMA Gap ==
  \A a \in Nat, b \in Nat : \A n : a <= b /\ n = b - a => n \in Nat /\ a + n = b /\ (a < b => n # 0)
OBVIOUS

LEMMA Counts == (FewRows => query.count \in Nat /\ query.count # 0) /\ (FewLines => query.count \in Nat \ {0})
<1>1. PICK count : count = query.count
  OBVIOUS
<1>2. count \in 1..5000 => count \in Nat \ {0}
  OBVIOUS
<1>3. count \in 1..200 => count \in Nat /\ count # 0
  OBVIOUS
<1>4. FewRows => count \in 1..200
  BY <1>1, SMT DEF FewRows
<1>5. FewLines => count \in 1..5000
  BY <1>1, SMT DEF FewLines
<1>6. FewRows => count \in Nat /\ count # 0
  BY ONLY <1>3, <1>4
<1>7. FewLines => count \in Nat \ {0}
  BY ONLY <1>2, <1>5
<1> QED  BY ONLY <1>1, <1>6, <1>7

LEMMA NoRows == \A s : Len(s) # 0 => s # <<>>
OBVIOUS

LEMMA RowsBetween ==
  \A s \in Seq(Nat) : \A o \in Nat, e \in Nat : \A p : o <= e /\ e <= Len(s) /\ p = SubSeq(s, o + 1, e) =>
    /\ p \in Seq(Nat) /\ Len(p) = e - o
    /\ \A i \in 1..(e - o) : p[i] = s[o + i]
<1> SUFFICES ASSUME NEW s \in Seq(Nat), NEW o \in Nat, NEW e \in Nat, NEW p, o <= e, e <= Len(s), p = SubSeq(s, o + 1, e)
             PROVE /\ p \in Seq(Nat) /\ Len(p) = e - o
                   /\ \A i \in 1..(e - o) : p[i] = s[o + i]
  OBVIOUS
<1> QED  BY PartIs, Zenon

-----------------------------------------------------------------------------
(* Pages of differences *)

Small(start, e) == Bytes(SubSeq(held.rows, start + 1, e)) <= query.budget
HalfOf(start, e) == start + (e - start) \div 2
Halving(start, end, e) == IF Small(start, e) THEN e ELSE IF e <= start + 1 THEN -1 ELSE end[HalfOf(start, e)]
Halved(start, n, end) == end = [e \in 0..n |-> Halving(start, end, e)]

LEMMA HalfIs ==
  ASSUME NEW start \in Nat, NEW e \in Nat, ~(e <= start + 1)
  PROVE  HalfOf(start, e) \in Nat /\ start < HalfOf(start, e) /\ HalfOf(start, e) < e
<1>1. PICK d \in Nat : d = e - start /\ d >= 2
  <2>1. e - start \in Nat /\ e - start >= 2
    OBVIOUS
  <2> QED  BY <2>1
<1>2. d \div 2 \in Nat /\ 1 <= d \div 2 /\ d \div 2 < d
  BY <1>1
<1>3. HalfOf(start, e) = start + d \div 2
  BY <1>1 DEF HalfOf
<1> QED  BY <1>1, <1>2, <1>3

LEMMA HalvingExists == ASSUME NEW start \in Nat, NEW n \in Nat PROVE \E end : Halved(start, n, end)
<1>1. PICK bad : bad = {k \in Nat : ~\E end : Halved(start, k, end)}
  OBVIOUS
<1>. SUFFICES ASSUME n \in bad PROVE FALSE
  BY <1>1
<1>2. PICK k \in bad : \A j \in bad : k <= j
  <2>1. bad \subseteq Nat /\ bad # {}
    BY <1>1
  <2>. QED
    BY <2>1, Least
<1>3. k \in Nat
  BY <1>1
<1>4. CASE k = 0
  <2>1. PICK c : c = [e \in 0..0 |-> IF Small(start, e) THEN e ELSE -1]
    OBVIOUS
  <2>2. \A e \in 0..0 : Halving(start, c, e) = IF Small(start, e) THEN e ELSE -1
    BY DEF Halving
  <2>3. Halved(start, 0, c)
    BY <2>1, <2>2 DEF Halved
  <2> QED  BY <2>3, <1>1, <1>4
<1>5. CASE k # 0
  <2>1. k - 1 \in Nat /\ k - 1 \notin bad
    BY <1>2, <1>3, <1>5
  <2>2. PICK f : Halved(start, k - 1, f)
    BY <2>1, <1>1
  <2>3. PICK g : g = [e \in 0..k |-> IF e < k THEN f[e] ELSE Halving(start, f, e)]
    OBVIOUS
  <2>4. \A e \in 0..(k - 1) : g[e] = f[e] /\ f[e] = Halving(start, f, e)
    <3> SUFFICES ASSUME NEW e \in 0..(k - 1) PROVE g[e] = f[e] /\ f[e] = Halving(start, f, e)
      OBVIOUS
    <3>1. e \in 0..k /\ e < k
      BY <1>3
    <3>2. g[e] = f[e]
      BY <3>1, <2>3
    <3>3. f[e] = Halving(start, f, e)
      BY <2>2 DEF Halved
    <3> QED  BY <3>2, <3>3
  <2>5. ASSUME NEW e \in 0..k PROVE Halving(start, g, e) = Halving(start, f, e)
    <3>1. CASE e <= start + 1
      BY <3>1 DEF Halving
    <3>2. CASE ~(e <= start + 1)
      <4>1. HalfOf(start, e) \in 0..(k - 1)
        BY <3>2, <1>3, HalfIs
      <4> QED  BY <4>1, <2>4 DEF Halving
    <3> QED  BY <3>1, <3>2
  <2>6. \A e \in 0..k : g[e] = Halving(start, g, e)
    <3> SUFFICES ASSUME NEW e \in 0..k PROVE g[e] = Halving(start, g, e)
      OBVIOUS
    <3>1. CASE e < k
      <4>1. e \in 0..(k - 1)
        BY <3>1, <1>3
      <4> QED  BY <4>1, <2>4, <2>5
    <3>2. CASE ~(e < k)
      BY <3>2, <2>3, <2>5
    <3> QED  BY <3>1, <3>2
  <2>7. DOMAIN g = 0..k /\ g = [e \in 0..k |-> g[e]]
    BY <2>3
  <2>8. Halved(start, k, g)
    BY <2>6, <2>7 DEF Halved
  <2> QED  BY <2>8, <1>1, <1>2
<1> QED  BY <1>4, <1>5

\* Halving ends after the start, or with nothing.
LEMMA HalvingEnds ==
  ASSUME NEW start \in Nat, NEW n \in Nat, NEW end, Halved(start, n, end), NEW e \in 0..n
  PROVE  end[e] = -1 \/ (end[e] \in Nat /\ end[e] <= e /\ (start < e => start < end[e]) /\ (e <= start => end[e] = e))
<1> DEFINE Ends(k) == end[k] = -1 \/ (end[k] \in Nat /\ end[k] <= k /\ (start < k => start < end[k]) /\ (k <= start => end[k] = k))
<1>1. PICK bad : bad = {k \in 0..n : ~Ends(k)}
  OBVIOUS
<1>. SUFFICES ASSUME e \in bad PROVE FALSE
  BY <1>1
<1>2. PICK k \in bad : \A j \in bad : k <= j
  <2>1. bad \subseteq Nat /\ bad # {}
    <3>1. \A j \in 0..n : j \in Nat
      OBVIOUS
    <3> HIDE DEF Ends
    <3> QED  BY <1>1, <3>1
  <2>. QED
    BY <2>1, Least
<1>3. k \in 0..n /\ ~Ends(k)
  BY <1>1
<1>4. end[k] = Halving(start, end, k)
  BY <1>3 DEF Halved
<1>5. CASE Small(start, k)
  BY <1>3, <1>4, <1>5 DEF Halving
<1>6. CASE ~Small(start, k) /\ k <= start + 1
  BY <1>3, <1>4, <1>6 DEF Halving
<1>7. CASE ~Small(start, k) /\ ~(k <= start + 1)
  <2>1. PICK j : j = HalfOf(start, k)
    OBVIOUS
  <2>2. j \in Nat /\ start < j /\ j < k
    BY <2>1, <1>3, <1>7, HalfIs
  <2>3. end[k] = end[j]
    BY <2>1, <1>4, <1>7 DEF Halving
  <2>4. Ends(j)
    <3>1. j \in 0..n /\ j \notin bad
      BY <2>2, <1>2, <1>3
    <3> HIDE DEF Ends
    <3> QED  BY <3>1, <1>1
  <2> QED  BY <2>2, <2>3, <2>4, <1>3
<1> QED  BY <1>5, <1>6, <1>7

LEMMA ShrunkIs ==
  ASSUME held.rows \in Seq(Nat), query.count \in Nat \ {0}, NEW start \in Nat,
         start < Len(held.rows) \/ start = 0, NEW end, end = Shrunk(start)
  PROVE  end = -1 \/ (end \in Nat /\ start <= end /\ end <= Len(held.rows) /\ (start < Len(held.rows) => start < end))
<1> DEFINE n == Len(held.rows)
           last == Upto(start + query.count, n)
<1>1. n \in Nat /\ last \in 0..n /\ (start < n => start < last) /\ (start >= n => last = 0 /\ start = 0)
  BY DEF Upto
<1>2. PICK f : f = CHOOSE c : Halved(start, n, c)
  OBVIOUS
<1>3. Halved(start, n, f)
  BY <1>1, <1>2, HalvingExists
<1>4. Shrunk(start) = f[last]
  BY <1>2 DEF Shrunk, Halved, Halving, HalfOf, Small
<1> HIDE DEF n, last
<1>5. end = -1 \/ (end \in Nat /\ end <= last /\ (start < last => start < end) /\ (last <= start => end = last))
  BY <1>1, <1>3, <1>4, HalvingEnds
<1>6. end = -1 \/ (end \in Nat /\ start <= end /\ end <= n /\ (start < n => start < end))
  BY <1>1, <1>5
<1> QED  BY <1>6 DEF n

-----------------------------------------------------------------------------
(* Cursors *)

LEMMA PagedStays ==
  ASSUME UNCHANGED query PROVE (LittleContext <=> LittleContext') /\ (Paged <=> Paged')
<1>1. FewRows <=> FewRows'
  BY DEF FewRows
<1>2. FewLines <=> FewLines'
  BY DEF FewLines
<1>3. LittleContext <=> LittleContext'
  BY DEF LittleContext
<1>4. Paged <=> Paged'
  BY <1>1, <1>2, <1>3 DEF Paged
<1> QED  BY <1>3, <1>4

LEMMA OwnStays ==
  ASSUME UNCHANGED <<query, world, sent, answer, got, truth, edits>>
  PROVE  (Own(sent) => Own(sent)') /\ (Own(answer.next) => Own(answer.next)')
<1>1. /\ Shows(sent.s.f, truth) => Shows(sent.s.f, truth)'
      /\ Shows(answer.next.s.f, truth) => Shows(answer.next.s.f, truth)'
  BY DEF Shows
<1>2. /\ Unedited(sent.s.f, truth) => Unedited(sent.s.f, truth)'
      /\ Unedited(answer.next.s.f, truth) => Unedited(answer.next.s.f, truth)'
  BY DEF Unedited
<1>3. Own(sent) => Own(sent)'
  BY <1>1, <1>2, PagedStays DEF Own
<1>4. Own(answer.next) => Own(answer.next)'
  BY <1>1, <1>2, PagedStays DEF Own
<1> QED  BY <1>3, <1>4

-----------------------------------------------------------------------------
(* Answers *)

\* A page that goes on where the client is, in the listing it reads.
GoodPage(a, whole) ==
  /\ whole \in Seq(Nat) /\ a.rows \in Seq(Nat)
  /\ sent.o \in Nat /\ sent.o \in {0, Len(got)} /\ sent.o + Len(a.rows) <= Len(whole)
  /\ \A i \in 1..Len(a.rows) : a.rows[i] = whole[sent.o + i]
  /\ \A i \in 1..sent.o : got[i] = whole[i]
  /\ a.next = NoCursor => sent.o + Len(a.rows) = Len(whole)
  /\ a.next # NoCursor =>
       /\ a.rows # <<>> /\ Paged
       /\ a.next = CursorRef(SnapshotRef(1, query.kind, a.next.s.f), sent.o + Len(a.rows))
       /\ sent.o + Len(a.rows) < Len(whole)
       /\ Shows(a.next.s.f, whole) /\ Unedited(a.next.s.f, whole)
  /\ query.kind \in Difference => a.files = <<1>>
GoodAnswer(a, whole) ==
  /\ a.code = "page" => GoodPage(a, whole)
  /\ a.code = "INVALID" => Excused

LEMMA ReplyInv ==
  ASSUME ReadInv, NEW a, NEW whole, Reply(a, whole), GoodAnswer(a, whole)
  PROVE  ReadInv'
<1>1. /\ answer' = a /\ step' = "idle" /\ held' = NothingRead
      /\ UNCHANGED <<query, world, sent, edits>>
  BY DEF Reply
<1>2. ReadTypes'
  BY <1>1, NothingTyped DEF ReadInv, ReadTypes, NothingRead
<1>3. Content' /\ Asking'
  BY <1>1 DEF ReadInv, Content, Still, Asking
<1>4. DifferenceRead'
  BY <1>1 DEF DifferenceRead, Files
<1>5. answer'.code = "INVALID" => Excused'
  BY <1>1 DEF GoodAnswer, Excused
<1>6. Collected' /\ Answered'
  <2>1. CASE a.code # "page"
    <3>1. got' = got /\ truth' = truth
      BY <2>1 DEF Reply
    <3> QED  BY <3>1, <2>1, <1>1 DEF Collected, Answered, ReadInv
  <2>2. CASE a.code = "page"
    <3> DEFINE base == IF sent.o = 0 THEN <<>> ELSE got
               o == sent.o
    <3>1. GoodPage(a, whole)
      BY <2>2 DEF GoodAnswer
    <3>2. got' = base \o a.rows /\ truth' = whole
      BY <2>2 DEF Reply
    <3>3. base \in Seq(Nat) /\ Len(base) = o /\ o \in Nat /\ \A i \in 1..o : base[i] = whole[i]
      BY <3>1 DEF GoodPage, ReadInv, Collected
    <3>4. a.rows \in Seq(Nat) /\ whole \in Seq(Nat) /\ o + Len(a.rows) <= Len(whole) /\ Len(a.rows) \in Nat
          /\ \A i \in 1..Len(a.rows) : a.rows[i] = whole[o + i]
      BY <3>1 DEF GoodPage
    <3> HIDE DEF base, o
    <3>5. got' \in Seq(Nat) /\ Len(got') = o + Len(a.rows)
      <4>1. base \o a.rows \in Seq(Nat) /\ Len(base \o a.rows) = Len(base) + Len(a.rows)
        BY <3>3, <3>4, ConcatProperties
      <4> QED  BY <4>1, <3>2, <3>3
    <3>6. ASSUME NEW i \in 1..Len(got') PROVE got'[i] = truth'[i]
      <4>1. CASE i <= o
        BY <4>1, <3>2, <3>3, <3>4, <3>5
      <4>2. CASE i > o
        <5>3. i - o \in 1..Len(a.rows)
          BY <4>2, <3>3, <3>4, <3>5
        <5>4. (base \o a.rows)[i] = a.rows[i - o]
          <6>1. \A k \in 1..(Len(base) + Len(a.rows)) :
                  (base \o a.rows)[k] = IF k <= Len(base) THEN base[k] ELSE a.rows[k - Len(base)]
            BY <3>3, <3>4, ConcatProperties
          <6>2. i \in 1..(Len(base) + Len(a.rows)) /\ ~(i <= Len(base)) /\ Len(base) = o
            BY <4>2, <3>3, <3>5
          <6> QED  BY <6>1, <6>2
        <5>1. i - o \in 1..Len(a.rows) /\ got'[i] = a.rows[i - o]
          BY <5>3, <5>4, <3>2
        <5>2. o + (i - o) = i
          BY <3>3
        <5> QED  BY <5>1, <5>2, <3>2, <3>4
      <4> QED  BY <4>1, <4>2, <3>3
    <3>7. Collected'
      BY <3>2, <3>4, <3>5, <3>6 DEF Collected
    <3>8. ASSUME a.next = NoCursor PROVE got' = truth'
      <4>1. Len(got') = Len(truth')
        BY <3>1, <3>2, <3>5, <3>8 DEF GoodPage, o
      <4> QED  BY <4>1, <3>2, <3>4, <3>5, <3>6, SeqEqual
    <3>9. ASSUME a.next # NoCursor PROVE Own(a.next)' /\ a.next.o = Len(got') /\ a.rows # <<>>
      <4>1. /\ a.rows # <<>> /\ Paged
            /\ a.next = CursorRef(SnapshotRef(1, query.kind, a.next.s.f), o + Len(a.rows))
            /\ o + Len(a.rows) < Len(whole)
            /\ Shows(a.next.s.f, whole) /\ Unedited(a.next.s.f, whole)
        BY <3>1, <3>9 DEF GoodPage, o
      <4>2. a.next.o = o + Len(a.rows)
        BY <4>1 DEF CursorRef
      <4>4. Shows(a.next.s.f, truth)' /\ Unedited(a.next.s.f, truth)' /\ Paged'
        <5>1. Paged'
          BY <4>1, <1>1, PagedStays
        <5>2. Shows(a.next.s.f, truth)'
          BY <4>1, <3>2, <1>1 DEF Shows
        <5>3. Unedited(a.next.s.f, truth)'
          BY <4>1, <3>2, <1>1 DEF Unedited
        <5> QED  BY <5>1, <5>2, <5>3
      <4> QED  BY <4>1, <4>2, <4>4, <3>2, <3>3, <3>4, <3>5, <1>1 DEF Own
    <3>10. query.kind \in Difference => a.files = <<1>>
      BY <3>1 DEF GoodPage
    <3> QED  BY <3>7, <3>8, <3>9, <3>10, <1>1, <2>2 DEF Answered
  <2> QED  BY <2>1, <2>2
<1> QED  BY <1>2, <1>3, <1>4, <1>5, <1>6 DEF ReadInv

\* A refusal; INVALID only of a cursor the agent did not give out.
LEMMA FailInv ==
  ASSUME ReadInv, NEW code, Fail(code), code # "page", code = "INVALID" => Excused
  PROVE  ReadInv'
<1>1. GoodAnswer(Invalid(code), <<>>)
  BY DEF GoodAnswer, Invalid
<1> QED  BY <1>1, ReplyInv DEF Fail

\* A step that reads something and goes on.
LEMMA HoldInv ==
  ASSUME ReadInv, NEW value, NEW next, Hold(value, next), step # "idle", next \in ReadSteps[query.kind],
         value = [id |-> 1, rows |-> value.rows, files |-> value.files, paths |-> value.paths, f |-> value.f],
         value.f \in Prints, next \notin {"idle", "identify"}, DifferenceRead', Asking'
  PROVE  ReadInv'
<1>1. held' = value /\ step' = next /\ UNCHANGED <<query, world, sent, answer, got, truth, edits>>
  BY DEF Hold
<1>2. ReadTypes'
  BY <1>1 DEF ReadInv, ReadTypes, ReadSteps
<1>3. Collected' /\ Content' /\ (answer'.code = "INVALID" => Excused')
  BY <1>1 DEF ReadInv, Collected, Content, Still, Excused
<1>4. Answered'
  <2>1. Own(answer.next) => Own(answer.next)'
    BY <1>1, OwnStays
  <2> QED  BY <2>1, <1>1 DEF ReadInv, Answered
<1> QED  BY <1>2, <1>3, <1>4 DEF ReadInv

LEMMA KindIs ==
  ASSUME ReadInv
  PROVE  /\ query.kind \in ReadKind /\ {query.count, query.context, query.budget} \subseteq Nat
         /\ query.of \in {"tracked", "untracked", "missing"}
         /\ query.kind # "none" /\ query.kind # "other"
<1>1. query \in Query
  BY DEF ReadInv, ReadTypes
<1>2. query.kind \in ReadKind /\ {query.count, query.context, query.budget} \subseteq Nat
      /\ query.of \in {"tracked", "untracked", "missing"}
  BY <1>1, ReadAssumption
<1> QED  BY <1>2 DEF ReadKind, Listing

\* The cursor of a request: none, one of another listing, or one the agent gave out.
LEMMA SentIs ==
  ASSUME ReadInv, step # "idle"
  PROVE  \/ sent = NoCursor /\ sent.o = 0
         \/ sent # NoCursor /\ sent = Foreign /\ sent.s.q = "other" /\ sent.s.q # query.kind
         \/ /\ sent # NoCursor /\ Own(sent) /\ Paged
            /\ sent.s = SnapshotRef(1, query.kind, sent.s.f) /\ sent.s.r = [id |-> 1] /\ sent.s.q = query.kind
            /\ Shows(sent.s.f, truth) /\ Unedited(sent.s.f, truth)
            /\ sent.o \in Nat /\ sent.o < Len(truth) /\ sent.o \in {0, Len(got)}
            /\ \A i \in 1..sent.o : got[i] = truth[i]
<1>1. sent = NoCursor => sent.o = 0
  BY DEF NoCursor, CursorRef
<1>2. sent = Foreign => sent # NoCursor /\ sent.s.q = "other" /\ sent.s.q # query.kind
  BY KindIs DEF NoCursor, CursorRef, Foreign, SnapshotRef
<1>3. ASSUME Own(sent)
      PROVE  /\ sent # NoCursor /\ Paged
             /\ sent.s = SnapshotRef(1, query.kind, sent.s.f) /\ sent.s.r = [id |-> 1] /\ sent.s.q = query.kind
             /\ Shows(sent.s.f, truth) /\ Unedited(sent.s.f, truth)
             /\ sent.o \in Nat /\ sent.o < Len(truth) /\ sent.o \in {0, Len(got)}
             /\ \A i \in 1..sent.o : got[i] = truth[i]
  <2>1. /\ sent = CursorRef(SnapshotRef(1, query.kind, sent.s.f), sent.o)
        /\ Shows(sent.s.f, truth) /\ Unedited(sent.s.f, truth) /\ Paged
        /\ sent.o \in Nat /\ sent.o < Len(truth) /\ sent.o \in {0, Len(got)}
    BY <1>3 DEF Own
  <2>2. sent.s = SnapshotRef(1, query.kind, sent.s.f)
    BY <2>1 DEF CursorRef
  <2>3. sent.s.r = [id |-> 1] /\ sent.s.q = query.kind
    BY <2>2 DEF SnapshotRef
  <2>4. sent # NoCursor
    BY <2>3, KindIs DEF NoCursor, CursorRef, SnapshotRef
  <2>5. \A i \in 1..sent.o : got[i] = truth[i]
    BY <2>1 DEF ReadInv, Collected
  <2> QED  BY <2>1, <2>2, <2>3, <2>4, <2>5
<1> QED  BY <1>1, <1>2, <1>3 DEF ReadInv, Asking

\* What a page has to be: the rows from where the client is to an end.
LEMMA PageGood ==
  ASSUME ReadInv, NEW rows \in Seq(Nat), NEW offset \in Nat, NEW end \in Nat, offset <= end, end <= Len(rows),
         offset = sent.o, offset \in {0, Len(got)}, \A i \in 1..offset : got[i] = rows[i],
         NEW f, NEW a, a.code = "page", a.rows = SubSeq(rows, offset + 1, end),
         a.next = IF end < Len(rows) THEN CursorRef(SnapshotRef(1, query.kind, f), end) ELSE NoCursor,
         end < Len(rows) => offset < end /\ Paged /\ Shows(f, rows) /\ Unedited(f, rows),
         query.kind \in Difference => a.files = << 1 >>
  PROVE  GoodAnswer(a, rows)
<1>1. /\ a.rows \in Seq(Nat) /\ Len(a.rows) = end - offset
      /\ \A i \in 1..(end - offset) : a.rows[i] = rows[offset + i]
  <2>1. rows \in Seq(Nat) /\ offset \in Nat /\ end \in Nat /\ offset <= end /\ end <= Len(rows)
        /\ a.rows = SubSeq(rows, offset + 1, end)
    OBVIOUS
  <2>2. PICK p : p = a.rows
    OBVIOUS
  <2>3. p \in Seq(Nat) /\ Len(p) = end - offset /\ \A i \in 1..(end - offset) : p[i] = rows[offset + i]
    BY ONLY <2>1, <2>2, RowsBetween, SMTT(30)
  <2> QED  BY <2>2, <2>3
<1>10. offset + Len(a.rows) = end /\ (offset < end => Len(a.rows) # 0)
  BY <1>1, Gap
<1>3. ASSUME a.next # NoCursor
      PROVE  /\ a.rows # <<>> /\ Paged /\ sent.o + Len(a.rows) < Len(rows)
             /\ a.next = CursorRef(SnapshotRef(1, query.kind, a.next.s.f), sent.o + Len(a.rows))
             /\ Shows(a.next.s.f, rows) /\ Unedited(a.next.s.f, rows)
  <2>1. end < Len(rows) /\ a.next = CursorRef(SnapshotRef(1, query.kind, f), end)
    BY <1>3
  <2>2. a.next.s.f = f
    BY <2>1 DEF CursorRef, SnapshotRef
  <2>3. a.rows # <<>>
    <3>1. Len(a.rows) # 0
      BY <1>10, <2>1
    <3> QED  BY <3>1, NoRows
  <2> QED  BY <2>1, <2>2, <2>3, <1>10
<1>4. a.next = NoCursor => end = Len(rows)
  <2>1. ASSUME end < Len(rows) PROVE a.next # NoCursor
    BY <2>1, KindIs DEF NoCursor, CursorRef, SnapshotRef
  <2> QED  BY <2>1
<1>5. sent.o + Len(a.rows) = end
  BY <1>10
<1>6. \A i \in 1..Len(a.rows) : a.rows[i] = rows[sent.o + i]
  BY <1>1
<1>7. a.rows \in Seq(Nat)
  BY <1>1
<1>8. GoodPage(a, rows)
  BY <1>3, <1>4, <1>5, <1>6, <1>7 DEF GoodPage
<1> QED  BY <1>8 DEF GoodAnswer

\* The page of a listing that is fingerprinted as a whole.
LEMMA PageOfGood ==
  ASSUME ReadInv, step # "idle", held.id = 1, query.kind \in Fingerprinted,
         query.kind = "commitFiles" => query.of # "missing",
         NEW f, f.rows \in SUBSET Row
  PROVE  GoodAnswer(PageOf(InOrder(f.rows), f), Whole(InOrder(f.rows)))
<1> DEFINE rows == InOrder(f.rows)
           snapshot == SnapshotRef(held.id, query.kind, f)
           own == sent # NoCursor
           offset == IF own THEN sent.o ELSE 0
           n == Fitting(rows, offset, query.count)
           piece == SubSeq(rows, offset + 1, offset + n)
           next == IF offset + n < Len(rows) THEN CursorRef(snapshot, offset + n) ELSE NoCursor
           a == PageOf(rows, f)
           whole == Whole(rows)
           bad == ~FewRows
           other == own /\ (sent.s.r # snapshot.r \/ sent.s.q # snapshot.q)
           expired == own /\ sent.s.f # f
<1> SUFFICES GoodAnswer(a, whole)
  OBVIOUS
<1>1. rows \in Seq(Row) /\ rows \in Seq(Nat)
  BY InOrderIs
<1>2. snapshot.r = [id |-> 1] /\ snapshot.q = query.kind /\ snapshot = SnapshotRef(1, query.kind, f)
  BY DEF SnapshotRef
<1>3. a = IF bad THEN Invalid("INVALID") ELSE IF other THEN Invalid("INVALID")
          ELSE IF expired THEN Invalid("SNAPSHOT_EXPIRED")
          ELSE IF offset > Len(rows) THEN Invalid("INVALID")
          ELSE IF n < 0 THEN Invalid("LIMIT_EXCEEDED") ELSE Page(piece, next)
  BY DEF PageOf, FewRows
<1>4. own => \/ sent.s.q = "other" /\ other
             \/ /\ Paged /\ ~other /\ Own(sent)
                /\ sent.o \in Nat /\ sent.o < Len(truth) /\ sent.o \in {0, Len(got)}
                /\ \A i \in 1..sent.o : got[i] = truth[i]
                /\ truth = InOrder(sent.s.f.rows)
  <2> SUFFICES ASSUME own PROVE \/ sent.s.q = "other" /\ other
             \/ /\ Paged /\ ~other /\ Own(sent)
                /\ sent.o \in Nat /\ sent.o < Len(truth) /\ sent.o \in {0, Len(got)}
                /\ \A i \in 1..sent.o : got[i] = truth[i]
                /\ truth = InOrder(sent.s.f.rows)
    OBVIOUS
  <2> HIDE DEF snapshot
  <2>1. CASE sent.s.q = "other" /\ sent.s.q # query.kind
    BY <2>1, <1>2
  <2>2. CASE ~(sent.s.q = "other" /\ sent.s.q # query.kind)
    <3>1. /\ Own(sent) /\ Paged
          /\ sent.s.r = [id |-> 1] /\ sent.s.q = query.kind
          /\ Shows(sent.s.f, truth)
          /\ sent.o \in Nat /\ sent.o < Len(truth) /\ sent.o \in {0, Len(got)}
          /\ \A i \in 1..sent.o : got[i] = truth[i]
      BY <2>2, SentIs
    <3>2. truth = InOrder(sent.s.f.rows)
      BY <3>1 DEF Shows
    <3> QED  BY <3>1, <3>2, <1>2
  <2> QED  BY <2>1, <2>2
<1>5. Paged => ~bad
  BY DEF Paged
<1>6. ~own => sent = NoCursor
  OBVIOUS
<1>10. n = Fitting(rows, offset, query.count) /\ piece = SubSeq(rows, offset + 1, offset + n)
  OBVIOUS
<1>11. whole = (IF own THEN truth ELSE rows) /\ offset = (IF own THEN sent.o ELSE 0)
  BY DEF Whole
<1> HIDE DEF a, rows, n, piece, next, bad, other, expired, offset, whole, own
<1>7. CASE bad \/ other
  <2>1. a.code = "INVALID"
    BY <1>3, <1>7 DEF Invalid
  <2>2. Excused
    BY <1>4, <1>5, <1>6, <1>7 DEF Excused
  <2> QED  BY <2>1, <2>2 DEF GoodAnswer
<1>8. CASE ~bad /\ ~other /\ expired
  <2>1. a = Invalid("SNAPSHOT_EXPIRED")
    BY <1>3, <1>8
  <2> QED  BY <2>1 DEF GoodAnswer, Invalid
<1>9. CASE ~bad /\ ~other /\ ~expired
  <2>1. own => /\ Own(sent) /\ sent.o \in Nat /\ sent.o < Len(rows) /\ sent.o \in {0, Len(got)}
               /\ \A i \in 1..sent.o : got[i] = truth[i]
               /\ truth = rows
    <3>1. own => sent.s.f = f
      BY <1>9 DEF expired
    <3> QED  BY <3>1, <1>4, <1>9 DEF rows
  <2>2. offset \in 0..Len(rows) /\ offset = sent.o /\ offset \in {0, Len(got)} /\ whole = rows
        /\ \A i \in 1..sent.o : got[i] = rows[i]
    <3>1. CASE own
      BY <3>1, <2>1, <1>1, <1>11
    <3>2. CASE ~own
      BY <3>2, <1>1, <1>6, <1>11, SentIs
    <3> QED  BY <3>1, <3>2
  <2>3. FewRows
    BY <1>9 DEF bad
  <2>5. CASE n = -1
    <3>1. a = Invalid("LIMIT_EXCEEDED")
      BY <1>1, <1>3, <1>9, <2>2, <2>5
    <3> QED  BY <3>1 DEF GoodAnswer, Invalid
  <2>6. CASE n # -1
    <3>1. n \in Nat /\ offset + n <= Len(rows) /\ (n = 0 => offset = Len(rows))
      <4>1. query.count \in Nat /\ query.count # 0
        BY <2>3, Counts
      <4>2. n \in Nat /\ offset + n <= Len(rows) /\ (n = 0 => offset = Len(rows) \/ query.count = 0)
        BY <4>1, <2>2, <2>6, <1>1, <1>10, FittingIs
      <4> QED  BY <4>1, <4>2
    <3>2. a = Page(piece, next)
      BY <1>1, <1>3, <1>9, <2>2, <3>1
    <3>3. PICK end \in Nat : end = offset + n
      BY <3>1, <2>2
    <3>4. /\ a.code = "page" /\ a.rows = SubSeq(rows, offset + 1, end)
          /\ a.next = IF end < Len(rows) THEN CursorRef(SnapshotRef(1, query.kind, f), end) ELSE NoCursor
      BY <3>2, <3>3, <1>2, <1>10 DEF Page, next
    <3>5. offset \in Nat /\ offset <= end /\ end <= Len(rows) /\ (end < Len(rows) => offset < end)
      BY <3>1, <3>3, <2>2
    <3>6. Paged
      BY <2>3 DEF Paged, Fingerprinted, Difference, Listing
    <3>7. Shows(f, rows) /\ Unedited(f, rows)
      BY DEF Shows, Unedited, Fingerprinted, Difference, Listing, rows
    <3>8. query.kind \notin Difference
      BY DEF Fingerprinted, Difference, Listing
    <3>9. GoodAnswer(a, rows)
      BY <1>1, <2>2, <3>4, <3>5, <3>6, <3>7, <3>8, PageGood
    <3> QED  BY <2>2, <3>9
  <2> QED  BY <2>5, <2>6
<1> QED  BY <1>7, <1>8, <1>9

LEMMA LinesAre == Lines(1) \in Seq(Nat) /\ BlobRows \in Seq(Nat)
<1>1. RowSize \in Seq(Nat \ {0}) /\ RowSize # <<>> /\ Len(RowSize) \in Nat /\ DOMAIN RowSize = 1..Len(RowSize)
  BY ReadAssumption
<1>2. BlobRows \in Seq(Nat) /\ Len(BlobRows) = Len(RowSize)
  <2>1. BlobRows \in [1..Len(RowSize) -> Nat]
    BY <1>1 DEF BlobRows
  <2> QED  BY <1>1, <2>1
<1>3. BlobRows # <<>>
  <2>1. Len(RowSize) # 0
    BY <1>1, EmptySeq
  <2> QED  BY <1>2, <2>1
<1>4. Lines(1) = Tail(BlobRows)
  BY DEF Lines
<1> HIDE DEF BlobRows
<1> QED  BY <1>2, <1>3, <1>4, HeadTailProperties

\* The page of a difference.
LEMMA DiffPageGood ==
  ASSUME ReadInv, step # "idle", held.id = 1, query.kind \in Difference, LittleContext,
         query.kind = "commitDiff" => query.of # "missing", held.rows = Lines(1), held.files = << 1 >>
  PROVE  GoodAnswer(DiffPage, Lines(1))
<1> DEFINE rows == held.rows
           f == [NoPrint EXCEPT !.rows = ToSet(held.rows), !.files = held.files]
           snapshot == SnapshotRef(held.id, query.kind, f)
           own == sent # NoCursor
           offset == IF own THEN sent.o ELSE 0
           end == Shrunk(offset)
           next == IF end < Len(rows) THEN CursorRef(snapshot, end) ELSE NoCursor
           a == DiffPage
           bad == ~FewLines \/ query.budget \notin Budgets
           other == own /\ (sent.s.r # snapshot.r \/ sent.s.q # snapshot.q)
           expired == own /\ sent.s.f # f
<1>1. rows \in Seq(Nat) /\ rows = Lines(1)
  BY LinesAre
<1>2. snapshot.r = [id |-> 1] /\ snapshot.q = query.kind /\ snapshot = SnapshotRef(1, query.kind, f)
  BY DEF SnapshotRef
<1>3. a = IF bad THEN Invalid("INVALID") ELSE IF other THEN Invalid("INVALID")
          ELSE IF expired THEN Invalid("SNAPSHOT_EXPIRED")
          ELSE IF offset > Len(rows) THEN Invalid("INVALID")
          ELSE IF end < 0 THEN Invalid("LIMIT_EXCEEDED")
          ELSE [Page(SubSeq(rows, offset + 1, end), next) EXCEPT !.files = held.files]
  BY DEF DiffPage, FewLines
<1>4. own => \/ sent.s.q = "other" /\ other
             \/ /\ Paged /\ ~other /\ sent.o \in Nat /\ sent.o < Len(rows) /\ sent.o \in {0, Len(got)}
                /\ \A i \in 1..sent.o : got[i] = rows[i]
  <2> SUFFICES ASSUME own PROVE \/ sent.s.q = "other" /\ other
             \/ /\ Paged /\ ~other /\ sent.o \in Nat /\ sent.o < Len(rows) /\ sent.o \in {0, Len(got)}
                /\ \A i \in 1..sent.o : got[i] = rows[i]
    OBVIOUS
  <2> HIDE DEF snapshot, rows
  <2>1. CASE sent.s.q = "other" /\ sent.s.q # query.kind
    BY <2>1, <1>2
  <2>2. CASE ~(sent.s.q = "other" /\ sent.s.q # query.kind)
    <3>1. /\ Paged
          /\ sent.s.r = [id |-> 1] /\ sent.s.q = query.kind
          /\ Shows(sent.s.f, truth)
          /\ sent.o \in Nat /\ sent.o < Len(truth) /\ sent.o \in {0, Len(got)}
          /\ \A i \in 1..sent.o : got[i] = truth[i]
      BY <2>2, SentIs
    <3>2. truth = rows
      BY <3>1, <1>1 DEF Shows
    <3> QED  BY <3>1, <3>2, <1>2
  <2> QED  BY <2>1, <2>2
<1>5. Paged => ~bad
  BY DEF Paged
<1>6. ~own => sent = NoCursor /\ sent.o = 0
  BY SentIs
<1> HIDE DEF a, rows, end, next, bad, other, expired, own
<1>7. CASE bad \/ other
  <2>1. a.code = "INVALID"
    BY <1>3, <1>7 DEF Invalid
  <2>2. Excused
    BY <1>4, <1>5, <1>6, <1>7 DEF Excused
  <2> QED  BY <2>1, <2>2 DEF GoodAnswer, a
<1>8. CASE ~bad /\ ~other /\ expired
  <2>1. a = Invalid("SNAPSHOT_EXPIRED")
    BY <1>3, <1>8
  <2> QED  BY <2>1 DEF GoodAnswer, Invalid, a
<1>9. CASE ~bad /\ ~other /\ ~expired
  <2>1. offset \in Nat /\ offset = sent.o /\ offset \in {0, Len(got)} /\ (offset < Len(rows) \/ offset = 0)
        /\ \A i \in 1..offset : got[i] = rows[i]
    BY <1>1, <1>4, <1>6, <1>9
  <2>2. FewLines /\ query.budget \in Budgets
    BY <1>9 DEF bad
  <2> HIDE DEF offset
  <2>3. ~(offset > Len(rows))
    BY <1>1, <2>1
  <2>4. CASE end = -1
    <3>1. a = Invalid("LIMIT_EXCEEDED")
      BY <1>3, <1>9, <2>3, <2>4
    <3> QED  BY <3>1 DEF GoodAnswer, Invalid, a
  <2>5. CASE end # -1
    <3>1. end \in Nat /\ offset <= end /\ end <= Len(rows) /\ (offset < Len(rows) => offset < end)
      <4>2. query.count \in Nat \ {0}
        BY <2>2, Counts
      <4>1. held.rows \in Seq(Nat) /\ (offset < Len(held.rows) \/ offset = 0)
        BY <1>1, <2>1 DEF rows
      <4> QED  BY <4>1, <4>2, <2>1, <2>5, ShrunkIs DEF end, rows
    <3>2. a = [Page(SubSeq(rows, offset + 1, end), next) EXCEPT !.files = held.files]
      BY <1>3, <1>9, <2>3, <3>1
    <3>3. /\ a.code = "page" /\ a.rows = SubSeq(rows, offset + 1, end) /\ a.next = next /\ a.files = <<1>>
      BY <3>2 DEF Page
    <3>4. a.next = IF end < Len(rows) THEN CursorRef(SnapshotRef(1, query.kind, f), end) ELSE NoCursor
      BY <3>3, <1>2 DEF next
    <3>5. Paged
      BY <2>2 DEF Paged, Difference, Fingerprinted, Listing
    <3>6. Shows(f, rows) /\ Unedited(f, rows)
      BY <1>1 DEF Shows, Unedited, Difference, Fingerprinted, Listing
    <3> HIDE DEF f
    <3>7. end < Len(rows) => offset < end
      BY <3>1, <2>1, <1>1
    <3>8. GoodAnswer(a, rows)
      BY <1>1, <2>1, <3>1, <3>3, <3>4, <3>5, <3>6, <3>7, PageGood
    <3> QED  BY <1>1, <3>8 DEF a
  <2> QED  BY <2>4, <2>5
<1> QED  BY <1>7, <1>8, <1>9

-----------------------------------------------------------------------------
(* History and blobs *)

LEMMA StepIs ==
  ASSUME ReadInv
  PROVE  /\ step = "rows" => query.kind \in {"branches", "names", "worktrees", "remoteRefs"}
         /\ step = "config" => query.kind = "branches"
         /\ step \in {"stash", "log"} => query.kind = "stashes"
         /\ step \in {"tags", "details"} => query.kind = "tags"
         /\ step = "remote" => query.kind = "remoteRefs"
         /\ step = "commit" => query.kind \in {"commitFiles", "commitDiff"}
         /\ step = "raw" => query.kind \in {"commitFiles", "commitDiff", "working"}
         /\ step \in {"status", "hash"} => query.kind \in {"status", "working"}
         /\ step \in {"tip", "shallow", "walk"} => query.kind = "history"
         /\ step = "patch" => query.kind \in {"commitDiff", "working"}
         /\ step \in {"others", "other", "again", "rehash"} => query.kind = "working"
         /\ step = "page" => query.kind = "commitDiff"
         /\ step = "objects" => query.kind = "blob"
<1>1. step \in {"idle", "identify"} \cup ReadSteps[query.kind]
  BY DEF ReadInv, ReadTypes
<1>2. query.kind \in {"branches", "names", "tags", "stashes", "worktrees", "remoteRefs", "commitFiles", "status",
                      "history", "working", "commitDiff", "blob"}
  BY KindIs DEF ReadKind, Listing
<1>3. PICK kind : kind = query.kind
  OBVIOUS
<1> QED  BY <1>1, <1>2, <1>3 DEF ReadSteps

LEMMA WalkIs ==
  ASSUME NEW tip \in Tips, NEW shallow \in Nat
  PROVE  /\ Walk(tip, shallow) \in Seq(Row) /\ Walk(tip, shallow) \in Seq(Nat)
         /\ \A i \in 1..Len(Walk(tip, shallow)) : Walk(tip, shallow)[i] = tip - i + 1
<1>1. Len(RowSize) \in Nat /\ Row = 1..Len(RowSize) /\ tip \in Nat /\ tip <= Len(RowSize)
  BY ReadAssumption DEF Row, Tips
<1>2. PICK n \in Nat : 1..n = 1..(tip - shallow)
  <2>1. CASE shallow <= tip
    <3>1. tip - shallow \in Nat
      BY <2>1, <1>1
    <3> QED  BY <3>1
  <2>2. CASE ~(shallow <= tip)
    <3>1. 1..0 = 1..(tip - shallow)
      BY <2>2, <1>1
    <3> QED  BY <3>1
  <2> QED  BY <2>1, <2>2
<1>3. Walk(tip, shallow) = [i \in 1..n |-> tip - i + 1]
  BY <1>2 DEF Walk
<1>4. \A i \in 1..n : tip - i + 1 \in 1..Len(RowSize) /\ tip - i + 1 \in Nat
  <2>1. \A i \in 1..(tip - shallow) : tip - i + 1 \in 1..Len(RowSize) /\ tip - i + 1 \in Nat
    BY <1>1
  <2> QED  BY <1>2, <2>1
<1>5. Len(Walk(tip, shallow)) = n /\ Walk(tip, shallow) \in Seq(Row) /\ Walk(tip, shallow) \in Seq(Nat)
  <2>1. PICK m \in Nat : m = n
    OBVIOUS
  <2>2. Walk(tip, shallow) \in [1..m -> Row] /\ Walk(tip, shallow) \in [1..m -> Nat]
    BY <1>1, <1>3, <1>4, <2>1
  <2> QED  BY <2>1, <2>2
<1> QED  BY <1>3, <1>5

\* The first rows of a part of a sequence.
LEMMA PartOfPart ==
  ASSUME NEW s \in Seq(Nat), NEW o \in Nat, NEW e \in Nat, o <= e, e <= Len(s), NEW n \in Nat, n <= e - o
  PROVE  SubSeq(SubSeq(s, o + 1, e), 1, n) = SubSeq(s, o + 1, o + n)
<1>1. PICK ids : ids = SubSeq(s, o + 1, e)
  OBVIOUS
<1>2. ids \in Seq(Nat) /\ Len(ids) = e - o /\ \A i \in 1..(e - o) : ids[i] = s[o + i]
  <2>1. s \in Seq(Nat) /\ o \in Nat /\ e \in Nat /\ o <= e /\ e <= Len(s)
    OBVIOUS
  <2> QED  BY ONLY <2>1, <1>1, RowsBetween
<1>3. PICK p : p = SubSeq(ids, 0 + 1, n)
  OBVIOUS
<1>4. 0 \in Nat /\ n <= Len(ids) /\ 0 <= n /\ n - 0 = n /\ \A i \in Nat : 0 + i = i
  BY <1>2
<1>5. p \in Seq(Nat) /\ Len(p) = n /\ \A i \in 1..n : p[i] = ids[i]
  <2>1. p \in Seq(Nat) /\ Len(p) = n - 0 /\ \A i \in 1..(n - 0) : p[i] = ids[0 + i]
    <3>1. n \in Nat /\ n <= Len(ids) /\ ids \in Seq(Nat)
      BY <1>2
    <3> QED  BY ONLY <3>1, <1>3, <1>4, RowsBetween
  <2> QED  BY <2>1, <1>4
<1>6. PICK d \in Nat : d = o + n /\ o <= d /\ d <= Len(s) /\ d - o = n
  <2>1. o + n \in Nat /\ o <= o + n /\ o + n <= Len(s) /\ (o + n) - o = n
    OBVIOUS
  <2> QED  BY <2>1
<1>7. PICK q : q = SubSeq(s, o + 1, d)
  OBVIOUS
<1>8. q \in Seq(Nat) /\ Len(q) = n /\ \A i \in 1..n : q[i] = s[o + i]
  <2>1. q \in Seq(Nat) /\ Len(q) = d - o /\ \A i \in 1..(d - o) : q[i] = s[o + i]
    <3>1. s \in Seq(Nat) /\ o \in Nat /\ d \in Nat
      OBVIOUS
    <3> QED  BY ONLY <3>1, <1>6, <1>7, RowsBetween
  <2> QED  BY <2>1, <1>6
<1>9. ASSUME NEW i \in 1..n PROVE p[i] = q[i]
  <2>1. i \in 1..(e - o)
    OBVIOUS
  <2> QED  BY <2>1, <1>2, <1>5, <1>8
<1>10. p = q
  BY <1>5, <1>8, <1>9, SeqEqual
<1> QED  BY <1>1, <1>3, <1>6, <1>7, <1>10

\* The end of a window of as many rows as are asked for and one more.
LEMMA WindowEnds ==
  ASSUME NEW o \in Nat, NEW c \in Nat, c # 0, NEW L \in Nat, NEW e, e = Upto(o + c + 1, L), o <= e,
         NEW d, d = e - o, NEW m, m = Upto(c, d), NEW n \in Nat, n <= m, n = 0 => d = 0 \/ m = 0
  PROVE  n <= d /\ o + n <= L /\ (d > n <=> o + n < L) /\ (o + n < L => n # 0)
<1>1. e \in Nat /\ e <= L /\ (e < o + c + 1 => e = L)
  BY DEF Upto
<1>2. d \in Nat
  BY <1>1
<1>3. m \in Nat /\ m <= d /\ m <= c /\ (m = 0 => d = 0)
  BY <1>2 DEF Upto
<1> QED  BY <1>1, <1>2, <1>3

\* A window of a sequence, and the part of it that fits.
Window(walk, o, c) == SubSeq(walk, o + 1, Upto(o + c + 1, Len(walk)))
Fits(walk, o, c) == Fitting(Window(walk, o, c), 0, Upto(c, Len(Window(walk, o, c))))
Follows(walk, o, c, n) ==
  /\ n \in Nat /\ o + n \in Nat /\ o <= o + n /\ o + n <= Len(walk)
  /\ Len(Window(walk, o, c)) > n <=> o + n < Len(walk)
  /\ SubSeq(Window(walk, o, c), 1, n) = SubSeq(walk, o + 1, o + n)
  /\ o + n < Len(walk) => o < o + n
LEMMA WindowIs ==
  ASSUME NEW walk, walk \in Seq(Row), walk \in Seq(Nat), NEW o \in Nat, NEW c \in Nat, c # 0,
         Window(walk, o, c) = <<>> => o = 0, Fits(walk, o, c) # -1
  PROVE  Follows(walk, o, c, Fits(walk, o, c))
<1> DEFINE ids == Window(walk, o, c)
           n == Fits(walk, o, c)
<1>0. ids = SubSeq(walk, o + 1, Upto(o + c + 1, Len(walk))) /\ (ids = <<>> => o = 0)
      /\ n = Fitting(ids, 0, Upto(c, Len(ids))) /\ n # -1
  BY DEF Window, Fits
<1> HIDE DEF ids, n
<1>1. PICK L \in Nat : L = Len(walk)
  OBVIOUS
<1>2. PICK e \in Nat : e = Upto(o + c + 1, L)
  <2>1. o + c + 1 \in Nat
    OBVIOUS
  <2> QED  BY <2>1 DEF Upto
<1>3. e <= L
  BY <1>2 DEF Upto
<1>4. ids = SubSeq(walk, o + 1, e)
  BY <1>0, <1>1, <1>2
<1>5. o <= e
  <2>1. CASE o = 0
    BY <2>1
  <2>2. CASE o # 0
    <3>1. ids # <<>>
      BY <2>2, <1>0
    <3>2. o + 1 \in Int /\ e \in Int
      OBVIOUS
    <3>3. ~(e < o + 1)
      BY <3>1, <3>2, <1>4, SubSeqEmpty
    <3> QED  BY <3>3
  <2> QED  BY <2>1, <2>2
<1>6. ids \in Seq(Row) /\ Len(ids) = e - o
  <2>1. \A T : \A s \in Seq(T) : o <= e /\ e <= Len(s) =>
          SubSeq(s, o + 1, e) \in Seq(T) /\ Len(SubSeq(s, o + 1, e)) = e - o
    <3> SUFFICES ASSUME NEW T, NEW s \in Seq(T), o <= e, e <= Len(s)
                 PROVE  SubSeq(s, o + 1, e) \in Seq(T) /\ Len(SubSeq(s, o + 1, e)) = e - o
      OBVIOUS
    <3> QED  BY PartIs
  <2>2. walk \in Seq(Row) /\ e <= Len(walk)
    BY <1>1, <1>3
  <2> QED  BY ONLY <2>1, <2>2, <1>4, <1>5
<1>7. PICK d \in Nat : d = e - o /\ Len(ids) = d
  BY <1>5, <1>6
<1>8. PICK m \in Nat : m = Upto(c, d)
  BY DEF Upto
<1>9. n \in Nat /\ n <= m /\ (n = 0 => d = 0 \/ m = 0)
  <2>1. n = Fitting(ids, 0, m)
    BY <1>0, <1>7, <1>8
  <2>2. 0 \in 0..d
    OBVIOUS
  <2>3. 0 \in 0..Len(ids)
    BY <2>2, <1>7
  <2>4. n \in Nat /\ n <= m /\ (n = 0 => 0 = Len(ids) \/ m = 0)
    <3>1. n # -1
      BY <1>0
    <3> QED  BY <2>1, <2>3, <3>1, <1>6, FittingIs
  <2> QED  BY <2>4, <1>7
<1>10. n <= d /\ o + n <= L /\ (d > n <=> o + n < L) /\ (o + n < L => n # 0)
  <2>1. /\ o \in Nat /\ c \in Nat /\ c # 0 /\ L \in Nat /\ e = Upto(o + c + 1, L) /\ o <= e
        /\ d = e - o /\ m = Upto(c, d) /\ n \in Nat /\ n <= m /\ (n = 0 => d = 0 \/ m = 0)
    BY <1>2, <1>5, <1>7, <1>8, <1>9
  <2> QED  BY ONLY <2>1, WindowEnds
<1>11. SubSeq(ids, 1, n) = SubSeq(walk, o + 1, o + n)
  <2>1. n <= e - o
    BY <1>7, <1>10
  <2>2. e <= Len(walk) /\ n \in Nat /\ walk \in Seq(Nat) /\ o \in Nat /\ e \in Nat
    BY <1>1, <1>3, <1>9
  <2>3. SubSeq(SubSeq(walk, o + 1, e), 1, n) = SubSeq(walk, o + 1, o + n)
    BY ONLY <2>1, <2>2, <1>5, PartOfPart
  <2> QED  BY <2>3, <1>4
<1>12. o + n \in Nat /\ o <= o + n /\ (n # 0 => o < o + n)
  BY <1>9
<1> QED  BY <1>1, <1>7, <1>9, <1>10, <1>11, <1>12 DEF Follows, ids, n

LEMMA WindowFull ==
  ASSUME NEW walk \in Seq(Nat), NEW o \in Nat, NEW c \in Nat, c # 0, o < Len(walk)
  PROVE  Window(walk, o, c) # <<>>
<1>1. PICK L \in Nat : L = Len(walk)
  OBVIOUS
<1>2. PICK e \in Nat : e = Upto(o + c + 1, L)
  <2>1. o + c + 1 \in Nat
    OBVIOUS
  <2> QED  BY <2>1 DEF Upto
<1>3. o < e /\ e <= L
  BY <1>1, <1>2 DEF Upto
<1>4. Len(SubSeq(walk, o + 1, e)) = e - o
  <2>1. e <= Len(walk) /\ o <= e
    BY <1>1, <1>3
  <2> QED  BY <2>1, <1>2, RowsBetween
<1>5. Len(SubSeq(walk, o + 1, e)) # 0
  BY <1>3, <1>4
<1> QED  BY <1>1, <1>2, <1>5, NoRows DEF Window

\* A page of a history, of the commits from an offset and one more.
LEMMA HistoryGood ==
  ASSUME ReadInv, step = "walk", FewRows, NEW walk, walk = Walk(held.f.tip, world.shallow),
         NEW offset, offset = IF sent = NoCursor THEN 0 ELSE sent.o,
         Window(walk, offset, query.count) = <<>> => offset = 0,
         NEW n, n = Fits(walk, offset, query.count), n # -1,
         NEW a, a = Page(SubSeq(Window(walk, offset, query.count), 1, n),
                         IF Len(Window(walk, offset, query.count)) > n
                         THEN CursorRef(SnapshotRef(held.id, query.kind, held.f), offset + n)
                         ELSE NoCursor)
  PROVE  n \in Nat /\ GoodAnswer(a, walk)
<1>1. query.kind = "history" /\ held.id = 1 /\ held.f \in Prints /\ world.shallow \in Nat
  BY StepIs DEF ReadInv, ReadTypes
<1>2. held.f.tip \in Tips
  BY <1>1 DEF Prints
<1>3. walk \in Seq(Row) /\ walk \in Seq(Nat) /\ \A i \in 1..Len(walk) : walk[i] = held.f.tip - i + 1
  BY <1>1, <1>2, WalkIs
<1>4. query.count \in Nat /\ query.count # 0
  BY Counts
<1>5. /\ offset \in Nat /\ offset = sent.o /\ offset \in {0, Len(got)}
      /\ \A i \in 1..offset : i <= Len(walk) => got[i] = walk[i]
  <2>1. CASE sent = NoCursor
    BY <2>1, SentIs
  <2>2. CASE sent # NoCursor
    <3>1. /\ sent.o \in Nat /\ sent.o < Len(truth) /\ sent.o \in {0, Len(got)} /\ Shows(sent.s.f, truth)
          /\ \A i \in 1..sent.o : got[i] = truth[i]
      BY <2>2, SentIs DEF ReadInv, Asking
    <3>2. held.f = sent.s.f
      BY <2>2 DEF ReadInv, Asking
    <3>3. \A i \in 1..Len(truth) : truth[i] = held.f.tip - i + 1
      BY <3>1, <3>2, <1>1 DEF Shows
    <3>4. truth \in Seq(Nat) /\ Len(truth) \in Nat
      BY DEF ReadInv, Collected
    <3>5. ASSUME NEW i \in 1..offset, i <= Len(walk) PROVE got[i] = walk[i]
      <4>1. offset = sent.o
        BY <2>2
      <4>2. i \in 1..Len(truth) /\ i \in 1..Len(walk)
        BY <3>1, <3>4, <3>5, <4>1, <1>3
      <4> QED  BY <3>1, <3>3, <4>1, <4>2, <1>3
    <3> QED  BY <3>1, <3>5, <2>2
  <2> QED  BY <2>1, <2>2
<1>12. Follows(walk, offset, query.count, n)
  BY <1>3, <1>4, <1>5, WindowIs
<1>13. PICK last \in Nat : last = offset + n
  BY <1>12 DEF Follows
<1>14. n \in Nat /\ offset <= last /\ last <= Len(walk) /\ (last < Len(walk) => offset < last)
  BY <1>12, <1>13 DEF Follows
<1>16. /\ a.code = "page" /\ a.rows = SubSeq(walk, offset + 1, last)
       /\ a.next = IF last < Len(walk) THEN CursorRef(SnapshotRef(1, query.kind, held.f), last) ELSE NoCursor
  BY <1>1, <1>12, <1>13 DEF Page, Follows
<1>17. last < Len(walk) => offset < last /\ Paged /\ Shows(held.f, walk) /\ Unedited(held.f, walk)
  <2>1. Paged
    BY <1>1 DEF Paged, Difference, Fingerprinted, Listing
  <2>2. Shows(held.f, walk)
    BY <1>1, <1>2, <1>3 DEF Shows, Difference, Fingerprinted, Listing
  <2>3. Unedited(held.f, walk)
    BY DEF Unedited
  <2> QED  BY <2>1, <2>2, <2>3, <1>14
<1>18. \A i \in 1..offset : got[i] = walk[i]
  <2>0. Len(walk) \in Nat /\ offset <= Len(walk)
    BY <1>3, <1>5, <1>14
  <2>1. \A i \in 1..offset : i <= Len(walk)
    BY <2>0, <1>5
  <2> QED  BY <2>1, <1>5
<1>19. query.kind \notin Difference
  BY <1>1 DEF Difference
<1>20. GoodAnswer(a, walk)
  BY <1>3, <1>5, <1>14, <1>16, <1>17, <1>18, <1>19, PageGood
<1> QED  BY <1>14, <1>20

\* A window of an object.
BlobEnd(o, c, L) == Upto(o + Upto(c, FrameHalf), L)
LEMMA BlobEnds ==
  ASSUME NEW o \in Nat, NEW c \in Nat, c # 0, NEW L \in Nat, o < L \/ o = 0
  PROVE  /\ BlobEnd(o, c, L) \in Nat /\ o <= BlobEnd(o, c, L) /\ BlobEnd(o, c, L) <= L
         /\ BlobEnd(o, c, L) < L => o < BlobEnd(o, c, L)
<1>1. Upto(c, FrameHalf) \in Nat /\ Upto(c, FrameHalf) # 0
  BY ReadAssumption DEF Upto
<1>2. PICK m \in Nat : m = Upto(c, FrameHalf) /\ m # 0
  BY <1>1
<1> QED  BY <1>2 DEF Upto, BlobEnd

LEMMA BlobInv == ASSUME ReadInv, BlobPage PROVE ReadInv'
<1> DEFINE offset == IF sent = NoCursor THEN 0 ELSE sent.o
           end == Upto(offset + Upto(query.count, FrameHalf), Len(BlobRows))
           refused == query.count = 0 \/ (sent # NoCursor /\ sent.s # SnapshotRef(held.id, "blob", NoPrint))
           a == Page(SubSeq(BlobRows, offset + 1, end),
                     IF end < Len(BlobRows) THEN CursorRef(SnapshotRef(held.id, "blob", NoPrint), end)
                     ELSE NoCursor)
<1>1. query.kind = "blob" /\ step = "objects" /\ held.id = 1
  BY DEF BlobPage, ReadInv, ReadTypes
<1>2. IF refused THEN Fail("INVALID") ELSE Reply(a, BlobRows)
  BY DEF BlobPage
<1>3. \/ sent = NoCursor /\ sent.o = 0
      \/ sent # NoCursor /\ sent.s.q = "other" /\ sent.s # SnapshotRef(held.id, "blob", NoPrint)
      \/ /\ sent # NoCursor /\ query.count # 0 /\ sent.s = SnapshotRef(held.id, "blob", NoPrint)
         /\ sent.o \in Nat /\ sent.o < Len(BlobRows) /\ sent.o \in {0, Len(got)}
         /\ \A i \in 1..sent.o : got[i] = BlobRows[i]
  <2>1. CASE sent = NoCursor
    BY <2>1, SentIs, <1>1
  <2>2. CASE sent # NoCursor /\ sent.s.q = "other"
    <3>1. sent.s # SnapshotRef(held.id, "blob", NoPrint)
      BY <2>2 DEF SnapshotRef
    <3> QED  BY <2>2, <3>1
  <2>3. CASE sent # NoCursor /\ sent.s.q # "other"
    <3>1. /\ Paged /\ sent.s = SnapshotRef(1, query.kind, sent.s.f)
          /\ Shows(sent.s.f, truth)
          /\ sent.o \in Nat /\ sent.o < Len(truth) /\ sent.o \in {0, Len(got)}
          /\ \A i \in 1..sent.o : got[i] = truth[i]
      BY <2>3, <1>1, SentIs
    <3>2. truth = BlobRows /\ sent.s.f = NoPrint
      BY <3>1, <1>1 DEF Shows
    <3>3. query.count # 0
      BY <3>1, <1>1 DEF Paged
    <3> QED  BY <3>1, <3>2, <3>3, <2>3, <1>1
  <2> QED  BY <2>1, <2>2, <2>3
<1> HIDE DEF refused, a
<1>4. CASE refused
  <2>1. Excused
    <3>1. CASE sent = NoCursor
      BY <3>1 DEF Excused
    <3>2. CASE sent # NoCursor
      BY <3>2, <1>3, <1>4 DEF Excused, refused
    <3> QED  BY <3>1, <3>2
  <2>2. Fail("INVALID")
    BY <1>2, <1>4
  <2> QED  BY <2>1, <2>2, FailInv
<1>5. CASE ~refused
  <2>1. BlobRows \in Seq(Nat) /\ Len(BlobRows) \in Nat
    BY LinesAre
  <2>2. /\ offset \in Nat /\ offset = sent.o /\ (offset < Len(BlobRows) \/ offset = 0) /\ offset \in {0, Len(got)}
        /\ \A i \in 1..offset : got[i] = BlobRows[i]
    <3>1. CASE sent = NoCursor
      BY <3>1, <1>3
    <3>2. CASE sent # NoCursor
      BY <3>2, <1>3, <1>5 DEF refused
    <3> QED  BY <3>1, <3>2
  <2>3. query.count \in Nat /\ query.count # 0
    BY <1>5, KindIs DEF refused
  <2>5. end = BlobEnd(offset, query.count, Len(BlobRows))
    BY DEF BlobEnd
  <2> HIDE DEF offset, end
  <2>6. end \in Nat /\ offset <= end /\ end <= Len(BlobRows) /\ (end < Len(BlobRows) => offset < end)
    BY ONLY <2>1, <2>2, <2>3, <2>5, BlobEnds
  <2>7. /\ a.code = "page" /\ a.rows = SubSeq(BlobRows, offset + 1, end)
        /\ a.next = IF end < Len(BlobRows) THEN CursorRef(SnapshotRef(1, query.kind, NoPrint), end) ELSE NoCursor
    BY <1>1 DEF a, Page
  <2>8. Paged /\ Shows(NoPrint, BlobRows) /\ Unedited(NoPrint, BlobRows) /\ query.kind \notin Difference
    BY <1>1, <2>3 DEF Paged, Shows, Unedited, Difference, Fingerprinted, Listing
  <2>9. GoodAnswer(a, BlobRows)
    BY <2>1, <2>2, <2>6, <2>7, <2>8, PageGood
  <2>10. Reply(a, BlobRows)
    BY <1>2, <1>5
  <2> QED  BY <2>9, <2>10, ReplyInv
<1> QED  BY <1>4, <1>5

-----------------------------------------------------------------------------
(* The steps of a request *)

\* A step of a request that is not for a difference.
LEMMA GoOn ==
  ASSUME ReadInv, NEW value, NEW next, Hold(value, next), step # "idle", query.kind \notin Difference,
         next \in ReadSteps[query.kind],
         value = [id |-> 1, rows |-> value.rows, files |-> value.files, paths |-> value.paths, f |-> value.f],
         value.f \in Prints,
         query.kind = "commitFiles" /\ next = "raw" => query.of # "missing",
         next = "details" => \E rows \in SUBSET Row : value.rows = InOrder(rows),
         next \in {"shallow", "walk"} => sent # Foreign,
         next = "shallow" /\ sent # NoCursor => value.f.tip = sent.s.f.tip,
         next = "walk" /\ sent # NoCursor => value.f = sent.s.f
  PROVE  ReadInv'
<1>1. held' = value /\ step' = next /\ UNCHANGED <<query, world, sent, answer, got, truth, edits>>
  BY DEF Hold
<1>2. DifferenceRead'
  BY <1>1 DEF DifferenceRead
<1>3. next \notin {"idle", "identify", "patch", "others", "other", "again", "rehash", "page"}
  <2>1. query.kind \in {"branches", "names", "tags", "stashes", "worktrees", "remoteRefs", "commitFiles", "status",
                        "history", "blob"}
    BY KindIs DEF ReadKind, Listing, Difference
  <2>2. PICK kind : kind = query.kind
    OBVIOUS
  <2> QED  BY <2>1, <2>2 DEF ReadSteps
<1>4. Own(sent) => Own(sent)'
  BY <1>1, OwnStays
<1>5. sent = NoCursor \/ sent = Foreign \/ Own(sent)
  BY DEF ReadInv, Asking
<1>6. query.kind # "commitDiff"
  BY DEF Difference
<1>7. Asking'
  BY <1>1, <1>3, <1>4, <1>5, <1>6 DEF Asking
<1> QED  BY <1>2, <1>3, <1>7, HoldInv

\* A step of a request for a difference.
LEMMA GoOnDiff ==
  ASSUME ReadInv, NEW value, NEW next, Hold(value, next), step # "idle", query.kind \in Difference,
         next \in ReadSteps[query.kind],
         value = [id |-> 1, rows |-> value.rows, files |-> value.files, paths |-> value.paths, f |-> value.f],
         value.f \in Prints,
         query.kind = "commitDiff" /\ next \in {"raw", "patch", "page"} => query.of # "missing",
         next \in {"patch", "others", "other", "again", "rehash", "page"} => LittleContext,
         Still => /\ next \in {"status", "commit", "hash", "raw", "others"} => value.files = <<>> /\ value.rows = <<>>
                  /\ next = "other" => value.files = <<>> /\ value.rows = <<>> /\ value.paths = 1
                  /\ next = "patch" => /\ value.files = << 1 >> /\ value.rows = <<>>
                                       /\ query.kind = "commitDiff" \/ query.of # "untracked"
                  /\ next \in {"again", "rehash", "page"} => value.files = << 1 >> /\ value.rows = Lines(1)
                  /\ next \in {"others", "other"} => query.kind = "working" /\ query.of = "untracked"
  PROVE  ReadInv'
<1>1. held' = value /\ step' = next /\ UNCHANGED <<query, world, sent, answer, got, truth, edits>>
  BY DEF Hold
<1>2. DifferenceRead'
  BY <1>1 DEF DifferenceRead, Files, Still
<1>3. next \notin {"idle", "identify", "details", "shallow", "walk"} /\ query.kind # "commitFiles"
  <2>1. query.kind \in {"working", "commitDiff"}
    BY DEF Difference
  <2>2. PICK kind : kind = query.kind
    OBVIOUS
  <2> QED  BY <2>1, <2>2 DEF ReadSteps
<1>4. Own(sent) => Own(sent)'
  BY <1>1, OwnStays
<1>5. sent = NoCursor \/ sent = Foreign \/ Own(sent)
  BY DEF ReadInv, Asking
<1>6. LittleContext => LittleContext'
  BY <1>1, PagedStays
<1>7. Asking'
  BY <1>1, <1>3, <1>4, <1>5, <1>6 DEF Asking
<1> QED  BY <1>2, <1>3, <1>7, HoldInv

LEMMA HeldIs ==
  ASSUME ReadInv, step \notin {"idle", "identify"}
  PROVE  /\ held = [id |-> 1, rows |-> held.rows, files |-> held.files, paths |-> held.paths, f |-> held.f]
         /\ held.id = 1 /\ held.f \in Prints
BY DEF ReadInv, ReadTypes

LEMMA WorldIs ==
  ASSUME ReadInv
  PROVE  world.rows \in SUBSET Row /\ world.stamp \in Nat /\ world.tip \in Tips /\ world.shallow \in Nat
         /\ world.content \in {0, 1, 2}
BY DEF ReadInv, ReadTypes

LEMMA ListedGood ==
  ASSUME ReadInv, step \notin {"idle", "identify"}, query.kind \in Fingerprinted,
         query.kind = "commitFiles" => query.of # "missing", NEW rows \in SUBSET Row
  PROVE  GoodAnswer(PageOfRows(rows), Whole(InOrder(rows)))
<1>1. PICK f : f = [NoPrint EXCEPT !.rows = rows]
  OBVIOUS
<1>2. f.rows = rows
  BY <1>1 DEF NoPrint
<1>3. GoodAnswer(PageOf(InOrder(f.rows), f), Whole(InOrder(f.rows)))
  BY <1>2, HeldIs, PageOfGood
<1> QED  BY <1>1, <1>2, <1>3 DEF PageOfRows

LEMMA ListedInv ==
  ASSUME ReadInv, step \notin {"idle", "identify"}, query.kind \in Fingerprinted,
         query.kind = "commitFiles" => query.of # "missing", NEW rows \in SUBSET Row,
         Reply(PageOfRows(rows), Whole(InOrder(rows)))
  PROVE  ReadInv'
BY ListedGood, ReplyInv

LEMMA NoneInOrder == InOrder({}) = <<>>
<1>1. PICK s \in Seq(Nat) : s = InOrder({}) /\ ToSet(s) = {}
  BY InOrderIs
<1>2. \A i \in DOMAIN s : s[i] \in ToSet(s)
  BY DEF ToSet
<1>3. Len(s) \in Nat /\ DOMAIN s = 1..Len(s)
  OBVIOUS
<1>4. Len(s) = 0
  <2>1. 1 \notin DOMAIN s
    BY <1>1, <1>2
  <2> QED  BY <1>3, <2>1
<1> QED  BY <1>1, <1>4, EmptySeq, SeqEqual

LEMMA IdentifyInv == ASSUME ReadInv, Identify PROVE ReadInv'
<1>1. step = "identify" /\ held = NothingRead
  BY DEF Identify, ReadInv, ReadTypes
<1>2. CASE world.id # 1
  BY <1>2, FailInv DEF Identify
<1>3. CASE world.id = 1
  <2> DEFINE value == [held EXCEPT !.id = world.id]
             next == FirstRead[query.kind]
  <2>1. Hold(value, next)
    BY <1>3 DEF Identify
  <2>2. value = [id |-> 1, rows |-> <<>>, files |-> <<>>, paths |-> 0, f |-> NoPrint]
    BY <1>1, <1>3 DEF NothingRead
  <2>3. NoPrint \in Prints
    BY NothingTyped
  <2> HIDE DEF value
  <2>4. CASE query.kind \notin Difference
    <3>1. next \in ReadSteps[query.kind] /\ next \notin {"raw", "details", "shallow", "walk"}
      <4>1. query.kind \in {"branches", "names", "tags", "stashes", "worktrees", "remoteRefs", "commitFiles", "status",
                            "history", "blob"}
        BY <2>4, KindIs DEF ReadKind, Listing, Difference
      <4>2. PICK kind : kind = query.kind
        OBVIOUS
      <4> QED  BY <4>1, <4>2 DEF ReadSteps, FirstRead
    <3> HIDE DEF next
    <3> QED  BY <2>1, <2>2, <2>3, <2>4, <3>1, <1>1, GoOn
  <2>5. CASE query.kind \in Difference
    <3>1. next \in ReadSteps[query.kind] /\ next \in {"status", "commit"}
      <4>1. query.kind \in {"working", "commitDiff"}
        BY <2>5 DEF Difference
      <4>2. PICK kind : kind = query.kind
        OBVIOUS
      <4> QED  BY <4>1, <4>2 DEF ReadSteps, FirstRead
    <3> HIDE DEF next
    <3> QED  BY <2>1, <2>2, <2>3, <2>5, <3>1, <1>1, GoOnDiff
  <2> QED  BY <2>4, <2>5
<1> QED  BY <1>2, <1>3

\* Kinds by the name of a step.
LEMMA ListingIs ==
  /\ {"branches", "names", "tags", "stashes", "worktrees", "remoteRefs", "commitFiles", "status"} = Fingerprinted
  /\ Fingerprinted \cap Difference = {} /\ "history" \notin Difference \cup Fingerprinted
  /\ "blob" \notin Difference \cup Fingerprinted
BY DEF Fingerprinted, Listing, Difference

LEMMA ListRowsInv == ASSUME ReadInv, ListRows PROVE ReadInv'
<1>1. step = "rows" /\ query.kind \in Fingerprinted /\ query.kind # "commitFiles"
  BY StepIs, ListingIs DEF ListRows
<1> QED  BY <1>1, WorldIs, ListedInv DEF ListRows

\* A step of a listing that keeps what is held.
LEMMA ListOn ==
  ASSUME ReadInv, NEW next, Hold(held, next), step \notin {"idle", "identify"},
         query.kind \notin Difference, next \in ReadSteps[query.kind], next \in {"rows", "log"}
  PROVE  ReadInv'
BY HeldIs, GoOn

LEMMA CheckRemoteInv == ASSUME ReadInv, CheckRemote PROVE ReadInv'
<1>1. step = "remote" /\ query.kind = "remoteRefs"
  BY StepIs DEF CheckRemote
<1>2. CASE world.remote # 1
  BY <1>1, <1>2, FailInv DEF CheckRemote
<1>3. CASE world.remote = 1
  <2>1. "rows" \in ReadSteps[query.kind] /\ query.kind \notin Difference
    BY <1>1 DEF ReadSteps, Difference
  <2>2. Hold(held, "rows")
    BY <1>3 DEF CheckRemote
  <2> QED  BY <1>1, <2>1, <2>2, ListOn
<1> QED  BY <1>2, <1>3

LEMMA ReadConfigInv == ASSUME ReadInv, ReadConfig PROVE ReadInv'
<1>1. step = "config" /\ query.kind = "branches" /\ Hold(held, "rows")
  BY StepIs DEF ReadConfig
<1>2. "rows" \in ReadSteps[query.kind] /\ query.kind \notin Difference
  BY <1>1 DEF ReadSteps, Difference
<1> QED  BY <1>1, <1>2, ListOn

LEMMA StashReferenceInv == ASSUME ReadInv, StashReference PROVE ReadInv'
<1>1. step = "stash" /\ query.kind = "stashes" /\ query.kind \in Fingerprinted
  BY StepIs, ListingIs DEF StashReference
<1>2. CASE world.rows = {}
  <2>1. Reply(PageOfRows({}), Whole(InOrder({})))
    BY <1>2, NoneInOrder DEF StashReference
  <2> QED  BY <1>1, <2>1, ListedInv
<1>3. CASE world.rows # {}
  <2>1. "log" \in ReadSteps[query.kind] /\ query.kind \notin Difference
    BY <1>1 DEF ReadSteps, Difference
  <2>2. Hold(held, "log")
    BY <1>3 DEF StashReference
  <2> QED  BY <1>1, <2>1, <2>2, ListOn
<1> QED  BY <1>2, <1>3

LEMMA StashLogInv == ASSUME ReadInv, StashLog PROVE ReadInv'
<1>1. step = "log" /\ query.kind = "stashes" /\ query.kind \in Fingerprinted
  BY StepIs, ListingIs DEF StashLog
<1>2. CASE world.rows = {}
  BY <1>1, <1>2, FailInv DEF StashLog
<1>3. CASE world.rows # {}
  <2>1. Reply(PageOfRows(world.rows), Whole(InOrder(world.rows)))
    BY <1>3 DEF StashLog
  <2> QED  BY <1>1, <2>1, WorldIs, ListedInv
<1> QED  BY <1>2, <1>3

LEMMA ListTagsInv == ASSUME ReadInv, ListTags PROVE ReadInv'
<1> DEFINE page == PageOfRows(world.rows)
           value == [held EXCEPT !.rows = InOrder(world.rows)]
<1>1. step = "tags" /\ query.kind = "tags" /\ query.kind \in Fingerprinted
  BY StepIs, ListingIs DEF ListTags
<1>2. IF page.code # "page" THEN Fail(page.code) ELSE Hold(value, "details")
  BY DEF ListTags
<1>3. GoodAnswer(page, Whole(InOrder(world.rows)))
  BY <1>1, WorldIs, ListedGood
<1> HIDE DEF page
<1>4. CASE page.code # "page"
  BY <1>2, <1>3, <1>4, FailInv DEF GoodAnswer
<1>5. CASE page.code = "page"
  <2>1. /\ value = [id |-> 1, rows |-> value.rows, files |-> value.files, paths |-> value.paths, f |-> value.f]
        /\ value.f = held.f /\ value.rows = InOrder(world.rows) /\ held.f \in Prints
    <3>1. held = [id |-> 1, rows |-> held.rows, files |-> held.files, paths |-> held.paths, f |-> held.f]
      BY <1>1, HeldIs
    <3>2. value = [id |-> 1, rows |-> InOrder(world.rows), files |-> held.files, paths |-> held.paths, f |-> held.f]
      BY <3>1
    <3>3. held.f \in Prints
      BY <1>1, HeldIs
    <3> HIDE DEF value
    <3> QED  BY <3>2, <3>3
  <2>2. Hold(value, "details")
    BY <1>2, <1>5
  <2> HIDE DEF value
  <2>3. "details" \in ReadSteps[query.kind] /\ query.kind \notin Difference
    BY <1>1 DEF ReadSteps, Difference
  <2> QED  BY <1>1, <2>1, <2>2, <2>3, WorldIs, GoOn
<1> QED  BY <1>4, <1>5

LEMMA TagDetailsInv == ASSUME ReadInv, TagDetails PROVE ReadInv'
<1>1. step = "details" /\ query.kind = "tags" /\ query.kind \in Fingerprinted
  BY StepIs, ListingIs DEF TagDetails
<1>2. PICK rows \in SUBSET Row : held.rows = InOrder(rows)
  BY <1>1 DEF ReadInv, Asking
<1>3. ToSet(held.rows) = rows
  BY <1>2, InOrderIs
<1>4. Reply(PageOfRows(rows), Whole(InOrder(rows)))
  BY <1>2, <1>3 DEF TagDetails
<1> QED  BY <1>1, <1>4, ListedInv

LEMMA CommitFilesInv == ASSUME ReadInv, CommitFiles PROVE ReadInv'
<1>1. step = "raw" /\ query.kind = "commitFiles" /\ query.kind \in Fingerprinted
  BY ListingIs DEF CommitFiles
<1>2. query.of # "missing"
  BY <1>1 DEF ReadInv, Asking
<1>3. Row \in SUBSET Row
  OBVIOUS
<1> QED  BY <1>1, <1>2, <1>3, ListedInv DEF CommitFiles

LEMMA StatusRowsInv == ASSUME ReadInv, StatusRows PROVE ReadInv'
<1> DEFINE value == [held EXCEPT !.f = [@ EXCEPT !.rows = world.rows]]
<1>1. PICK next : next = IF step = "again" THEN "rehash" ELSE "hash"
  OBVIOUS
<1>2. step \in {"status", "again"} /\ Hold(value, next)
  BY <1>1 DEF StatusRows
<1>3. PICK f : f = [held.f EXCEPT !.rows = world.rows]
  OBVIOUS
<1>4. f \in Prints
  BY <1>2, <1>3, HeldIs, WorldIs DEF Prints
<1>5. value = [id |-> 1, rows |-> held.rows, files |-> held.files, paths |-> held.paths, f |-> f]
  <2>1. held = [id |-> 1, rows |-> held.rows, files |-> held.files, paths |-> held.paths, f |-> held.f]
    BY <1>2, HeldIs
  <2> QED  BY <2>1, <1>3
<1> HIDE DEF value
<1>6. query.kind \in {"status", "working"} /\ (step = "again" => query.kind = "working")
  BY <1>2, StepIs
<1>7. next \in ReadSteps[query.kind]
  BY <1>1, <1>2, <1>6 DEF ReadSteps
<1>8. CASE query.kind = "status"
  BY <1>1, <1>2, <1>4, <1>5, <1>6, <1>7, <1>8, ListingIs, GoOn
<1>9. CASE query.kind = "working"
  <2>1. query.kind \in Difference
    BY <1>9 DEF Difference
  <2>2. Still => /\ step = "status" => held.files = <<>> /\ held.rows = <<>>
                 /\ step = "again" => held.files = <<1>> /\ held.rows = Lines(1)
    BY <2>1 DEF ReadInv, DifferenceRead, Files
  <2>3. step = "again" => LittleContext
    BY DEF ReadInv, Asking
  <2> QED  BY <1>1, <1>2, <1>4, <1>5, <1>7, <1>9, <2>1, <2>2, <2>3, GoOnDiff
<1> QED  BY <1>6, <1>8, <1>9

LEMMA StatusPageInv == ASSUME ReadInv, StatusPage PROVE ReadInv'
<1>1. step = "hash" /\ query.kind = "status" /\ query.kind \in Fingerprinted /\ held.id = 1 /\ held.f \in Prints
  BY HeldIs, ListingIs DEF StatusPage
<1>2. PICK f : f = [held.f EXCEPT !.stamp = world.stamp]
  OBVIOUS
<1>3. f.rows \in SUBSET Row
  BY <1>1, <1>2 DEF Prints
<1>4. Reply(PageOf(InOrder(f.rows), f), Whole(InOrder(f.rows)))
  BY <1>2 DEF StatusPage
<1>5. GoodAnswer(PageOf(InOrder(f.rows), f), Whole(InOrder(f.rows)))
  BY <1>1, <1>3, PageOfGood
<1> QED  BY <1>4, <1>5, ReplyInv

LEMMA HistoryTipInv == ASSUME ReadInv, HistoryTip PROVE ReadInv'
<1>1. step = "tip" /\ query.kind = "history"
  BY StepIs DEF HistoryTip
<1>2. CASE sent # NoCursor /\ sent.s.q # query.kind
  <2>1. sent.s.q = "other"
    BY <1>1, <1>2, SentIs
  <2>2. Excused
    BY <2>1 DEF Excused
  <2>3. Fail("INVALID")
    BY <1>2 DEF HistoryTip
  <2> QED  BY <2>2, <2>3, FailInv
<1>3. CASE sent = NoCursor \/ sent.s.q = query.kind
  <2> DEFINE tip == IF sent = NoCursor THEN world.tip ELSE sent.s.f.tip
             value == [held EXCEPT !.f.tip = tip]
  <2>1. Hold(value, "shallow")
    BY <1>3 DEF HistoryTip
  <2>2. sent # Foreign
    <3>1. Foreign # NoCursor /\ Foreign.s.q # query.kind
      BY <1>1 DEF Foreign, CursorRef, SnapshotRef, NoCursor
    <3> QED  BY <3>1, <1>3
  <2>3. tip \in Tips
    <3>1. CASE sent = NoCursor
      BY <3>1, WorldIs
    <3>2. CASE sent # NoCursor
      <4>1. Shows(sent.s.f, truth)
        BY <3>2, <1>1, <1>3, SentIs
      <4> QED  BY <3>2, <4>1, <1>1 DEF Shows
    <3> QED  BY <3>1, <3>2
  <2> HIDE DEF tip
  <2>4. PICK f : f = [held.f EXCEPT !.tip = tip]
    OBVIOUS
  <2>5. f \in Prints /\ f.tip = tip
    BY <1>1, <2>3, <2>4, HeldIs DEF Prints
  <2>6. value = [id |-> 1, rows |-> held.rows, files |-> held.files, paths |-> held.paths, f |-> f]
    <3>1. held = [id |-> 1, rows |-> held.rows, files |-> held.files, paths |-> held.paths, f |-> held.f]
      BY <1>1, HeldIs
    <3> QED  BY <3>1, <2>4
  <2> HIDE DEF value
  <2>7. "shallow" \in ReadSteps[query.kind] /\ query.kind \notin Difference
    BY <1>1 DEF ReadSteps, Difference
  <2>8. sent # NoCursor => tip = sent.s.f.tip
    BY DEF tip
  <2> QED  BY <1>1, <2>1, <2>2, <2>5, <2>6, <2>7, <2>8, GoOn
<1> QED  BY <1>2, <1>3

LEMMA HistoryShallowInv == ASSUME ReadInv, HistoryShallow PROVE ReadInv'
<1>1. step = "shallow" /\ query.kind = "history"
  BY StepIs DEF HistoryShallow
<1>2. PICK f : f = [held.f EXCEPT !.shallow = world.shallow]
  OBVIOUS
<1>3. CASE sent # NoCursor /\ sent.s.f # f
  <2>1. Fail("SNAPSHOT_EXPIRED")
    BY <1>2, <1>3 DEF HistoryShallow
  <2> QED  BY <2>1, FailInv
<1>4. CASE sent = NoCursor \/ sent.s.f = f
  <2> DEFINE value == [held EXCEPT !.f = f]
  <2>1. Hold(value, "walk")
    BY <1>2, <1>4 DEF HistoryShallow
  <2>2. f \in Prints
    BY <1>1, <1>2, HeldIs, WorldIs DEF Prints
  <2>3. value = [id |-> 1, rows |-> held.rows, files |-> held.files, paths |-> held.paths, f |-> f]
    <3>1. held = [id |-> 1, rows |-> held.rows, files |-> held.files, paths |-> held.paths, f |-> held.f]
      BY <1>1, HeldIs
    <3> QED  BY <3>1
  <2> HIDE DEF value
  <2>4. "walk" \in ReadSteps[query.kind] /\ query.kind \notin Difference
    BY <1>1 DEF ReadSteps, Difference
  <2>5. sent # Foreign
    BY <1>1 DEF ReadInv, Asking
  <2> QED  BY <1>1, <1>4, <2>1, <2>2, <2>3, <2>4, <2>5, GoOn
<1> QED  BY <1>3, <1>4

LEMMA HistoryPageInv == ASSUME ReadInv, HistoryPage PROVE ReadInv'
<1> DEFINE offset == IF sent = NoCursor THEN 0 ELSE sent.o
           walk == Walk(held.f.tip, world.shallow)
           ids == Window(walk, offset, query.count)
           n == Fits(walk, offset, query.count)
           a == Page(SubSeq(ids, 1, n),
                     IF Len(ids) > n THEN CursorRef(SnapshotRef(held.id, query.kind, held.f), offset + n)
                     ELSE NoCursor)
           whole == IF sent = NoCursor THEN walk ELSE Walk(truth[1], world.shallow)
<1>1. step = "walk" /\ query.kind = "history"
  BY StepIs DEF HistoryPage
<1>2. IF ~FewRows THEN Fail("INVALID")
      ELSE IF ids = <<>> /\ offset > 0 THEN Fail("INVALID")
      ELSE IF n < 0 THEN Fail("LIMIT_EXCEEDED")
      ELSE Reply(a, whole)
  BY DEF HistoryPage, FewRows, Window, Fits
<1>3. sent # NoCursor => /\ Paged /\ Unedited(sent.s.f, truth) /\ sent.o \in Nat /\ sent.o < Len(truth)
                         /\ Shows(sent.s.f, truth) /\ held.f = sent.s.f
  <2>1. sent # NoCursor => sent # Foreign /\ held.f = sent.s.f
    BY <1>1 DEF ReadInv, Asking
  <2> QED  BY <2>1, <1>1, SentIs
<1> HIDE DEF n, a, ids, whole
<1>4. CASE ~FewRows
  <2>1. sent = NoCursor
    BY <1>1, <1>3, <1>4 DEF Paged
  <2>2. Excused
    BY <2>1 DEF Excused
  <2>3. Fail("INVALID")
    BY <1>2, <1>4
  <2> QED  BY <2>2, <2>3, FailInv
<1>5. CASE FewRows /\ ids = <<>> /\ offset > 0
  <2>1. sent # NoCursor
    BY <1>5
  <2>2. ASSUME edits = 0 PROVE FALSE
    <3>1. truth = walk
      BY <1>1, <1>3, <2>1, <2>2 DEF Unedited
    <3>2. Len(walk) \in Nat /\ offset \in Nat /\ offset < Len(walk)
      BY <1>3, <2>1, <3>1 DEF ReadInv, Collected
    <3>3. query.count \in Nat /\ query.count # 0
      BY <1>5, Counts
    <3> HIDE DEF walk, offset
    <3>4. Window(walk, offset, query.count) # <<>>
      BY <3>1, <3>2, <3>3, WindowFull DEF ReadInv, Collected
    <3> QED  BY <1>5, <3>4 DEF ids
  <2>3. edits > 0
    <3>1. edits \in Nat
      BY DEF ReadInv, ReadTypes
    <3> QED  BY <2>2, <3>1
  <2>4. Excused
    BY <1>1, <2>3 DEF Excused
  <2>5. Fail("INVALID")
    BY <1>2, <1>5
  <2> QED  BY <2>4, <2>5, FailInv
<1>6. CASE FewRows /\ ~(ids = <<>> /\ offset > 0)
  <2>1. ids = <<>> => offset = 0
    <3>1. offset \in Nat
      BY <1>3
    <3> QED  BY <3>1, <1>6
  <2>2. CASE n = -1
    <3>1. Fail("LIMIT_EXCEEDED")
      <4>1. n < 0
        BY <2>2
      <4> QED  BY <4>1, <1>2, <1>6
    <3> QED  BY <3>1, FailInv
  <2>3. CASE n # -1
    <3>1. n \in Nat /\ GoodAnswer(a, walk)
      BY <1>1, <1>6, <2>1, <2>3, HistoryGood DEF ids, n, a
    <3>2. ~(n < 0)
      BY <3>1
    <3>3. Reply(a, whole)
      BY <1>2, <1>6, <3>2
    <3>4. whole = walk
      <4>1. CASE sent = NoCursor
        BY <4>1 DEF whole
      <4>2. CASE sent # NoCursor
        <5>1. 1 \in 1..Len(truth)
          BY <4>2, <1>3 DEF ReadInv, Collected
        <5>2. truth[1] = sent.s.f.tip - 1 + 1 /\ sent.s.f.tip \in Nat
          BY <4>2, <5>1, <1>1, <1>3, ReadAssumption DEF Shows, Tips
        <5>3. truth[1] = held.f.tip
          BY <4>2, <5>2, <1>3
        <5> QED  BY <4>2, <5>3 DEF whole
      <4> QED  BY <4>1, <4>2
    <3> QED  BY <3>1, <3>3, <3>4, ReplyInv
  <2> QED  BY <2>2, <2>3
<1> QED  BY <1>4, <1>5, <1>6

-----------------------------------------------------------------------------
(* The steps of a difference *)

\* A refusal of what the request asks: a cursor the agent gave out does not ask for it.
LEMMA RefusedInv == ASSUME ReadInv, step # "idle", ~Paged, Fail("INVALID") PROVE ReadInv'
<1>1. sent = NoCursor \/ sent.s.q = "other"
  BY SentIs
<1> QED  BY <1>1, FailInv DEF Excused

LEMMA ComparisonInv == ASSUME ReadInv, Comparison PROVE ReadInv'
<1>1. step = "commit" /\ query.kind \in {"commitFiles", "commitDiff"}
  BY StepIs DEF Comparison
<1>2. CASE query.of = "missing"
  <2>1. ~Paged
    BY <1>1, <1>2 DEF Paged
  <2> QED  BY <1>1, <1>2, <2>1, RefusedInv DEF Comparison
<1>3. CASE query.of # "missing"
  <2>1. Hold(held, "raw") /\ "raw" \in ReadSteps[query.kind]
    BY <1>1, <1>3 DEF Comparison, ReadSteps
  <2>2. CASE query.kind = "commitFiles"
    <3>1. query.kind \notin Difference
      BY <2>2 DEF Difference
    <3> QED  BY <1>1, <1>3, <2>1, <3>1, HeldIs, GoOn
  <2>3. CASE query.kind = "commitDiff"
    <3>1. query.kind \in Difference /\ Still
      BY <2>3 DEF Difference, Still
    <3>2. held.files = <<>> /\ held.rows = <<>>
      BY <1>1, <3>1 DEF ReadInv, DifferenceRead, Files
    <3> QED  BY <1>1, <1>3, <2>1, <3>1, <3>2, HeldIs, GoOnDiff
  <2> QED  BY <1>1, <2>2, <2>3
<1> QED  BY <1>2, <1>3

LEMMA WorkingCaptureInv == ASSUME ReadInv, WorkingCapture PROVE ReadInv'
<1>1. step = "hash" /\ query.kind = "working" /\ query.kind \in Difference
  BY DEF WorkingCapture, Difference
<1>2. PICK f : f = [held.f EXCEPT !.stamp = world.stamp]
  OBVIOUS
<1>3. CASE f # Source
  <2>1. Fail("STALE_SNAPSHOT")
    BY <1>2, <1>3 DEF WorkingCapture
  <2> QED  BY <2>1, FailInv
<1>4. CASE f = Source /\ query.of = "missing"
  <2>1. Fail("STALE_ENTRY")
    BY <1>2, <1>4 DEF WorkingCapture
  <2> QED  BY <2>1, FailInv
<1>5. CASE f = Source /\ query.of # "missing"
  <2> DEFINE value == [held EXCEPT !.f = f]
  <2>1. Hold(value, "raw")
    BY <1>2, <1>5 DEF WorkingCapture
  <2>2. f \in Prints
    BY <1>1, <1>2, HeldIs, WorldIs DEF Prints
  <2>3. value = [id |-> 1, rows |-> held.rows, files |-> held.files, paths |-> held.paths, f |-> f]
    <3>1. held = [id |-> 1, rows |-> held.rows, files |-> held.files, paths |-> held.paths, f |-> held.f]
      BY <1>1, HeldIs
    <3> QED  BY <3>1
  <2> HIDE DEF value
  <2>4. "raw" \in ReadSteps[query.kind]
    BY <1>1 DEF ReadSteps
  <2>5. Still => held.files = <<>> /\ held.rows = <<>>
    BY <1>1 DEF ReadInv, DifferenceRead, Files
  <2> QED  BY <1>1, <2>1, <2>2, <2>3, <2>4, <2>5, GoOnDiff
<1> QED  BY <1>3, <1>4, <1>5

\* What a difference that is still the client's compares.
LEMMA ComparedIs ==
  ASSUME ReadInv, query.kind \in Difference, Still
  PROVE  IF query.kind # "commitDiff" /\ query.of = "untracked" THEN Compared = 0 ELSE Compared = 1
<1>1. world.content = 1
  BY DEF ReadInv, Content
<1> QED  BY <1>1 DEF Compared

LEMMA AfterReadIs ==
  ASSUME query.kind \in Difference
  PROVE  /\ AfterRead \in ReadSteps[query.kind] /\ AfterRead \in {"page", "others", "again"}
         /\ AfterRead = "page" <=> query.kind = "commitDiff"
         /\ AfterRead = "others" <=> query.kind = "working" /\ query.of = "untracked"
<1>1. query.kind \in {"working", "commitDiff"}
  BY DEF Difference
<1>2. CASE query.kind = "working"
  BY <1>2 DEF AfterRead, ReadSteps
<1>3. CASE query.kind = "commitDiff"
  BY <1>3 DEF AfterRead, ReadSteps
<1> QED  BY <1>1, <1>2, <1>3

LEMMA DiffRawInv == ASSUME ReadInv, DiffRaw PROVE ReadInv'
<1>1. step = "raw" /\ query.kind \in Difference
  BY StepIs DEF DiffRaw, Difference
<1>2. CASE ~LittleContext
  <2>1. ~Paged
    BY <1>1, <1>2 DEF Paged
  <2>2. query.context > 100
    BY <1>2, KindIs, SMT DEF LittleContext
  <2>3. Fail("INVALID")
    BY <2>2, SMT DEF DiffRaw
  <2> QED  BY <1>1, <2>1, <2>3, RefusedInv
<1>3. CASE LittleContext
  <2> DEFINE files == Deltas(Compared)
             value == [held EXCEPT !.files = files]
             next == IF files = <<>> THEN AfterRead ELSE "patch"
  <2>1. Hold(value, next)
    <3>1. ~(query.context > 100)
      BY <1>3, KindIs, SMT DEF LittleContext
    <3> QED  BY <3>1, SMT DEF DiffRaw
  <2> HIDE DEF files
  <2>2. value = [id |-> 1, rows |-> held.rows, files |-> files, paths |-> held.paths, f |-> held.f] /\ held.f \in Prints
    <3>1. held = [id |-> 1, rows |-> held.rows, files |-> held.files, paths |-> held.paths, f |-> held.f]
      BY <1>1, HeldIs
    <3>2. held.f \in Prints
      BY <1>1, HeldIs
    <3> QED  BY <3>1, <3>2
  <2> HIDE DEF value
  <2>3. next \in ReadSteps[query.kind] /\ next \in {"page", "others", "again", "patch"}
    <3>1. "patch" \in ReadSteps[query.kind]
      <4>1. query.kind \in {"working", "commitDiff"}
        BY <1>1 DEF Difference
      <4>2. PICK kind : kind = query.kind
        OBVIOUS
      <4> QED  BY <4>1, <4>2 DEF ReadSteps
    <3> QED  BY <3>1, <1>1, AfterReadIs
  <2>4. query.kind = "commitDiff" => query.of # "missing"
    BY <1>1 DEF ReadInv, Asking
  <2>5. Still => held.rows = <<>>
    BY <1>1 DEF ReadInv, DifferenceRead, Files
  <2>6. CASE Still /\ query.kind # "commitDiff" /\ query.of = "untracked"
    <3>1. files = <<>>
      BY <2>6, <1>1, ComparedIs DEF files, Deltas
    <3>2. next = "others" /\ query.kind = "working"
      <4>1. query.kind = "working"
        BY <2>6, <1>1 DEF Difference
      <4> QED  BY <3>1, <4>1, <2>6, <1>1, AfterReadIs
    <3> HIDE DEF next
    <3> QED  BY <1>1, <1>3, <2>1, <2>2, <2>3, <2>5, <2>6, <3>1, <3>2, GoOnDiff
  <2>7. CASE Still /\ ~(query.kind # "commitDiff" /\ query.of = "untracked")
    <3>1. files = <<1>>
      BY <2>7, <1>1, ComparedIs DEF files, Deltas
    <3>2. next = "patch"
      BY <3>1
    <3> HIDE DEF next
    <3> QED  BY <1>1, <1>3, <2>1, <2>2, <2>3, <2>4, <2>5, <2>7, <3>1, <3>2, GoOnDiff
  <2>8. CASE ~Still
    <3> HIDE DEF next
    <3> QED  BY <1>1, <1>3, <2>1, <2>2, <2>3, <2>4, <2>8, GoOnDiff
  <2> QED  BY <2>6, <2>7, <2>8
<1> QED  BY <1>2, <1>3

LEMMA DiffPatchInv == ASSUME ReadInv, DiffPatch PROVE ReadInv'
<1>1. step = "patch" /\ query.kind \in Difference
  BY StepIs DEF DiffPatch, Difference
<1>2. CASE Len(Deltas(Compared)) # Len(held.files)
  <2>1. Fail("GIT_FAILED")
    BY <1>2 DEF DiffPatch
  <2> QED  BY <2>1, FailInv
<1>3. CASE Len(Deltas(Compared)) = Len(held.files)
  <2> DEFINE rows == Lines(Compared)
             value == [held EXCEPT !.rows = rows]
  <2>1. Hold(value, AfterRead)
    BY <1>3 DEF DiffPatch
  <2> HIDE DEF rows
  <2>2. value = [id |-> 1, rows |-> rows, files |-> held.files, paths |-> held.paths, f |-> held.f] /\ held.f \in Prints
    <3>1. held = [id |-> 1, rows |-> held.rows, files |-> held.files, paths |-> held.paths, f |-> held.f]
      BY <1>1, HeldIs
    <3>2. held.f \in Prints
      BY <1>1, HeldIs
    <3> QED  BY <3>1, <3>2
  <2> HIDE DEF value
  <2>3. LittleContext
    BY <1>1 DEF ReadInv, Asking
  <2>4. query.kind = "commitDiff" => query.of # "missing"
    BY <1>1 DEF ReadInv, Asking
  <2>5. CASE Still
    <3>1. held.files = <<1>> /\ (query.kind = "commitDiff" \/ query.of # "untracked")
      BY <2>5, <1>1 DEF ReadInv, DifferenceRead, Files
    <3>2. rows = Lines(1)
      BY <3>1, <2>5, <1>1, ComparedIs DEF rows
    <3>3. AfterRead \in {"page", "again"}
      BY <3>1, <1>1, AfterReadIs
    <3> QED  BY <1>1, <2>1, <2>2, <2>3, <2>4, <3>1, <3>2, <3>3, AfterReadIs, GoOnDiff
  <2>6. CASE ~Still
    BY <1>1, <2>1, <2>2, <2>3, <2>4, <2>6, AfterReadIs, GoOnDiff
  <2> QED  BY <2>5, <2>6
<1> QED  BY <1>2, <1>3

LEMMA ListOthersInv == ASSUME ReadInv, ListOthers PROVE ReadInv'
<1>1. step = "others" /\ query.kind = "working" /\ query.kind \in Difference /\ LittleContext
  BY StepIs DEF ListOthers, Difference, ReadInv, Asking
<1> DEFINE value == [held EXCEPT !.paths = world.content]
           next == IF world.content = 0 THEN "again" ELSE "other"
<1>2. Hold(value, next)
  BY DEF ListOthers
<1>3. value = [id |-> 1, rows |-> held.rows, files |-> held.files, paths |-> world.content, f |-> held.f] /\ held.f \in Prints
  <2>1. held = [id |-> 1, rows |-> held.rows, files |-> held.files, paths |-> held.paths, f |-> held.f]
    BY <1>1, HeldIs
  <2>2. held.f \in Prints
    BY <1>1, HeldIs
  <2> QED  BY <2>1, <2>2
<1>4. Still => world.content = 1 /\ next = "other" /\ held.files = <<>> /\ held.rows = <<>> /\ query.of = "untracked"
  BY <1>1 DEF ReadInv, Content, DifferenceRead, Files
<1>5. next \in {"again", "other"} /\ next \in ReadSteps[query.kind]
  BY <1>1 DEF ReadSteps
<1> HIDE DEF value, next
<1> QED  BY <1>1, <1>2, <1>3, <1>4, <1>5, GoOnDiff

LEMMA ReadOtherInv == ASSUME ReadInv, ReadOther PROVE ReadInv'
<1>1. step = "other" /\ query.kind = "working" /\ query.kind \in Difference /\ LittleContext
  BY StepIs DEF ReadOther, Difference, ReadInv, Asking
<1> DEFINE value == [held EXCEPT !.files = Append(@, 1), !.rows = @ \o Lines(world.content), !.paths = @ - 1]
           next == IF held.paths = 1 THEN "again" ELSE "other"
<1>2. Fail("LIMIT_EXCEEDED") \/ Fail("GIT_FAILED") \/ Hold(value, next)
  BY DEF ReadOther
<1>3. value = [id |-> 1, rows |-> held.rows \o Lines(world.content), files |-> Append(held.files, 1),
               paths |-> held.paths - 1, f |-> held.f] /\ held.f \in Prints
  <2>1. held = [id |-> 1, rows |-> held.rows, files |-> held.files, paths |-> held.paths, f |-> held.f]
    BY <1>1, HeldIs
  <2>2. held.f \in Prints
    BY <1>1, HeldIs
  <2>3. PICK files, rows, paths : files = Append(held.files, 1) /\ rows = held.rows \o Lines(world.content)
                                  /\ paths = held.paths - 1
    OBVIOUS
  <2>4. value = [held EXCEPT !.files = files, !.rows = rows, !.paths = paths]
    BY <2>3
  <2> HIDE DEF value
  <2>6. PICK hr, hf, hp, f : hr = held.rows /\ hf = held.files /\ hp = held.paths /\ f = held.f
    OBVIOUS
  <2>7. held = [id |-> 1, rows |-> hr, files |-> hf, paths |-> hp, f |-> f]
    BY <2>1, <2>6
  <2>8. value = [id |-> 1, rows |-> rows, files |-> files, paths |-> paths, f |-> f]
    BY ONLY <2>4, <2>7
  <2>5. value = [id |-> 1, rows |-> rows, files |-> files, paths |-> paths, f |-> held.f]
    BY <2>6, <2>8
  <2> QED  BY <2>2, <2>3, <2>5
<1>4. next \in {"again", "other"} /\ next \in ReadSteps[query.kind]
  BY <1>1 DEF ReadSteps
<1>5. ASSUME Still PROVE next = "again" /\ held.rows \o Lines(world.content) = Lines(1) /\ Append(held.files, 1) = <<1>>
  <2>1. world.content = 1 /\ held.files = <<>> /\ held.rows = <<>> /\ held.paths = 1
    BY <1>1, <1>5 DEF ReadInv, Content, DifferenceRead, Files
  <2>2. <<>> \o Lines(1) = Lines(1)
    BY LinesAre, ConcatEmptySeq
  <2>3. Append(<<>>, 1) = <<1>>
    OBVIOUS
  <2> QED  BY <2>1, <2>2, <2>3
<1> HIDE DEF value, next
<1>6. ASSUME Hold(value, next) PROVE ReadInv'
  BY <1>1, <1>3, <1>4, <1>5, <1>6, GoOnDiff
<1> QED  BY <1>2, <1>6, FailInv

\* The difference that was read before the status turned out to be the client's still.
LEMMA WorkingAnswerInv == ASSUME ReadInv, WorkingAnswer PROVE ReadInv'
<1>1. step = "rehash" /\ query.kind = "working" /\ query.kind \in Difference /\ LittleContext
  BY StepIs DEF WorkingAnswer, Difference, ReadInv, Asking
<1>2. PICK f : f = [held.f EXCEPT !.stamp = world.stamp]
  OBVIOUS
<1>3. CASE f # Source
  <2>1. Fail("STALE_SNAPSHOT")
    BY <1>2, <1>3 DEF WorkingAnswer
  <2> QED  BY <2>1, FailInv
<1>4. CASE f = Source
  <2>1. Reply(DiffPage, Lines(1))
    BY <1>2, <1>4 DEF WorkingAnswer
  <2>2. world.stamp = 0
    <3>1. f.stamp = world.stamp
      BY <1>1, <1>2, HeldIs DEF Prints
    <3> QED  BY <3>1, <1>4 DEF Source, NoPrint
  <2>3. held.files = <<1>> /\ held.rows = Lines(1)
    BY <1>1, <2>2 DEF ReadInv, DifferenceRead, Files, Still
  <2>4. GoodAnswer(DiffPage, Lines(1))
    BY <1>1, <2>3, HeldIs, DiffPageGood
  <2> QED  BY <2>1, <2>4, ReplyInv
<1> QED  BY <1>3, <1>4

LEMMA CommitDiffInv == ASSUME ReadInv, CommitDiff PROVE ReadInv'
<1>1. step = "page" /\ query.kind = "commitDiff" /\ query.kind \in Difference /\ LittleContext /\ query.of # "missing"
  BY StepIs DEF CommitDiff, Difference, ReadInv, Asking
<1>2. held.files = <<1>> /\ held.rows = Lines(1)
  BY <1>1 DEF ReadInv, DifferenceRead, Files, Still
<1>3. GoodAnswer(DiffPage, Lines(1))
  BY <1>1, <1>2, HeldIs, DiffPageGood
<1> QED  BY <1>3, ReplyInv DEF CommitDiff

LEMMA CommandFailsInv == ASSUME ReadInv, CommandFails PROVE ReadInv'
BY FailInv DEF CommandFails

-----------------------------------------------------------------------------
(* The client and other programs *)

LEMMA AskInv ==
  ASSUME ReadInv, NEW cursor, Ask(cursor), answer.code # "INVALID", cursor = NoCursor \/ cursor = Foreign \/ Own(cursor)
  PROVE  ReadInv'
<1>1. step = "idle" /\ step' = "identify" /\ sent' = cursor
      /\ UNCHANGED <<query, world, held, answer, got, truth, edits>>
  BY DEF Ask
<1>2. ReadTypes' /\ Collected' /\ Content'
  BY <1>1 DEF ReadInv, ReadTypes, Collected, Content, Still
<1>3. DifferenceRead'
  BY <1>1 DEF DifferenceRead, Files
<1>4. /\ Paged => Paged'
      /\ Unedited(cursor.s.f, truth) => Unedited(cursor.s.f, truth)'
      /\ Unedited(answer.next.s.f, truth) => Unedited(answer.next.s.f, truth)'
  <2>1. Paged => Paged'
    BY <1>1, PagedStays
  <2> QED  BY <2>1, <1>1 DEF Unedited
<1>7. /\ Shows(cursor.s.f, truth) => Shows(cursor.s.f, truth)'
      /\ Shows(answer.next.s.f, truth) => Shows(answer.next.s.f, truth)'
  BY <1>1 DEF Shows
<1>8. Own(cursor) => Own(cursor)'
  BY <1>1, <1>4, <1>7 DEF Own
<1>9. Own(answer.next) => Own(answer.next)'
  BY <1>1, <1>4, <1>7 DEF Own
<1>5. Answered'
  BY <1>1, <1>9 DEF ReadInv, Answered
<1>6. Asking'
  BY <1>1, <1>8 DEF Asking, Foreign
<1> QED  BY <1>1, <1>2, <1>3, <1>5, <1>6 DEF ReadInv

LEMMA AskNextInv == ASSUME ReadInv, AskNext PROVE ReadInv'
<1>1. answer.code = "page" /\ answer.next # NoCursor /\ Ask(answer.next)
  BY DEF AskNext
<1>2. Own(answer.next)
  BY <1>1 DEF ReadInv, Answered
<1> QED  BY <1>1, <1>2, AskInv

LEMMA AskAtInv == ASSUME ReadInv, AskAt PROVE ReadInv'
<1>1. answer.code = "page" /\ answer.next # NoCursor
  BY DEF AskAt
<1>2. PICK cursor : cursor = [answer.next EXCEPT !.o = 0] /\ Ask(cursor)
  BY DEF AskAt
<1>3. PICK next : next = answer.next
  OBVIOUS
<1>4. /\ next = CursorRef(SnapshotRef(1, query.kind, next.s.f), next.o)
      /\ Shows(next.s.f, truth) /\ Unedited(next.s.f, truth) /\ Paged
      /\ next.o \in Nat /\ next.o < Len(truth)
  BY <1>1, <1>3 DEF ReadInv, Answered, Own
<1>5. cursor = CursorRef(SnapshotRef(1, query.kind, next.s.f), 0) /\ cursor.o = 0 /\ cursor.s.f = next.s.f
  BY <1>2, <1>3, <1>4 DEF CursorRef, SnapshotRef
<1>6. 0 < Len(truth)
  BY <1>4 DEF ReadInv, Collected
<1>7. Own(cursor)
  BY <1>4, <1>5, <1>6 DEF Own
<1> QED  BY <1>1, <1>2, <1>7, AskInv

LEMMA AskForeignInv == ASSUME ReadInv, AskForeign PROVE ReadInv'
BY AskInv DEF AskForeign, Foreign, NoAnswer, Invalid

LEMMA AskFirstInv == ASSUME ReadInv, AskFirst PROVE ReadInv'
BY AskInv DEF AskFirst, NoAnswer, Invalid

LEMMA RestartInv == ASSUME ReadInv, Restart PROVE ReadInv'
<1>1. /\ step = "idle" /\ step' = step /\ answer' = NoAnswer /\ got' = <<>> /\ truth' = <<>>
      /\ UNCHANGED <<query, world, held, edits>>
  BY DEF Restart
<1>2. ReadTypes' /\ Content'
  BY <1>1 DEF ReadInv, ReadTypes, Content, Still
<1>3. DifferenceRead' /\ Asking'
  BY <1>1 DEF DifferenceRead, Files, Asking
<1>4. Collected'
  <2>1. <<>> \in Seq(Nat) /\ Len(<<>>) = 0
    BY EmptySeq
  <2>2. 0 <= 0 /\ \A i \in 1..0 : FALSE
    OBVIOUS
  <2> QED  BY <1>1, <2>1, <2>2 DEF Collected
<1>5. Answered' /\ answer'.code # "INVALID"
  BY <1>1 DEF Answered, NoAnswer, Invalid
<1> QED  BY <1>2, <1>3, <1>4, <1>5 DEF ReadInv

\* Other programs: what a cursor says of the listing that was read stays true.
LEMMA OthersInv ==
  ASSUME ReadInv, edits' = edits + 1, UNCHANGED <<query, step, sent, held, answer, got, truth>>,
         ReadTypes', Content', query.kind \in Difference /\ Still' => Still
  PROVE  ReadInv'
<1>1. edits \in Nat
  BY DEF ReadInv, ReadTypes
<1>2. edits' # 0 /\ edits' > 0
  BY <1>1
<1>9. Paged => Paged'
  BY PagedStays
<1>11. Unedited(sent.s.f, truth)' /\ Unedited(answer.next.s.f, truth)'
  BY <1>2 DEF Unedited
<1>12. (Shows(sent.s.f, truth) => Shows(sent.s.f, truth)') /\ (Shows(answer.next.s.f, truth) => Shows(answer.next.s.f, truth)')
  BY DEF Shows
<1>3. (Own(sent) => Own(sent)') /\ (Own(answer.next) => Own(answer.next)')
  BY <1>9, <1>11, <1>12 DEF Own
<1>4. Collected' /\ Answered'
  BY <1>3 DEF ReadInv, Collected, Answered
<1>5. DifferenceRead'
  BY DEF ReadInv, DifferenceRead, Files
<1>6. LittleContext => LittleContext'
  BY PagedStays
<1>7. Asking'
  BY <1>3, <1>6 DEF ReadInv, Asking, Foreign
<1>8. answer'.code = "INVALID" => Excused'
  BY <1>1, <1>2 DEF ReadInv, Excused
<1> QED  BY <1>4, <1>5, <1>7, <1>8 DEF ReadInv

LEMMA OtherReplaceInv == ASSUME ReadInv, OtherReplace PROVE ReadInv'
<1>1. edits' = edits + 1 /\ world' = [world EXCEPT !.id = 2] /\ UNCHANGED <<query, step, sent, held, answer, got, truth>>
  BY DEF OtherReplace
<1>2. ReadTypes' /\ world'.stamp = world.stamp /\ world'.content = world.content
  BY <1>1 DEF ReadInv, ReadTypes
<1>3. (Still' <=> Still) /\ Content'
  BY <1>1, <1>2 DEF ReadInv, Content, Still
<1> QED  BY <1>1, <1>2, <1>3, OthersInv

LEMMA OtherEditInv == ASSUME ReadInv, OtherEdit PROVE ReadInv'
<1>1. edits' = edits + 1 /\ UNCHANGED <<query, step, sent, held, answer, got, truth>>
  BY DEF OtherEdit
<1>2. world \in [id : {1, 2}, rows : SUBSET Row, stamp : Nat, content : {0, 1, 2}, remote : {1, 2},
                 tip : Tips, shallow : Nat]
  BY DEF ReadInv, ReadTypes
<1>3. world' \in [id : {1, 2}, rows : SUBSET Row, stamp : Nat, content : {0, 1, 2}, remote : {1, 2},
                  tip : Tips, shallow : Nat]
      /\ (query.kind \in Difference => query.kind = "working" /\ world'.stamp = world.stamp + 1)
  <2>1. CASE query.kind \in Listing
    <3>1. (\E rows \in SUBSET Row : world' = [world EXCEPT !.rows = rows]) \/ world' = [world EXCEPT !.remote = 2]
      BY <2>1 DEF OtherEdit, Listing
    <3>2. query.kind \notin Difference
      BY <2>1 DEF Listing, Difference
    <3> QED  BY <3>1, <3>2, <1>2
  <2>2. CASE query.kind = "status"
    <3>1. PICK rows \in SUBSET Row : world' = [world EXCEPT !.rows = rows, !.stamp = @ + 1]
      BY <2>2 DEF OtherEdit, Listing
    <3>2. query.kind \notin Difference
      BY <2>2 DEF Difference
    <3>3. world.stamp + 1 \in Nat
      BY <1>2
    <3> QED  BY <3>1, <3>2, <3>3, <1>2
  <2>3. CASE query.kind = "history"
    <3>1. PICK tip \in Row, shallow \in 0..(Len(RowSize) - 1) : world' = [world EXCEPT !.tip = tip, !.shallow = shallow]
      BY <2>3 DEF OtherEdit, Listing
    <3>2. query.kind \notin Difference
      BY <2>3 DEF Difference
    <3>3. tip \in Tips /\ shallow \in Nat
      BY ReadAssumption DEF Row, Tips
    <3> QED  BY <3>1, <3>2, <3>3, <1>2
  <2>4. CASE query.kind = "working"
    <3>1. PICK content \in {0, 1, 2} : world' = [world EXCEPT !.content = content, !.stamp = @ + 1]
      BY <2>4 DEF OtherEdit, Listing
    <3>2. world.stamp + 1 \in Nat
      BY <1>2
    <3> QED  BY <3>1, <3>2, <2>4, <1>2
  <2> QED  BY <2>1, <2>2, <2>3, <2>4 DEF OtherEdit
<1>4. ReadTypes'
  <2>1. edits' \in Nat
    BY <1>1 DEF ReadInv, ReadTypes
  <2> QED  BY <1>1, <1>3, <2>1 DEF ReadInv, ReadTypes
<1>5. query.kind \in Difference => ~Still'
  <2>1. world.stamp \in Nat
    BY <1>2
  <2>2. world.stamp + 1 # 0
    BY <2>1
  <2> QED  BY <1>1, <1>3, <2>2 DEF Still
<1>6. Content'
  BY <1>1, <1>5 DEF Content
<1> QED  BY <1>1, <1>4, <1>5, <1>6, OthersInv

-----------------------------------------------------------------------------
(* The theorem about listings *)

LEMMA ReadInitInv == ASSUME ReadInit PROVE ReadInv
<1>1. /\ query \in Query /\ step = "idle" /\ sent = NoCursor /\ held = NothingRead
      /\ answer = NoAnswer /\ got = <<>> /\ truth = <<>> /\ edits = 0
      /\ world.stamp = 0 /\ world.content = 1
      /\ world \in [id : {1, 2}, rows : SUBSET Row, stamp : Nat, content : {0, 1, 2}, remote : {1, 2},
                    tip : Tips, shallow : Nat]
  <2>1. Len(RowSize) \in Tips
    BY ReadAssumption DEF Tips
  <2>2. PICK rows \in SUBSET Row :
          world = [id |-> 1, rows |-> rows, stamp |-> 0, content |-> 1, remote |-> 1,
                   tip |-> Len(RowSize), shallow |-> 1]
    BY DEF ReadInit
  <2> QED  BY <2>1, <2>2 DEF ReadInit
<1>2. ReadTypes
  BY <1>1, NothingTyped DEF ReadTypes, NothingRead
<1>3. Collected
  <2>1. <<>> \in Seq(Nat) /\ Len(<<>>) = 0
    BY EmptySeq
  <2>2. 0 <= 0 /\ \A i \in 1..0 : FALSE
    OBVIOUS
  <2> QED  BY <1>1, <2>1, <2>2 DEF Collected
<1>4. Answered /\ answer.code # "INVALID"
  BY <1>1 DEF Answered, NoAnswer, Invalid
<1>5. Content /\ DifferenceRead /\ Asking
  BY <1>1 DEF Content, DifferenceRead, Files, Asking
<1> QED  BY <1>2, <1>3, <1>4, <1>5 DEF ReadInv

LEMMA ReadStepInv == ASSUME ReadInv, ReadStep PROVE ReadInv'
BY IdentifyInv, ListRowsInv, CheckRemoteInv, ReadConfigInv, StashReferenceInv, StashLogInv, ListTagsInv,
   TagDetailsInv, CommitFilesInv, StatusRowsInv, StatusPageInv, HistoryTipInv, HistoryShallowInv, HistoryPageInv,
   ComparisonInv, WorkingCaptureInv, DiffRawInv, DiffPatchInv, ListOthersInv, ReadOtherInv, WorkingAnswerInv,
   CommitDiffInv, BlobInv, CommandFailsInv DEF ReadStep

LEMMA ReadNextInv == ASSUME ReadInv, [ReadNext]_readVars PROVE ReadInv'
<1>1. CASE ReadNext
  BY <1>1, ReadStepInv, AskFirstInv, AskNextInv, AskAtInv, AskForeignInv, RestartInv, OtherEditInv, OtherReplaceInv
     DEF ReadNext
<1>2. CASE UNCHANGED readVars
  <2>1. UNCHANGED <<query, world, step, sent, held, answer, got, truth, edits>>
    BY <1>2 DEF readVars
  <2>2. ReadTypes' /\ Collected' /\ Content' /\ DifferenceRead'
    BY <2>1 DEF ReadInv, ReadTypes, Collected, Content, DifferenceRead, Files, Still
  <2>3. (Own(sent) => Own(sent)') /\ (Own(answer.next) => Own(answer.next)')
    BY <2>1, OwnStays
  <2>4. LittleContext => LittleContext'
    BY <2>1, PagedStays
  <2>5. Answered' /\ Asking' /\ (answer'.code = "INVALID" => Excused')
    BY <2>1, <2>3, <2>4 DEF ReadInv, Answered, Asking, Foreign, Excused
  <2> QED  BY <2>2, <2>5 DEF ReadInv
<1> QED  BY <1>1, <1>2

LEMMA ReadInvSound == ReadInv => PagesSound
<1> SUFFICES ASSUME ReadInv PROVE PagesSound
  OBVIOUS
<1>1. IsPrefix(got, truth)
  <2>1. got \in Seq(Nat) /\ truth \in Seq(Nat) /\ Len(got) <= Len(truth) /\ \A i \in 1..Len(got) : got[i] = truth[i]
    BY DEF ReadInv, Collected
  <2>2. PICK n \in Nat : n = Len(got)
    BY <2>1
  <2>3. PICK piece : piece = SubSeq(truth, 0 + 1, n)
    OBVIOUS
  <2>4. piece \in Seq(Nat) /\ Len(piece) = n - 0 /\ \A i \in 1..(n - 0) : piece[i] = truth[0 + i]
    BY <2>1, <2>2, <2>3, RowsBetween
  <2>5. piece \in Seq(Nat) /\ Len(piece) = n /\ \A i \in 1..n : piece[i] = truth[i]
    BY <2>4
  <2>6. piece = got
    BY <2>1, <2>2, <2>5, SeqEqual
  <2>7. SubSeq(truth, 1, Len(got)) = got
    BY <2>2, <2>3, <2>6
  <2> QED  BY <2>1, <2>7 DEF IsPrefix
<1>2. PagesWhole
  BY <1>1 DEF ReadInv, Answered, PagesWhole, Difference
<1>3. CursorsWork
  BY DEF ReadInv, Answered, CursorsWork, Excused
<1> QED  BY <1>2, <1>3 DEF PagesSound

\* The paging of the agent (pages.rs, history.rs, diff.rs, objects.rs): the pages a client
\* puts together are a beginning of one listing of the repository, and the whole of it when
\* no next page is announced, whatever other programs change between two of the agent's
\* reads; the lines of a difference come under their files; and a cursor the agent gave out
\* is never called invalid, nor was the page before it empty.
THEOREM PagesAreSound == ReadSpec => []PagesSound
<1>1. ReadInit => ReadInv
  BY ReadInitInv
<1>2. ReadInv /\ [ReadNext]_readVars => ReadInv'
  BY ReadNextInv
<1> QED  BY <1>1, <1>2, ReadInvSound, PTL DEF ReadSpec
=============================================================================

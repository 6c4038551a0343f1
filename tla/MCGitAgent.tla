----------------------------- MODULE MCGitAgent -----------------------------
(* The agent's Git commands: writes, reads and partial selections, the lane they are  *)
(* asked over, the coding of its messages and the desktop's session of four lanes. They *)
(* meet only in the repository, which other programs change as well, and in the lane,  *)
(* so one of them is served in a behaviour and the others rest.                        *)
EXTENDS GitApply, GitReads, HunkSelection, GitWire, GitCoding, GitSession

CONSTANTS Serving, w, r
VARIABLE serving
agentVars == <<serving, vars, readVars, selectVars, wireVars, codingVars, sessionVars>>

AllKinds == DOMAIN Plans
\* The largest row fits no page.
Sizes == <<5, 2, 1, 3>>
Asked(kinds, counts, of, context, budget) ==
  [kind : kinds, count : counts, of : {of}, context : {context}, budget : {budget}]
\* Every listing with pages of every size; and requests that are refused.
Queries ==
  Asked(ReadKind, 0..3, "tracked", 3, 4)
    \union Asked({"working"}, {2}, "untracked", 3, 4)
    \union Asked({"working", "commitFiles"}, {2}, "missing", 3, 4)
    \union Asked({"working"}, {2}, "tracked", 101, 4) \union Asked({"working"}, {2}, "tracked", 3, 1)

\* A caller that writes, or reads on the second lane, and a reader of the first share
\* the session of a configuration that stays; where it is edited or removed, the first
\* only writes.
SessionRequests == {w, r}
SessionKinds == [q \in SessionRequests |-> IF q = w THEN {"write", "diff"} ELSE {"status"}]
SessionSlots == 1..2
FixedNext == SessionNext /\ config' = config
EditedNext == SessionNext /\ \A q \in Requests : req'[q].kind # "diff"

\* A machine that rests starts in any one of its initial states.
AgentInit ==
  /\ serving \in Serving
  /\ Init
  /\ IF serving = "reads" THEN ReadInit
     ELSE /\ query = [kind |-> "blob", count |-> 1] /\ world = [id |-> 1] /\ step = "idle"
          /\ sent = NoCursor /\ held = [id |-> 0] /\ answer = NoAnswer /\ got = <<>>
          /\ truth = <<>> /\ edits = 0
  /\ IF serving = "selection" THEN SelectInit
     ELSE /\ file = NoFile /\ shown = NoFile /\ request = NoChoice /\ reverse = FALSE
          /\ progress = "idle" /\ difference = NoFile /\ patch = NoPatch /\ applied = None
  /\ WireInit
  /\ SessionInit
  /\ IF serving = "coding" THEN CodingInit ELSE message = None /\ frame = <<>> /\ decoded = None
AgentNext ==
  \/ /\ serving = "writes" /\ Next
     /\ UNCHANGED <<serving, readVars, selectVars, wireVars, codingVars, sessionVars>>
  \/ /\ serving = "reads" /\ ReadNext
     /\ UNCHANGED <<serving, vars, selectVars, wireVars, codingVars, sessionVars>>
  \/ /\ serving = "selection" /\ SelectNext
     /\ UNCHANGED <<serving, vars, readVars, wireVars, codingVars, sessionVars>>
  \/ /\ serving = "wire" /\ WireNext
     /\ UNCHANGED <<serving, vars, readVars, selectVars, codingVars, sessionVars>>
  \/ /\ serving = "coding" /\ CodingNext
     /\ UNCHANGED <<serving, vars, readVars, selectVars, wireVars, sessionVars>>
  \/ /\ \/ serving = "session" /\ FixedNext
        \/ serving = "edited" /\ EditedNext
     /\ UNCHANGED <<serving, vars, readVars, selectVars, wireVars, codingVars>>
AgentSpec == AgentInit /\ [][AgentNext]_agentVars

\* The lane and its messages: nobody waits or refuses, every message arrives as sent
\* (protocol.rs, msgpack.rs).
WireExact == InStep /\ CodingExact
=============================================================================

------------------------------ MODULE GitWrites ------------------------------
(***************************************************************************)
(* A desktop that sends Git writes to agent processes and keeps a receipt  *)
(* of each, over connections that break at any moment:                     *)
(*                                                                         *)
(*   src-tauri/src/git/pending.rs   the receipts                           *)
(*   src-tauri/src/git/mod.rs       git_request, connection, disconnect    *)
(*   tools/agent/src/git/mod.rs     the agent's request loop               *)
(*                                                                         *)
(* It composes with GitJournal: an agent process of this module answers    *)
(* what it receives by the steps of that one.  Only the lane that carries  *)
(* operations is modelled; a session is that lane's agent process.         *)
(***************************************************************************)
EXTENDS GitJournal

CONSTANT MaxFaults    \* bound: lost connections, crashes and disk errors of a behaviour
ASSUME MaxFaultsAssumption == MaxFaults \in Nat

VARIABLES
  receipt,   \* the row of each operation in the desktop's recovery log
  lane,      \* the agent process the desktop talks to
  proc,      \* each process: not running, running, or running after its stdin closed
  inbox,     \* a request on its way to each process
  phase,     \* where the desktop is in its request
  sent,      \* the request the desktop works on
  refusal,   \* history: whose answer made a receipt "rejected"
  faults     \* how many faults have happened

desktopVars == <<receipt, lane, phase, sent, refusal>>
wireVars    == <<proc, inbox>>
wvars       == <<vars, desktopVars, wireVars, faults>>
-----------------------------------------------------------------------------
\* "gone": acknowledged, its row removed.  Ids are fresh UUIDs: none comes back.
Complete == Definite \union {"rejected", "reviewed_unknown"}
Open     == {"pending", "outcome_unknown"}
Receipts == {"none", "gone"} \union Open \union Complete

WInit ==
  /\ Init
  /\ receipt = [i \in Id |-> "none"]
  /\ lane = Nobody
  /\ proc = [a \in Agent |-> "off"]
  /\ inbox = [a \in Agent |-> NoRequest]
  /\ phase = "idle"
  /\ sent = NoRequest
  /\ refusal = [i \in Id |-> "none"]
  /\ faults = 0

Fault == faults < MaxFaults /\ faults' = faults + 1
-----------------------------------------------------------------------------
(* The desktop's requests *)

\* Before sending, never after.
Connect(a) ==
  /\ lane = Nobody /\ proc[a] = "off"
  /\ lane' = a
  /\ proc' = [proc EXCEPT ![a] = "on"]
  /\ UNCHANGED <<vars, receipt, phase, sent, refusal, inbox, faults>>

Ask(q) == phase' = "send" /\ sent' = q

\* Variant: the receipt is left for the answer to write.
StartWriteUnrecorded(id, p, s) ==
  /\ lane # Nobody /\ phase = "idle"
  /\ receipt[id] = "none"
  /\ Ask(StartRequest(id, p, s))
  /\ UNCHANGED <<vars, receipt, lane, refusal, wireVars, faults>>

\* The receipt is on the desktop's disk before the request leaves.
StartWrite(id, p, s) ==
  /\ lane # Nobody /\ phase = "idle"
  /\ receipt[id] = "none"
  /\ receipt' = [receipt EXCEPT ![id] = "pending"]
  /\ Ask(StartRequest(id, p, s))
  /\ UNCHANGED <<vars, lane, refusal, wireVars, faults>>

\* Saving the receipt fails, before or after its rename: nothing is sent.
StartUnsaved(id) ==
  /\ lane # Nobody /\ phase = "idle"
  /\ receipt[id] = "none"
  /\ receipt' = [receipt EXCEPT ![id] = "pending"]
  /\ Fault
  /\ UNCHANGED <<vars, lane, phase, sent, refusal, wireVars>>

Lookup(id) ==
  /\ lane # Nobody /\ phase = "idle"
  /\ receipt[id] \notin {"none", "gone"}
  /\ Ask(LookupRequest("get", id))
  /\ UNCHANGED <<vars, receipt, lane, refusal, wireVars, faults>>

\* review_ready.
ReviewWrite(id) ==
  /\ lane # Nobody /\ phase = "idle"
  /\ receipt[id] \in {"outcome_unknown", "reviewed_unknown"}
  /\ Ask(LookupRequest("review", id))
  /\ UNCHANGED <<vars, receipt, lane, refusal, wireVars, faults>>

\* The agent reads one request at a time.
Send ==
  /\ phase = "send" /\ lane # Nobody /\ inbox[lane] = NoRequest
  /\ phase' = "wait"
  /\ inbox' = [inbox EXCEPT ![lane] = sent]
  /\ UNCHANGED <<vars, receipt, lane, sent, refusal, proc, faults>>

Idle == phase' = "idle" /\ sent' = NoRequest

\* The session closes.  Its agent reads what has already arrived, then sees the
\* end of its input; what has not arrived is lost.
CloseLane ==
  /\ lane' = Nobody
  /\ proc' = [proc EXCEPT ![lane] = IF @ = "on" THEN "eof" ELSE @]
  /\ inbox' \in {inbox, [inbox EXCEPT ![lane] = NoRequest]}
  /\ Idle

\* A deadline, a broken connection, git_disconnect, or the end of the desktop
\* process: the answer is never read, and a write stays pending.
Disconnect ==
  /\ lane # Nobody
  /\ CloseLane
  /\ Fault
  /\ UNCHANGED <<vars, receipt, refusal>>

\* The agent process of the lane has died: the next use finds out.
LaneDied ==
  /\ lane # Nobody /\ proc[lane] = "off"
  /\ CloseLane
  /\ UNCHANGED <<vars, receipt, refusal, faults>>
-----------------------------------------------------------------------------
(* The answer *)

\* Variant: the record's state is stored as it is.
ReportedRaw(kind, code) == IF code \in States THEN code ELSE "same"

\* remote_outcome, and the refusals a start may trust.
Reported(kind, code) ==
  IF code \in States THEN IF code = "running" THEN "pending" ELSE code
  ELSE IF kind = "start" /\ code \in Rejections THEN "rejected"
  ELSE "same"

\* Variant: a lookup that finds no record leaves the receipt alone.
OutcomeSilent(kind, code) == Reported(kind, code)

\* Variant: a start that could not save its outcome counts as refused.
OutcomeEager(kind, code) ==
  IF kind = "start" /\ code = "OUTCOME_UNKNOWN" THEN "rejected" ELSE Reported(kind, code)

\* What an answer says of the operation; "same" when it says nothing.
Outcome(kind, code) ==
  IF kind = "get" /\ code = "OPERATION_NOT_FOUND" THEN "rejected" ELSE Reported(kind, code)

\* Variant: the last answer wins.
ObserveLast(old, new) == IF old \in {"none", "gone"} \/ new = "same" THEN old ELSE new

\* The receipt after an answer: a complete one is not changed, but a reviewed
\* one accepts a definite outcome.
Observe(old, new) ==
  IF \/ old \in {"none", "gone"}
     \/ new = "same"
     \/ old = "reviewed_unknown" /\ new \notin Definite
     \/ old \in Complete \ {"reviewed_unknown"}
  THEN old ELSE new

\* Variant: any answer on the stream is taken for this request's.
AnswerReadyStale == phase = "wait" /\ lane # Nobody /\ proc[lane] = "on"

AnswerReady ==
  /\ phase = "wait" /\ lane # Nobody
  /\ proc[lane] = "on" /\ pc[lane] = "idle" /\ inbox[lane] = NoRequest
  /\ reply[lane].id = sent.id

AnswerTaken ==
  /\ AnswerReady
  /\ LET id  == sent.id
         new == Observe(receipt[id], Outcome(sent.kind, reply[lane].code))
     IN /\ receipt' = [receipt EXCEPT ![id] = new]
        /\ refusal' = [refusal EXCEPT ![id] =
                         IF new = "rejected" /\ receipt[id] # "rejected" THEN sent.kind ELSE @]
  /\ Idle
  /\ UNCHANGED <<vars, lane, wireVars, faults>>

\* The receipt is not saved; or the server's configuration changed meanwhile, and
\* the session closes on an answer that may come from another machine.
AnswerDropped ==
  /\ AnswerReady
  /\ \/ Idle /\ UNCHANGED <<lane, wireVars>>
     \/ CloseLane
  /\ Fault
  /\ UNCHANGED <<vars, receipt, refusal>>

\* What arrives is no frame of the protocol.  The error goes back as it is: the
\* receipt stays, the lane keeps its stream, and the agent may be at work still.
AnswerMisread ==
  /\ phase = "wait" /\ lane # Nobody /\ proc[lane] = "on"
  /\ Idle
  /\ Fault
  /\ UNCHANGED <<vars, receipt, lane, refusal, wireVars>>

\* Variant: any row may be dismissed.
AcknowledgeAny(id) ==
  /\ receipt[id] \notin {"none", "gone"}
  /\ receipt' = [receipt EXCEPT ![id] = "gone"]
  /\ UNCHANGED <<vars, lane, phase, sent, refusal, wireVars, faults>>

Acknowledge(id) ==
  /\ receipt[id] \in Complete
  /\ receipt' = [receipt EXCEPT ![id] = "gone"]
  /\ UNCHANGED <<vars, lane, phase, sent, refusal, wireVars, faults>>
-----------------------------------------------------------------------------
(* The agent processes *)

\* A request that arrived is answered even after the input has closed.
Deliver(a) ==
  /\ proc[a] # "off" /\ inbox[a] # NoRequest
  /\ Receive(a, inbox[a])
  /\ inbox' = [inbox EXCEPT ![a] = NoRequest]
  /\ UNCHANGED <<desktopVars, proc, faults>>

Work(a) == Progress(a) /\ UNCHANGED <<desktopVars, wireVars, faults>>

WorkFails(a) == DiskFault(a) /\ Fault /\ UNCHANGED <<desktopVars, wireVars>>

\* End of input, once every request that arrived is answered.
AgentExits(a) ==
  /\ proc[a] = "eof" /\ pc[a] = "idle" /\ inbox[a] = NoRequest
  /\ proc' = [proc EXCEPT ![a] = "off"]
  /\ UNCHANGED <<vars, desktopVars, inbox, faults>>

AgentDies(a) ==
  /\ proc[a] # "off"
  /\ proc' = [proc EXCEPT ![a] = "off"]
  /\ inbox' = [inbox EXCEPT ![a] = NoRequest]
  /\ \/ Crash(a)
     \/ pc[a] = "idle" /\ UNCHANGED vars
  /\ Fault
  /\ UNCHANGED desktopVars

GitWorks(id) == Git(id) /\ UNCHANGED <<desktopVars, wireVars, faults>>
-----------------------------------------------------------------------------
\* Every write is settled and dismissed: the operator has nothing left to ask.
Rest == (\A i \in Id : receipt[i] = "gone") /\ UNCHANGED wvars

WNext ==
  \/ \E a \in Agent : Connect(a) \/ Deliver(a) \/ Work(a) \/ WorkFails(a)
                      \/ AgentExits(a) \/ AgentDies(a)
  \/ \E id \in Id :
       \/ \E p \in Payload : \E s \in Snapshots(p) : StartWrite(id, p, s)
       \/ StartUnsaved(id) \/ Lookup(id) \/ ReviewWrite(id) \/ Acknowledge(id) \/ GitWorks(id)
  \/ Send \/ Disconnect \/ LaneDied \/ AnswerTaken \/ AnswerDropped \/ AnswerMisread \/ Rest

WSpec == WInit /\ [][WNext]_wvars

\* Processes and the desktop's own code keep running; an operator keeps looking
\* up open receipts and reviews unknown ones, however the desktop is kept busy.
WFairSpec ==
  /\ WSpec
  /\ \A a \in Agent : WF_wvars(Deliver(a)) /\ WF_wvars(Work(a)) /\ WF_wvars(AgentExits(a))
  /\ WF_wvars(\E a \in Agent : Connect(a))
  /\ WF_wvars(Send) /\ WF_wvars(LaneDied) /\ WF_wvars(AnswerTaken)
  /\ \A id \in Id : /\ SF_wvars(receipt[id] \in Open /\ Lookup(id))
                    /\ SF_wvars(receipt[id] = "outcome_unknown" /\ ReviewWrite(id))
-----------------------------------------------------------------------------
(* Properties *)

WTypeOK ==
  /\ receipt \in [Id -> Receipts]
  /\ lane \in Agent \union {Nobody}
  /\ proc \in [Agent -> {"off", "on", "eof"}]
  /\ inbox \in [Agent -> Request]
  /\ phase \in {"idle", "send", "wait"}
  /\ sent \in Request
  /\ refusal \in [Id -> {"none", "start", "get"}]
  /\ faults \in 0 .. MaxFaults

\* What a receipt says of an outcome is on the agent's disk, and what the operator
\* reviewed was reviewed there first (review_with_remote_confirmation).
ReceiptTruth ==
  \A i \in Id :
    /\ receipt[i] \in Definite \union {"reviewed_unknown"} => record[i].state = receipt[i]
    /\ receipt[i] = "outcome_unknown" => record[i].state \in {"outcome_unknown", "reviewed_unknown"}

\* Nothing runs on a server that the desktop has no receipt of: it is written
\* before dispatch.
ReceiptBeforeEffect == \A i \in Id : run[i].launches > 0 => receipt[i] # "none"

\* The refusals of start that the desktop believes (rejected_before_mutation) mean
\* that the write has not begun, and never will.
RefusedNeverBegins ==
  \A i \in Id : refusal[i] = "start" => run[i].launches = 0 /\ ~Exists(i)

\* An operator can dismiss a write that is still unresolved only when a lookup
\* found no record of it.
DismissedIsResolved ==
  \A i \in Id : receipt[i] = "gone" /\ record[i].state \in Unresolved => refusal[i] = "get"

\* The four: a receipt is there before its write can have an effect, says no more than
\* the agent's disk, and goes only with a write that is settled or was never found.
ReceiptSound == WTypeOK /\ ReceiptTruth /\ ReceiptBeforeEffect /\ RefusedNeverBegins /\ DismissedIsResolved

\* A confirmed outcome stays what it is until its row is removed.
ConfirmedStep ==
  \A i \in Id : receipt[i] \in Complete /\ receipt'[i] # receipt[i] => receipt'[i] = "gone"

ConfirmedStays == [][ConfirmedStep]_wvars

\* No write stays open for ever: lookups and reviews settle it, even one whose
\* request never reached an agent.
EveryWriteSettles == \A i \in Id : receipt[i] = "pending" ~> receipt[i] \in Complete \union {"gone"}

\* git_request: a missing record proves the write never began, so that a lookup
\* that finds none may settle the receipt as rejected.
\* The code does not keep it: no run expects it to hold (README, "What the code does
\* not keep").
MissingMeansNeverBegan == \A i \in Id : receipt[i] = "rejected" => run[i].launches = 0
=============================================================================

------------------------------ MODULE Browser ------------------------------
(***************************************************************************)
(* Opening links of a server on the desktop.  A program on the server      *)
(* ("helper": xdg-open, newport-browser) connects to the agent and writes  *)
(* its URL; the agent's Broker passes one request at a time on to the      *)
(* desktop (frame O), which sets up a forward for a login callback if the  *)
(* URL names one, opens the browser, and answers (frame B).  The broker    *)
(* gives up after 20 seconds, the helper after 25.                         *)
(*                                                                         *)
(* A helper stands for its URL and its stream.  Requests wait in the       *)
(* listener's backlog until the broker's next turn.  The rate limit of one *)
(* request per second is a choice of the model.                            *)
(***************************************************************************)
EXTENDS Integers, Sequences, FiniteSets

CONSTANTS
    Helper,       \* programs on the server, each asks once
    MaxLeases,    \* the limit of forwards (8)
    NoHelper          \* no helper

ASSUME BrowserAssumption == NoHelper \notin Helper /\ MaxLeases \in Nat \ {0}

VARIABLES
    enabled,    \* the Browser switch, fixed for a session
    helper,     \* helper[h]: what it does, or was told
    pending,    \* the broker's request: its id and helper
    requestId,  \* the broker's last id
    openFrames,     \* O frames under way
    answerFrames,    \* B frames under way
    opening,    \* what the desktop is opening, and whether it set up a forward
    leases,     \* the forwards, in the order they were set up
    opened      \* helpers whose URL the browser was given

browserVars == <<enabled, helper, pending, requestId, openFrames, answerFrames, opening, leases, opened>>

NoRequest == [id |-> 0, for |-> NoHelper]
NotOpening == [step |-> "none", id |-> 0, for |-> NoHelper, prepared |-> FALSE]
SetHelper(h, told) == helper' = [helper EXCEPT ![h] = told]

\* A reply to a helper that has given up is lost.
Told(h, told) == IF helper[h] = "pending" THEN [helper EXCEPT ![h] = told] ELSE helper

BrowserInit ==
    /\ enabled \in BOOLEAN
    /\ helper = [h \in Helper |-> "idle"]
    /\ pending = NoRequest /\ requestId = 0
    /\ openFrames = <<>> /\ answerFrames = <<>>
    /\ opening = NotOpening
    /\ leases = <<>> /\ opened = {}

-----------------------------------------------------------------------------
(* The helper *)

Connect(h) ==
    /\ helper[h] = "idle"
    /\ SetHelper(h, "queued")
    /\ UNCHANGED <<enabled, pending, requestId, openFrames, answerFrames, opening, leases, opened>>

\* 25 seconds without an answer.
GiveUp(h) ==
    /\ helper[h] \in {"queued", "pending"}
    /\ SetHelper(h, "gone")
    /\ UNCHANGED <<enabled, pending, requestId, openFrames, answerFrames, opening, leases, opened>>

-----------------------------------------------------------------------------
(* The broker *)

\* One connection per turn: passed on, or rejected when another request is
\* pending or the last one was opened less than a second ago.
Accept(h) ==
    /\ helper[h] = "queued"
    /\ \/ /\ enabled /\ pending = NoRequest
          /\ requestId' = requestId + 1
          /\ openFrames' = Append(openFrames, [id |-> requestId + 1, for |-> h])
          /\ pending' = [id |-> requestId + 1, for |-> h]
          /\ SetHelper(h, "pending")
       \/ SetHelper(h, "failed") /\ UNCHANGED <<pending, requestId, openFrames>>
    /\ UNCHANGED <<enabled, answerFrames, opening, leases, opened>>

\* 20 seconds without an answer of the desktop.
ExpireRequest ==
    /\ pending # NoRequest
    /\ helper' = Told(pending.for, "failed")
    /\ pending' = NoRequest
    /\ UNCHANGED <<enabled, requestId, openFrames, answerFrames, opening, leases, opened>>

\* An answer is passed on if it is that of the pending request.
\* Mutant: any answer is taken for that of the pending request.
ExpectedAny(reply) == TRUE
Expected(reply) == pending.id = reply.id
ReplyArrives ==
    /\ answerFrames # <<>>
    /\ answerFrames' = Tail(answerFrames)
    /\ LET reply == Head(answerFrames)
       IN  IF pending # NoRequest /\ Expected(reply)
           THEN helper' = Told(pending.for, IF reply.success THEN "opened" ELSE "failed") /\ pending' = NoRequest
           ELSE UNCHANGED <<helper, pending>>
    /\ UNCHANGED <<enabled, requestId, openFrames, opening, leases, opened>>

-----------------------------------------------------------------------------
(* The desktop *)

StartOpen ==
    /\ opening.step = "none" /\ openFrames # <<>>
    /\ opening' = [step |-> "callback", id |-> Head(openFrames).id, for |-> Head(openFrames).for, prepared |-> FALSE]
    /\ openFrames' = Tail(openFrames)
    /\ UNCHANGED <<enabled, helper, pending, requestId, answerFrames, leases, opened>>

\* What is left when the finished forwards are forgotten, in its order: one list.
Unfinished ==
    LET live   == {i \in DOMAIN leases : leases[i].live}
        Orders == {at \in [1..Cardinality(live) -> live] : \A i, j \in DOMAIN at : i < j => at[i] < at[j]}
    IN  {[i \in DOMAIN at |-> leases[at[i]]] : at \in Orders}

\* The URL names a callback and the forward is set up; or it names none, or the
\* forward cannot be had, which is only a warning.
PrepareForward ==
    /\ opening.step = "callback"
    /\ \E kept \in Unfinished :
          \/ /\ Len(kept) < MaxLeases
             /\ leases' = Append(kept, [for |-> opening.for, live |-> TRUE])
             /\ opening' = [opening EXCEPT !.step = "open", !.prepared = TRUE]
          \/ opening' = [opening EXCEPT !.step = "open"] /\ leases' \in {leases, kept}
    /\ UNCHANGED <<enabled, helper, pending, requestId, openFrames, answerFrames, opened>>

\* rollback_last takes the last forward of the list.
\* Mutant: the forward of a link that was not opened is kept.
ForwardKept == leases
RolledBack == IF opening.prepared THEN SubSeq(leases, 1, Len(leases) - 1) ELSE leases
Opens(success) ==
    /\ opening.step = "open"
    /\ opened' = IF success THEN opened \cup {opening.for} ELSE opened
    /\ leases' = IF success THEN leases ELSE RolledBack
    /\ answerFrames' = Append(answerFrames, [id |-> opening.id, success |-> success])
    /\ opening' = NotOpening
    /\ UNCHANGED <<enabled, helper, pending, requestId, openFrames>>

\* A forward ends after five minutes and stays on the list, finished.
LeaseEnds ==
    /\ \E i \in DOMAIN leases : leases[i].live /\ leases' = [leases EXCEPT ![i].live = FALSE]
    /\ UNCHANGED <<enabled, helper, pending, requestId, openFrames, answerFrames, opening, opened>>

\* The session ends: with it the broker, what is under way, and the forwards.
SessionEnds ==
    /\ helper' = [h \in Helper |-> IF helper[h] \in {"queued", "pending"} THEN "failed" ELSE helper[h]]
    /\ pending' = NoRequest /\ requestId' = 0
    /\ openFrames' = <<>> /\ answerFrames' = <<>>
    /\ opening' = NotOpening
    /\ leases' = <<>>
    /\ UNCHANGED <<enabled, opened>>

-----------------------------------------------------------------------------
BrowserNext ==
    \/ \E h \in Helper : Connect(h) \/ GiveUp(h) \/ Accept(h)
    \/ ExpireRequest \/ ReplyArrives \/ StartOpen \/ PrepareForward \/ LeaseEnds \/ SessionEnds
    \/ \E success \in BOOLEAN : Opens(success)

BrowserSpec == BrowserInit /\ [][BrowserNext]_browserVars

-----------------------------------------------------------------------------
\* A helper is told that its link was opened only if its own link was: the
\* answer to a request that has expired is never taken for the next one's
\* (the id check of Broker::reply).
OpenedIsTrue == \A h \in Helper : helper[h] = "opened" => h \in opened

\* Every forward on the list belongs to a link the browser has been given, or
\* is about to be: a link that could not be opened leaves none behind, and its
\* rollback never takes another's.
ForwardsOwned ==
    /\ \A i \in DOMAIN leases : leases[i].for \in opened \/ (opening.prepared /\ opening.for = leases[i].for)
    /\ opening.prepared => leases # <<>> /\ leases[Len(leases)].for = opening.for

\* Both: answers are for the link that was asked about, and forwards for links in use.
LinksTrue == OpenedIsTrue /\ ForwardsOwned
=============================================================================

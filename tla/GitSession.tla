----------------------------- MODULE GitSession -----------------------------
(***************************************************************************)
(* The desktop side of a server's Git connection (src-tauri/src/git/mod.rs *)
(* and git/reads.rs): one SSH session per server with four protocol lanes, *)
(* shared by every view.  A request finds or dials the session, takes the  *)
(* access lock (writes alone, reads together), then the lane of its kind,  *)
(* starts an agent on that lane if there is none, sends, and judges what   *)
(* came back.  Around it run the keepalive and idle task of the session,   *)
(* edits of the server's configuration, explicit disconnects, cancelled    *)
(* reads, agents that exit and links that break.                           *)
(*                                                                         *)
(* One server is modelled: nothing is shared between servers but the maps. *)
(***************************************************************************)
EXTENDS Naturals, Sequences, FiniteSets

CONSTANTS Requests,     \* callers of git_request that may overlap
          KindsOf,      \* Requests -> the kinds of request each may make
          Slots,        \* room for sessions: one for each request that still uses an old one
          MaxRevision,  \* bound: the server's configuration is edited below it
          Nothing

ASSUME SlotsAssumption == Slots \subseteq Nat /\ Cardinality(Slots) >= Cardinality(Requests)
ASSUME NoneAssumption == Nothing \notin Requests \cup Slots /\ "ping" \notin Requests

VARIABLES config,      \* the saved server: its connection revision, and whether it is there
          entry,       \* Sessions.entries: the server's session, or None
          session,     \* Slots -> the session: open, link, rev, and the lanes' streams
          access,      \* Slots -> the access lock: holders, and the queue of those waiting
          lane,        \* Slots -> Lanes -> the lane's fair mutex: its holder, then those waiting
          connecting,  \* the server's connecting lock, in the same form
          req,         \* Requests -> the call's progress
          read         \* Requests -> its registration for cancellation

sessionVars == <<config, entry, session, access, lane, connecting, req, read>>

Mutation(kind) == kind = "write"
LaneOf(kind) == IF kind = "diff" THEN 2 ELSE 0
Lanes == {0, 2}

Closed == [open |-> FALSE, link |-> FALSE, rev |-> 0, stream |-> [l \in Lanes |-> "none"]]
Opened(rev) == [open |-> TRUE, link |-> TRUE, rev |-> rev,
                stream |-> [l \in Lanes |-> IF l = 0 THEN "clean" ELSE "none"]]

Idle == [pc |-> "idle", kind |-> Nothing, rev |-> 0, slot |-> Nothing,
         fate |-> "unsent", result |-> Nothing]

SessionInit ==
    /\ config = [rev |-> 1, present |-> TRUE]
    /\ entry = Nothing
    /\ session = [s \in Slots |-> Closed]
    /\ access = [s \in Slots |-> [holders |-> {}, queue |-> <<>>]]
    /\ lane = [s \in Slots |-> [l \in Lanes |-> <<>>]]
    /\ connecting = <<>>
    /\ req = [q \in Requests |-> Idle]
    /\ read = [q \in Requests |-> "none"]

Pc(q) == req[q].pc
SlotOf(q) == req[q].slot
Stream(q) == session[SlotOf(q)].stream[LaneOf(req[q].kind)]
Holds(q, mutex) == mutex # <<>> /\ Head(mutex) = q
\* Mutant: a waiter that gives up keeps its place.
DropHolder(q, mutex) == IF Holds(q, mutex) THEN Tail(mutex) ELSE mutex
PlaceOf(q, mutex) == CHOOSE i \in DOMAIN mutex : mutex[i] = q
Drop(q, mutex) ==
    IF \E i \in DOMAIN mutex : mutex[i] = q
    THEN [i \in 1..Len(mutex) - 1 |-> mutex[IF i < PlaceOf(q, mutex) THEN i ELSE i + 1]]
    ELSE mutex
Current(rev) == config.present /\ config.rev = rev

\* Whether the entry may carry a request that looked up revision rev.
Live(rev) == entry # Nothing /\ session[entry].open /\ session[entry].rev = rev

\* Session::close: every holder of the session sees it, the transport goes down.
Shut(s) == session' = [session EXCEPT ![s] = Closed]

SetStream(s, l, to) ==
    session' = [session EXCEPT ![s].stream[l] = IF session[s].open THEN to ELSE "none"]

(***************************************************************************)
(* A call returns: its guards are dropped, and so is its registration.     *)
(***************************************************************************)
Leave(q, result) ==
    /\ req' = [req EXCEPT ![q].pc = "done", ![q].slot = Nothing, ![q].rev = 0, ![q].result = result]
    /\ access' = [s \in Slots |-> [holders |-> access[s].holders \ {q},
                                   queue |-> Drop(q, access[s].queue)]]
    /\ lane' = [s \in Slots |-> [l \in Lanes |-> Drop(q, lane[s][l])]]
    /\ connecting' = Drop(q, connecting)
    /\ read' = [read EXCEPT ![q] = "none"]

Step(q, from, to) == Pc(q) = from /\ req' = [req EXCEPT ![q].pc = to]

-----------------------------------------------------------------------------
(* A view registers a read before it asks for it, and may cancel it at any  *)
(* time: a registration that is gone when the call claims it, cancelled or   *)
(* expired, answers the call at once.                                        *)

Register(q) ==
    /\ Pc(q) = "idle"
    /\ \E kind \in KindsOf[q] \ {"write"} :
         \/ /\ req' = [req EXCEPT ![q] = [Idle EXCEPT !.pc = "revision", !.kind = kind]]
            /\ read' = [read EXCEPT ![q] = "claimed"]
         \/ /\ req' = [req EXCEPT ![q] = [Idle EXCEPT !.pc = "done", !.kind = kind, !.result = "cancelled"]]
            /\ UNCHANGED read
    /\ UNCHANGED <<config, entry, session, access, lane, connecting>>

CancelRead(q) ==
    /\ read[q] = "claimed"
    /\ read' = [read EXCEPT ![q] = "cancelled"]
    /\ UNCHANGED <<config, entry, session, access, lane, connecting, req>>

\* A call without a registration: every write is one.
Invoke(q) ==
    /\ Pc(q) = "idle"
    /\ \E kind \in KindsOf[q] : req' = [req EXCEPT ![q] = [Idle EXCEPT !.pc = "revision", !.kind = kind]]
    /\ UNCHANGED <<config, entry, session, access, lane, connecting, read>>

\* The caller has its answer.
Deliver(q) ==
    /\ Pc(q) = "done"
    /\ req' = [req EXCEPT ![q] = Idle]
    /\ UNCHANGED <<config, entry, session, access, lane, connecting, read>>

\* Every wait of a read watches its cancellation.  Once the request is on the
\* wire the stream it leaves half read is discarded with it.
Waits == {"revision", "look", "queue", "dial", "insert",
          "subscribe", "access", "lane", "init", "sent"}
\* Mutant: the stream survives the read that was cut short.
RetireKept(q) == UNCHANGED session
Retire(q) == SetStream(SlotOf(q), LaneOf(req[q].kind), "none")
CancelSeen(q) ==
    /\ read[q] = "cancelled" /\ Pc(q) \in Waits
    /\ IF Pc(q) = "sent" THEN Retire(q) ELSE UNCHANGED session
    /\ Leave(q, "cancelled")
    /\ UNCHANGED <<config, entry>>

-----------------------------------------------------------------------------
(* connection(): the server's session, dialled if there is none to use.     *)

ReadRevision(q) ==
    /\ Pc(q) = "revision"
    /\ IF config.present
       THEN /\ req' = [req EXCEPT ![q].pc = "look", ![q].rev = config.rev]
            /\ UNCHANGED <<access, lane, connecting, read>>
       ELSE Leave(q, "retry")
    /\ UNCHANGED <<config, entry, session>>

Join(q) == req' = [req EXCEPT ![q].pc = "subscribe", ![q].slot = entry]

LookUp(q) ==
    /\ Pc(q) = "look"
    /\ IF Live(req[q].rev)
       THEN Join(q) /\ UNCHANGED connecting
       ELSE Step(q, "look", "queue") /\ connecting' = Append(connecting, q)
    /\ UNCHANGED <<config, entry, session, access, lane, read>>

\* The connecting lock is got.  Another caller may have connected meanwhile;
\* whatever else is there is taken out and closed.
Recheck(q) ==
    /\ Pc(q) = "queue" /\ Holds(q, connecting)
    /\ IF Live(req[q].rev)
       THEN Join(q) /\ connecting' = Drop(q, connecting) /\ UNCHANGED <<entry, session>>
       ELSE /\ Step(q, "queue", "dial")
            /\ entry' = Nothing
            /\ IF entry = Nothing THEN UNCHANGED session ELSE Shut(entry)
            /\ UNCHANGED connecting
    /\ UNCHANGED <<config, access, lane, read>>

\* SSH, the agent's installation, its hello and capabilities, under deadlines;
\* then the configuration is looked at again.
Dial(q) ==
    /\ Pc(q) = "dial"
    /\ IF Current(req[q].rev)
       THEN Step(q, "dial", "insert") /\ UNCHANGED <<access, lane, connecting, read>>
       ELSE Leave(q, "stale")
    /\ UNCHANGED <<config, entry, session>>
DialFails(q) ==
    /\ Pc(q) = "dial"
    /\ Leave(q, "retry") \/ Leave(q, "unsupported")
    /\ UNCHANGED <<config, entry, session>>

Unused == {s \in Slots : s # entry /\ \A q \in Requests : SlotOf(q) # s}
Insert(q) ==
    /\ Pc(q) = "insert"
    /\ \E s \in Unused :
          /\ \A t \in Unused : s <= t
          /\ entry' = s
          /\ session' = [session EXCEPT ![s] = Opened(req[q].rev)]
          /\ req' = [req EXCEPT ![q].pc = "subscribe", ![q].slot = s]
          /\ lane' = [lane EXCEPT ![s] = [l \in Lanes |-> <<>>]]
    /\ connecting' = Drop(q, connecting)
    /\ UNCHANGED <<config, access, read>>

-----------------------------------------------------------------------------
(* git_request from the session to the answer.  A session that closes is    *)
(* noticed by every wait on it; nothing has been sent, so it may be retried. *)

Subscribe(q) ==
    /\ Pc(q) = "subscribe"
    /\ IF session[SlotOf(q)].open
       THEN /\ req' = [req EXCEPT ![q].pc = "access"]
            /\ access' = [access EXCEPT ![SlotOf(q)].queue = Append(@, q)]
            /\ UNCHANGED <<lane, connecting, read>>
       ELSE Leave(q, "retry")
    /\ UNCHANGED <<config, entry, session>>

CloseSeen(q) ==
    /\ Pc(q) \in {"access", "lane", "init"} /\ ~session[SlotOf(q)].open
    /\ Leave(q, "retry")
    /\ UNCHANGED <<config, entry, session>>

\* The access lock is fair: waiters are served in order, a write alone.
MayEnter(q) ==
    LET a == access[SlotOf(q)]
    IN /\ a.queue # <<>> /\ Head(a.queue) = q
       /\ IF Mutation(req[q].kind) THEN a.holders = {}
                                   ELSE \A p \in a.holders : ~Mutation(req[p].kind)
Access(q) ==
    /\ Pc(q) = "access" /\ MayEnter(q)
    /\ access' = [access EXCEPT ![SlotOf(q)] = [holders |-> @.holders \cup {q}, queue |-> Tail(@.queue)]]
    /\ lane' = [lane EXCEPT ![SlotOf(q)][LaneOf(req[q].kind)] = Append(@, q)]
    /\ Step(q, "access", "lane")
    /\ UNCHANGED <<config, entry, session, connecting, read>>

\* The lane's mutex, then a last look at the session; a lane without an agent
\* starts one.
TakeLane(q) ==
    /\ Pc(q) = "lane" /\ Holds(q, lane[SlotOf(q)][LaneOf(req[q].kind)])
    /\ IF session[SlotOf(q)].open
       THEN /\ req' = [req EXCEPT ![q].pc = IF Stream(q) = "none" THEN "init" ELSE "send"]
            /\ UNCHANGED <<access, lane, connecting, read>>
       ELSE Leave(q, "retry")
    /\ UNCHANGED <<config, entry, session>>

StartAgent(q) ==
    /\ Step(q, "init", "send") /\ session[SlotOf(q)].link
    /\ SetStream(SlotOf(q), LaneOf(req[q].kind), "clean")
    /\ UNCHANGED <<config, entry, access, lane, connecting, read>>

\* The agent does not start, or is no agent of this protocol.  A read blames its
\* lane while the link is up; any other failure closes the session, which nobody
\* else can be writing on.
StartFails(q) ==
    /\ Pc(q) = "init"
    /\ IF ~Mutation(req[q].kind) /\ session[SlotOf(q)].link
       THEN Leave(q, "channel") /\ UNCHANGED session
       ELSE (Leave(q, "retry") \/ Leave(q, "unsupported")) /\ Shut(SlotOf(q))
    /\ UNCHANGED <<config, entry>>

\* A write is recorded in the local log first, or is not sent.  A stream that was
\* misread stays so: nothing takes the rest of the earlier answer off it.
Send(q) ==
    /\ Pc(q) = "send"
    /\ req' = [req EXCEPT ![q].pc = "sent", ![q].fate = "sent"]
    /\ SetStream(SlotOf(q), LaneOf(req[q].kind), IF Stream(q) = "clean" THEN "dirty" ELSE Stream(q))
    /\ UNCHANGED <<config, entry, access, lane, connecting, read>>
RecordFails(q) ==
    /\ Pc(q) = "send" /\ Mutation(req[q].kind)
    /\ Leave(q, "retry")
    /\ UNCHANGED <<config, entry, session>>

\* Mutant: an interrupted write reports like a read.
UncertainNever(q, otherwise) == otherwise
Uncertain(q, otherwise) == IF Mutation(req[q].kind) THEN "unknown" ELSE otherwise

Outcome(q, result) == req' = [req EXCEPT ![q].pc = "settle", ![q].result = result]

\* The response of this request, a result or the agent's error, read to its end.
Answer(q) ==
    /\ Pc(q) = "sent" /\ session[SlotOf(q)].link /\ Stream(q) \in {"dirty", "foreign"}
    /\ req' = [req EXCEPT ![q].pc = "settle", ![q].result = "ok", ![q].fate = "answered"]
    /\ SetStream(SlotOf(q), LaneOf(req[q].kind), "clean")
    /\ UNCHANGED <<config, entry, access, lane, connecting, read>>

\* What arrives does not begin like a frame of the protocol (receive).  Neither
\* response nor git_request counts that among the failures of a stream: the lane
\* keeps it, where it was left, the session stays, and the error goes back as it is.
Misread(q) ==
    /\ Pc(q) = "sent" /\ session[SlotOf(q)].link /\ Stream(q) \in {"dirty", "foreign"}
    /\ Outcome(q, "unsupported")
    /\ SetStream(SlotOf(q), LaneOf(req[q].kind), "foreign")
    /\ UNCHANGED <<config, entry, access, lane, connecting, read>>

\* The agent exits, the deadline passes, or a frame is not one this request may
\* get.  A write closes the session; a read gives up its stream, and the session
\* only when the link is known to be gone.
WriteInterrupted(q) ==
    /\ Pc(q) = "sent" /\ Mutation(req[q].kind)
    /\ Outcome(q, "unknown") /\ Shut(SlotOf(q))
    /\ UNCHANGED <<config, entry, access, lane, connecting, read>>
ReadInterrupted(q) ==
    /\ Pc(q) = "sent" /\ ~Mutation(req[q].kind)
    /\ IF session[SlotOf(q)].link
       THEN Outcome(q, "channel") /\ Retire(q) /\ UNCHANGED <<access, lane, connecting, read>>
       ELSE Leave(q, "retry") /\ Shut(SlotOf(q))
    /\ UNCHANGED <<config, entry>>

\* The session is closed under the request.
Disconnected(q) ==
    /\ Pc(q) = "sent" /\ ~session[SlotOf(q)].open
    /\ Outcome(q, Uncertain(q, "retry"))
    /\ UNCHANGED <<config, entry, session, access, lane, connecting, read>>

\* An answer counts only for the configuration the session was opened for.
Settle(q) ==
    /\ Pc(q) = "settle"
    /\ IF Current(req[q].rev)
       THEN Leave(q, req[q].result) /\ UNCHANGED session
       ELSE Leave(q, Uncertain(q, "stale")) /\ Shut(SlotOf(q))
    /\ UNCHANGED <<config, entry>>
\* The local log does not take the outcome of a write.
ObserveFails(q) ==
    /\ Pc(q) = "settle" /\ Mutation(req[q].kind) /\ req[q].result = "ok" /\ Current(req[q].rev)
    /\ Leave(q, "unknown")
    /\ UNCHANGED <<config, entry, session>>

-----------------------------------------------------------------------------
(* The session's own task, and what happens to it from outside.             *)

\* Mutant: the idle task does not try the access lock.
IdleCloseUnguarded(s) ==
    /\ session[s].open
    /\ Shut(s)
    /\ UNCHANGED <<config, entry, access, lane, connecting, req, read>>
\* Idle for ten minutes, and nobody holds or waits for the access lock.
IdleClose(s) ==
    /\ session[s].open /\ access[s] = [holders |-> {}, queue |-> <<>>]
    /\ Shut(s)
    /\ UNCHANGED <<config, entry, access, lane, connecting, req, read>>

\* A ping takes the lane only if it is free, and never waits for it.
PingStart(s, l) ==
    /\ session[s].open /\ session[s].stream[l] # "none" /\ lane[s][l] = <<>>
    /\ lane' = [lane EXCEPT ![s][l] = <<"ping">>]
    /\ UNCHANGED <<config, entry, session, access, connecting, req, read>>
\* Without a pong in time the lane loses its stream, the session stays.
PingEnd(s, l) ==
    /\ Holds("ping", lane[s][l])
    /\ lane' = [lane EXCEPT ![s][l] = Tail(@)]
    /\ \/ session[s].link /\ session[s].stream[l] \in {"clean", "foreign"} /\ SetStream(s, l, "clean")
       \/ SetStream(s, l, "none")
    /\ UNCHANGED <<config, entry, access, connecting, req, read>>

\* The user edits the server, or removes it.
Edit ==
    /\ config.present /\ config.rev < MaxRevision
    /\ config' = [config EXCEPT !.rev = @ + 1]
    /\ UNCHANGED <<entry, session, access, lane, connecting, req, read>>
RemoveServer ==
    /\ config.present
    /\ config' = [config EXCEPT !.present = FALSE]
    /\ UNCHANGED <<entry, session, access, lane, connecting, req, read>>

\* git_disconnect takes the session out and closes it, whoever uses it.
Disconnect ==
    /\ entry # Nothing
    /\ entry' = Nothing /\ Shut(entry)
    /\ UNCHANGED <<config, access, lane, connecting, req, read>>

\* The transport is lost under every lane; nobody has noticed yet.
LinkLost(s) ==
    /\ session[s].open /\ session[s].link
    /\ session' = [session EXCEPT ![s].link = FALSE]
    /\ UNCHANGED <<config, entry, access, lane, connecting, req, read>>

-----------------------------------------------------------------------------
\* What a call does by itself, and what its deadlines do to it.
Progress(q) ==
    \/ ReadRevision(q) \/ LookUp(q) \/ Recheck(q) \/ Dial(q) \/ DialFails(q) \/ Insert(q)
    \/ Subscribe(q) \/ Access(q) \/ TakeLane(q) \/ CloseSeen(q) \/ StartAgent(q) \/ StartFails(q)
    \/ Send(q) \/ RecordFails(q) \/ Answer(q) \/ Misread(q) \/ WriteInterrupted(q)
    \/ ReadInterrupted(q) \/ Disconnected(q) \/ Settle(q) \/ ObserveFails(q)

Environment ==
    \/ \E s \in Slots : IdleClose(s) \/ LinkLost(s)
    \/ \E s \in Slots, l \in Lanes : PingStart(s, l)
    \/ Edit \/ RemoveServer \/ Disconnect
Pings == \E s \in Slots, l \in Lanes : PingEnd(s, l)

SessionNext ==
    \/ \E q \in Requests : \/ Register(q) \/ CancelRead(q) \/ CancelSeen(q) \/ Deliver(q)
                           \/ Invoke(q) \/ Progress(q)
    \/ Environment \/ Pings

\* Every step of a call runs, each bounded by a deadline, and a ping has its own
\* timeout.  The mutexes are fair (tokio's), so nothing stronger is assumed.
SessionFairness ==
    /\ \A q \in Requests : WF_sessionVars(Progress(q))
    /\ \A s \in Slots, l \in Lanes : WF_sessionVars(PingEnd(s, l))

SessionSpec == SessionInit /\ [][SessionNext]_sessionVars /\ SessionFairness

-----------------------------------------------------------------------------
(* Properties.                                                              *)

\* The state the code keeps has the shape the definitions above give it, and
\* a mutex has one holder that knows of it (the guards are dropped on every
\* return path of git_request).
SessionTypeOK ==
    /\ entry \in Slots \cup {Nothing} /\ (\A q \in Requests : Pc(q) = "dial" => Holds(q, connecting))
    /\ \A s \in Slots, l \in Lanes :
         /\ session[s].stream[l] \in {"none", "clean", "dirty", "foreign"}
         /\ \A q \in Requests : Holds(q, lane[s][l]) => SlotOf(q) = s /\ LaneOf(req[q].kind) = l
    /\ \A q \in Requests : read[q] \in {"none", "claimed", "cancelled"}

\* A request that ends early leaves no part of its answer in the lane: after a
\* cancellation, a deadline, a broken channel or a frame of another request the
\* stream is gone before the lane is free (reads.rs, response).  What was no frame
\* of the protocol at all is the exception: see FailedStreamsDiscarded.
StreamsClean ==
    \A s \in Slots, l \in Lanes :
        session[s].stream[l] = "dirty" =>
            \E q \in Requests : Holds(q, lane[s][l]) /\ Pc(q) = "sent"

\* What a caller is told about a write is what the agent may have seen of it: an
\* outcome comes from the agent, an unknown one means that the write was sent, and
\* an error that invites a retry that it never was (git_request).  Only the error
\* for a channel that does not speak the protocol says neither.
HonestFate ==
    \A q \in Requests : Pc(q) = "done" =>
        /\ req[q].result = "ok" => req[q].fate = "answered"
        /\ req[q].kind = "write" =>
             /\ req[q].result = "unknown" => req[q].fate # "unsent"
             /\ req[q].fate # "unsent" => req[q].result \in {"ok", "unknown", "unsupported"}

\* Both: a lane keeps nothing of an answer cut short, and the caller knows the fate of its own.
SessionSound == SessionTypeOK /\ StreamsClean /\ HonestFate

OnTheWire(q) == Pc(q) = "sent" /\ session[SlotOf(q)].open

\* A request on the wire of a live link loses its session to nobody but an
\* explicit disconnect or a change of the configuration: not to the idle task,
\* not to another read that fails, is cancelled or finds its agent gone, and
\* not to a caller that connects (the access lock, reads.rs, ping_idle).
LosesNobody ==
    \A q \in Requests :
        OnTheWire(q) /\ session[SlotOf(q)].link /\ ~session'[SlotOf(q)].open /\ req'[q] = req[q]
        => \/ ~Current(req[q].rev)
           \/ \E p \in Requests : Pc(p) = "queue" /\ req[p].rev # req[q].rev
           \/ entry = SlotOf(q) /\ entry' = Nothing /\ req' = req
Undisturbed == [][LosesNobody]_sessionVars

\* Every call returns, whatever happens to the session, its agents and the
\* other calls (the deadlines, the fair locks, the cancelled signal).
CallsReturn ==
    \A q \in Requests : Pc(q) \notin {"idle", "done"} ~> Pc(q) = "done"

\* What connection() says of itself (mod.rs:165-166): a connection is replaced
\* that is closed or was opened for an older configuration.  A request on the
\* wire of a session for the current configuration never loses it to a caller
\* that connects.
\* The code does not keep it: no run expects it to hold (README, "What the code does
\* not keep").
CurrentSessionKept ==
    [][\A p, q \in Requests :
          OnTheWire(q) /\ Current(req[q].rev) /\ Pc(p) = "queue" /\ Pc(p)' = "dial"
          => session'[SlotOf(q)].open]_sessionVars

\* What client.rs says of its streams (client.rs:1-2): one is discarded after any
\* failure of the transport or the protocol.  A stream with part of an answer left
\* on it is only in use by the request of that answer.
\* The code does not keep it: no run expects it to hold (README, "What the code does
\* not keep").
FailedStreamsDiscarded ==
    \A s \in Slots, l \in Lanes :
        session[s].stream[l] \in {"dirty", "foreign"} =>
            \E q \in Requests : Holds(q, lane[s][l]) /\ Pc(q) = "sent"
=============================================================================

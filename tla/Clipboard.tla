----------------------------- MODULE Clipboard -----------------------------
(***************************************************************************)
(* On-demand clipboard sharing.  The desktop tells the agent of a server   *)
(* which formats its clipboard has (frame M); programs on the server       *)
(* ("readers": xclip, wl-paste, X11 and Wayland clients) ask the agent for *)
(* one format; the agent's Store keeps one entry per format, asks the      *)
(* desktop for it (frame C), and gathers the chunks the desktop sends back *)
(* (frame D).  Everything travels over one ordered SSH channel that may be *)
(* lost, after which the desktop starts a new session with a new agent.    *)
(*                                                                         *)
(* A copy is known by its revision; the content of format f at revision r  *)
(* is the sequence of its chunks, each <<r, f, i>>, which has size one in  *)
(* the agent's cache.  Formats are numbers, in the order of the BTreeMap   *)
(* the Store keeps them in.  The limit of eight requests, which the code   *)
(* has in three places, is the constant Pending.                           *)
(***************************************************************************)
EXTENDS Integers, FiniteSets, Sequences

CONSTANTS
    Reader,        \* programs on the server, each reads once
    Format,        \* the formats, a set of numbers
    Chunks,        \* Chunks[f]: how many chunks the content of f takes
    Pending,       \* the limit of requests under way (8)
    CacheLimit,    \* the limit of the agent's cache (32 MiB), in chunks
    MaxCopies,   \* bound: copies made on the desktop
    MaxRequests,   \* bound: requests of one agent
    MaxLosses       \* bound: lost connections

ASSUME ClipboardAssumption ==
    /\ Format \subseteq Nat /\ IsFiniteSet(Format)
    /\ Chunks \in [Format -> Nat \ {0}]
    /\ {Pending, CacheLimit, MaxCopies, MaxRequests, MaxLosses} \subseteq Nat /\ MaxCopies # 0

VARIABLES
    clip,      \* the desktop's clipboard: its revision and formats
    desk,      \* the integration's session on the desktop (run_once)
    toAgent,   \* frames on their way to the agent
    toDesk,    \* frames on their way to the desktop
    store,     \* the agent's Store
    reader,    \* what each reader does
    losses      \* connections lost so far

clipVars == <<clip, desk, toAgent, toDesk, store, reader, losses>>

CopyContent(r, f) == [i \in 1..Chunks[f] |-> <<r, f, i>>]
Nonempty(S) == S \ {{}}

\* A session as run_once begins it, and the Store a new agent begins with.
DeskSession(state) ==
    [state |-> state, previous |-> 0, asked |-> 0, deferred |-> <<>>, reads |-> {}, replies |-> <<>>]
NewStore == [revision |-> 0, formats |-> {}, entries |-> [f \in {} |-> 0], next |-> 0, closed |-> FALSE]

ClipInit ==
    /\ \E fs \in Nonempty(SUBSET Format) : clip = [revision |-> 1, formats |-> fs]
    /\ desk = DeskSession("loop")
    /\ toAgent = <<>> /\ toDesk = <<>>
    /\ store = NewStore
    /\ reader = [x \in Reader |-> [pc |-> "idle", revision |-> 0, format |-> 0, data |-> <<>>]]
    /\ losses = 0

-----------------------------------------------------------------------------
(* The Store of the agent *)

Dropping(g, S) == [f \in DOMAIN g \ S |-> g[f]]
Unanswered(s) == {f \in DOMAIN s.entries : s.entries[f].result = "none"}
Having(s, result) == {f \in DOMAIN s.entries : s.entries[f].result = result}

\* What the cache holds, finished or being fetched.
Cached(s) == UNION {{f} \X (1..Len(s.entries[f].bytes)) : f \in DOMAIN s.entries}
Used(s) == Cardinality(Cached(s))
EntryFailed(entry) == [entry EXCEPT !.bytes = <<>>, !.result = "failed"]

\* A new offer clears the cache unless it says what the last one said.
Offered(s, offer) ==
    [s EXCEPT !.entries = IF s.revision = offer.revision /\ s.formats = offer.formats THEN @ ELSE Dropping(@, DOMAIN @),
              !.revision = offer.revision, !.formats = offer.formats]

\* The end of the clipboard service: waiting readers are turned away.
StoreClosed(s) == [s EXCEPT !.closed = TRUE, !.entries = Dropping(@, DOMAIN @)]

\* Mutant: a reply is matched by its format.
AwaitedByFormat(s, d) == {f \in Unanswered(s) : f = d.request.format}

\* The entry a reply is for: the one with its id that has no result.
Awaited(s, d) == {f \in Unanswered(s) : s.entries[f].id = d.request.id}

\* The cache makes room by dropping the finished formats.
RoomMade(s) == [s EXCEPT !.entries = Dropping(@, Having(s, "ok"))]

Gathered(s, d) ==
    LET room == IF Used(s) + Len(d.data) > CacheLimit THEN RoomMade(s) ELSE s
        fails == d.status = 1 \/ Used(room) + Len(d.data) > CacheLimit
        Filled(e) == [e EXCEPT !.bytes = @ \o d.data, !.result = IF d.done THEN "ok" ELSE "none"]
    IN  IF d.request.revision # s.revision \/ Awaited(s, d) = {} THEN s
        ELSE [room EXCEPT !.entries = [f \in DOMAIN @ |->
                 IF f \notin Awaited(s, d) THEN @[f] ELSE IF fails THEN EntryFailed(@[f]) ELSE Filled(@[f])]]

\* One poll: failures older than a second ("gone") are dropped, requests
\* without an answer for 15 seconds ("late") fail, and those not sent are.
Unsent(s, late) == {f \in Unanswered(s) \ late : ~s.entries[f].sent}
Polled(s, gone, late) ==
    [s EXCEPT !.entries = [f \in DOMAIN @ \ gone |->
        IF f \in late THEN EntryFailed(@[f]) ELSE IF f \in Unsent(s, late) THEN [@[f] EXCEPT !.sent = TRUE] ELSE @[f]]]

\* In the order of the formats.
Nth(set, i) == CHOOSE f \in set : Cardinality({g \in set : g < f}) = i - 1
Asked(s, f) == [kind |-> "C", request |-> [id |-> s.entries[f].id, revision |-> s.revision, format |-> f]]
Requests(s, late) ==
    LET unsent == Unsent(s, late)
    IN  [i \in 1..Cardinality(unsent) |-> Asked(s, Nth(unsent, i))]

-----------------------------------------------------------------------------
(* Readers on the server *)

\* The reader asks for the offer and decides on one of its formats.
ReadOffer(x) ==
    /\ reader[x].pc = "idle" /\ desk.state # "down" /\ store.revision # 0 /\ ~store.closed
    /\ \E f \in store.formats :
          reader' = [reader EXCEPT ![x] = [@ EXCEPT !.pc = "asked", !.revision = store.revision, !.format = f]]
    /\ UNCHANGED <<clip, desk, toAgent, toDesk, store, losses>>

Returns(x, pc, data) == reader' = [reader EXCEPT ![x].pc = pc, ![x].data = data]

\* One turn of the loop in Store::get: a reader that was turned away or has
\* its result returns; one without an entry makes one; then it waits, or
\* gives up when its deadline has passed.
Look(x) ==
    LET f == reader[x].format
        refused == store.closed \/ store.revision # reader[x].revision \/ f \notin store.formats
        known == f \in DOMAIN store.entries
        full == Cardinality(Unanswered(store)) >= Pending
    IN  /\ reader[x].pc \in {"asked", "waiting"}
        /\ UNCHANGED <<clip, desk, toAgent, toDesk, losses>>
        /\ \/ refused /\ Returns(x, "error", <<>>) /\ UNCHANGED store
           \/ ~refused /\ ~known /\ full /\ Returns(x, "error", <<>>) /\ UNCHANGED store
           \/ /\ ~refused /\ known /\ store.entries[f].result # "none"
              /\ IF store.entries[f].result = "ok" THEN Returns(x, "ok", store.entries[f].bytes) ELSE Returns(x, "error", <<>>)
              /\ UNCHANGED store
           \/ /\ ~refused
              /\ \/ known /\ store.entries[f].result = "none" /\ UNCHANGED store
                 \/ /\ ~known /\ ~full /\ store.next < MaxRequests
                    /\ store' = [store EXCEPT !.next = @ + 1, !.entries = [g \in DOMAIN @ \cup {f} |->
                                    IF g = f THEN [id |-> store.next + 1, sent |-> FALSE, bytes |-> <<>>, result |-> "none"]
                                             ELSE @[g]]]
              /\ \/ Returns(x, "waiting", <<>>)
                 \/ reader[x].pc = "waiting" /\ Returns(x, "error", <<>>)

-----------------------------------------------------------------------------
(* The agent's loop.  One turn handles a frame, if there is one, and polls. *)

Ack == [kind |-> "A"]
Handled(frame) ==
    CASE frame.kind = "M" -> Offered(store, frame.offer)
      [] frame.kind = "D" -> Gathered(store, frame)
      [] frame.kind = "H" -> store

AgentTurn(s, sent) ==
    \E gone \in SUBSET Having(s, "failed"), late \in SUBSET Unanswered(s) :
        /\ store' = Polled(s, gone, late)
        /\ toDesk' = toDesk \o sent \o Requests(s, late)

AgentReceives ==
    /\ toAgent # <<>> /\ ~store.closed
    /\ toAgent' = Tail(toAgent)
    /\ AgentTurn(Handled(Head(toAgent)), IF Head(toAgent).kind = "D" THEN <<>> ELSE <<Ack>>)
    /\ UNCHANGED <<clip, desk, reader, losses>>

AgentIdles ==
    /\ ~store.closed /\ desk.state # "down"
    /\ AgentTurn(store, <<>>)
    /\ UNCHANGED <<clip, desk, toAgent, reader, losses>>

-----------------------------------------------------------------------------
(* The desktop *)

\* Something is copied on the desktop.
Copy ==
    /\ clip.revision < MaxCopies
    /\ \E fs \in Nonempty(SUBSET Format) : clip' = [revision |-> clip.revision + 1, formats |-> fs]
    /\ UNCHANGED <<desk, toAgent, toDesk, store, reader, losses>>

\* The session ends: reads are abandoned and the agent sees its input end.
DeskEnds(state) ==
    /\ desk' = DeskSession(state)
    /\ store' = StoreClosed(store)
    /\ toAgent' = <<>> /\ toDesk' = <<>>

DFrame(request, status, done, data) ==
    [kind |-> "D", request |-> request, status |-> status, done |-> done, data |-> data]

\* A request for content is read on the main thread, or refused when eight
\* are under way.
Spawn(d, request) ==
    IF Cardinality(d.reads) + Len(d.replies) >= Pending
    THEN desk' = d /\ toAgent' = Append(toAgent, DFrame(request, 1, TRUE, <<>>))
    ELSE desk' = [d EXCEPT !.reads = @ \cup {[request |-> request, read |-> FALSE, chunks |-> <<>>]}] /\ UNCHANGED toAgent

\* The loop takes an event: one put off while a request was under way, or
\* the next frame.
Event ==
    /\ desk.state = "loop"
    /\ \/ /\ desk.deferred # <<>>
          /\ Spawn([desk EXCEPT !.deferred = Tail(@)], Head(desk.deferred))
          /\ UNCHANGED toDesk
       \/ /\ desk.deferred = <<>> /\ toDesk # <<>> /\ Head(toDesk).kind = "C"
          /\ Spawn(desk, Head(toDesk).request)
          /\ toDesk' = Tail(toDesk)
    /\ UNCHANGED <<clip, store, reader, losses>>

\* The main thread reads the format if the clipboard is still the one asked
\* for; or it does not get to it in five seconds, or cannot read it.
ReadRequested ==
    /\ \E r \in desk.reads :
          /\ ~r.read
          /\ LET q == r.request
                 able == clip.revision = q.revision /\ q.format \in clip.formats
             IN  \E ok \in {FALSE, able} :
                    desk' = [desk EXCEPT !.reads = (@ \ {r}) \cup
                               {[r EXCEPT !.read = TRUE, !.chunks = IF ok THEN CopyContent(clip.revision, q.format) ELSE <<>>]}]
    /\ UNCHANGED <<clip, toAgent, toDesk, store, reader, losses>>

\* A finished read becomes a reply.
Joined ==
    /\ desk.state = "loop"
    /\ \E r \in desk.reads :
          r.read /\ desk' = [desk EXCEPT !.reads = @ \ {r},
                                         !.replies = Append(@, [request |-> r.request, chunks |-> r.chunks])]
    /\ UNCHANGED <<clip, toAgent, toDesk, store, reader, losses>>

\* One chunk per turn; the rest of a reply whose copy has been replaced is
\* given up, and a reply without chunks is a failure (status 1).
SendChunk ==
    /\ desk.state = "loop" /\ desk.replies # <<>>
    /\ LET reply == Head(desk.replies)
           chunks == IF clip.revision = reply.request.revision THEN reply.chunks ELSE <<>>
           failed == chunks = <<>>
           rest == IF failed THEN <<>> ELSE Tail(chunks)
       IN  /\ toAgent' = Append(toAgent, DFrame(reply.request, IF failed THEN 1 ELSE 0, rest = <<>>,
                                                IF failed THEN <<>> ELSE <<Head(chunks)>>))
           /\ desk' = [desk EXCEPT !.replies = IF rest = <<>> THEN Tail(@)
                                               ELSE Append(Tail(@), [reply EXCEPT !.chunks = rest])]
    /\ UNCHANGED <<clip, toDesk, store, reader, losses>>

\* The timer: a new copy is offered when no read is under way; otherwise, in
\* time, a heartbeat is sent.  Either way the loop waits for the answer.
AskAgent(frame, revision) ==
    /\ desk.state = "loop"
    /\ desk' = [desk EXCEPT !.state = "asking", !.asked = revision]
    /\ toAgent' = Append(toAgent, frame)
    /\ UNCHANGED <<clip, toDesk, store, reader, losses>>
OfferClip ==
    /\ desk.reads = {} /\ clip.revision # desk.previous
    /\ AskAgent([kind |-> "M", offer |-> clip], clip.revision)
Heartbeat == AskAgent([kind |-> "H"], desk.previous)

\* While it waits for an answer the loop puts requests off, eight of them; one
\* more is an error that is not retried.
\* Mutant: the clipboard is taken to be offered as it is now.
AnsweredLatest ==
    /\ desk.state = "asking" /\ toDesk # <<>> /\ Head(toDesk).kind = "A"
    /\ desk' = [desk EXCEPT !.state = "loop", !.previous = clip.revision]
    /\ toDesk' = Tail(toDesk)
    /\ UNCHANGED <<clip, toAgent, store, reader, losses>>
Answered ==
    /\ desk.state = "asking" /\ toDesk # <<>> /\ Head(toDesk).kind = "A"
    /\ desk' = [desk EXCEPT !.state = "loop", !.previous = desk.asked]
    /\ toDesk' = Tail(toDesk)
    /\ UNCHANGED <<clip, toAgent, store, reader, losses>>
Defer ==
    /\ desk.state = "asking" /\ toDesk # <<>> /\ Head(toDesk).kind = "C"
    /\ IF Len(desk.deferred) < Pending
       THEN /\ desk' = [desk EXCEPT !.deferred = Append(@, Head(toDesk).request)]
            /\ toDesk' = Tail(toDesk) /\ UNCHANGED <<toAgent, store>>
       ELSE DeskEnds("stopped")
    /\ UNCHANGED <<clip, reader, losses>>

\* The channel is lost or a request takes too long; recover_connection then
\* starts a session with a new agent, whose Store is empty.
LoseChannel ==
    /\ desk.state \in {"loop", "asking"} /\ losses < MaxLosses
    /\ DeskEnds("down")
    /\ losses' = losses + 1
    /\ UNCHANGED <<clip, reader>>
StartOver ==
    /\ desk.state = "down" /\ \A x \in Reader : reader[x].pc \notin {"asked", "waiting"}
    /\ desk' = DeskSession("loop")
    /\ store' = NewStore
    /\ UNCHANGED <<clip, toAgent, toDesk, reader, losses>>

-----------------------------------------------------------------------------
ClipNext ==
    \/ Copy \/ Event \/ ReadRequested \/ Joined \/ SendChunk \/ OfferClip \/ Heartbeat \/ Answered \/ Defer
    \/ LoseChannel \/ StartOver \/ AgentReceives \/ AgentIdles
    \/ \E x \in Reader : ReadOffer(x) \/ Look(x)

ClipSpec == ClipInit /\ [][ClipNext]_clipVars

\* The loops of both sides run, the main thread gets to its work, waiting
\* readers wake and the desktop retries.  Heartbeats are five seconds apart, so
\* they cannot keep the loop from its finished reads and its timer forever.
ClipFairSpec ==
    /\ ClipSpec
    /\ WF_clipVars(ReadRequested) /\ SF_clipVars(Joined) /\ SF_clipVars(OfferClip)
    /\ WF_clipVars(Answered) /\ WF_clipVars(Defer) /\ WF_clipVars(StartOver)
    /\ WF_clipVars(AgentReceives) /\ \A x \in Reader : WF_clipVars(Look(x))

-----------------------------------------------------------------------------
ClipTypeOK ==
    /\ clip.revision \in 1..MaxCopies /\ clip.formats \in Nonempty(SUBSET Format)
    /\ desk.state \in {"loop", "asking", "down", "stopped"}
    /\ store.formats \subseteq Format /\ DOMAIN store.entries \subseteq store.formats
    /\ \A x \in Reader : reader[x].pc \in {"idle", "asked", "waiting", "ok", "error"}

\* A reader that is served has all of the format at the revision it was
\* offered: never a part, never another copy, never chunks of two fetches
\* (the id check of demand.rs reply, the revision check of read_requested).
ServedWhole == \A x \in Reader : reader[x].pc = "ok" => reader[x].data = CopyContent(reader[x].revision, reader[x].format)

\* The agent never holds more than its limit, fetches under way included.
CacheBounded == Used(store) <= CacheLimit

\* Both: what is served is whole, from a cache within its limit.
CacheSound == ClipTypeOK /\ ServedWhole /\ CacheBounded

\* When the desktop's clipboard stays as it is, the agent ends up offering it,
\* through reads under way, heartbeats and a new session; unless the
\* integration has stopped with an error.
CopyReaches == <>[](desk.state = "stopped" \/ (store.revision = clip.revision /\ store.formats = clip.formats))

\* Requests that fail can be retried without restarting the agent: readers
\* alone never stop the integration (docs/clipboard.md).
\* The code does not keep it: no run expects it to hold (README, "What the code does
\* not keep").
ReadersNeverStop == desk.state # "stopped"
=============================================================================

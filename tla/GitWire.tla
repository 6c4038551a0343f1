------------------------------ MODULE GitWire ------------------------------
(***************************************************************************)
(* One lane of the Git protocol: the client of src-tauri/src/git/client.rs *)
(* and the agent's loop in tools/agent/src/git/mod.rs, joined by two       *)
(* bounded pipes.  Both sides write blocking frames; the agent reads       *)
(* nothing while it writes, the client acknowledges every chunk before it  *)
(* reads the next.  A large difference is streamed in a window of chunks.  *)
(***************************************************************************)
EXTENDS Naturals, Sequences

CONSTANTS StreamWindow,  \* STREAM_WINDOW: chunks sent and not yet acknowledged
          MaxLogs,       \* command logs of one request (32 in the code)
          MaxChunks,     \* bound: chunks of the longest difference
          Ahead          \* frames the pipe towards the client holds

ASSUME WireAssumption == {StreamWindow, MaxLogs, MaxChunks, Ahead} \subseteq Nat \ {0}

VARIABLES client,    \* at: what it does; asked, got, logs: of the request it made
          agent,     \* at: what it does; out: frames still to be written; the stream
          toAgent, toClient  \* the pipes

wireVars == <<client, agent, toAgent, toClient>>

\* The acknowledgements of a full window fit the way back (protocol.rs).
Back == StreamWindow

Frame(type, n) == [type |-> type, n |-> n]

NoStream == [total |-> 0, sent |-> 0, acked |-> 0]
WireInit ==
    /\ client = [at |-> "hello", asked |-> "none", streaming |-> FALSE, got |-> 0, logs |-> 0]
    /\ agent = [at |-> "idle", out |-> <<Frame("hello", 0)>>, stream |-> NoStream]
    /\ toAgent = <<>> /\ toClient = <<>>

-----------------------------------------------------------------------------
(* The client.                                                              *)

ClientSends(frame, from, to) ==
    /\ client.at = from /\ Len(toAgent) < Back
    /\ toAgent' = Append(toAgent, frame)
    /\ client' = [client EXCEPT !.at = to]
    /\ UNCHANGED <<agent, toClient>>

\* start_with_identity, ping and request; a request for a whole difference
\* expects a stream, every other one a value.
ClientSpeaks ==
    \/ ClientSends(Frame("init", 0), "initialize", "ready")
    \/ ClientSends(Frame("ping", 0), "idle", "pong")
    \/ \E kind \in {"value", "difference"} :
         /\ client.at = "idle" /\ Len(toAgent) < Back
         /\ toAgent' = Append(toAgent, Frame(kind, 0))
         /\ client' = [at |-> "answer", asked |-> kind, streaming |-> FALSE, got |-> 0, logs |-> 0]
         /\ UNCHANGED <<agent, toClient>>
    \/ ClientSends(Frame("ack", client.got), "ack", "answer")

\* What the client makes of a frame where it waits; anything else is an invalid
\* response.
Understood(f) ==
    LET is(type, at) == f.type = type /\ client.at = at
    IN CASE is("hello", "hello") -> [client EXCEPT !.at = "initialize"]
         [] is("ready", "ready") \/ is("pong", "pong") \/ is("failure", "answer") ->
              [client EXCEPT !.at = "idle"]
         [] is("log", "answer") /\ client.logs < MaxLogs -> [client EXCEPT !.logs = @ + 1]
         [] is("begin", "answer") /\ client.asked = "difference" /\ ~client.streaming ->
              [client EXCEPT !.streaming = TRUE]
         [] is("chunk", "answer") /\ client.streaming /\ f.n = client.got + 1 ->
              [client EXCEPT !.got = f.n, !.at = "ack"]
         [] is("success", "answer") /\ client.streaming = (client.asked = "difference")
                                   /\ (client.streaming => f.n = client.got) ->
              [client EXCEPT !.at = "idle"]
         [] OTHER -> [client EXCEPT !.at = "invalid"]

ClientReceives ==
    /\ client.at \in {"hello", "ready", "pong", "answer"} /\ toClient # <<>>
    /\ client' = Understood(Head(toClient))
    /\ toClient' = Tail(toClient)
    /\ UNCHANGED <<agent, toAgent>>

-----------------------------------------------------------------------------
(* The agent: what it has to write comes first, one frame at a time.        *)

AgentWrites ==
    /\ agent.out # <<>> /\ Len(toClient) < Ahead
    /\ toClient' = Append(toClient, Head(agent.out))
    /\ agent' = [agent EXCEPT !.out = Tail(@)]
    /\ UNCHANGED <<client, toAgent>>

\* Mutant: one log more is recorded than the client accepts.
LogsOneMore == UNION {[1..n -> {Frame("log", 0)}] : n \in 0..MaxLogs + 1}

\* The logs of a request precede its answer: at most MaxLogs are recorded.
Logs == UNION {[1..n -> {Frame("log", 0)}] : n \in 0..MaxLogs}

\* run(): a ping is answered, a request executed and answered.
AgentServes ==
    /\ agent.at = "idle" /\ agent.out = <<>> /\ toAgent # <<>>
    /\ toAgent' = Tail(toAgent)
    /\ LET f == Head(toAgent) IN
       \/ /\ f.type \in {"init", "ping"}
          /\ agent' = [agent EXCEPT !.out = <<Frame(IF f.type = "init" THEN "ready" ELSE "pong", 0)>>]
       \/ /\ f.type \in {"value", "difference"}
          /\ \E logs \in Logs : \E answer \in {"failure"} \cup IF f.type = "value" THEN {"success"} ELSE {} :
               agent' = [agent EXCEPT !.out = logs \o <<Frame(answer, 0)>>]
       \/ /\ f.type = "difference"
          /\ \E logs \in Logs, total \in 1..MaxChunks :
               agent' = [at |-> "stream", out |-> logs \o <<Frame("begin", 0)>>,
                         stream |-> [total |-> total, sent |-> 0, acked |-> 0]]
       \/ /\ f.type = "ack"
          /\ agent' = [agent EXCEPT !.at = "invalid"]
    /\ UNCHANGED <<client, toClient>>

\* Mutant: the window never closes.
WindowOpenAlways == TRUE

\* stream_diff: chunks up to the window, then acknowledgements in order, then
\* the summary.
WindowOpen == agent.stream.sent - agent.stream.acked < StreamWindow

AgentStreams ==
    /\ agent.at = "stream" /\ agent.out = <<>>
    /\ LET st == agent.stream IN
       \/ /\ st.sent < st.total /\ WindowOpen
          /\ agent' = [agent EXCEPT !.stream.sent = @ + 1, !.out = <<Frame("chunk", st.sent + 1)>>]
          /\ UNCHANGED toAgent
       \/ /\ st.sent = st.total /\ st.acked = st.sent
          /\ agent' = [at |-> "idle", out |-> <<Frame("success", st.sent)>>, stream |-> NoStream]
          /\ UNCHANGED toAgent
       \/ /\ st.acked < st.sent /\ (st.sent = st.total \/ ~WindowOpen)
          /\ toAgent # <<>> /\ toAgent' = Tail(toAgent)
          /\ LET f == Head(toAgent) IN
             agent' = IF f.type = "ack" /\ f.n = st.acked + 1
                      THEN [agent EXCEPT !.stream.acked = f.n]
                      ELSE IF f.type = "ping" THEN [agent EXCEPT !.out = <<Frame("pong", 0)>>]
                      ELSE [agent EXCEPT !.at = "invalid"]
    /\ UNCHANGED <<client, toClient>>

\* A deadline of either side, an exit or a lost transport ends the lane: the
\* client discards it and a new agent starts over on new pipes.
LaneEnds ==
    /\ client' = [at |-> "hello", asked |-> "none", streaming |-> FALSE, got |-> 0, logs |-> 0]
    /\ agent' = [at |-> "idle", out |-> <<Frame("hello", 0)>>, stream |-> NoStream]
    /\ toAgent' = <<>> /\ toClient' = <<>>

Conversation == ClientSpeaks \/ ClientReceives \/ AgentWrites \/ AgentServes \/ AgentStreams
WireNext == Conversation \/ LaneEnds

-----------------------------------------------------------------------------
\* The two sides stay in step: neither ever meets a frame it refuses, and while
\* a call is under way they never wait on each other, the agent to write a
\* chunk and the client to write an acknowledgement (protocol.rs:29-31).
InStep ==
    /\ client.at # "invalid" /\ agent.at # "invalid"
    /\ client.at # "idle" => ENABLED Conversation
=============================================================================

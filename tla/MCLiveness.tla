---------------------------- MODULE MCLiveness ----------------------------
(* What the desktop's loops must do in the end: commands return, tunnels recover,    *)
(* copies reach the agent.  Two machines that share no state; one is served in a     *)
(* behaviour and the other rests, so that fairness is stated of the one served.      *)
EXTENDS Tunnels, Clipboard

CONSTANT Serving
VARIABLE serving
all == <<serving, tunnelVars, clipVars>>

TwoThenOne == [f \in Format |-> IF f = 1 THEN 2 ELSE 1]

Serve(machine, A) == serving = machine /\ A

\* The machine that rests stays in one initial state.
LiveInit ==
    /\ serving \in Serving
    /\ TunnelInit /\ ClipInit
    /\ serving # "tunnels" => \A t \in Tunnel : saved[t] = CHOOSE c \in Config : TRUE
    /\ serving # "clipboard" => clip.formats = Format
LiveNext ==
    \/ Serve("tunnels", TunnelNext) /\ UNCHANGED <<serving, clipVars>>
    \/ Serve("clipboard", ClipNext) /\ UNCHANGED <<serving, tunnelVars>>

\* TunnelFairSpec and ClipFairSpec, each of the machine that is served.
LiveSpec ==
    /\ LiveInit /\ [][LiveNext]_all
    /\ \A t \in Tunnel : /\ WF_tunnelVars(Serve("tunnels", Manage(t)))
                         /\ WF_tunnelVars(Serve("tunnels", Supervise(t)))
                         /\ WF_tunnelVars(Serve("tunnels", Interrupted(t)))
    /\ WF_clipVars(Serve("clipboard", ReadRequested)) /\ SF_clipVars(Serve("clipboard", Joined))
    /\ SF_clipVars(Serve("clipboard", OfferClip)) /\ WF_clipVars(Serve("clipboard", Answered))
    /\ WF_clipVars(Serve("clipboard", Defer)) /\ WF_clipVars(Serve("clipboard", StartOver))
    /\ WF_clipVars(Serve("clipboard", AgentReceives))
    /\ \A x \in Reader : WF_clipVars(Serve("clipboard", Look(x)))

\* A command that stops a supervisor returns, and no tunnel stays reconnecting for good
\* (Manager::disconnect, spawn).
TunnelsLive == CommandsReturn /\ Recovers

\* CopyReaches of the machine that is served: a copy that stays is what the agent
\* offers in the end (run_once's timer), unless the integration has stopped.
CopyArrives == serving = "clipboard" => CopyReaches
=============================================================================

--------------------------- MODULE MCIntegration ---------------------------
(* The clipboard and browser integration: the exchange of the desktop and the agent,  *)
(* the ownership of the account, links, and the two displays.  Each keeps its own     *)
(* state and rests while another is served; they meet in the Store's content, which   *)
(* the displays take whole, and in the agent's session, whose end ends them all.      *)
EXTENDS Clipboard, AgentOwnership, Browser, XSelection, WaylandOffers

CONSTANT Serving
VARIABLE serving
all == <<serving, clipVars, ownerVars, browserVars, xVars, wlVars>>

TwoThenOne == [f \in Format |-> IF f = 1 THEN 2 ELSE 1]

\* A machine that rests stays in one initial state.
IntegrationInit ==
    /\ serving \in Serving
    /\ ClipInit /\ OwnerInit /\ BrowserInit /\ XInit /\ WlInit
    /\ serving # "clipboard" => clip.formats = Format
    /\ serving # "ownership" => (\A path \in Paths : sock[path] = Nobody) /\ naming = Nobody
    /\ serving # "browser" => enabled
    /\ serving # "wayland" => source.formats = {}
IntegrationNext ==
    \/ serving = "clipboard" /\ ClipNext /\ UNCHANGED <<serving, ownerVars, browserVars, xVars, wlVars>>
    \/ serving = "ownership" /\ OwnerNext /\ UNCHANGED <<serving, clipVars, browserVars, xVars, wlVars>>
    \/ serving = "browser" /\ BrowserNext /\ UNCHANGED <<serving, clipVars, ownerVars, xVars, wlVars>>
    \/ serving = "x11" /\ XNext /\ UNCHANGED <<serving, clipVars, ownerVars, browserVars, wlVars>>
    \/ serving = "wayland" /\ WlNext /\ UNCHANGED <<serving, clipVars, ownerVars, browserVars, xVars>>
IntegrationSpec == IntegrationInit /\ [][IntegrationNext]_all

\* Of the two displays: a paste gets the whole value, an offer its own content, and the
\* selection shown is the newest copy (x_server.rs, wl_server.rs).
DisplaysTrue == PasteWhole /\ OfferServesOwn /\ SelectionCurrent
=============================================================================

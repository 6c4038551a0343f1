----------------------------- MODULE MCServers -----------------------------
(* Reaching a server: what is believed of it, its host key and a login.  The three   *)
(* meet only in a server's settings, which each sees change, so one is served and the  *)
(* others rest.                                                                        *)
EXTENDS Connectivity, KnownHosts, Authentication, TLC

CONSTANT Serving
VARIABLE serving
serversVars == <<serving, evidenceVars, hostVars, loginVars>>

Symmetry == Permutations(Attempt) \union Permutations(Profile)

\* A machine that rests stays in one initial state, up to symmetry.
ServersInit ==
  /\ serving \in Serving
  /\ EvidenceInit
  /\ HostsInit /\ (serving # "hosts" => system = {})
  /\ IF serving = "login" THEN AuthenticationInit
     ELSE /\ choice = [method |-> "password", file |-> "none", fingerprint |-> "none", policy |-> "request"]
          /\ remote = {} /\ watchdog = Fresh /\ offered = {}
          /\ login = [step |-> "handshake", left |-> {}, rounds |-> 0, number |-> 1, at |-> "none"]
ServersNext ==
  \/ /\ serving = "evidence" /\ EvidenceNext
     /\ UNCHANGED <<serving, hostVars, loginVars>>
  \/ /\ serving = "hosts" /\ HostsNext
     /\ UNCHANGED <<serving, evidenceVars, loginVars>>
  \/ /\ serving = "login" /\ AuthenticationNext
     /\ UNCHANGED <<serving, evidenceVars, hostVars>>
ServersSpec == ServersInit /\ [][ServersNext]_serversVars
=============================================================================

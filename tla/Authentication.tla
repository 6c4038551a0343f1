--------------------------- MODULE Authentication ---------------------------
(***************************************************************************)
(* One login to a server: which keys are offered in which order, the SSH   *)
(* agent that may ask the user for approval, and the deadline that stands  *)
(* still while it does:                                                    *)
(*                                                                         *)
(*   src-tauri/src/ssh.rs       connect_with_policy, connect_once,         *)
(*                              retry_connection                           *)
(*   src-tauri/src/ssh/auth.rs  authenticate, with_network_deadline,       *)
(*                              ApprovalSigner, password_auth              *)
(*                                                                         *)
(* "file" is the key of the identity file, "default" one of those in       *)
(* ~/.ssh, the others are keys the agent holds.                            *)
(***************************************************************************)
EXTENDS Naturals

CONSTANTS AgentKey,     \* keys an agent may hold besides that of the file
          Patience,     \* CONNECT_TIMEOUT in ticks
          MaxAttempts   \* bound: attempts; three of one request in the code

ASSUME AuthenticationAssumption ==
  /\ Patience \in Nat \ {0} /\ MaxAttempts \in Nat
  /\ AgentKey \intersect {"none", "file", "default", "password"} = {}

Secret == AgentKey \union {"file", "default", "password"}

VARIABLES
  choice,    \* the server's settings and who connects
  remote,    \* what the server accepts
  login,     \* the attempt: step, identities left to try, rounds of the challenge, number
  watchdog,  \* with_network_deadline: ticks left, whether it waits for approval, an unseen change
  offered    \* history: what has been sent or signed with

loginVars == <<choice, remote, login, watchdog, offered>>

LoginSettings == [method : {"password", "key"}, file : {"none", "plain", "encrypted", "unreadable"},
            fingerprint : AgentKey \union {"none", "file"}, policy : {"request", "integration"}]

Fresh == [left |-> Patience, awaiting |-> FALSE, unseen |-> FALSE]

AuthenticationInit ==
  /\ choice \in LoginSettings
  /\ remote \in SUBSET Secret
  /\ login = [step |-> "handshake", left |-> {}, rounds |-> 0, number |-> 1, at |-> "none"]
  /\ watchdog = Fresh
  /\ offered = {}

\* The attempt goes on, or it ends: "in", "failed" for good, or worth another attempt.
Go(step) == login' = [login EXCEPT !.step = step]
Ended == {"in", "failed", "unavailable", "lost", "timedout", "over"}
Offer(secret) == offered' = offered \union {secret}
-----------------------------------------------------------------------------
(* authenticate *)

\* The host key is accepted; the identity file is read.
Handshake ==
  /\ login.step = "handshake"
  /\ Go(IF choice.method = "password" THEN "password"
        ELSE CASE choice.file = "unreadable" -> "failed" [] choice.file = "plain" -> "file" [] OTHER -> "agent")
  /\ watchdog' = Fresh
  /\ UNCHANGED <<choice, remote, offered>>

OfferFile ==
  /\ login.step = "file"
  /\ Offer("file")
  /\ Go(IF "file" \in remote THEN "in" ELSE "agent")
  /\ UNCHANGED <<choice, remote, watchdog>>

\* Variant: every key of the agent is tried.
EveryKey(k) == TRUE

\* The keys of the agent that the settings allow.
Selected(k) == /\ choice.fingerprint \in {"none", k}
               /\ choice.file = "none" \/ k = "file"

\* The agent cannot be reached, it does not list its keys, or it lists them.
ReachAgent ==
  /\ login.step = "agent"
  /\ \/ Go(IF choice.fingerprint # "none" THEN "unavailable" ELSE "defaults")
     \/ Go(IF choice.fingerprint # "none" THEN "unavailable" ELSE "failed")
     \/ \E held \in SUBSET (AgentKey \union {"file"}) :
          login' = [login EXCEPT !.step = "identities", !.left = {k \in held : Selected(k)}]
  /\ UNCHANGED <<choice, remote, watchdog, offered>>

\* The server takes the key, and the agent is asked to sign, or it does not.
OfferIdentity(k) ==
  /\ login.step = "identities" /\ k \in login.left
  /\ Offer(k)
  /\ IF k \in remote
     THEN /\ login' = [login EXCEPT !.step = "signing", !.left = @ \ {k}]
          /\ watchdog' = [watchdog EXCEPT !.unseen = TRUE]
     ELSE /\ IF choice.fingerprint # "none" THEN Go("failed") ELSE login' = [login EXCEPT !.left = @ \ {k}]
          /\ UNCHANGED watchdog
  /\ UNCHANGED <<choice, remote>>

\* Variant: a selection that matches no key goes on as if there were none.
FallThrough ==
  /\ login.step = "identities" /\ login.left = {}
  /\ Go("defaults")
  /\ UNCHANGED <<choice, remote, watchdog, offered>>

NoneLeft ==
  /\ login.step = "identities" /\ login.left = {}
  /\ Go(IF choice.fingerprint # "none" THEN "unavailable" ELSE "defaults")
  /\ UNCHANGED <<choice, remote, watchdog, offered>>

\* auth_sign returns, after the user has approved if need be.
Sign(approved) ==
  /\ login.step = "signing"
  /\ Go(IF approved THEN "verifying" ELSE "unavailable")
  /\ watchdog' = [watchdog EXCEPT !.unseen = TRUE]
  /\ UNCHANGED <<choice, remote, offered>>

\* The server takes the signature, or it refuses it all the same; then the next key is
\* tried, unless this one was selected.
Verified ==
  /\ login.step = "verifying"
  /\ \/ Go("in")
     \/ Go(IF choice.fingerprint # "none" THEN "failed" ELSE "identities")
  /\ UNCHANGED <<choice, remote, watchdog, offered>>

\* The keys of ~/.ssh, only when no identity file was chosen.
TryDefaults ==
  /\ login.step = "defaults"
  /\ IF choice.file = "none" THEN Offer("default") /\ Go(IF "default" \in remote THEN "in" ELSE "failed")
     ELSE Go("failed") /\ UNCHANGED offered
  /\ UNCHANGED <<choice, remote, watchdog>>

\* The password, then at most two rounds of a challenge that asks for nothing else.
OfferPassword ==
  /\ login.step = "password"
  /\ Offer("password")
  /\ Go(IF "password" \in remote THEN "in" ELSE "challenge")
  /\ UNCHANGED <<choice, remote, watchdog>>
Challenge ==
  /\ login.step = "challenge"
  /\ \/ Go("in")
     \/ Go("failed")
     \/ login.rounds < 2 /\ login' = [login EXCEPT !.rounds = @ + 1]
  /\ UNCHANGED <<choice, remote, watchdog, offered>>
-----------------------------------------------------------------------------
(* with_network_deadline, connect_with_policy *)

PatienceRuns ==
  /\ login.step \notin Ended /\ watchdog.left > 0
  /\ watchdog' = [watchdog EXCEPT !.left = @ - 1]
  /\ UNCHANGED <<choice, remote, login, offered>>

\* approval.changed: the deadline begins again.
Notice ==
  /\ login.step \notin Ended /\ watchdog.unseen
  /\ watchdog' = [left |-> Patience, awaiting |-> login.step = "signing", unseen |-> FALSE]
  /\ UNCHANGED <<choice, remote, login, offered>>

TimeOut(step) == login' = [login EXCEPT !.step = step, !.at = login.step]

\* Variant: the deadline is looked at before the approval.
DeadlineFirst ==
  /\ login.step \notin Ended /\ watchdog.left = 0 /\ ~watchdog.awaiting
  /\ TimeOut("timedout")
  /\ UNCHANGED <<choice, remote, watchdog, offered>>

\* The select is biased: a change of approval is noticed before the deadline.
Deadline ==
  /\ login.step \notin Ended /\ watchdog.left = 0 /\ ~watchdog.awaiting /\ ~watchdog.unseen
  /\ TimeOut("timedout")
  /\ UNCHANGED <<choice, remote, watchdog, offered>>

ConnectionDrops ==
  /\ login.step \notin Ended
  /\ Go("lost")
  /\ UNCHANGED <<choice, remote, watchdog, offered>>

\* A request has twenty seconds for everything, its attempts and prompts included.
RequestOver ==
  /\ choice.policy = "request" /\ login.step \notin {"in", "failed", "over"}
  /\ TimeOut("over")
  /\ UNCHANGED <<choice, remote, watchdog, offered>>

\* retry_connection, or the recovery of an integration; the user may have unlocked the
\* agent or changed the server meanwhile.
TryAgain ==
  /\ login.step \in {"unavailable", "lost", "timedout"} /\ login.number < MaxAttempts
  /\ login' = [login EXCEPT !.step = "handshake", !.left = {}, !.rounds = 0, !.number = @ + 1, !.at = "none"]
  /\ watchdog' = Fresh
  /\ remote' \in SUBSET Secret
  /\ UNCHANGED <<choice, offered>>

AuthenticationNext ==
  \/ Handshake \/ OfferFile \/ ReachAgent \/ NoneLeft \/ Verified \/ TryDefaults
  \/ OfferPassword \/ Challenge
  \/ \E k \in AgentKey \union {"file"} : OfferIdentity(k)
  \/ \E approved \in BOOLEAN : Sign(approved)
  \/ PatienceRuns \/ Notice \/ Deadline \/ ConnectionDrops \/ RequestOver \/ TryAgain

AuthenticationSpec == AuthenticationInit /\ [][AuthenticationNext]_loginVars
-----------------------------------------------------------------------------
(* Properties *)

\* Whatever fails and however often it is tried again, only what the settings name is
\* offered: the password and no key, the file's key, the selected key of the agent; other
\* keys only when nothing is named (explicit key selection never falls through).
OnlyChosen ==
  LET named == (IF choice.file = "none" THEN {} ELSE {"file"})
               \union (IF choice.fingerprint = "none" THEN {} ELSE {choice.fingerprint})
  IN \A s \in offered :
       IF choice.method = "password" THEN s = "password"
       ELSE s # "password" /\ (named # {} => s \in named)

\* A login of an integration is never timed out while the user is asked for approval, not
\* even when the deadline passes in the instant in which the question is put
\* (with_network_deadline), and its prompt is not repeated on a timer.
PromptKept ==
  choice.policy = "integration" /\ login.step = "timedout" => login.at # "signing"

LoginSound == OnlyChosen /\ PromptKept
=============================================================================

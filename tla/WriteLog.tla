------------------------------ MODULE WriteLog ------------------------------
(***************************************************************************)
(* What the Git operation journal promises, without processes, locks or    *)
(* files: each operation begins at most once, changes its repository at    *)
(* most once and never after its definite outcome is known, and a          *)
(* repository takes a new write only when no earlier one is unresolved.    *)
(***************************************************************************)
CONSTANTS Id, Payload, Repo, RepoOf, NoPayload

VARIABLES
  state,    \* "none" until the operation begins
  payload,  \* what it was asked to do
  effect    \* whether it has changed its repository

vars == <<state, payload, effect>>

Definite   == {"succeeded", "failed", "needs_resolution"}
Unresolved == {"running", "outcome_unknown"}

Init ==
  /\ state = [i \in Id |-> "none"]
  /\ payload = [i \in Id |-> NoPayload]
  /\ effect = [i \in Id |-> FALSE]

Begin(i, p) ==
  /\ state[i] = "none"
  /\ \A j \in Id : state[j] \in Unresolved => RepoOf[payload[j]] # RepoOf[p]
  /\ state' = [state EXCEPT ![i] = "running"]
  /\ payload' = [payload EXCEPT ![i] = p]
  /\ UNCHANGED effect

\* An interrupted operation may still change the repository: nothing promises
\* that it has stopped.
Effect(i) ==
  /\ state[i] \in Unresolved \union {"reviewed_unknown"}
  /\ ~effect[i]
  /\ effect' = [effect EXCEPT ![i] = TRUE]
  /\ UNCHANGED <<state, payload>>

Finish(i, s) ==
  /\ state[i] = "running"
  /\ state' = [state EXCEPT ![i] = s]
  /\ UNCHANGED <<payload, effect>>

Review(i) ==
  /\ state[i] = "outcome_unknown"
  /\ state' = [state EXCEPT ![i] = "reviewed_unknown"]
  /\ UNCHANGED <<payload, effect>>

Next ==
  \E i \in Id :
    \/ \E p \in Payload : Begin(i, p)
    \/ Effect(i)
    \/ \E s \in Definite \union {"outcome_unknown"} : Finish(i, s)
    \/ Review(i)

Spec == Init /\ [][Next]_vars
=============================================================================

---------------------------- MODULE MCGitSession ----------------------------
(* A writer and a reader share the session of a server that is edited and may be     *)
(* removed; MCGitAgent checks two reads at once as well.                             *)
EXTENDS GitSession
CONSTANTS w, r
SessionRequests == {w, r}
OneEach == [q \in SessionRequests |-> IF q = w THEN {"write"} ELSE {"status"}]
SessionSlots == 1..2
=============================================================================

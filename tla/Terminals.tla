----------------------------- MODULE Terminals -----------------------------
(***************************************************************************)
(* Terminal tabs and the shells they run: calls of the interface reach the *)
(* native side in any order, a tab may close while its shell is still      *)
(* being opened, and an edit of the server ends its shells:                *)
(*                                                                         *)
(*   src/terminal/session.ts       connect, disconnect, dispose            *)
(*   src-tauri/src/terminal.rs     Sessions                                *)
(*   src-tauri/src/commands.rs     terminal_open, terminal_read,           *)
(*                                 terminal_close, save_server             *)
(*                                                                         *)
(* Each connect of a tab makes a session of its own: <<tab, number>>.      *)
(***************************************************************************)
EXTENDS Naturals, FiniteSets

CONSTANTS Tab,           \* terminal tabs of one server
          Limit,         \* shells the native side keeps
          MaxConnects,   \* bound: connects of a tab
          MaxChanges     \* bound: edits and removals of the server

ASSUME TerminalAssumption == Limit \in Nat /\ MaxConnects \in Nat /\ MaxChanges \in Nat

Session == Tab \X (1 .. MaxConnects)

VARIABLES
  host,     \* the server: saved, its settings, and whether a change of it is under way
  shells,   \* Sessions: [session, settings, running]
  tab,      \* each tab: its session (0 is null), connects so far, disposed
  run,      \* the connect call of each session
  asked     \* terminal_open and terminal_close calls on their way

terminalVars == <<host, shells, tab, run, asked>>

TerminalInit ==
  /\ host = [saved |-> TRUE, settings |-> 0, changing |-> FALSE]
  /\ shells = {}
  /\ tab = [t \in Tab |-> [session |-> 0, connects |-> 0, disposed |-> FALSE]]
  /\ run = [s \in Session |-> "none"]
  /\ asked = {}

Shown(s) == tab[s[1]].session = s[2]
Known(s) == \E x \in shells : x.session = s
-----------------------------------------------------------------------------
(* The interface *)

Connect(t) ==
  /\ tab[t].session = 0 /\ ~tab[t].disposed /\ tab[t].connects < MaxConnects
  /\ LET n == tab[t].connects + 1 IN
       /\ tab' = [tab EXCEPT ![t].session = n, ![t].connects = n]
       /\ run' = [run EXCEPT ![<<t, n>>] = "preparing"]
  /\ UNCHANGED <<host, shells, asked>>

\* Variant: whatever session the tab shows ends.
FinallyAny(s) ==
  /\ run' = [run EXCEPT ![s] = "closing"]
  /\ tab' = [tab EXCEPT ![s[1]].session = 0]

\* Variant: only the session the tab shows is closed.
FinallyShown(s) ==
  IF Shown(s) THEN /\ run' = [run EXCEPT ![s] = "closing"]
                   /\ tab' = [tab EXCEPT ![s[1]].session = 0]
  ELSE run' = [run EXCEPT ![s] = "ended"] /\ UNCHANGED tab

\* The end of connect: the tab forgets the session if it still shows it, and the native
\* side is asked to close it in any case.
Finally(s) ==
  /\ run' = [run EXCEPT ![s] = "closing"]
  /\ tab' = IF Shown(s) THEN [tab EXCEPT ![s[1]].session = 0] ELSE tab

\* Old output has drained and the fonts are loaded.
Prepared(s) ==
  /\ run[s] = "preparing"
  /\ IF Shown(s) THEN /\ run' = [run EXCEPT ![s] = "opening"]
                      /\ asked' = asked \union {<<"open", s>>}
                      /\ UNCHANGED tab
     ELSE Finally(s) /\ UNCHANGED asked
  /\ UNCHANGED <<host, shells>>

\* The reply to terminal_open.
Opened(s) ==
  /\ run[s] \in {"opened", "refused"}
  /\ IF run[s] = "opened" /\ Shown(s) THEN run' = [run EXCEPT ![s] = "reading"] /\ UNCHANGED tab
     ELSE Finally(s)
  /\ UNCHANGED <<host, shells, asked>>

\* A read returns: the tab shows another session, the shell has exited or failed, or the
\* native side does not know it any more.
ReadEnds(s) ==
  /\ run[s] = "reading"
  /\ ~Shown(s) \/ ~\E x \in shells : x.session = s /\ x.running
  /\ Finally(s)
  /\ UNCHANGED <<host, shells, asked>>

\* disconnect: by the user, a failed write or resize, or the tab's disposal.
Disconnect(t, dispose) ==
  /\ ~tab[t].disposed /\ (dispose \/ tab[t].session # 0)
  /\ tab' = [tab EXCEPT ![t].session = 0, ![t].disposed = dispose]
  /\ asked' = IF tab[t].session = 0 THEN asked ELSE asked \union {<<"close", <<t, tab[t].session>>>>}
  /\ UNCHANGED <<host, shells, run>>
-----------------------------------------------------------------------------
(* The native side *)

Refused(s) == Known(s) \/ Cardinality(shells) >= Limit

\* Variant: the server was read before the manager's lock was free.
OpenUnlocked(s) ==
  /\ <<"open", s>> \in asked
  /\ asked' = asked \ {<<"open", s>>}
  /\ IF ~host.saved \/ Refused(s) THEN run' = [run EXCEPT ![s] = "refused"] /\ UNCHANGED shells
     ELSE \E settings \in 0 .. host.settings :
            /\ shells' = shells \union {[session |-> s, settings |-> settings, running |-> TRUE]}
            /\ run' = [run EXCEPT ![s] = "opened"]
  /\ UNCHANGED <<host, tab>>

\* terminal_open holds the manager's lock while it reads the server and inserts the shell.
Open(s) ==
  /\ <<"open", s>> \in asked /\ ~host.changing
  /\ asked' = asked \ {<<"open", s>>}
  /\ IF ~host.saved \/ Refused(s) THEN run' = [run EXCEPT ![s] = "refused"] /\ UNCHANGED shells
     ELSE /\ shells' = shells \union {[session |-> s, settings |-> host.settings, running |-> TRUE]}
          /\ run' = [run EXCEPT ![s] = "opened"]
  /\ UNCHANGED <<host, tab>>

Removed(s) == {x \in shells : x.session # s}

\* terminal_close, asked by disconnect or at the end of connect.
Close(s) ==
  /\ \/ <<"close", s>> \in asked /\ asked' = asked \ {<<"close", s>>} /\ UNCHANGED run
     \/ run[s] = "closing" /\ run' = [run EXCEPT ![s] = "ended"] /\ UNCHANGED asked
  /\ shells' = Removed(s)
  /\ UNCHANGED <<host, tab>>

\* The shell exits, or its connection is lost; its entry stays until it is closed.
ShellEnds(s) ==
  /\ \E x \in shells : x.session = s /\ x.running
  /\ shells' = {IF x.session = s THEN [x EXCEPT !.running = FALSE] ELSE x : x \in shells}
  /\ UNCHANGED <<host, tab, run, asked>>

\* save_server with other settings, or delete_server: the profile first, then the shells,
\* all with the manager's lock.
ChangeServer(saved) ==
  /\ ~host.changing /\ host.settings < MaxChanges /\ host.saved
  /\ host' = [saved |-> saved, settings |-> host.settings + 1, changing |-> TRUE]
  /\ UNCHANGED <<shells, tab, run, asked>>
CloseServer ==
  /\ host.changing
  /\ IF shells = {} THEN host' = [host EXCEPT !.changing = FALSE] /\ UNCHANGED shells
     ELSE (\E x \in shells : shells' = shells \ {x}) /\ UNCHANGED host
  /\ UNCHANGED <<tab, run, asked>>

TerminalNext ==
  \/ \E t \in Tab : Connect(t) \/ \E dispose \in BOOLEAN : Disconnect(t, dispose)
  \/ \E s \in Session : \/ Prepared(s) \/ Opened(s) \/ ReadEnds(s)
                        \/ Open(s) \/ Close(s) \/ ShellEnds(s)
  \/ \E saved \in BOOLEAN : ChangeServer(saved)
  \/ CloseServer

TerminalSpec == TerminalInit /\ [][TerminalNext]_terminalVars
-----------------------------------------------------------------------------
(* Properties *)

\* Every shell is still followed by its connect call or about to be closed, and none runs
\* with settings that are not saved any more: a tab closed while its shell was being
\* opened, or an edit meanwhile, leaves no shell behind that nobody can see.
NoOrphanTerminal ==
  /\ \A x \in shells : run[x.session] # "ended" \/ <<"close", x.session>> \in asked
  /\ ~host.changing => \A x \in shells : host.saved /\ x.settings = host.settings

EndsOwn == \A t \in Tab : LET s == <<t, tab[t].session>> IN
             s[2] # 0 /\ tab'[t].session # s[2] => run'[s] = "closing" \/ <<"close", s>> \in asked'

\* A tab loses its session only to that session's own end or to a disconnect, which asks for
\* the shell to be closed: the late end of an earlier session never takes the new one away.
OwnSessionEnds == [][EndsOwn]_terminalVars
=============================================================================

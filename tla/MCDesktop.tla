----------------------------- MODULE MCDesktop -----------------------------
(* The desktop's other machines: tunnels, measurements and their history, terminals,   *)
(* profiles, preferences and the process itself.  They meet only in a server's         *)
(* settings, which each sees change, so one is served and the others rest.             *)
EXTENDS Tunnels, Metrics, MetricHistory, MetricSummary, Terminals, Profiles, Preferences,
        Lifecycle, TLC

CONSTANT Serving
VARIABLE serving
desktopVars == <<serving, tunnelVars, metricsVars, historyVars, summaryVars, terminalVars, profileVars, preferenceVars, appVars>>

Symmetry == Permutations(Port)

\* A machine that rests stays in one initial state, up to symmetry.
DesktopInit ==
  /\ serving \in Serving
  /\ MetricsInit /\ HistoryInit /\ TerminalInit /\ LifecycleInit
  /\ TunnelInit /\ (serving # "tunnels" => saved = [t \in Tunnel |-> CHOOSE c \in Config : ~c.auto])
  /\ IF serving = "summary" THEN SummaryInit ELSE minute = <<>> /\ summary = Missing
  /\ IF serving = "profiles" THEN ProfilesInit
     ELSE /\ vault = NoVault /\ durable = NoVault /\ plain = 0 /\ app = Off
          /\ keys = [modern |-> 0, legacy |-> 0, marker |-> FALSE, kept |-> FALSE]
          /\ past = [saved |-> 0, tries |-> 1, crashes |-> 0, lost |-> FALSE]
  /\ IF serving = "preferences" THEN PreferencesInit
     ELSE /\ disk = [rows |-> {}, client |-> 0, width |-> "narrow", whole |-> TRUE] /\ store = disk
          /\ doing = NotBegun
          /\ shown = [clients |-> {}, rows |-> {}, asked |-> FALSE, listed |-> FALSE, starts |-> 0]
DesktopNext ==
  \/ /\ serving = "tunnels" /\ TunnelNext
     /\ UNCHANGED <<serving, metricsVars, historyVars, summaryVars, terminalVars, profileVars, preferenceVars, appVars>>
  \/ /\ serving = "metrics" /\ MetricsNext
     /\ UNCHANGED <<serving, tunnelVars, historyVars, summaryVars, terminalVars, profileVars, preferenceVars, appVars>>
  \/ /\ serving = "history" /\ HistoryNext
     /\ UNCHANGED <<serving, tunnelVars, metricsVars, summaryVars, terminalVars, profileVars, preferenceVars, appVars>>
  \/ /\ serving = "summary" /\ SummaryNext
     /\ UNCHANGED <<serving, tunnelVars, metricsVars, historyVars, terminalVars, profileVars, preferenceVars, appVars>>
  \/ /\ serving = "terminals" /\ TerminalNext
     /\ UNCHANGED <<serving, tunnelVars, metricsVars, historyVars, summaryVars, profileVars, preferenceVars, appVars>>
  \/ /\ serving = "profiles" /\ ProfilesNext
     /\ UNCHANGED <<serving, tunnelVars, metricsVars, historyVars, summaryVars, terminalVars, preferenceVars, appVars>>
  \/ /\ serving = "preferences" /\ PreferencesNext
     /\ UNCHANGED <<serving, tunnelVars, metricsVars, historyVars, summaryVars, terminalVars, profileVars, appVars>>
  \/ /\ serving = "process" /\ LifecycleNext
     /\ UNCHANGED <<serving, tunnelVars, metricsVars, historyVars, summaryVars, terminalVars, profileVars, preferenceVars>>
DesktopSpec == DesktopInit /\ [][DesktopNext]_desktopVars

\* Stored readings and what is computed of them: none lost but by age, no rate across a
\* restart (metrics_db.rs, rollup.rs).
SamplesTrue == HistoryWhole /\ RatesBridgeNothing
=============================================================================

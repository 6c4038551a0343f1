---------------------------- MODULE Preferences ----------------------------
(***************************************************************************)
(* Preferences that are not secret: bookmarked repositories, the identity  *)
(* this installation has for Git agents and the width of the sidebar, in   *)
(* one file that every save writes whole:                                  *)
(*                                                                         *)
(*   src-tauri/src/preferences.rs           install, set_sidebar_width,    *)
(*                                          git_client_id                  *)
(*   src-tauri/src/preferences/projects.rs  git_projects_*                 *)
(*                                                                         *)
(* Commands take ACCESS one after the other; each is cut in two where it   *)
(* has changed the Store in memory and not yet saved it.                   *)
(***************************************************************************)
EXTENDS Naturals, FiniteSets

CONSTANTS Project,       \* identities of bookmarks
          Repository,    \* a server and a path on it
          MaxProjects,   \* MAX_PROJECTS
          MaxStarts      \* bound: starts of the application

ASSUME PreferencesAssumption == MaxProjects \in Nat /\ MaxStarts \in Nat

Bookmark == [id : Project, at : Repository, name : {"old", "new"}]

VARIABLES
  store,   \* the Store plugin's memory
  disk,    \* preferences.json, and whether it can be parsed
  doing,   \* the command that holds ACCESS: what it does and what it found; the application
  shown    \* history: identities given to Git sessions, the last answer to a list and whether there was one, starts

preferenceVars == <<store, disk, doing, shown>>

Idle     == [app |-> "running", command |-> "none", old |-> {}]
NotBegun == [Idle EXCEPT !.app = "off"]
-----------------------------------------------------------------------------
\* decode: at most MAX_PROJECTS rows, no identity and no repository twice.
Decodes(rows) ==
  /\ Cardinality(rows) <= MaxProjects
  /\ \A a, b \in rows : a.id = b.id \/ a.at = b.at => a = b

\* What an earlier version or an editor left: nothing, something this version refuses to
\* decode, or a file that is no map at all.
PreferencesInit ==
  /\ \E rows \in SUBSET [id : Project, at : Repository, name : {"old"}], id \in {0, 1}, whole \in BOOLEAN :
       IsFiniteSet(rows) /\ disk = [rows |-> rows, client |-> id, width |-> "narrow", whole |-> whole]
  /\ store = disk
  /\ doing = NotBegun
  /\ shown = [clients |-> {}, rows |-> {}, asked |-> FALSE, listed |-> FALSE, starts |-> 0]

\* install: a file that cannot be parsed is kept, and the application does not start.
LoadStore ==
  /\ doing.app = "off" /\ shown.starts < MaxStarts
  /\ doing' = [Idle EXCEPT !.app = IF disk.whole THEN "running" ELSE "refused"]
  /\ store' = IF disk.whole THEN disk ELSE store
  /\ shown' = [shown EXCEPT !.starts = @ + 1, !.asked = FALSE]
  /\ UNCHANGED disk

NoCommand == doing.app = "running" /\ doing.command = "none"
-----------------------------------------------------------------------------
(* Commands: the change in memory *)

Change(command, changed) ==
  /\ NoCommand
  /\ store' = changed
  /\ doing' = [doing EXCEPT !.command = command, !.old = store.rows]
  /\ shown' = [shown EXCEPT !.asked = FALSE]
  /\ UNCHANGED disk

SetWidth(width) == Change("width", [store EXCEPT !.width = width])

\* Variant: a bookmark may move to another repository.
Renames(row) == Cardinality({r \in store.rows : r.id # row.id}) < MaxProjects

\* upsert: the repository must be new, and a bookmark keeps its repository.
Upserts(row) ==
  /\ \A r \in store.rows : (r.id = row.id) <=> (r.at = row.at)
  /\ Cardinality({r \in store.rows : r.id # row.id}) < MaxProjects

SaveProject(row) ==
  /\ Decodes(store.rows) /\ Upserts(row)
  /\ Change("projects", [store EXCEPT !.rows = {r \in @ : r.id # row.id} \union {row}])

RemoveProject(id) ==
  /\ Decodes(store.rows)
  /\ Change("projects", [store EXCEPT !.rows = {r \in @ : r.id # id}])

\* git_client_id; a random identity is one that was never used.
GitClientId ==
  IF store.client # 0 THEN Change("client", store)
  ELSE Change("client", [store EXCEPT !.client = shown.starts + 1])

\* git_projects_list, which holds ACCESS as well.
ListProjects ==
  /\ NoCommand /\ Decodes(store.rows)
  /\ shown' = [shown EXCEPT !.rows = store.rows, !.asked = TRUE, !.listed = TRUE]
  /\ UNCHANGED <<store, disk, doing>>
-----------------------------------------------------------------------------
(* store.save *)

CommandEnds == doing' = [doing EXCEPT !.command = "none", !.old = {}]

SaveSucceeds ==
  /\ doing.app = "running" /\ doing.command # "none"
  /\ disk' = store
  /\ shown' = IF doing.command = "client" THEN [shown EXCEPT !.clients = @ \union {store.client}] ELSE shown
  /\ CommandEnds
  /\ UNCHANGED store

\* Variant: the edit stays in memory.
KeptInMemory == store' = store

\* Variant: the identity is used although it was not saved.
ExposedUnsaved ==
  /\ doing.app = "running" /\ doing.command # "none"
  /\ store' = IF doing.command = "projects" THEN [store EXCEPT !.rows = doing.old] ELSE store
  /\ shown' = IF doing.command = "client" THEN [shown EXCEPT !.clients = @ \union {store.client}] ELSE shown
  /\ CommandEnds
  /\ UNCHANGED disk

\* Only an edit of the projects is taken back; the next save of anything writes the others.
RolledBack == store' = IF doing.command = "projects" THEN [store EXCEPT !.rows = doing.old] ELSE store

SaveFails ==
  /\ doing.app = "running" /\ doing.command # "none"
  /\ RolledBack
  /\ CommandEnds
  /\ UNCHANGED <<disk, shown>>
-----------------------------------------------------------------------------
\* The process ends, between a change and its save as well; a save that was under way
\* leaves the file as it was, written, or cut off.
Stop ==
  /\ doing.app = "running"
  /\ disk' \in {disk} \union (IF doing.command = "none" THEN {} ELSE {store, [disk EXCEPT !.whole = FALSE]})
  /\ doing' = NotBegun
  /\ shown' = [shown EXCEPT !.asked = FALSE]
  /\ UNCHANGED store

\* A regular exit: the plugin saves its stores.
ExitSaves ==
  /\ NoCommand
  /\ disk' = store
  /\ doing' = NotBegun
  /\ UNCHANGED <<store, shown>>

PreferencesNext ==
  \/ LoadStore \/ ListProjects \/ GitClientId
  \/ \E width \in {"narrow", "wide"} : SetWidth(width)
  \/ \E row \in Bookmark : SaveProject(row)
  \/ \E id \in Project : RemoveProject(id)
  \/ SaveSucceeds \/ SaveFails \/ Stop \/ ExitSaves

PreferencesSpec == PreferencesInit /\ [][PreferencesNext]_preferenceVars
-----------------------------------------------------------------------------
(* Properties *)

\* What a list has shown is on disk until the next edit (one whose save failed is taken
\* back); bookmarks that could be listed once always can be; and the identity of this
\* installation is stored before it is used and is the same after every start.  A file that
\* was cut off while it was written is left as it is (install).
PreferencesStored ==
  disk.whole => /\ shown.asked => disk.rows = shown.rows
                /\ shown.listed => Decodes(disk.rows)
                /\ \A id \in shown.clients : disk.client = id
=============================================================================

--------------------------- MODULE DesktopProofs ---------------------------
(***************************************************************************)
(* What TLAPS proves of the desktop's smaller machines, for every value of *)
(* their constants: preferences and bookmarks are stored as they were      *)
(* answered, profiles that were saved load again after any crash, readings *)
(* are fresh, in order and of the saved settings, the saved history counts *)
(* every reading once, processes, exits and updates never meet on one      *)
(* profile, and no terminal is orphaned.  Each has an inductive invariant  *)
(* that says what its steps rely on.                                       *)
(***************************************************************************)
EXTENDS MCDesktop, FiniteSetTheorems, WellFoundedInduction, TLAPS

-----------------------------------------------------------------------------
(* Preferences *)

Preference == [rows : SUBSET Bookmark, client : Nat, width : {"narrow", "wide"}, whole : BOOLEAN]
ShownThing == [clients : SUBSET Nat, rows : SUBSET Bookmark, asked : BOOLEAN, listed : BOOLEAN, starts : Nat]
CommandState == [app : {"off", "refused", "running"}, command : {"none", "width", "projects", "client"},
                 old : SUBSET Bookmark]

PreferenceTypes ==
  /\ store \in Preference /\ disk \in Preference
  /\ doing \in CommandState
  /\ shown \in ShownThing
  /\ IsFiniteSet(store.rows)

\* While the application runs, memory and file agree but for the command that is at work,
\* and what that command found is what is on disk.
InMemory ==
  /\ disk.whole
  /\ doing.command = "none" => store.rows = disk.rows
  /\ doing.command # "none" => doing.old = disk.rows
  /\ doing.command \in {"width", "client"} => store.rows = disk.rows
  /\ doing.command = "client" => store.client # 0
  /\ store.whole
  /\ disk.client \in {0, store.client}
  /\ shown.listed => Decodes(store.rows)
  /\ shown.asked => doing.command = "none"
  /\ \A id \in shown.clients : store.client = id

PreferencesInv ==
  /\ PreferenceTypes
  /\ IsFiniteSet(disk.rows)
  /\ doing.app # "running" => doing.command = "none"
  /\ doing.app = "running" => InMemory
  /\ 0 \notin shown.clients
  /\ PreferencesStored

\* A bookmark that is saved leaves a list that can be decoded.
LEMMA SavedDecodes ==
  ASSUME NEW bookmarks \in SUBSET Bookmark, NEW row \in Bookmark, IsFiniteSet(bookmarks),
         Decodes(bookmarks), \A r \in bookmarks : (r.id = row.id) <=> (r.at = row.at),
         Cardinality({r \in bookmarks : r.id # row.id}) < MaxProjects
  PROVE  Decodes({r \in bookmarks : r.id # row.id} \union {row})
<1> DEFINE others == {r \in bookmarks : r.id # row.id}
<1>1. IsFiniteSet(others) /\ Cardinality(others) \in Nat /\ row \notin others
  BY FS_Subset, FS_CardinalityType
<1>2. Cardinality(others \union {row}) = Cardinality(others) + 1
  BY <1>1, FS_AddElement
<1>3. Cardinality(others \union {row}) <= MaxProjects
  BY <1>1, <1>2, PreferencesAssumption
<1>4. ASSUME NEW a \in others \union {row}, NEW b \in others \union {row}, a.id = b.id \/ a.at = b.at
      PROVE  a = b
  BY <1>4 DEF Decodes
<1> QED
  BY <1>3, <1>4 DEF Decodes

\* So does one that is removed.
LEMMA FewerDecode ==
  ASSUME NEW bookmarks \in SUBSET Bookmark, NEW fewer \in SUBSET bookmarks, IsFiniteSet(bookmarks), Decodes(bookmarks)
  PROVE  Decodes(fewer)
<1>1. Cardinality(fewer) <= Cardinality(bookmarks) /\ Cardinality(fewer) \in Nat /\ Cardinality(bookmarks) \in Nat
  BY FS_Subset, FS_CardinalityType
<1> QED
  BY <1>1, PreferencesAssumption DEF Decodes

LEMMA PreferencesInitInv == PreferencesInit => PreferencesInv
<1> SUFFICES ASSUME PreferencesInit
             PROVE  PreferencesInv
  OBVIOUS
<1>1. PICK bookmarks \in SUBSET [id : Project, at : Repository, name : {"old"}], id \in {0, 1}, whole \in BOOLEAN :
         IsFiniteSet(bookmarks) /\ disk = [rows |-> bookmarks, client |-> id, width |-> "narrow", whole |-> whole]
  BY DEF PreferencesInit
<1>2. bookmarks \in SUBSET Bookmark
  BY DEF Bookmark
<1> QED
  BY <1>1, <1>2 DEF PreferencesInit, PreferencesInv, PreferenceTypes, Preference, ShownThing, CommandState, NotBegun, Idle,
                    PreferencesStored

\* A change in memory, of which only bookmarks and a new identity are told apart.
LEMMA ChangeInv ==
  ASSUME NEW command \in {"width", "projects", "client"}, NEW changed \in Preference,
         PreferencesInv, Change(command, changed),
         IsFiniteSet(changed.rows), changed.whole = store.whole,
         command # "projects" => changed.rows = store.rows,
         changed.client = store.client \/ (store.client = 0 /\ changed.client # 0),
         command = "client" => changed.client # 0,
         Decodes(store.rows) => Decodes(changed.rows)
  PROVE  PreferencesInv'
<1>1. /\ InMemory /\ PreferenceTypes /\ PreferencesStored
      /\ doing.app = "running" /\ doing.command = "none"
      /\ UNCHANGED disk /\ store' = changed
  BY DEF PreferencesInv, Change, NoCommand
<1>2. /\ doing' \in CommandState /\ doing'.app = "running" /\ doing'.command = command /\ doing'.old = store.rows
      /\ shown' \in ShownThing /\ ~shown'.asked /\ shown'.clients = shown.clients /\ shown'.listed = shown.listed
  BY <1>1 DEF Change, PreferenceTypes, Preference, ShownThing, CommandState
<1>3. shown.clients # {} => changed.client = store.client
  BY <1>1 DEF InMemory, PreferencesInv
<1>4. disk.client \in {0, changed.client}
  BY <1>1 DEF InMemory
<1>5. InMemory'
  BY <1>1, <1>2, <1>3, <1>4 DEF InMemory
<1>6. PreferencesStored'
  BY <1>1, <1>2 DEF PreferencesStored
<1>7. PreferenceTypes'
  BY <1>1, <1>2 DEF PreferenceTypes
<1> QED
  BY <1>1, <1>2, <1>5, <1>6, <1>7 DEF PreferencesInv

\* The record of an update, field by field.
LEMMA WithRows ==
  ASSUME NEW p \in Preference, NEW bookmarks \in SUBSET Bookmark
  PROVE  LET new == [p EXCEPT !.rows = bookmarks]
         IN  new \in Preference /\ new.rows = bookmarks /\ new.client = p.client /\ new.whole = p.whole
BY DEF Preference

LEMMA WithWidth ==
  ASSUME NEW p \in Preference, NEW width \in {"narrow", "wide"}
  PROVE  LET new == [p EXCEPT !.width = width]
         IN  new \in Preference /\ new.rows = p.rows /\ new.client = p.client /\ new.whole = p.whole
BY DEF Preference

LEMMA WithClient ==
  ASSUME NEW p \in Preference, NEW client \in Nat
  PROVE  LET new == [p EXCEPT !.client = client]
         IN  new \in Preference /\ new.rows = p.rows /\ new.client = client /\ new.whole = p.whole
BY DEF Preference

LEMMA CommandsInv ==
  ASSUME PreferencesInv,
         \/ \E width \in {"narrow", "wide"} : SetWidth(width)
         \/ \E row \in Bookmark : SaveProject(row)
         \/ \E id \in Project : RemoveProject(id)
         \/ GitClientId
  PROVE  PreferencesInv'
<1>1. store \in Preference /\ IsFiniteSet(store.rows) /\ shown.starts \in Nat /\ store.rows \in SUBSET Bookmark
      /\ store.client \in Nat
  BY DEF PreferencesInv, PreferenceTypes, Preference, ShownThing
<1>2. ASSUME NEW width \in {"narrow", "wide"}, SetWidth(width)
      PROVE  PreferencesInv'
  <2>1. PICK new \in Preference : /\ new = [store EXCEPT !.width = width] /\ new.rows = store.rows
                                  /\ new.client = store.client /\ new.whole = store.whole
    BY <1>1, WithWidth
  <2>2. Change("width", new)
    BY <1>2, <2>1 DEF SetWidth
  <2> QED  BY <1>1, <2>1, <2>2, ChangeInv
<1>3. ASSUME NEW row \in Bookmark, SaveProject(row)
      PROVE  PreferencesInv'
  <2>1. PICK others : others = {r \in store.rows : r.id # row.id}
    OBVIOUS
  <2>2. others \union {row} \in SUBSET Bookmark /\ IsFiniteSet(others \union {row})
    BY <1>1, <2>1, FS_Subset, FS_AddElement
  <2>3. Decodes(others \union {row})
    BY <1>1, <1>3, <2>1, SavedDecodes DEF SaveProject, Upserts
  <2>4. PICK new \in Preference : /\ new = [store EXCEPT !.rows = others \union {row}] /\ new.rows = others \union {row}
                                  /\ new.client = store.client /\ new.whole = store.whole
    BY <1>1, <2>2, WithRows
  <2>5. Change("projects", new)
    BY <1>1, <1>3, <2>1, <2>4 DEF SaveProject, Preference
  <2> QED  BY <2>2, <2>3, <2>4, <2>5, ChangeInv
<1>4. ASSUME NEW id \in Project, RemoveProject(id)
      PROVE  PreferencesInv'
  <2>1. PICK others \in SUBSET store.rows : others = {r \in store.rows : r.id # id}
    OBVIOUS
  <2>2. others \in SUBSET Bookmark /\ IsFiniteSet(others)
    BY <1>1, FS_Subset
  <2>3. Decodes(others)
    BY <1>1, <1>4, FewerDecode DEF RemoveProject
  <2>4. PICK new \in Preference : /\ new = [store EXCEPT !.rows = others] /\ new.rows = others
                                  /\ new.client = store.client /\ new.whole = store.whole
    BY <1>1, <2>2, WithRows
  <2>5. Change("projects", new)
    BY <1>1, <1>4, <2>1, <2>4 DEF RemoveProject, Preference
  <2> QED  BY <2>2, <2>3, <2>4, <2>5, ChangeInv
<1>5. ASSUME GitClientId
      PROVE  PreferencesInv'
  <2>1. CASE store.client # 0
    <3>1. Change("client", store)
      BY <1>5, <2>1 DEF GitClientId
    <3> QED  BY <1>1, <2>1, <3>1, ChangeInv
  <2>2. CASE store.client = 0
    <3>1. shown.starts + 1 \in Nat /\ shown.starts + 1 # 0
      BY <1>1
    <3>2. PICK new \in Preference : /\ new = [store EXCEPT !.client = shown.starts + 1] /\ new.rows = store.rows
                                    /\ new.client = shown.starts + 1 /\ new.whole = store.whole
      BY <1>1, <3>1, WithClient
    <3>3. Change("client", new)
      BY <1>5, <2>2, <3>2 DEF GitClientId
    <3> QED  BY <1>1, <2>2, <3>1, <3>2, <3>3, ChangeInv
  <2> QED  BY <2>1, <2>2
<1> QED
  BY <1>2, <1>3, <1>4, <1>5

\* The end of a command, of which the save succeeds or fails.
LEMMA SaveSucceedsInv ==
  ASSUME PreferencesInv, SaveSucceeds
  PROVE  PreferencesInv'
<1>1. /\ InMemory /\ PreferenceTypes /\ PreferencesStored
      /\ doing.app = "running" /\ doing.command # "none"
      /\ disk' = store /\ store' = store
  BY DEF PreferencesInv, SaveSucceeds
<1>2. doing' \in CommandState /\ doing'.app = "running" /\ doing'.command = "none"
  BY <1>1 DEF SaveSucceeds, CommandEnds, PreferenceTypes, CommandState
<1>3. /\ shown' \in ShownThing /\ shown'.asked = shown.asked /\ shown'.listed = shown.listed
      /\ shown'.clients \subseteq shown.clients \union {store.client}
      /\ 0 \notin shown'.clients
  BY <1>1 DEF SaveSucceeds, PreferencesInv, InMemory, PreferenceTypes, ShownThing, Preference
<1>4. InMemory'
  BY <1>1, <1>2, <1>3 DEF InMemory
<1>5. PreferencesStored'
  BY <1>1, <1>3 DEF PreferencesStored, InMemory
<1> QED
  BY <1>1, <1>2, <1>3, <1>4, <1>5 DEF PreferencesInv, PreferenceTypes

LEMMA SaveFailsInv ==
  ASSUME PreferencesInv, SaveFails
  PROVE  PreferencesInv'
<1>1. /\ InMemory /\ PreferenceTypes /\ PreferencesStored /\ IsFiniteSet(disk.rows)
      /\ doing.app = "running" /\ doing.command # "none" /\ doing.old \in SUBSET Bookmark
      /\ UNCHANGED <<disk, shown>> /\ store \in Preference
  BY DEF PreferencesInv, SaveFails, PreferenceTypes, CommandState
<1>2. doing' \in CommandState /\ doing'.app = "running" /\ doing'.command = "none"
  BY <1>1 DEF SaveFails, CommandEnds, PreferenceTypes, CommandState
<1>3. store' \in Preference /\ store'.client = store.client /\ store'.whole = store.whole /\ store'.rows = disk.rows
  <2>1. CASE doing.command = "projects"
    <3>1. store' = [store EXCEPT !.rows = doing.old]
      BY <2>1 DEF SaveFails, RolledBack
    <3> QED  BY <1>1, <2>1, <3>1, WithRows DEF InMemory
  <2>2. CASE doing.command # "projects"
    <3>1. store' = store /\ doing.command \in {"width", "client"}
      BY <1>1, <2>2 DEF SaveFails, RolledBack, PreferenceTypes, CommandState
    <3> QED  BY <1>1, <3>1 DEF InMemory
  <2> QED  BY <2>1, <2>2
<1>4. shown.listed => Decodes(disk.rows)
  BY <1>1 DEF PreferencesStored, InMemory
<1>5. InMemory'
  BY <1>1, <1>2, <1>3, <1>4 DEF InMemory
<1>6. PreferencesStored'
  BY <1>1 DEF PreferencesStored
<1> QED
  BY <1>1, <1>2, <1>3, <1>5, <1>6 DEF PreferencesInv, PreferenceTypes

\* A start, a list, and the ends of the process.
LEMMA LoadStoreInv ==
  ASSUME PreferencesInv, LoadStore
  PROVE  PreferencesInv'
<1>1. /\ PreferenceTypes /\ PreferencesStored /\ IsFiniteSet(disk.rows) /\ UNCHANGED disk
      /\ 0 \notin shown.clients
  BY DEF PreferencesInv, LoadStore
<1>2. /\ doing' \in CommandState /\ doing'.command = "none"
      /\ doing'.app = (IF disk.whole THEN "running" ELSE "refused")
      /\ shown' \in ShownThing /\ ~shown'.asked /\ (shown'.listed <=> shown.listed) /\ shown'.clients = shown.clients
      /\ store' = (IF disk.whole THEN disk ELSE store)
  <2>1. doing' = [app |-> IF disk.whole THEN "running" ELSE "refused", command |-> "none", old |-> {}]
    BY DEF LoadStore, Idle
  <2>2. doing' \in CommandState /\ doing'.command = "none" /\ doing'.app = (IF disk.whole THEN "running" ELSE "refused")
    BY <2>1 DEF CommandState
  <2>3. shown' \in ShownThing /\ ~shown'.asked /\ (shown'.listed <=> shown.listed) /\ shown'.clients = shown.clients
    <3>1. shown \in ShownThing /\ shown' = [shown EXCEPT !.starts = @ + 1, !.asked = FALSE]
      BY <1>1 DEF LoadStore, PreferenceTypes
    <3>2. shown' \in ShownThing
      <4>1. shown' = [clients |-> shown.clients, rows |-> shown.rows, asked |-> FALSE, listed |-> shown.listed,
                      starts |-> shown.starts + 1]
        BY <3>1, Zenon DEF ShownThing
      <4>2. shown.starts + 1 \in Nat
        BY <3>1 DEF ShownThing
      <4> QED  BY <3>1, <4>1, <4>2, Zenon DEF ShownThing
    <3>4. ~shown'.asked
      BY <3>1, Zenon DEF ShownThing
    <3>3. (shown'.listed <=> shown.listed) /\ shown'.clients = shown.clients
      BY <3>1 DEF ShownThing
    <3> QED  BY <3>2, <3>3, <3>4
  <2>4. store' = (IF disk.whole THEN disk ELSE store)
    BY DEF LoadStore
  <2> QED  BY <2>2, <2>3, <2>4
<1>3. doing'.app = "running" => InMemory'
  BY <1>1, <1>2 DEF InMemory, PreferencesStored
<1>4. PreferencesStored'
  BY <1>1, <1>2 DEF PreferencesStored
<1> QED
  BY <1>1, <1>2, <1>3, <1>4 DEF PreferencesInv, PreferenceTypes

LEMMA ListProjectsInv ==
  ASSUME PreferencesInv, ListProjects
  PROVE  PreferencesInv'
<1>1. /\ PreferenceTypes /\ PreferencesStored /\ InMemory /\ doing.command = "none" /\ doing.app = "running"
      /\ Decodes(store.rows) /\ UNCHANGED <<store, disk, doing>> /\ store.rows \in SUBSET Bookmark
  BY DEF PreferencesInv, ListProjects, NoCommand, PreferenceTypes, Preference
<1>2. shown' \in ShownThing /\ shown'.clients = shown.clients /\ shown'.rows = store.rows
  BY <1>1 DEF ListProjects, PreferenceTypes, ShownThing
<1>3. InMemory'
  BY <1>1, <1>2 DEF InMemory
<1>4. PreferencesStored'
  BY <1>1, <1>2 DEF PreferencesStored, InMemory
<1> QED
  BY <1>1, <1>2, <1>3, <1>4 DEF PreferencesInv, PreferenceTypes

LEMMA StopInv ==
  ASSUME PreferencesInv, Stop
  PROVE  PreferencesInv'
<1>1. /\ PreferenceTypes /\ PreferencesStored /\ InMemory /\ doing.app = "running" /\ IsFiniteSet(disk.rows)
      /\ 0 \notin shown.clients /\ UNCHANGED store
  BY DEF PreferencesInv, Stop
<1>2. doing' \in CommandState /\ doing'.command = "none" /\ doing'.app = "off"
  BY DEF Stop, NotBegun, Idle, CommandState
<1>3. shown' \in ShownThing /\ ~shown'.asked /\ shown'.listed = shown.listed /\ shown'.clients = shown.clients
  BY <1>1 DEF Stop, PreferenceTypes, ShownThing
<1>4. /\ disk' \in Preference /\ IsFiniteSet(disk'.rows)
      /\ disk' = disk \/ disk' = store \/ ~disk'.whole
  BY <1>1 DEF Stop, PreferenceTypes, Preference
<1>5. PreferencesStored'
  BY <1>1, <1>3, <1>4 DEF PreferencesStored, InMemory
<1> QED
  BY <1>1, <1>2, <1>3, <1>4, <1>5 DEF PreferencesInv, PreferenceTypes

LEMMA ExitSavesInv ==
  ASSUME PreferencesInv, ExitSaves
  PROVE  PreferencesInv'
<1>1. /\ PreferenceTypes /\ PreferencesStored /\ InMemory /\ doing.command = "none"
      /\ 0 \notin shown.clients /\ UNCHANGED <<store, shown>> /\ disk' = store
  BY DEF PreferencesInv, ExitSaves, NoCommand
<1>2. doing' \in CommandState /\ doing'.command = "none" /\ doing'.app = "off"
  BY DEF ExitSaves, NotBegun, Idle, CommandState
<1>3. PreferencesStored'
  BY <1>1 DEF PreferencesStored, InMemory
<1> QED
  BY <1>1, <1>2, <1>3 DEF PreferencesInv, PreferenceTypes

LEMMA PreferencesNextInv == PreferencesInv /\ [PreferencesNext]_preferenceVars => PreferencesInv'
<1> SUFFICES ASSUME PreferencesInv, [PreferencesNext]_preferenceVars
             PROVE  PreferencesInv'
  OBVIOUS
<1>1. CASE UNCHANGED preferenceVars
  BY <1>1 DEF preferenceVars, PreferencesInv, PreferenceTypes, InMemory, PreferencesStored
<1>2. CASE PreferencesNext
  BY <1>2, CommandsInv, SaveSucceedsInv, SaveFailsInv, LoadStoreInv, ListProjectsInv, StopInv, ExitSavesInv
     DEF PreferencesNext
<1> QED
  BY <1>1, <1>2

\* Whatever is changed, fails, is cut off or crashes: what a list has shown is on disk, what
\* could be listed once always can be, and the identity in use is the stored one
\* (preferences.rs, preferences/projects.rs).
THEOREM PreferencesAreStored == PreferencesSpec => []PreferencesStored
<1>1. PreferencesInv => PreferencesStored
  BY DEF PreferencesInv
<1> QED
  BY <1>1, PreferencesInitInv, PreferencesNextInv, PTL DEF PreferencesSpec
-----------------------------------------------------------------------------
(* Profiles *)

AppSteps == {"off", "key", "create", "load", "stage", "sync", "remove", "running", "refused"}
Keys  == [modern : Nat, legacy : Nat, marker : BOOLEAN, kept : BOOLEAN]
App   == [step : AppSteps, key : Nat, config : Nat, writing : Nat]
Past  == [saved : Nat, tries : Nat, crashes : Nat, lost : BOOLEAN]

ProfileTypes ==
  /\ vault \in Vault \union {NoVault} /\ durable \in Vault \union {NoVault}
  /\ plain \in {0, 1} /\ keys \in Keys /\ app \in App /\ past \in Past

\* A vault that a start may find.
LoadsAsSaved(left) == left.synced /\ left.version >= past.saved /\ left.key = NextKey

\* What is on disk: each vault a start may find, or the plaintext, holds what was saved.
OnDisk ==
  /\ vault = NoVault => durable = NoVault
  /\ durable = NoVault => past.saved = plain
  /\ \A left \in {vault, durable} : left # NoVault => LoadsAsSaved(left)
  /\ keys.marker \/ keys.kept => keys.modern # 0
  /\ past.saved <= past.tries /\ past.tries >= 1

\* What the process has in hand: a key that is stored or that nothing contradicts, and a
\* version that is no older than what was saved.
InHand ==
  /\ app.step \in {"load", "stage", "sync", "remove", "running"} => keys.modern # 0 /\ app.key = keys.modern
  /\ app.step = "create" =>
       /\ keys.modern = 0 /\ ~keys.marker /\ app.key # 0
       /\ IF keys.legacy # 0 THEN app.key = keys.legacy ELSE vault = NoVault
  /\ app.config # 0 => app.step \in {"stage", "sync", "running"}
  /\ app.step \in {"stage", "sync"} => past.saved <= app.writing /\ app.writing <= past.tries
  /\ app.step \in {"sync", "remove"} => vault # NoVault /\ vault.version = app.writing

\* A vault whose key is gone: no process gets past its first step.
KeyIsGone ==
  /\ vault = Old(1) /\ durable = vault
  /\ keys.modern = 0 /\ keys.legacy = 0 /\ ~keys.marker /\ ~keys.kept
  /\ app.step \in {"off", "key", "refused"} /\ app.config = 0

ProfilesInv == ProfileTypes /\ IF past.lost THEN KeyIsGone ELSE OnDisk /\ InHand

LEMMA OldVault == /\ Old(1) \in Vault /\ Old(1) # NoVault
                  /\ Old(1).synced /\ Old(1).version = 1 /\ Old(1).key = 1
<1>1. Old(1) \in Vault
  BY DEF Old, Vault
<1>2. Old(1).synced /\ Old(1).version = 1 /\ Old(1).key = 1
  BY DEF Old
<1> QED
  BY <1>1, <1>2, ProfilesAssumption

LEMMA ProfilesInitInv == ProfilesInit => ProfilesInv
<1> SUFFICES ASSUME ProfilesInit
             PROVE  ProfilesInv
  OBVIOUS
<1>1. PICK start \in {"new", "plain", "legacy", "modern", "lost"} :
        /\ plain = IF start = "plain" THEN 1 ELSE 0
        /\ vault = IF start \in {"new", "plain"} THEN NoVault ELSE Old(1)
        /\ keys = [modern |-> IF start = "modern" THEN 1 ELSE 0, legacy |-> IF start = "legacy" THEN 1 ELSE 0,
                   marker |-> start = "modern", kept |-> start = "modern"]
        /\ past = [saved |-> IF start = "new" THEN 0 ELSE 1, tries |-> 1, crashes |-> 0, lost |-> start = "lost"]
  BY DEF ProfilesInit
<1>2. /\ plain = (IF start = "plain" THEN 1 ELSE 0)
      /\ vault = (IF start \in {"new", "plain"} THEN NoVault ELSE Old(1))
      /\ keys.modern = (IF start = "modern" THEN 1 ELSE 0) /\ keys.legacy = (IF start = "legacy" THEN 1 ELSE 0)
      /\ keys.marker <=> start = "modern"
      /\ keys.kept <=> start = "modern"
      /\ past.saved = (IF start = "new" THEN 0 ELSE 1) /\ past.tries = 1
      /\ past.lost <=> start = "lost"
  BY <1>1
<1>3. durable = vault /\ app.step = "off" /\ app.config = 0 /\ app \in App
  BY DEF ProfilesInit, Off, App, AppSteps
<1>4. Old(1) \in Vault /\ Old(1) # NoVault /\ Old(1).synced /\ Old(1).version = 1 /\ Old(1).key = 1
  BY OldVault
<1>5. ProfileTypes
  <2>1. keys \in Keys
    BY <1>1 DEF Keys
  <2>2. past \in Past
    BY <1>1 DEF Past
  <2> QED  BY <1>2, <1>3, <1>4, <2>1, <2>2 DEF ProfileTypes
<1>6. CASE start = "lost"
  BY <1>2, <1>3, <1>5, <1>6 DEF ProfilesInv, KeyIsGone
<1>7. CASE start # "lost"
  <2>1. OnDisk
    BY <1>1, <1>2, <1>3, <1>4, <1>7 DEF OnDisk, LoadsAsSaved, NextKey
  <2>2. InHand
    BY <1>3 DEF InHand
  <2> QED  BY <1>2, <1>5, <1>7, <2>1, <2>2 DEF ProfilesInv
<1> QED
  BY <1>6, <1>7

\* A vault whose key is gone, and a process that does not get past its first step.
LEMMA StaysGone ==
  ASSUME ProfilesInv, past.lost, UNCHANGED <<vault, durable, plain, keys, past>>,
         app' \in App, app'.step \in {"off", "key", "refused"}, app'.config = 0
  PROVE  ProfilesInv'
BY DEF ProfilesInv, ProfileTypes, KeyIsGone, Old

LEMMA KeyIsThere ==
  ASSUME ProfilesInv, app.step \notin {"off", "key", "refused"}
  PROVE  ~past.lost /\ ProfileTypes /\ OnDisk /\ InHand
BY DEF ProfilesInv, KeyIsGone

\* What a process does with its key touches nothing on disk but the keys.
LEMMA DiskStays ==
  ASSUME ProfilesInv, ~past.lost, UNCHANGED <<vault, durable, plain, past>>,
         keys' \in Keys, app' \in App, keys'.marker \/ keys'.kept => keys'.modern # 0,
         vault # NoVault => NextKey' = NextKey, InHand'
  PROVE  ProfilesInv'
<1>1. ProfileTypes /\ OnDisk
  BY DEF ProfilesInv
<1>2. ASSUME NEW left \in {vault, durable}, left # NoVault
      PROVE  left.synced /\ left.version >= past.saved /\ left.key = NextKey'
  <2>1. vault # NoVault /\ left.synced /\ left.version >= past.saved /\ left.key = NextKey
    BY <1>1, <1>2 DEF OnDisk, LoadsAsSaved
  <2> QED  BY <2>1
<1>3. OnDisk'
  BY <1>1, <1>2 DEF OnDisk, LoadsAsSaved
<1> QED
  BY <1>1, <1>3 DEF ProfilesInv, ProfileTypes

LEMMA StepOfApp ==
  ASSUME NEW step \in AppSteps, app \in App, app' = [app EXCEPT !.step = step]
  PROVE  /\ app' \in App /\ app'.step = step /\ app'.key = app.key /\ app'.config = app.config
         /\ app'.writing = app.writing
BY DEF App

LEMMA LaunchedInv ==
  ASSUME ProfilesInv, Launched
  PROVE  ProfilesInv'
<1>1. ProfileTypes /\ app \in App /\ keys \in Keys
  BY DEF ProfilesInv, ProfileTypes
<1>2. app.step = "off" /\ app' = [app EXCEPT !.step = "key"] /\ UNCHANGED <<vault, durable, plain, keys, past>>
  BY DEF Launched, Become
<1>3. app' \in App /\ app'.step = "key" /\ app'.config = app.config
  BY <1>1, <1>2, StepOfApp DEF AppSteps
<1>4. CASE past.lost
  BY <1>2, <1>3, <1>4, StaysGone DEF ProfilesInv, KeyIsGone
<1>5. CASE ~past.lost
  <2>1. OnDisk /\ InHand
    BY <1>5 DEF ProfilesInv
  <2>2. InHand' /\ NextKey' = NextKey /\ (keys'.marker \/ keys'.kept => keys'.modern # 0)
    BY <1>2, <1>3, <2>1 DEF InHand, NextKey, OnDisk
  <2> QED  BY <1>1, <1>2, <1>3, <1>5, <2>2, DiskStays
<1> QED
  BY <1>4, <1>5

LEMMA RefuseInv ==
  ASSUME ProfilesInv, Refuse
  PROVE  ProfilesInv'
<1>1. ProfileTypes /\ app \in App /\ keys \in Keys
  BY DEF ProfilesInv, ProfileTypes
<1>2. /\ app.step \in {"key", "create", "stage", "sync", "remove"} /\ UNCHANGED <<vault, durable, plain, keys, past>>
      /\ app' = [step |-> IF app.config = 0 THEN "refused" ELSE "running", key |-> app.key, config |-> app.config,
                 writing |-> 0]
  BY DEF Refuse, Off
<1>3. /\ app' \in App /\ app'.step = (IF app.config = 0 THEN "refused" ELSE "running")
      /\ app'.key = app.key /\ app'.config = app.config
  BY <1>1, <1>2 DEF App, AppSteps
<1>4. CASE past.lost
  BY <1>2, <1>3, <1>4, StaysGone DEF ProfilesInv, KeyIsGone
<1>5. CASE ~past.lost
  <2>1. OnDisk /\ InHand
    BY <1>5 DEF ProfilesInv
  <2>2. InHand'
    BY <1>2, <1>3, <2>1 DEF InHand
  <2>3. NextKey' = NextKey /\ (keys'.marker \/ keys'.kept => keys'.modern # 0)
    BY <1>2, <2>1 DEF NextKey, OnDisk
  <2> QED  BY <1>1, <1>2, <1>3, <1>5, <2>2, <2>3, DiskStays
<1> QED
  BY <1>4, <1>5

LEMMA TakeModernInv ==
  ASSUME ProfilesInv, TakeModern
  PROVE  ProfilesInv'
<1>1. ProfileTypes /\ app \in App /\ keys \in Keys
  BY DEF ProfilesInv, ProfileTypes
<1>2. /\ app.step = "key" /\ keys.modern # 0 /\ UNCHANGED <<vault, durable, plain, past>>
      /\ keys' = [keys EXCEPT !.marker = TRUE]
      /\ app' = [app EXCEPT !.step = "load", !.key = keys.modern]
  BY DEF TakeModern
<1>3. app' \in App /\ app'.step = "load" /\ app'.key = keys.modern /\ app'.config = app.config
  BY <1>1, <1>2 DEF App, Keys, AppSteps
<1>4. keys' \in Keys /\ keys'.modern = keys.modern /\ keys'.legacy = keys.legacy
  BY <1>1, <1>2 DEF Keys
<1>5. ~past.lost /\ InHand
  BY <1>2 DEF ProfilesInv, KeyIsGone
<1>6. NextKey' = NextKey
  BY <1>2, <1>4 DEF NextKey
<1>7. InHand'
  BY <1>2, <1>3, <1>4, <1>5 DEF InHand
<1> QED
  BY <1>2, <1>3, <1>4, <1>5, <1>6, <1>7, DiskStays

LEMMA TakeLegacyInv ==
  ASSUME ProfilesInv, TakeLegacy
  PROVE  ProfilesInv'
<1>1. ProfileTypes /\ app \in App /\ keys \in Keys
  BY DEF ProfilesInv, ProfileTypes
<1>2. /\ app.step = "key" /\ keys.modern = 0 /\ ~keys.marker /\ UNCHANGED <<vault, durable, plain, keys, past>>
      /\ keys.legacy # 0 \/ vault = NoVault
      /\ app' = [app EXCEPT !.step = "create", !.key = IF keys.legacy # 0 THEN keys.legacy ELSE 2]
  BY DEF TakeLegacy
<1>3. /\ app' \in App /\ app'.step = "create" /\ app'.config = app.config
      /\ app'.key = (IF keys.legacy # 0 THEN keys.legacy ELSE 2)
  BY <1>1, <1>2 DEF App, Keys, AppSteps
<1>4. ~past.lost /\ OnDisk /\ InHand
  BY <1>2, OldVault DEF ProfilesInv, KeyIsGone
<1>5. NextKey' = NextKey /\ (keys'.marker \/ keys'.kept => keys'.modern # 0)
  BY <1>2, <1>4 DEF NextKey, OnDisk
<1>6. InHand'
  BY <1>2, <1>3, <1>4 DEF InHand
<1> QED
  BY <1>1, <1>2, <1>3, <1>4, <1>5, <1>6, DiskStays

LEMMA CreateInv ==
  ASSUME ProfilesInv, Create
  PROVE  ProfilesInv'
<1>1. ~past.lost /\ ProfileTypes /\ OnDisk /\ InHand /\ app \in App /\ keys \in Keys
  BY KeyIsThere DEF Create, ProfileTypes
<1>2. /\ app.step = "create" /\ UNCHANGED <<vault, durable, plain, past>>
      /\ keys' = [keys EXCEPT !.modern = app.key] /\ app' = [app EXCEPT !.step = "key"]
  BY DEF Create, Become
<1>3. app' \in App /\ app'.step = "key" /\ app'.config = app.config
  BY <1>1, <1>2, StepOfApp DEF AppSteps
<1>4. keys' \in Keys /\ keys'.modern = app.key
  BY <1>1, <1>2 DEF Keys, App
<1>5. /\ keys.modern = 0 /\ ~keys.marker /\ app.key # 0
      /\ IF keys.legacy # 0 THEN app.key = keys.legacy ELSE vault = NoVault
  BY <1>1, <1>2 DEF InHand
<1>6. vault # NoVault => NextKey' = NextKey
  BY <1>4, <1>5 DEF NextKey
<1>7. InHand'
  BY <1>1, <1>2, <1>3 DEF InHand
<1> QED
  BY <1>1, <1>2, <1>3, <1>4, <1>5, <1>6, <1>7, DiskStays

\* A load and a save begin with what is on disk.
LEMMA LoadInv ==
  ASSUME ProfilesInv, Load \/ LoadFails
  PROVE  ProfilesInv'
<1>1. /\ ~past.lost /\ ProfileTypes /\ OnDisk /\ InHand /\ app \in App /\ keys \in Keys
      /\ app.step = "load" /\ UNCHANGED <<vault, durable, plain, keys, past>>
  BY KeyIsThere DEF Load, LoadFails, ProfileTypes
<1>2. NextKey' = NextKey /\ (keys'.marker \/ keys'.kept => keys'.modern # 0)
  BY <1>1 DEF NextKey, OnDisk
<1>3. CASE Load /\ vault = NoVault
  <2>1. app' = [app EXCEPT !.step = "stage", !.writing = IF plain = 0 THEN 1 ELSE plain]
    BY <1>3 DEF Load
  <2>2. /\ app' \in App /\ app'.step = "stage" /\ app'.key = app.key /\ app'.config = app.config
        /\ app'.writing = (IF plain = 0 THEN 1 ELSE plain)
    <3>1. (IF plain = 0 THEN 1 ELSE plain) \in Nat
      BY <1>1 DEF ProfileTypes
    <3> QED  BY <1>1, <2>1, <3>1 DEF App, AppSteps
  <2>3. past.saved = plain /\ past.tries \in Nat
    BY <1>1, <1>3 DEF OnDisk, ProfileTypes, Past
  <2>4. past'.saved <= app'.writing /\ app'.writing <= past'.tries
    BY <1>1, <2>2, <2>3 DEF OnDisk, ProfileTypes
  <2>5. InHand'
    BY <1>1, <2>2, <2>4 DEF InHand
  <2> QED  BY <1>1, <1>2, <2>2, <2>5, DiskStays
<1>4. CASE Load /\ vault # NoVault
  <2>1. app' = [app EXCEPT !.step = "remove", !.writing = vault.version]
    BY <1>4 DEF Load
  <2>2. vault.version \in Nat
    BY <1>1, <1>4 DEF ProfileTypes, Vault
  <2>3. /\ app' \in App /\ app'.step = "remove" /\ app'.key = app.key /\ app'.config = app.config
        /\ app'.writing = vault.version
    BY <1>1, <2>1, <2>2 DEF App, AppSteps
  <2>4. InHand'
    BY <1>1, <1>4, <2>3 DEF InHand
  <2> QED  BY <1>1, <1>2, <2>3, <2>4, DiskStays
<1>5. CASE LoadFails
  <2>1. app' = [step |-> "refused", key |-> 0, config |-> 0, writing |-> 0]
    BY <1>5 DEF LoadFails, Off
  <2>2. app' \in App /\ app'.step = "refused" /\ app'.config = 0
    BY <2>1 DEF App, AppSteps
  <2>3. InHand'
    BY <2>2 DEF InHand
  <2> QED  BY <1>1, <1>2, <2>2, <2>3, DiskStays
<1> QED
  BY <1>3, <1>4, <1>5

LEMMA SaveInv ==
  ASSUME ProfilesInv, Save
  PROVE  ProfilesInv'
<1>1. /\ ~past.lost /\ ProfileTypes /\ OnDisk /\ InHand /\ app \in App /\ past \in Past
      /\ app.step = "running" /\ UNCHANGED <<vault, durable, plain, keys>>
      /\ past' = [past EXCEPT !.tries = @ + 1]
      /\ app' = [app EXCEPT !.step = "stage", !.writing = past.tries + 1]
  BY KeyIsThere DEF Save, ProfileTypes
<1>2. past.tries + 1 \in Nat /\ past.saved \in Nat /\ past.tries \in Nat
  BY <1>1 DEF Past
<1>3. /\ app' \in App /\ app'.step = "stage" /\ app'.key = app.key /\ app'.config = app.config
      /\ app'.writing = past.tries + 1
  BY <1>1, <1>2 DEF App, AppSteps
<1>4. past' \in Past /\ past'.saved = past.saved /\ past'.tries = past.tries + 1 /\ ~past'.lost
  BY <1>1, <1>2 DEF Past
<1>5. past.saved <= past.tries /\ past.tries >= 1
  BY <1>1 DEF OnDisk
<1>6. past'.saved <= past'.tries /\ past'.tries >= 1 /\ past'.saved <= app'.writing /\ app'.writing <= past'.tries
  BY <1>2, <1>3, <1>4, <1>5
<1>7. OnDisk'
  BY <1>1, <1>4, <1>6 DEF OnDisk, LoadsAsSaved, NextKey
<1>8. InHand'
  BY <1>1, <1>3, <1>6 DEF InHand
<1> QED
  BY <1>1, <1>3, <1>4, <1>7, <1>8 DEF ProfilesInv, ProfileTypes

\* What reaches the disk of the directory leaves the key as it is.
LEMMA KeptOnDisk ==
  ASSUME keys \in Keys, NEW kept \in BOOLEAN, keys' = [keys EXCEPT !.kept = kept]
  PROVE  /\ keys' \in Keys /\ NextKey' = NextKey /\ keys'.modern = keys.modern
         /\ keys'.legacy = keys.legacy /\ (keys'.marker <=> keys.marker) /\ (keys'.kept <=> kept)
BY DEF Keys, NextKey

LEMMA RemovePlaintextInv ==
  ASSUME ProfilesInv, RemovePlaintext
  PROVE  ProfilesInv'
<1>1. /\ ~past.lost /\ ProfileTypes /\ OnDisk /\ InHand
      /\ plain' = 0 /\ durable' = vault /\ UNCHANGED <<vault, past>>
      /\ keys' = [keys EXCEPT !.kept = keys.marker]
      /\ vault # NoVault /\ keys.modern # 0 /\ app.key = keys.modern
  BY KeyIsThere DEF RemovePlaintext, DirectoryOnDisk, InHand
<1>2. keys' \in Keys /\ NextKey' = NextKey /\ keys'.modern = keys.modern
  BY <1>1, KeptOnDisk DEF ProfileTypes, Keys
<1>3. app' \in App /\ app'.step = "running" /\ app'.key = app.key
  BY <1>1 DEF RemovePlaintext, ProfileTypes, App, AppSteps
<1>4. OnDisk'
  BY <1>1, <1>2 DEF OnDisk, LoadsAsSaved
<1>5. InHand'
  BY <1>1, <1>2, <1>3 DEF InHand
<1> QED
  BY <1>1, <1>2, <1>3, <1>4, <1>5 DEF ProfilesInv, ProfileTypes

\* The staged vault holds what is being written, under the key that the next start takes.
LEMMA StageInv ==
  ASSUME ProfilesInv, Stage
  PROVE  ProfilesInv'
<1>1. /\ ~past.lost /\ ProfileTypes /\ OnDisk /\ InHand
      /\ vault' = [version |-> app.writing, key |-> app.key, synced |-> TRUE]
      /\ UNCHANGED <<durable, plain, keys, past>>
      /\ app.step = "stage" /\ app' = [app EXCEPT !.step = "sync"]
      /\ keys.modern # 0 /\ app.key = keys.modern
      /\ past.saved <= app.writing /\ app.writing <= past.tries
  BY KeyIsThere DEF Stage, Become, InHand
<1>2. app' \in App /\ app'.step = "sync" /\ app'.key = app.key /\ app'.writing = app.writing
  BY <1>1 DEF ProfileTypes, App, AppSteps
<1>3. vault' \in Vault /\ vault' # NoVault /\ vault'.version = app.writing
  <2>1. app.writing \in Nat /\ app.key \in Nat
    BY <1>1 DEF ProfileTypes, App
  <2>2. vault' \in Vault
    BY <1>1, <2>1 DEF Vault
  <2>3. vault'.version = app.writing
    BY <1>1
  <2> QED  BY <2>2, <2>3, ProfilesAssumption
<1>4. OnDisk'
  BY <1>1, <1>3 DEF OnDisk, LoadsAsSaved, NextKey
<1>5. InHand'
  BY <1>1, <1>2, <1>3 DEF InHand
<1> QED
  BY <1>1, <1>2, <1>3, <1>4, <1>5 DEF ProfilesInv, ProfileTypes

\* The directory is on disk, and so is the version that has been saved.
LEMMA SyncDirectoryInv ==
  ASSUME ProfilesInv, SyncDirectory
  PROVE  ProfilesInv'
<1>1. /\ ~past.lost /\ ProfileTypes /\ OnDisk /\ InHand
      /\ durable' = vault /\ UNCHANGED <<vault, plain>>
      /\ keys' = [keys EXCEPT !.kept = keys.marker]
      /\ past' = [past EXCEPT !.saved = app.writing]
      /\ app.step = "sync" /\ vault # NoVault /\ vault.version = app.writing
      /\ keys.modern # 0 /\ app.key = keys.modern
      /\ past.saved <= app.writing /\ app.writing <= past.tries
  BY KeyIsThere DEF SyncDirectory, DirectoryOnDisk, Saved, InHand
<1>2. keys' \in Keys /\ NextKey' = NextKey /\ keys'.modern = keys.modern
  BY <1>1, KeptOnDisk DEF ProfileTypes, Keys
<1>3. /\ app' \in App /\ app'.key = app.key
      /\ \/ app'.step = "remove" /\ app'.config = 0 /\ app'.writing = app.writing
         \/ app'.step = "running"
  BY <1>1 DEF SyncDirectory, Saved, ProfileTypes, App, AppSteps
<1>4. past' \in Past /\ ~past'.lost /\ past'.saved = app.writing /\ past'.tries = past.tries
  BY <1>1 DEF ProfileTypes, Past, App
<1>5. OnDisk'
  <2>1. LoadsAsSaved(vault)
    BY <1>1 DEF OnDisk
  <2>2. vault.synced /\ vault.version >= app.writing /\ vault.key = NextKey
    BY <1>1, <2>1 DEF LoadsAsSaved, ProfileTypes, App
  <2> QED  BY <1>1, <1>2, <1>4, <2>2 DEF OnDisk, LoadsAsSaved
<1>6. InHand'
  BY <1>1, <1>2, <1>3, <1>4 DEF InHand
<1> QED
  BY <1>1, <1>2, <1>3, <1>4, <1>5, <1>6 DEF ProfilesInv, ProfileTypes

LEMMA ComputerInv ==
  ASSUME ProfilesInv, WriteBack \/ CrashOrPowerLoss
  PROVE  ProfilesInv'
<1>1. /\ ProfileTypes /\ keys \in Keys /\ plain' = plain
      /\ vault' \in {vault, durable} /\ durable' \in {vault, durable}
  BY DEF ProfilesInv, ProfileTypes, WriteBack, CrashOrPowerLoss, DirectoryOnDisk
<1>2. /\ app' \in App /\ past' \in Past
      /\ past'.saved = past.saved /\ past'.tries = past.tries /\ (past'.lost <=> past.lost)
  BY <1>1 DEF WriteBack, CrashOrPowerLoss, Off, ProfileTypes, App, Past, AppSteps
<1>3. \/ app' = app /\ vault' = vault /\ durable' = vault /\ keys' = [keys EXCEPT !.kept = keys.marker]
      \/ app' = Off /\ durable' = durable /\ (keys' = keys \/ keys' = [keys EXCEPT !.marker = keys.kept])
  BY DEF WriteBack, CrashOrPowerLoss, DirectoryOnDisk
<1>4. /\ keys' \in Keys /\ keys'.modern = keys.modern /\ keys'.legacy = keys.legacy
      /\ keys'.marker \/ keys'.kept => keys.marker \/ keys.kept
      /\ app' = Off \/ (app' = app /\ (keys'.marker <=> keys.marker))
  BY <1>1, <1>3 DEF Keys
<1>5. CASE past.lost
  BY <1>1, <1>2, <1>3, <1>4, <1>5 DEF ProfilesInv, KeyIsGone, ProfileTypes, Old, Off
<1>6. CASE ~past.lost
  <2>1. OnDisk /\ InHand
    BY <1>6 DEF ProfilesInv
  <2>2. NextKey' = NextKey
    BY <1>4, <2>1 DEF NextKey, OnDisk
  <2>3. OnDisk'
    BY <1>1, <1>2, <1>3, <1>4, <2>1, <2>2 DEF OnDisk, LoadsAsSaved
  <2>4. InHand'
    BY <1>1, <1>2, <1>3, <1>4, <2>1 DEF InHand, Off
  <2> QED  BY <1>1, <1>2, <1>4, <1>6, <2>3, <2>4 DEF ProfilesInv, ProfileTypes
<1> QED
  BY <1>5, <1>6

LEMMA ProfilesNextInv == ProfilesInv /\ [ProfilesNext]_profileVars => ProfilesInv'
<1> SUFFICES ASSUME ProfilesInv, [ProfilesNext]_profileVars
             PROVE  ProfilesInv'
  OBVIOUS
<1>1. CASE UNCHANGED profileVars
  BY <1>1 DEF profileVars, ProfilesInv, ProfileTypes, KeyIsGone, OnDisk, InHand, LoadsAsSaved, NextKey
<1>2. CASE ProfilesNext
  BY <1>2, LaunchedInv, RefuseInv, TakeModernInv, TakeLegacyInv, CreateInv, LoadInv, RemovePlaintextInv, SaveInv, StageInv,
            SyncDirectoryInv, ComputerInv DEF ProfilesNext
<1> QED
  BY <1>1, <1>2

\* Wherever a start, an import or a save is cut off, by a crash or a power loss: what was
\* saved with success is there, whole, with the key that the next start takes; and a vault
\* whose key is missing is left as it is (vault.rs, migration/credentials.rs,
\* migration/profile.rs).
THEOREM ProfilesAreKept == ProfilesSpec => []AcknowledgedLoads
<1>1. ProfilesSpec => []ProfilesInv
  BY ProfilesInitInv, ProfilesNextInv, PTL DEF ProfilesSpec
<1>2. ProfilesInv => AcknowledgedLoads
  BY DEF ProfilesInv, KeyIsGone, OnDisk, LoadsAsSaved, AcknowledgedLoads
<1> QED
  BY <1>1, <1>2, PTL
-----------------------------------------------------------------------------
(* Metrics *)

ServerState == [saved : BOOLEAN, revision : Nat \ {0}, settings : Nat, writing : BOOLEAN]
ServerReading == [ok : BOOLEAN, revision : Nat, began : Nat, done : Nat, settings : Nat, marked : BOOLEAN]
Gated       == {"gated", "checked", "reading", "read", "guarded", "recording", "publishing"}
Guarded     == {"guarded", "recording", "publishing"}
JobState    == [pc : Gated \union {"absent", "idle", "waiting", "answered"}, revision : Nat, requested : Nat,
                reading : ServerReading]
ViewState   == [pc : {"idle", "looking", "missed", "asleep"}, revision : Nat, woken : BOOLEAN]

MetricTypes ==
  /\ server \in ServerState /\ latest \in ServerReading
  /\ reads \in [begun : Nat, completed : Nat]
  /\ job \in [Job -> JobState] /\ view \in [View -> ViewState]
  /\ gate \in Job \union {Free} /\ barrier \in Job \union {Free, "save", "clear"}

\* Revision and settings move together; a save holds the barrier from the one to the other.
ServerInv ==
  /\ server.writing <=> barrier = "save"
  /\ server.settings = IF server.writing THEN server.revision + 1 ELSE server.revision

\* The cached reading: the last one to complete, or an older one that was marked.
LatestInv ==
  /\ latest.revision = 0 => latest.began = 0
  /\ latest.began <= reads.begun
  /\ latest.revision # 0 /\ ~latest.marked => latest.done = reads.completed

\* A call of sample: what it holds, and of which settings its reading is.
JobInv(j) ==
  /\ job[j].pc \in Gated <=> gate = j
  /\ job[j].pc \in Guarded <=> barrier = j
  /\ job[j].pc \in Gated \union {"waiting"} => /\ 0 < job[j].revision /\ job[j].revision <= server.revision
                                               /\ job[j].requested <= reads.completed
  /\ job[j].pc \in {"reading", "read"} \union Guarded =>
       /\ job[j].reading.revision = job[j].revision /\ ~job[j].reading.marked
       /\ job[j].reading.began = reads.begun
       /\ job[j].revision <= job[j].reading.settings /\ job[j].reading.settings <= server.settings
  /\ job[j].pc \in {"recording", "publishing"} => server.saved /\ server.revision = job[j].revision
  /\ job[j].pc = "answered" /\ job[j].reading.ok /\ ~job[j].reading.marked => job[j].reading.done > job[j].requested

ViewInv(v) ==
  /\ view[v].pc # "idle" => view[v].revision # 0
  /\ view[v].pc \in {"missed", "asleep"} /\ Cached(view[v].revision) => view[v].woken

MetricsInv ==
  MetricTypes /\ ServerInv /\ LatestInv /\ (\A j \in Job : JobInv(j)) /\ \A v \in View : ViewInv(v)

LEMMA MetricsInitInv == MetricsInit => MetricsInv
<1> SUFFICES ASSUME MetricsInit
             PROVE  MetricsInv
  OBVIOUS
<1>1. NoReading \in ServerReading /\ NoReading.revision = 0 /\ NoReading.began = 0
  BY DEF NoReading, ServerReading
<1>2. \A j \in Job : /\ job[j] \in JobState /\ job[j].pc \in {"absent", "idle"}
  BY <1>1 DEF MetricsInit, Resting, JobState
<1>3. \A v \in View : view[v] \in ViewState /\ view[v].pc = "idle"
  BY DEF MetricsInit, ViewState
<1>4. MetricTypes
  <2>1. job = [j \in Job |-> job[j]] /\ view = [v \in View |-> view[v]]
    BY DEF MetricsInit
  <2>2. server \in ServerState /\ reads \in [begun : Nat, completed : Nat]
    BY DEF MetricsInit, ServerState
  <2> QED  BY <1>1, <1>2, <1>3, <2>1, <2>2 DEF MetricTypes, MetricsInit
<1>5. ServerInv
  BY MetricsAssumption DEF MetricsInit, ServerInv
<1>6. LatestInv
  BY <1>1 DEF MetricsInit, LatestInv
<1>7. ASSUME NEW j \in Job
      PROVE  JobInv(j)
  BY <1>2, MetricsAssumption DEF MetricsInit, JobInv, Gated, Guarded
<1>8. ASSUME NEW v \in View
      PROVE  ViewInv(v)
  BY <1>3 DEF ViewInv
<1> QED
  BY <1>4, <1>5, <1>6, <1>7, <1>8 DEF MetricsInv

\* A step of one job: the others keep what they hold, and their readings.
LEMMA StepOfJob ==
  ASSUME NEW j \in Job, MetricsInv, MetricTypes', LatestInv', JobInv(j)', \A v \in View : ViewInv(v)',
         server' = server,
         \A k \in Job \ {j} : job'[k] = job[k],
         reads.completed <= reads'.completed,
         \/ reads'.begun = reads.begun
         \/ gate = j,
         \/ gate' = gate
         \/ gate = Free /\ gate' = j
         \/ gate = j /\ gate' = Free,
         \/ barrier' = barrier
         \/ barrier = Free /\ barrier' = j
         \/ barrier = j /\ barrier' = Free
  PROVE  MetricsInv'
<1>1. ServerInv'
  BY MetricsAssumption DEF MetricsInv, ServerInv
<1>2. ASSUME NEW k \in Job \ {j}
      PROVE  JobInv(k)'
  <2>1. JobInv(k) /\ job'[k] = job[k] /\ k # Free
    BY MetricsAssumption DEF MetricsInv
  <2>2. /\ job'[k].pc \in Gated <=> gate' = k
        /\ job'[k].pc \in Guarded <=> barrier' = k
    BY <2>1 DEF JobInv
  <2>3. job[k].pc \in {"reading", "read"} \union Guarded => reads'.begun = reads.begun
    BY <2>1 DEF JobInv, Gated, Guarded
  <2>4. job[k].pc \in Gated \union {"waiting"} => job[k].requested <= reads'.completed
    <3>1. reads.completed \in Nat /\ reads'.completed \in Nat /\ job[k].requested \in Nat
      BY DEF MetricsInv, MetricTypes, JobState
    <3> QED  BY <2>1, <3>1 DEF JobInv
  <2> QED  BY <2>1, <2>2, <2>3, <2>4 DEF JobInv
<1> QED
  BY <1>1, <1>2 DEF MetricsInv

LEMMA OnlyPc ==
  ASSUME NEW j \in Job, NEW pc \in Gated \union {"absent", "idle", "waiting", "answered"},
         job \in [Job -> JobState], job' = [job EXCEPT ![j].pc = pc]
  PROVE  /\ job' \in [Job -> JobState]
         /\ \A k \in Job \ {j} : job'[k] = job[k]
         /\ job'[j].pc = pc /\ job'[j].revision = job[j].revision
         /\ job'[j].requested = job[j].requested /\ job'[j].reading = job[j].reading
BY DEF JobState

LEMMA WithReading ==
  ASSUME NEW j \in Job, NEW pc \in Gated \union {"absent", "idle", "waiting", "answered"}, NEW reading \in ServerReading,
         job \in [Job -> JobState], job' = [job EXCEPT ![j].pc = pc, ![j].reading = reading]
  PROVE  /\ job' \in [Job -> JobState]
         /\ \A k \in Job \ {j} : job'[k] = job[k]
         /\ job'[j].pc = pc /\ job'[j].revision = job[j].revision
         /\ job'[j].requested = job[j].requested /\ job'[j].reading = reading
BY DEF JobState

LEMMA WholeJob ==
  ASSUME NEW j \in Job, NEW state \in JobState, job \in [Job -> JobState], job' = [job EXCEPT ![j] = state]
  PROVE  /\ job' \in [Job -> JobState]
         /\ \A k \in Job \ {j} : job'[k] = job[k]
         /\ job'[j] = state
OBVIOUS

\* Views and the cached reading are not touched.
LEMMA ViewsStay ==
  ASSUME MetricsInv, UNCHANGED <<latest, view>>
  PROVE  \A v \in View : ViewInv(v)'
BY DEF MetricsInv, ViewInv, Cached

LEMMA RequestInv ==
  ASSUME NEW j \in Job, MetricsInv, Request(j)
  PROVE  MetricsInv'
<1>1. /\ MetricTypes /\ JobInv(j) /\ LatestInv /\ job[j] \in JobState /\ server.revision \in Nat \ {0}
      /\ reads.completed \in Nat /\ job[j].revision \in Nat
  BY DEF MetricsInv, MetricTypes, ServerState, JobState
<1>2. /\ job[j].pc \in {"idle", "answered"} /\ UNCHANGED <<server, barrier, gate, reads, latest, view>>
      /\ j = Worker => job[j].revision = server.revision
  BY DEF Request, Current
<1>3. PICK state : state = [Resting EXCEPT !.pc = "waiting", !.requested = reads.completed,
                                           !.revision = IF j = Worker THEN job[j].revision ELSE server.revision]
  OBVIOUS
<1>4. state.pc = "waiting" /\ state.requested = reads.completed /\ state.revision = server.revision
  BY <1>2, <1>3 DEF Resting
<1>5. state \in JobState
  <2>1. NoReading \in ServerReading
    BY DEF NoReading, ServerReading
  <2>2. state = [pc |-> "waiting", revision |-> server.revision, requested |-> reads.completed, reading |-> NoReading]
    BY <1>2, <1>3 DEF Resting
  <2> QED  BY <1>1, <2>1, <2>2 DEF JobState
<1>6. /\ job' \in [Job -> JobState] /\ \A k \in Job \ {j} : job'[k] = job[k]
      /\ job'[j] = state
  <2>1. job' = [job EXCEPT ![j] = state] /\ job \in [Job -> JobState]
    BY <1>1, <1>3 DEF Request, MetricTypes
  <2> QED  BY <1>5, <2>1, WholeJob
<1>7. JobInv(j)'
  BY <1>1, <1>2, <1>4, <1>6 DEF JobInv, Gated, Guarded
<1>8. MetricTypes' /\ LatestInv' /\ \A v \in View : ViewInv(v)'
  BY <1>1, <1>2, <1>6, ViewsStay DEF MetricTypes, LatestInv
<1> QED
  BY <1>1, <1>2, <1>6, <1>7, <1>8, StepOfJob

\* Steps that move a job and take or drop what it holds.
LEMMA MoveInv ==
  ASSUME NEW j \in Job, MetricsInv,
         \/ TakeGate(j) \/ Obsolete(j) \/ Check(j) \/ TakeBarrier(j) \/ Verify(j)
         \/ \E stored \in BOOLEAN : Record(j, stored)
  PROVE  MetricsInv'
<1>1. /\ MetricTypes /\ JobInv(j) /\ LatestInv /\ ServerInv /\ UNCHANGED <<server, reads, latest, view>>
      /\ job \in [Job -> JobState] /\ gate \in Job \union {Free} /\ barrier \in Job \union {Free, "save", "clear"}
      /\ j \notin {Free, "save", "clear"}
  BY MetricsAssumption DEF MetricsInv, MetricTypes, TakeGate, Obsolete, Check, TakeBarrier, Verify, Record
<1>2. LatestInv' /\ \A v \in View : ViewInv(v)'
  BY <1>1, ViewsStay DEF LatestInv
<1>3. CASE TakeGate(j)
  <2>1. gate = Free /\ gate' = j /\ barrier' = barrier /\ job[j].pc = "waiting" /\ job' = [job EXCEPT ![j].pc = "gated"]
    BY <1>3 DEF TakeGate
  <2>2. /\ job' \in [Job -> JobState] /\ \A k \in Job \ {j} : job'[k] = job[k]
        /\ job'[j].pc = "gated" /\ job'[j].revision = job[j].revision
        /\ job'[j].requested = job[j].requested /\ job'[j].reading = job[j].reading
    BY <1>1, <2>1, OnlyPc DEF Gated
  <2>3. JobInv(j)'
    BY <1>1, <2>1, <2>2 DEF JobInv, Gated, Guarded
  <2>4. MetricTypes'
    BY <1>1, <2>1, <2>2 DEF MetricTypes
  <2> QED  BY <1>1, <1>2, <2>1, <2>2, <2>3, <2>4, StepOfJob DEF MetricTypes
<1>4. CASE Obsolete(j)
  <2>1. /\ job[j].pc \in {"gated", "guarded"} /\ job' = [job EXCEPT ![j].pc = "idle"]
        /\ gate' = (IF gate = j THEN Free ELSE gate) /\ barrier' = (IF barrier = j THEN Free ELSE barrier)
    BY <1>4 DEF Obsolete, Release
  <2>2. /\ job' \in [Job -> JobState] /\ \A k \in Job \ {j} : job'[k] = job[k]
        /\ job'[j].pc = "idle"
    BY <1>1, <2>1, OnlyPc
  <2>3. JobInv(j)'
    BY <1>1, <2>1, <2>2 DEF JobInv, Gated, Guarded
  <2>4. MetricTypes'
    BY <1>1, <2>1, <2>2 DEF MetricTypes
  <2> QED  BY <1>1, <1>2, <2>1, <2>2, <2>3, <2>4, StepOfJob DEF MetricTypes
<1>5. CASE Check(j)
  <2>1. job[j].pc = "gated" /\ job' = [job EXCEPT ![j].pc = "checked"] /\ UNCHANGED <<gate, barrier>>
    BY <1>5 DEF Check
  <2>2. /\ job' \in [Job -> JobState] /\ \A k \in Job \ {j} : job'[k] = job[k]
        /\ job'[j].pc = "checked" /\ job'[j].revision = job[j].revision
        /\ job'[j].requested = job[j].requested /\ job'[j].reading = job[j].reading
    BY <1>1, <2>1, OnlyPc DEF Gated
  <2>3. JobInv(j)'
    BY <1>1, <2>1, <2>2 DEF JobInv, Gated, Guarded
  <2>4. MetricTypes'
    BY <1>1, <2>1, <2>2 DEF MetricTypes
  <2> QED  BY <1>1, <1>2, <2>1, <2>2, <2>3, <2>4, StepOfJob DEF MetricTypes
<1>6. CASE TakeBarrier(j)
  <2>1. /\ job[j].pc = "read" /\ barrier = Free /\ barrier' = j /\ gate' = gate
        /\ job' = [job EXCEPT ![j].pc = "guarded"]
    BY <1>6 DEF TakeBarrier
  <2>2. /\ job' \in [Job -> JobState] /\ \A k \in Job \ {j} : job'[k] = job[k]
        /\ job'[j].pc = "guarded" /\ job'[j].revision = job[j].revision
        /\ job'[j].requested = job[j].requested /\ job'[j].reading = job[j].reading
    BY <1>1, <2>1, OnlyPc DEF Gated
  <2>3. JobInv(j)'
    BY <1>1, <2>1, <2>2 DEF JobInv, Gated, Guarded
  <2>4. MetricTypes'
    BY <1>1, <2>1, <2>2 DEF MetricTypes
  <2> QED  BY <1>1, <1>2, <2>1, <2>2, <2>3, <2>4, StepOfJob DEF MetricTypes
<1>7. CASE Verify(j)
  <2>1. /\ job[j].pc = "guarded" /\ UNCHANGED <<gate, barrier>>
        /\ server.saved /\ server.revision = job[j].revision
        /\ job' = [job EXCEPT ![j].pc = IF job[j].reading.ok THEN "recording" ELSE "publishing"]
    BY <1>7 DEF Verify, Current
  <2>2. PICK pc \in {"recording", "publishing"} : job' = [job EXCEPT ![j].pc = pc]
    BY <2>1
  <2>3. /\ job' \in [Job -> JobState] /\ \A k \in Job \ {j} : job'[k] = job[k]
        /\ job'[j].pc = pc /\ job'[j].revision = job[j].revision
        /\ job'[j].requested = job[j].requested /\ job'[j].reading = job[j].reading
    BY <1>1, <2>2, OnlyPc DEF Gated
  <2>4. JobInv(j)'
    BY <1>1, <2>1, <2>3 DEF JobInv, Gated, Guarded
  <2>5. MetricTypes'
    BY <1>1, <2>1, <2>3 DEF MetricTypes
  <2> QED  BY <1>1, <1>2, <2>1, <2>3, <2>4, <2>5, StepOfJob DEF MetricTypes
<1>8. CASE \E stored \in BOOLEAN : Record(j, stored)
  <2>1. job[j].pc = "recording" /\ job' = [job EXCEPT ![j].pc = "publishing"] /\ UNCHANGED <<gate, barrier>>
    BY <1>8 DEF Record
  <2>2. /\ job' \in [Job -> JobState] /\ \A k \in Job \ {j} : job'[k] = job[k]
        /\ job'[j].pc = "publishing" /\ job'[j].revision = job[j].revision
        /\ job'[j].requested = job[j].requested /\ job'[j].reading = job[j].reading
    BY <1>1, <2>1, OnlyPc DEF Gated
  <2>3. JobInv(j)'
    BY <1>1, <2>1, <2>2 DEF JobInv, Gated, Guarded
  <2>4. MetricTypes'
    BY <1>1, <2>1, <2>2 DEF MetricTypes
  <2> QED  BY <1>1, <1>2, <2>1, <2>2, <2>3, <2>4, StepOfJob DEF MetricTypes
<1> QED
  BY <1>3, <1>4, <1>5, <1>6, <1>7, <1>8

LEMMA ShareInv ==
  ASSUME NEW j \in Job, MetricsInv, Share(j)
  PROVE  MetricsInv'
<1>1. /\ MetricTypes /\ JobInv(j) /\ LatestInv /\ UNCHANGED <<server, reads, latest, view>>
      /\ job \in [Job -> JobState] /\ job[j] \in JobState /\ latest \in ServerReading
      /\ gate \in Job \union {Free} /\ barrier \in Job \union {Free, "save", "clear"}
      /\ j \notin {Free, "save", "clear"}
  BY MetricsAssumption DEF MetricsInv, MetricTypes, Share
<1>2. /\ job[j].pc = "checked" /\ reads.completed > job[j].requested /\ latest.revision = job[j].revision
      /\ job' = [job EXCEPT ![j].pc = "answered", ![j].reading = latest]
      /\ gate' = (IF gate = j THEN Free ELSE gate) /\ barrier' = (IF barrier = j THEN Free ELSE barrier)
  BY DEF Share, Shared, Cached, Release
<1>3. /\ job' \in [Job -> JobState] /\ \A k \in Job \ {j} : job'[k] = job[k]
      /\ job'[j].pc = "answered" /\ job'[j].requested = job[j].requested /\ job'[j].reading = latest
  BY <1>1, <1>2, WithReading
<1>4. ~latest.marked => latest.done > job[j].requested
  <2>1. latest.revision # 0
    BY <1>1, <1>2 DEF JobInv, Gated, JobState
  <2> QED  BY <1>1, <1>2, <2>1 DEF LatestInv
<1>5. JobInv(j)'
  BY <1>1, <1>2, <1>3, <1>4 DEF JobInv, Gated, Guarded
<1>6. MetricTypes' /\ LatestInv' /\ \A v \in View : ViewInv(v)'
  BY <1>1, <1>2, <1>3, ViewsStay DEF MetricTypes, LatestInv
<1> QED
  BY <1>1, <1>2, <1>3, <1>5, <1>6, StepOfJob DEF MetricTypes

LEMMA BeginReadInv ==
  ASSUME NEW j \in Job, MetricsInv, BeginRead(j)
  PROVE  MetricsInv'
<1>1. /\ MetricTypes /\ JobInv(j) /\ LatestInv /\ ServerInv /\ UNCHANGED <<server, barrier, gate, latest, view>>
      /\ job \in [Job -> JobState] /\ job[j] \in JobState /\ server \in ServerState
      /\ reads \in [begun : Nat, completed : Nat] /\ latest \in ServerReading
  BY DEF MetricsInv, MetricTypes, BeginRead
<1>2. PICK reading : reading = [NoReading EXCEPT !.revision = job[j].revision, !.began = reads.begun + 1,
                                                 !.settings = server.settings]
  OBVIOUS
<1>3. /\ job[j].pc = "checked" /\ reads' = [reads EXCEPT !.begun = @ + 1]
      /\ job' = [job EXCEPT ![j].pc = "reading", ![j].reading = reading]
  BY <1>2 DEF BeginRead
<1>4. /\ reading.revision = job[j].revision /\ reading.began = reads.begun + 1 /\ reading.settings = server.settings
      /\ ~reading.marked
  BY <1>2 DEF NoReading
<1>5. reading \in ServerReading
  <2>1. reading = [ok |-> FALSE, revision |-> job[j].revision, began |-> reads.begun + 1, done |-> 0,
                   settings |-> server.settings, marked |-> FALSE]
    BY <1>2 DEF NoReading
  <2>2. job[j].revision \in Nat /\ reads.begun + 1 \in Nat /\ server.settings \in Nat
    BY <1>1 DEF JobState, ServerState
  <2> QED  BY <2>1, <2>2 DEF ServerReading
<1>6. /\ job' \in [Job -> JobState] /\ \A k \in Job \ {j} : job'[k] = job[k]
      /\ job'[j].pc = "reading" /\ job'[j].revision = job[j].revision
      /\ job'[j].requested = job[j].requested /\ job'[j].reading = reading
  BY <1>1, <1>3, <1>5, WithReading DEF Gated
<1>7. reads' \in [begun : Nat, completed : Nat] /\ reads'.begun = reads.begun + 1 /\ reads'.completed = reads.completed
  BY <1>1, <1>3
<1>8. job[j].revision <= server.revision /\ server.revision <= server.settings /\ 0 < job[j].revision
  BY <1>1, <1>3 DEF JobInv, Gated, ServerInv, ServerState
<1>9. JobInv(j)'
  <2>1. job[j].revision <= server.settings
    BY <1>1, <1>8 DEF JobState, ServerState
  <2>2. server.settings \in Nat
    BY <1>1 DEF ServerState
  <2> QED  BY <1>1, <1>3, <1>4, <1>6, <1>7, <1>8, <2>1, <2>2 DEF JobInv, Gated, Guarded
<1>10. MetricTypes' /\ \A v \in View : ViewInv(v)'
  BY <1>1, <1>6, <1>7, ViewsStay DEF MetricTypes
<1>11. LatestInv'
  <2>1. latest.began \in Nat /\ reads.begun \in Nat
    BY <1>1 DEF ServerReading
  <2> QED  BY <1>1, <1>7, <2>1 DEF LatestInv
<1>12. gate = j /\ reads.completed <= reads'.completed
  BY <1>1, <1>3, <1>7 DEF JobInv, Gated
<1> QED
  BY <1>1, <1>6, <1>9, <1>10, <1>11, <1>12, StepOfJob

LEMMA EndReadInv ==
  ASSUME NEW j \in Job, NEW ok \in BOOLEAN, MetricsInv, EndRead(j, ok)
  PROVE  MetricsInv'
<1>1. /\ MetricTypes /\ JobInv(j) /\ LatestInv /\ UNCHANGED <<server, barrier, gate, reads, latest, view>>
      /\ job \in [Job -> JobState] /\ job[j].reading \in ServerReading /\ reads.completed \in Nat
  BY DEF MetricsInv, MetricTypes, EndRead, JobState
<1>2. PICK reading : reading = [job[j].reading EXCEPT !.ok = ok]
  OBVIOUS
<1>3. job[j].pc = "reading" /\ job' = [job EXCEPT ![j].pc = "read", ![j].reading = reading]
  BY <1>1, <1>2 DEF EndRead, JobState
<1>4. /\ reading \in ServerReading /\ reading.revision = job[j].reading.revision /\ reading.began = job[j].reading.began
      /\ reading.settings = job[j].reading.settings /\ (reading.marked <=> job[j].reading.marked)
  BY <1>1, <1>2 DEF ServerReading
<1>5. /\ job' \in [Job -> JobState] /\ \A k \in Job \ {j} : job'[k] = job[k]
      /\ job'[j].pc = "read" /\ job'[j].revision = job[j].revision
      /\ job'[j].requested = job[j].requested /\ job'[j].reading = reading
  <2>1. PICK pc \in Gated \union {"absent", "idle", "waiting", "answered"} : pc = "read"
    BY DEF Gated
  <2>2. reading \in ServerReading /\ job' = [job EXCEPT ![j].pc = pc, ![j].reading = reading] /\ job \in [Job -> JobState]
    BY <1>1, <1>3, <1>4, <2>1
  <2>3. /\ job' \in [Job -> JobState] /\ \A k \in Job \ {j} : job'[k] = job[k]
        /\ job'[j].pc = pc /\ job'[j].revision = job[j].revision
        /\ job'[j].requested = job[j].requested /\ job'[j].reading = reading
    BY <2>2 DEF JobState
  <2> QED  BY <2>1, <2>3
<1>6. JobInv(j)'
  BY <1>1, <1>3, <1>4, <1>5 DEF JobInv, Gated, Guarded
<1>7. MetricTypes' /\ LatestInv' /\ \A v \in View : ViewInv(v)'
  BY <1>1, <1>5, ViewsStay DEF MetricTypes, LatestInv
<1> QED
  BY <1>1, <1>5, <1>6, <1>7, StepOfJob

\* A reading is published: views are woken, and what is cached is this one or is marked.
LEMMA PublishInv ==
  ASSUME NEW j \in Job, MetricsInv, Publish(j)
  PROVE  MetricsInv'
<1>1. /\ MetricTypes /\ JobInv(j) /\ LatestInv /\ UNCHANGED <<server, recorded>>
      /\ job \in [Job -> JobState] /\ job[j] \in JobState /\ job[j].reading \in ServerReading /\ latest \in ServerReading
      /\ reads \in [begun : Nat, completed : Nat] /\ view \in [View -> ViewState]
      /\ gate \in Job \union {Free} /\ barrier \in Job \union {Free, "save", "clear"}
      /\ j \notin {Free, "save", "clear"}
  BY MetricsAssumption DEF MetricsInv, MetricTypes, Publish, JobState
<1>2. PICK reading : reading = [job[j].reading EXCEPT !.done = reads.completed + 1]
  OBVIOUS
<1>3. /\ job[j].pc = "publishing" /\ reads' = [reads EXCEPT !.completed = @ + 1]
      /\ latest' = Kept(reading) /\ job' = [job EXCEPT ![j].pc = "answered", ![j].reading = reading]
      /\ view' = [v \in View |-> [view[v] EXCEPT !.woken = @ \/ view[v].pc \in {"looking", "missed", "asleep"}]]
      /\ gate' = (IF gate = j THEN Free ELSE gate) /\ barrier' = (IF barrier = j THEN Free ELSE barrier)
  BY <1>2 DEF Publish, Release
<1>4. /\ reading \in ServerReading /\ reading.revision = job[j].reading.revision /\ reading.began = job[j].reading.began
      /\ reading.done = reads.completed + 1
  BY <1>1, <1>2 DEF ServerReading
<1>5. /\ job' \in [Job -> JobState] /\ \A k \in Job \ {j} : job'[k] = job[k]
      /\ job'[j].pc = "answered" /\ job'[j].requested = job[j].requested /\ job'[j].reading = reading
  BY <1>1, <1>3, <1>4, WithReading
<1>6. reads' \in [begun : Nat, completed : Nat] /\ reads'.begun = reads.begun /\ reads'.completed = reads.completed + 1
  BY <1>1, <1>3
<1>7. job[j].requested <= reads.completed /\ job[j].requested \in Nat /\ reading.began = reads.begun /\ reading.revision # 0
  BY <1>1, <1>3, <1>4 DEF JobInv, Gated, Guarded, JobState
<1>8. JobInv(j)'
  BY <1>1, <1>3, <1>4, <1>5, <1>6, <1>7 DEF JobInv, Gated, Guarded
<1>9. latest' \in ServerReading /\ LatestInv'
  <2>1. CASE latest' = reading
    BY <1>4, <1>6, <1>7, <2>1 DEF LatestInv, ServerReading
  <2>2. CASE latest' # reading
    <3>1. latest' = [latest EXCEPT !.marked = TRUE]
      BY <1>3, <2>2 DEF Kept
    <3>2. latest' \in ServerReading /\ latest'.marked /\ latest'.revision = latest.revision /\ latest'.began = latest.began
      BY <1>1, <3>1 DEF ServerReading
    <3> QED  BY <1>1, <1>6, <3>2 DEF LatestInv
  <2> QED  BY <2>1, <2>2
<1>10. view' \in [View -> ViewState] /\ \A v \in View : ViewInv(v)'
  <2>1. ASSUME NEW v \in View
        PROVE  view'[v] \in ViewState /\ ViewInv(v)'
    <3>1. view[v] \in ViewState /\ ViewInv(v)
      BY <1>1 DEF MetricsInv
    <3>2. view'[v] = [view[v] EXCEPT !.woken = @ \/ view[v].pc \in {"looking", "missed", "asleep"}]
      BY <1>3
    <3>3. /\ view'[v] \in ViewState /\ view'[v].pc = view[v].pc /\ view'[v].revision = view[v].revision
          /\ view[v].pc \in {"missed", "asleep"} => view'[v].woken
      BY <3>1, <3>2 DEF ViewState
    <3> QED  BY <3>1, <3>3 DEF ViewInv
  <2> QED  BY <1>3, <2>1
<1>11. MetricTypes'
  BY <1>1, <1>3, <1>5, <1>6, <1>9, <1>10 DEF MetricTypes
<1>12. reads.completed <= reads'.completed
  BY <1>1, <1>6
<1> QED
  BY <1>1, <1>3, <1>5, <1>6, <1>8, <1>9, <1>10, <1>11, <1>12, StepOfJob DEF MetricTypes

\* A worker of other settings is dropped with what it holds; nobody waits for NoReading.
LEMMA ReconcileInv ==
  ASSUME MetricsInv, Reconcile
  PROVE  MetricsInv'
<1>1. /\ MetricTypes /\ JobInv(Worker) /\ LatestInv /\ UNCHANGED <<server, reads, view>> /\ Worker \in Job
      /\ job \in [Job -> JobState] /\ server \in ServerState /\ reads \in [begun : Nat, completed : Nat]
      /\ gate \in Job \union {Free} /\ barrier \in Job \union {Free, "save", "clear"}
      /\ Worker \notin {Free, "save", "clear"}
  BY MetricsAssumption DEF MetricsInv, MetricTypes, Reconcile, Job
<1>2. NoReading \in ServerReading /\ NoReading.revision = 0 /\ NoReading.began = 0
  BY DEF NoReading, ServerReading
<1>3. latest' = latest \/ latest' = NoReading
  BY DEF Reconcile
<1>4. latest' \in ServerReading /\ LatestInv'
  BY <1>1, <1>2, <1>3 DEF LatestInv, MetricTypes
<1>5. \A v \in View : ViewInv(v)'
  BY <1>1, <1>2, <1>3 DEF MetricsInv, ViewInv, Cached
<1>6. CASE UNCHANGED <<job, gate, barrier>>
  <2>1. MetricTypes'
    BY <1>1, <1>4, <1>6 DEF MetricTypes
  <2>2. JobInv(Worker)'
    BY <1>1, <1>6 DEF JobInv
  <2> QED  BY <1>1, <1>4, <1>5, <1>6, <2>1, <2>2, StepOfJob DEF MetricTypes
<1>7. CASE ~UNCHANGED <<job, gate, barrier>>
  <2>1. PICK state : state = IF server.saved THEN [Resting EXCEPT !.revision = server.revision]
                                             ELSE [Resting EXCEPT !.pc = "absent"]
    OBVIOUS
  <2>2. /\ job' = [job EXCEPT ![Worker] = state]
        /\ gate' = (IF gate = Worker THEN Free ELSE gate) /\ barrier' = (IF barrier = Worker THEN Free ELSE barrier)
    BY <1>7, <2>1 DEF Reconcile, Release
  <2>3. state.pc \in {"idle", "absent"} /\ state \in JobState
    <3>1. CASE server.saved
      <4>1. state = [pc |-> "idle", revision |-> server.revision, requested |-> 0, reading |-> NoReading]
        BY <2>1, <3>1 DEF Resting
      <4> QED  BY <1>1, <1>2, <4>1 DEF JobState, ServerState
    <3>2. CASE ~server.saved
      <4>1. state = [pc |-> "absent", revision |-> 0, requested |-> 0, reading |-> NoReading]
        BY <2>1, <3>2 DEF Resting
      <4> QED  BY <1>2, <4>1 DEF JobState
    <3> QED  BY <3>1, <3>2
  <2>4. /\ job' \in [Job -> JobState] /\ \A k \in Job \ {Worker} : job'[k] = job[k]
        /\ job'[Worker] = state
    BY <1>1, <2>2, <2>3, WholeJob
  <2>5. JobInv(Worker)'
    BY <1>1, <2>2, <2>3, <2>4 DEF JobInv, Gated, Guarded
  <2>6. MetricTypes'
    BY <1>1, <1>4, <2>2, <2>4 DEF MetricTypes
  <2>7. reads.completed <= reads'.completed
    BY <1>1
  <2> QED  BY <1>1, <1>4, <1>5, <2>2, <2>4, <2>5, <2>6, <2>7, StepOfJob
<1> QED
  BY <1>6, <1>7

LEMMA LookInv ==
  ASSUME NEW v \in View, MetricsInv, Look(v) \/ Inspect(v) \/ Sleep(v) \/ GiveUp(v)
  PROVE  MetricsInv'
<1>1. /\ MetricTypes /\ ViewInv(v) /\ UNCHANGED <<server, barrier, gate, reads, latest, job, recorded>>
      /\ view \in [View -> ViewState] /\ view[v] \in ViewState /\ server.revision \in Nat \ {0}
  BY DEF MetricsInv, MetricTypes, Look, Inspect, Sleep, GiveUp, ServerState
<1>2. /\ \A w \in View \ {v} : view'[w] = view[w]
      /\ view'[v] \in ViewState /\ view' \in [View -> ViewState]
      /\ view'[v].pc # "idle" => view'[v].revision # 0
      /\ view'[v].pc \in {"missed", "asleep"} /\ Cached(view'[v].revision) => view'[v].woken
  <2>1. CASE Look(v) /\ view[v].pc = "idle"
    <3>1. view' = [view EXCEPT ![v] = [pc |-> "looking", revision |-> server.revision, woken |-> FALSE]]
      BY <2>1 DEF Look
    <3>2. [pc |-> "looking", revision |-> server.revision, woken |-> FALSE] \in ViewState
      BY <1>1 DEF ViewState
    <3> QED  BY <1>1, <3>1, <3>2
  <2>2. CASE Look(v) /\ view[v].pc # "idle"
    <3>1. view' = [view EXCEPT ![v].pc = "looking", ![v].woken = FALSE]
      BY <2>2 DEF Look
    <3> QED  BY <1>1, <2>2, <3>1 DEF ViewState, ViewInv
  <2>3. CASE Inspect(v) /\ Cached(view[v].revision)
    <3>1. view' = [view EXCEPT ![v].pc = "idle"]
      BY <2>3 DEF Inspect
    <3> QED  BY <1>1, <3>1 DEF ViewState
  <2>4. CASE Inspect(v) /\ ~Cached(view[v].revision)
    <3>1. view' = [view EXCEPT ![v].pc = "missed"] /\ view[v].pc = "looking"
      BY <2>4 DEF Inspect
    <3> QED  BY <1>1, <2>4, <3>1 DEF ViewState, ViewInv
  <2>5. CASE Sleep(v)
    <3>1. view' = [view EXCEPT ![v].pc = "asleep"] /\ view[v].pc = "missed"
      BY <2>5 DEF Sleep
    <3>2. /\ view'[v].pc = "asleep" /\ view'[v].revision = view[v].revision /\ (view'[v].woken <=> view[v].woken)
          /\ view'[v] \in ViewState /\ view' \in [View -> ViewState] /\ \A w \in View \ {v} : view'[w] = view[w]
      BY <1>1, <3>1 DEF ViewState
    <3> QED  BY <1>1, <3>1, <3>2 DEF ViewInv
  <2>6. CASE GiveUp(v)
    <3>1. view' = [view EXCEPT ![v].pc = "idle"]
      BY <2>6 DEF GiveUp
    <3> QED  BY <1>1, <3>1 DEF ViewState
  <2> QED  BY <2>1, <2>2, <2>3, <2>4, <2>5, <2>6
<1>3. \A w \in View : ViewInv(w)'
  BY <1>1, <1>2 DEF MetricsInv, ViewInv, Cached
<1>4. MetricTypes'
  BY <1>1, <1>2 DEF MetricTypes
<1>5. ServerInv' /\ LatestInv' /\ \A j \in Job : JobInv(j)'
  BY <1>1 DEF MetricsInv, ServerInv, LatestInv, JobInv
<1> QED
  BY <1>3, <1>4, <1>5 DEF MetricsInv

\* What changes the server or clears the cache has the barrier, and so no job is past it.
LEMMA CommandOnServer ==
  ASSUME MetricsInv,
         WriteSettings \/ AdvanceRevision \/ ClearHistory \/ ClearLatest \/ \E cleaned \in BOOLEAN : Delete(cleaned)
  PROVE  MetricsInv'
<1>1. /\ MetricTypes /\ ServerInv /\ LatestInv /\ UNCHANGED <<gate, reads, job, view>>
      /\ server \in ServerState /\ barrier \in {Free, "save", "clear"} /\ barrier' \in {Free, "save", "clear"}
  BY DEF MetricsInv, MetricTypes, ServerInv, WriteSettings, AdvanceRevision, ClearHistory, ClearLatest, Delete
<1>2. server' \in ServerState /\ ServerInv' /\ server'.revision >= server.revision /\ server'.settings >= server.settings
  <2>1. CASE WriteSettings
    <3>1. /\ server' = [server EXCEPT !.settings = @ + 1, !.writing = TRUE] /\ barrier' = "save" /\ ~server.writing
      BY <2>1 DEF WriteSettings, Settled
    <3>2. /\ server' \in ServerState /\ server'.writing /\ server'.revision = server.revision
          /\ server'.settings = server.settings + 1
      <4>1. server' = [saved |-> server.saved, revision |-> server.revision, settings |-> server.settings + 1,
                       writing |-> TRUE]
        BY <1>1, <3>1, Zenon DEF ServerState
      <4>2. server.settings + 1 \in Nat
        BY <1>1 DEF ServerState
      <4> QED  BY <1>1, <4>1, <4>2, Zenon DEF ServerState
    <3>3. server.settings \in Nat /\ server.revision \in Nat /\ server.settings = server.revision
      BY <1>1, <3>1 DEF ServerState, ServerInv
    <3> QED  BY <3>1, <3>2, <3>3 DEF ServerInv
  <2>2. CASE AdvanceRevision
    <3>1. /\ server' = [server EXCEPT !.saved = TRUE, !.revision = @ + 1, !.writing = FALSE] /\ server.writing
          /\ barrier' = Free
      BY <2>2 DEF AdvanceRevision
    <3>2. /\ server' \in ServerState /\ ~server'.writing /\ server'.revision = server.revision + 1
          /\ server'.settings = server.settings
      <4>1. server' = [saved |-> TRUE, revision |-> server.revision + 1, settings |-> server.settings,
                       writing |-> FALSE]
        BY <1>1, <3>1, Zenon DEF ServerState
      <4>2. server.revision + 1 \in Nat \ {0}
        BY <1>1 DEF ServerState
      <4> QED  BY <1>1, <4>1, <4>2, Zenon DEF ServerState
    <3>3. server.settings \in Nat /\ server.revision \in Nat /\ server.settings = server.revision + 1
      BY <1>1, <3>1 DEF ServerState, ServerInv
    <3>4. barrier' # "save"
      BY <3>1, MetricsAssumption
    <3> QED  BY <3>2, <3>3, <3>4 DEF ServerInv
  <2>3. CASE ClearHistory \/ ClearLatest
    <3>1. server' = server /\ barrier # "save" /\ barrier' # "save"
      BY <2>3, MetricsAssumption DEF ClearHistory, ClearLatest
    <3> QED  BY <1>1, <3>1 DEF ServerInv, ServerState
  <2>4. CASE \E cleaned \in BOOLEAN : Delete(cleaned)
    <3>1. server' = [server EXCEPT !.saved = FALSE] /\ barrier' = barrier
      BY <2>4 DEF Delete
    <3>2. /\ server' \in ServerState /\ (server'.writing <=> server.writing) /\ server'.revision = server.revision
          /\ server'.settings = server.settings
      BY <1>1, <3>1 DEF ServerState
    <3>3. server.settings \in Nat /\ server.revision \in Nat
      BY <1>1 DEF ServerState
    <3> QED  BY <1>1, <3>1, <3>2, <3>3 DEF ServerInv
  <2> QED  BY <2>1, <2>2, <2>3, <2>4
<1>3. latest' \in ServerReading /\ LatestInv' /\ \A v \in View : ViewInv(v)'
  <2>1. NoReading \in ServerReading /\ NoReading.revision = 0 /\ NoReading.began = 0
    BY DEF NoReading, ServerReading
  <2>2. latest' = latest \/ latest' = NoReading
    BY DEF WriteSettings, AdvanceRevision, ClearHistory, ClearLatest, Delete
  <2>3. latest \in ServerReading /\ reads \in [begun : Nat, completed : Nat]
    BY <1>1 DEF MetricTypes
  <2>4. latest' \in ServerReading /\ LatestInv'
    BY <1>1, <2>1, <2>2, <2>3 DEF LatestInv
  <2>5. \A v \in View : ViewInv(v)'
    BY <1>1, <2>1, <2>2 DEF MetricsInv, ViewInv, Cached
  <2> QED  BY <2>4, <2>5
<1>4. ASSUME NEW j \in Job
      PROVE  JobInv(j)'
  <2>1. JobInv(j) /\ job'[j] = job[j] /\ job[j] \in JobState /\ barrier # j /\ barrier' # j
    BY <1>1, MetricsAssumption DEF MetricsInv, MetricTypes
  <2>2. job[j].pc \notin Guarded
    BY <2>1 DEF JobInv
  <2>3. /\ job[j].revision <= server.revision => job[j].revision <= server'.revision
        /\ job[j].reading.settings <= server.settings => job[j].reading.settings <= server'.settings
    BY <1>1, <1>2, <2>1 DEF ServerState, JobState, ServerReading
  <2> QED  BY <1>1, <2>1, <2>2, <2>3 DEF JobInv, Guarded
<1>5. MetricTypes'
  BY <1>1, <1>2, <1>3 DEF MetricTypes
<1> QED
  BY <1>2, <1>3, <1>4, <1>5 DEF MetricsInv

LEMMA MetricsNextInv == MetricsInv /\ [MetricsNext]_metricsVars => MetricsInv'
<1> SUFFICES ASSUME MetricsInv, [MetricsNext]_metricsVars
             PROVE  MetricsInv'
  OBVIOUS
<1>1. CASE UNCHANGED metricsVars
  BY <1>1 DEF metricsVars, MetricsInv, MetricTypes, ServerInv, LatestInv, JobInv, ViewInv, Cached
<1>2. ASSUME NEW j \in Job,
             \/ Request(j) \/ TakeGate(j) \/ Obsolete(j) \/ Check(j) \/ Share(j) \/ BeginRead(j)
             \/ \E ok \in BOOLEAN : EndRead(j, ok)
             \/ TakeBarrier(j) \/ Verify(j)
             \/ \E stored \in BOOLEAN : Record(j, stored)
             \/ Publish(j)
      PROVE  MetricsInv'
  BY <1>2, RequestInv, MoveInv, ShareInv, BeginReadInv, EndReadInv, PublishInv
<1>3. ASSUME NEW v \in View, Look(v) \/ Inspect(v) \/ Sleep(v) \/ GiveUp(v)
      PROVE  MetricsInv'
  BY <1>3, LookInv
<1> QED
  BY <1>1, <1>2, <1>3, ReconcileInv, CommandOnServer DEF MetricsNext

LEMMA MetricsInvariance == MetricsSpec => []MetricsInv
BY MetricsInitInv, MetricsNextInv, PTL DEF MetricsSpec

\* However workers, refreshes and views overlap: a refresh is answered with a reading that
\* was completed after it was asked for, unless it is marked, and a view that sleeps has
\* been woken for a reading of its settings (metrics_sampler.rs, sample, first_reading).
THEOREM ReadingsAreFresh == MetricsSpec => []ReadingsReach
<1>1. MetricsInv => ReadingsReach
  BY DEF MetricsInv, JobInv, ViewInv, ReadingsReach, RefreshIsFresh, NoMissedReading, Job
<1> QED
  BY <1>1, MetricsInvariance, PTL

\* A step records only what was measured with the settings saved now.
CurrentStep == \A s \in recorded' \ recorded : server.saved /\ s = server.settings
LEMMA RecordsCurrent == MetricsInv /\ [MetricsNext]_metricsVars => CurrentStep
<1> SUFFICES ASSUME MetricsInv, [MetricsNext]_metricsVars, NEW s \in recorded' \ recorded
             PROVE  server.saved /\ s = server.settings
  BY DEF CurrentStep
<1>1. PICK j \in Job, stored \in BOOLEAN : Record(j, stored)
  BY DEF metricsVars, MetricsNext, Request, TakeGate, Obsolete, Check, Share, BeginRead, EndRead, TakeBarrier, Verify, Publish,
         Reconcile, Look, Inspect, Sleep, GiveUp, WriteSettings, AdvanceRevision, ClearHistory, ClearLatest, Delete
<1>2. job[j].pc = "recording" /\ s = job[j].reading.settings
  BY <1>1 DEF Record
<1>3. JobInv(j) /\ ServerInv /\ server \in ServerState /\ job[j] \in JobState /\ j # "save"
  BY MetricsAssumption DEF MetricsInv, MetricTypes
<1>4. ~server.writing /\ server.saved /\ server.revision = job[j].revision
  BY <1>2, <1>3 DEF JobInv, ServerInv, Guarded
<1>5. job[j].revision <= s /\ s <= server.settings /\ server.settings = job[j].revision
  BY <1>2, <1>3, <1>4 DEF JobInv, ServerInv, Guarded
<1>6. s \in Nat /\ server.settings \in Nat
  BY <1>2, <1>3 DEF JobState, ServerReading, ServerState
<1> QED
  BY <1>4, <1>5, <1>6

\* A step does not replace a cached reading by an older one of the same settings.
NewerStep == latest.revision = latest'.revision => latest'.began >= latest.began
LEMMA OnlyNewer == MetricsInv /\ [MetricsNext]_metricsVars => NewerStep
<1> SUFFICES ASSUME MetricsInv, [MetricsNext]_metricsVars, latest.revision = latest'.revision
             PROVE  latest'.began >= latest.began
  BY DEF NewerStep
<1>1. LatestInv /\ latest \in ServerReading /\ latest.began \in Nat /\ reads.begun \in Nat
  BY DEF MetricsInv, MetricTypes, ServerReading
<1>2. CASE latest' = latest
  BY <1>1, <1>2
<1>3. CASE latest' = NoReading
  BY <1>1, <1>3 DEF LatestInv, NoReading
<1>4. CASE latest' \notin {latest, NoReading}
  <2>1. PICK j \in Job : Publish(j)
    BY <1>4 DEF metricsVars, MetricsNext, Request, TakeGate, Obsolete, Check, Share, BeginRead, EndRead, TakeBarrier, Verify,
                Record, Reconcile, Look, Inspect, Sleep, GiveUp, WriteSettings, AdvanceRevision, ClearHistory, ClearLatest,
                Delete
  <2>2. PICK reading : reading = [job[j].reading EXCEPT !.done = reads.completed + 1]
    OBVIOUS
  <2>3. job[j].pc = "publishing" /\ latest' = Kept(reading)
    BY <2>1, <2>2 DEF Publish
  <2>4. reading.began = reads.begun
    <3>1. JobInv(j) /\ job[j].reading \in ServerReading
      BY DEF MetricsInv, MetricTypes, JobState
    <3> QED  BY <2>2, <2>3, <3>1 DEF JobInv, Guarded, ServerReading
  <2>5. latest' = reading \/ latest' = [latest EXCEPT !.marked = TRUE]
    BY <2>3 DEF Kept
  <2>6. latest'.began = reads.begun \/ latest'.began = latest.began
    BY <1>1, <2>4, <2>5 DEF ServerReading
  <2> QED  BY <1>1, <2>6 DEF LatestInv
<1> QED
  BY <1>2, <1>3, <1>4

\* What is recorded was measured with the settings and password saved now, and what is
\* cached only gets newer (sample's comparisons under history_guard and its gate).
THEOREM ReadingsAreInOrder == MetricsSpec => ReadingsInOrder
<1>1. MetricsSpec => [][CurrentStep]_metricsVars
  BY MetricsInvariance, RecordsCurrent, PTL DEF MetricsSpec
<1>2. MetricsSpec => [][NewerStep]_metricsVars
  BY MetricsInvariance, OnlyNewer, PTL DEF MetricsSpec
<1>3. [][CurrentStep]_metricsVars => RecordedCurrent
  BY PTL DEF RecordedCurrent, CurrentStep
<1>4. [][NewerStep]_metricsVars => NoOlderReading
  BY PTL DEF NoOlderReading, NewerStep
<1> QED
  BY <1>1, <1>2, <1>3, <1>4, PTL DEF ReadingsInOrder
-----------------------------------------------------------------------------
(* Processes and updates *)

Process  == [step : {"off", "locking", "running", "replacing", "replaced", "ended"}, leaving : BOOLEAN, restart : BOOLEAN]
Stages   == Services \union {"none", "done"}
Stopping == [exit : Stages, hook : Stages]
Update   == [held : {"free", "worker", "command", "install"}, phase : {"idle", "checking", "current", "error", "ready", "installing"},
             pending : BOOLEAN]

LifecycleTypes ==
  /\ process \in [Instance -> Process]
  /\ alive \in [Instance -> SUBSET {"workers", "files", "removals"}]
  /\ stopping \in [Instance -> Stopping]
  /\ update \in [Instance -> Update]

\* Of one process: what it has not begun, what is still alive of it, and that its services
\* are stopped only on its way out or by the hook of an installer.
ProcessInv(p) ==
  /\ process[p].step \in {"off", "locking"} =>
       alive[p] = {} /\ stopping[p] = [exit |-> "none", hook |-> "none"] /\ ~process[p].leaving /\ update[p] = NoUpdate
  /\ Running(p) => owner = p
  /\ ~Running(p) => alive[p] \subseteq {"removals"}
  /\ process[p].leaving <=> stopping[p].exit # "none"
  /\ Running(p) /\ "workers" \notin alive[p] =>
       stopping[p].exit \notin {"none", "workers"} \/ stopping[p].hook \notin {"none", "workers"}
  /\ Running(p) /\ stopping[p].hook # "none" => process[p].leaving \/ update[p].held = "install"
  /\ stopping[p].exit \in {"terminals", "files", "connections", "done"} => "workers" \notin alive[p]
  /\ stopping[p].exit \in {"connections", "done"} => "files" \notin alive[p]
  /\ update[p].held = "free" => (update[p].phase = "ready" <=> update[p].pending)
  /\ update[p].held \in {"worker", "command"} => ~update[p].pending /\ update[p].phase = "checking"
  /\ update[p].held = "install" => update[p].pending

LifecycleInv == LifecycleTypes /\ \A p \in Instance : ProcessInv(p)

LEMMA LifecycleInitInv == LifecycleInit => LifecycleInv
BY DEF LifecycleInit, LifecycleInv, LifecycleTypes, ProcessInv, Process, Stages, Services, Stopping, Update, NoUpdate,
       Running

\* A step of one process that leaves the others and the lock alone.
OnlyOf(p) ==
  /\ LifecycleTypes'
  /\ \A q \in Instance \ {p} : /\ process'[q] = process[q] /\ alive'[q] = alive[q]
                               /\ stopping'[q] = stopping[q] /\ update'[q] = update[q]

LEMMA ProcessStep ==
  ASSUME NEW p \in Instance, LifecycleInv, OnlyOf(p), ProcessInv(p)',
         \/ owner' = owner
         \/ owner = Unowned /\ owner' = p
         \/ owner = p /\ owner' = Unowned
  PROVE  LifecycleInv'
<1>1. ASSUME NEW q \in Instance \ {p}
      PROVE  ProcessInv(q)'
  BY <1>1, LifecycleAssumption DEF LifecycleInv, OnlyOf, ProcessInv, Running
<1> QED
  BY <1>1 DEF LifecycleInv, OnlyOf

LEMMA LaunchInv ==
  ASSUME NEW p \in Instance, LifecycleInv, Launch(p)
  PROVE  LifecycleInv'
<1>1. LifecycleTypes /\ ProcessInv(p)
  BY DEF LifecycleInv
<1>2. OnlyOf(p) /\ process'[p] = [process[p] EXCEPT !.step = "locking"]
  BY <1>1 DEF Launch, OnlyOf, LifecycleTypes, Process
<1>3. ProcessInv(p)'
  BY <1>1, <1>2 DEF Launch, ProcessInv, Running, LifecycleTypes, Process
<1> QED
  BY <1>2, <1>3, ProcessStep DEF Launch

LEMMA TryLockInv ==
  ASSUME NEW p \in Instance, LifecycleInv, TryLock(p)
  PROVE  LifecycleInv'
<1>1. LifecycleTypes /\ ProcessInv(p)
  BY DEF LifecycleInv
<1>2. OnlyOf(p)
  BY <1>1 DEF TryLock, OnlyOf, LifecycleTypes, Process
<1>3. ProcessInv(p)'
  BY <1>1 DEF TryLock, ProcessInv, Running, LifecycleTypes, Process
<1> QED
  BY <1>2, <1>3, ProcessStep DEF TryLock

LEMMA TransferInv ==
  ASSUME NEW p \in Instance, LifecycleInv, Transfer(p)
  PROVE  LifecycleInv'
<1>1. LifecycleTypes /\ ProcessInv(p)
  BY DEF LifecycleInv
<1>2. OnlyOf(p)
  BY <1>1 DEF Transfer, OnlyOf, LifecycleTypes
<1>3. ProcessInv(p)'
  BY <1>1 DEF Transfer, ProcessInv, Running, LifecycleTypes
<1> QED
  BY <1>2, <1>3, ProcessStep DEF Transfer

\* The end of a process, in whatever way.
LEMMA ProcessEndsInv ==
  ASSUME NEW p \in Instance, LifecycleInv, ProcessEnds(p), UNCHANGED <<stopping, update>>
  PROVE  LifecycleInv'
<1>1. LifecycleTypes /\ ProcessInv(p)
  BY DEF LifecycleInv
<1>2. OnlyOf(p)
  BY <1>1 DEF ProcessEnds, OnlyOf, LifecycleTypes, Process
<1>3. ProcessInv(p)'
  BY <1>1 DEF ProcessEnds, ProcessInv, Running, LifecycleTypes, Process
<1> QED
  BY <1>2, <1>3, ProcessStep DEF ProcessEnds

LEMMA QuitInv ==
  ASSUME NEW p \in Instance, LifecycleInv, Quit(p)
  PROVE  LifecycleInv'
<1>1. LifecycleTypes /\ ProcessInv(p)
  BY DEF LifecycleInv
<1>2. OnlyOf(p)
  <2>1. process' \in [Instance -> Process] /\ \A q \in Instance \ {p} : process'[q] = process[q]
    BY <1>1 DEF Quit, LifecycleTypes, Process
  <2>2. stopping' \in [Instance -> Stopping] /\ \A q \in Instance \ {p} : stopping'[q] = stopping[q]
    BY <1>1 DEF Quit, ExitRequested, LifecycleTypes, Stopping, Stages, Services
  <2> QED  BY <1>1, <2>1, <2>2 DEF Quit, OnlyOf, LifecycleTypes
<1>3. ProcessInv(p)'
  BY <1>1 DEF Quit, ExitRequested, ProcessInv, Running, LifecycleTypes, Process, Stopping, Stages, Services
<1> QED
  BY <1>2, <1>3, ProcessStep DEF Quit

LEMMA StopServiceInv ==
  ASSUME NEW p \in Instance, NEW by \in {"exit", "hook"}, LifecycleInv, StopService(p, by)
  PROVE  LifecycleInv'
<1>1. LifecycleTypes /\ ProcessInv(p) /\ stopping[p] \in Stopping /\ update[p] \in Update
  BY DEF LifecycleInv, LifecycleTypes
<1>2. stopping[p][by] \in Services /\ After(stopping[p][by]) \in Stages
  BY DEF StopService, After, Services, Stages
<1>3. OnlyOf(p)
  BY <1>1, <1>2 DEF StopService, OnlyOf, LifecycleTypes, Stopping, Update
<1>4. ProcessInv(p)'
  BY <1>1, <1>2 DEF StopService, ProcessInv, Running, LifecycleTypes, Stopping, Stages, Services, After, Update
<1> QED
  BY <1>3, <1>4, ProcessStep DEF StopService

LEMMA LeaveInv ==
  ASSUME NEW p \in Instance, LifecycleInv, Leave(p)
  PROVE  LifecycleInv'
<1>1. LifecycleTypes /\ ProcessInv(p)
  BY DEF LifecycleInv
<1>2. CASE process[p].restart
  <2>1. OnlyOf(p)
    BY <1>1, <1>2 DEF Leave, OnlyOf, LifecycleTypes, Process
  <2>2. alive[p] \subseteq {"removals"}
    BY <1>1 DEF Leave, ProcessInv, LifecycleTypes
  <2>3. ProcessInv(p)'
    BY <1>1, <1>2, <2>2 DEF Leave, ProcessInv, Running, LifecycleTypes, Process
  <2>4. owner = p /\ owner' = Unowned
    BY <1>1, <1>2 DEF Leave, ProcessInv
  <2> QED  BY <2>1, <2>3, <2>4, ProcessStep
<1>3. CASE ~process[p].restart
  BY <1>3, ProcessEndsInv DEF Leave
<1> QED
  BY <1>2, <1>3

LEMMA ReplaceInv ==
  ASSUME NEW p \in Instance, LifecycleInv, Replace(p)
  PROVE  LifecycleInv'
<1>1. LifecycleTypes /\ \A q \in Instance : ProcessInv(q)
  BY DEF LifecycleInv
<1>2. /\ process' \in [Instance -> Process]
      /\ UNCHANGED <<owner, alive, stopping, update>>
      /\ \A q \in Instance : /\ process'[q].leaving = process[q].leaving
                             /\ \/ process'[q].step = process[q].step
                                \/ process[q].step = "off" /\ process'[q].step = "locking"
                                \/ process[q].step = "replacing" /\ process'[q].step = "replaced"
  <2>1. UNCHANGED <<owner, alive, stopping, update>> /\ process[p].step = "replacing"
    BY DEF Replace
  <2>2. ASSUME NEW q \in Instance, process[q].step = "off",
               process' = [process EXCEPT ![q].step = "locking", ![p].step = "replaced"]
        PROVE  /\ process' \in [Instance -> Process]
               /\ \A r \in Instance : /\ process'[r].leaving = process[r].leaving
                                      /\ \/ process'[r].step = process[r].step
                                         \/ process[r].step = "off" /\ process'[r].step = "locking"
                                         \/ process[r].step = "replacing" /\ process'[r].step = "replaced"
    <3>1. q # p
      BY <2>1, <2>2
    <3>2. /\ process'[q] = [process[q] EXCEPT !.step = "locking"]
          /\ process'[p] = [process[p] EXCEPT !.step = "replaced"]
          /\ \A r \in Instance \ {p, q} : process'[r] = process[r]
          /\ DOMAIN process' = Instance /\ process' = [r \in Instance |-> process'[r]]
      BY <1>1, <2>2, <3>1 DEF LifecycleTypes
    <3>3. \A r \in Instance : process'[r] \in Process
      BY <1>1, <3>2 DEF LifecycleTypes, Process
    <3>4. process' \in [Instance -> Process]
      BY <3>2, <3>3
    <3>5. process'[q].leaving = process[q].leaving /\ process'[q].step = "locking"
      BY <1>1, <3>2 DEF LifecycleTypes, Process
    <3>6. process'[p].leaving = process[p].leaving /\ process'[p].step = "replaced"
      BY <1>1, <3>2 DEF LifecycleTypes, Process
    <3> QED  BY <2>1, <2>2, <3>2, <3>4, <3>5, <3>6
  <2>3. ASSUME process' = [process EXCEPT ![p].step = "replaced"]
        PROVE  /\ process' \in [Instance -> Process]
               /\ \A r \in Instance : /\ process'[r].leaving = process[r].leaving
                                      /\ \/ process'[r].step = process[r].step
                                         \/ process[r].step = "replacing" /\ process'[r].step = "replaced"
    BY <1>1, <2>1, <2>3 DEF LifecycleTypes, Process
  <2> QED  BY <2>1, <2>2, <2>3 DEF Replace
<1>3. \A q \in Instance : ProcessInv(q)'
  BY <1>1, <1>2 DEF ProcessInv, Running
<1> QED
  BY <1>1, <1>2, <1>3 DEF LifecycleInv, LifecycleTypes

\* A shutdown begins once, and asks for a restart.
LEMMA RestartRequested ==
  ASSUME NEW p \in Instance, LifecycleTypes, process[p].leaving <=> stopping[p].exit # "none",
         process' = [process EXCEPT ![p].restart = TRUE, ![p].leaving = TRUE],
         ExitRequested(p)
  PROVE  /\ process' \in [Instance -> Process] /\ stopping' \in [Instance -> Stopping]
         /\ \A q \in Instance \ {p} : process'[q] = process[q] /\ stopping'[q] = stopping[q]
         /\ process'[p].step = process[p].step /\ process'[p].leaving
         /\ stopping'[p].hook = stopping[p].hook
         /\ \/ stopping[p].exit # "none" /\ stopping'[p].exit = stopping[p].exit
            \/ stopping[p].exit = "none" /\ stopping'[p].exit = "workers"
<1>1. /\ process' \in [Instance -> Process]
      /\ \A q \in Instance \ {p} : process'[q] = process[q]
      /\ process'[p].step = process[p].step /\ process'[p].leaving
  BY DEF LifecycleTypes, Process
<1>2. CASE process[p].leaving
  <2>1. stopping' = stopping /\ stopping[p].exit # "none"
    BY <1>2 DEF ExitRequested
  <2> QED  BY <1>1, <2>1 DEF LifecycleTypes
<1>3. CASE ~process[p].leaving
  <2>1. stopping' = [stopping EXCEPT ![p].exit = "workers"]
    BY <1>3 DEF ExitRequested
  <2>2. stopping[p] \in Stopping /\ stopping[p].exit = "none"
    BY <1>3 DEF LifecycleTypes
  <2>3. "workers" \in Stages
    BY DEF Stages, Services
  <2> QED  BY <1>1, <2>1, <2>2, <2>3 DEF LifecycleTypes, Stopping
<1> QED
  BY <1>2, <1>3

LEMMA UpdatesInv ==
  ASSUME NEW p \in Instance, LifecycleInv,
         \/ \E by \in {"worker", "command"} : CheckUpdate(p, by)
         \/ \E phase \in {"current", "error", "ready"} : CheckEnds(p, phase)
         \/ InstallUpdate(p) \/ Hook(p) \/ Installed(p) \/ InstallFails(p)
  PROVE  LifecycleInv'
<1>1. LifecycleTypes /\ ProcessInv(p)
  BY DEF LifecycleInv
<1>2. ASSUME NEW by \in {"worker", "command"}, CheckUpdate(p, by)
      PROVE  LifecycleInv'
  <2>1. OnlyOf(p)
    BY <1>1, <1>2 DEF CheckUpdate, OnlyOf, LifecycleTypes, Update
  <2>2. ProcessInv(p)'
    BY <1>1, <1>2 DEF CheckUpdate, ProcessInv, Running, LifecycleTypes, Update
  <2> QED  BY <1>2, <2>1, <2>2, ProcessStep DEF CheckUpdate
<1>3. ASSUME NEW phase \in {"current", "error", "ready"}, CheckEnds(p, phase)
      PROVE  LifecycleInv'
  <2>1. OnlyOf(p)
    BY <1>1, <1>3 DEF CheckEnds, OnlyOf, LifecycleTypes, Update
  <2>2. ProcessInv(p)'
    BY <1>1, <1>3 DEF CheckEnds, ProcessInv, Running, LifecycleTypes, Update
  <2> QED  BY <1>3, <2>1, <2>2, ProcessStep DEF CheckEnds
<1>4. CASE InstallUpdate(p)
  <2>1. OnlyOf(p)
    BY <1>1, <1>4 DEF InstallUpdate, OnlyOf, LifecycleTypes, Update
  <2>2. ProcessInv(p)'
    BY <1>1, <1>4 DEF InstallUpdate, ProcessInv, Running, LifecycleTypes, Update
  <2> QED  BY <1>4, <2>1, <2>2, ProcessStep DEF InstallUpdate
<1>5. CASE Hook(p)
  <2>1. OnlyOf(p)
    BY <1>1, <1>5 DEF Hook, OnlyOf, LifecycleTypes, Stopping, Stages, Services
  <2>2. ProcessInv(p)'
    BY <1>1, <1>5 DEF Hook, ProcessInv, Running, LifecycleTypes, Stopping
  <2> QED  BY <1>5, <2>1, <2>2, ProcessStep DEF Hook
<1>6. CASE Installed(p)
  <2>1. /\ Running(p) /\ update' = [update EXCEPT ![p] = NoUpdate] /\ UNCHANGED <<owner, alive>>
        /\ process' = [process EXCEPT ![p].restart = TRUE, ![p].leaving = TRUE]
        /\ ExitRequested(p)
    BY <1>6 DEF Installed
  <2>2. /\ process' \in [Instance -> Process] /\ stopping' \in [Instance -> Stopping]
        /\ \A q \in Instance \ {p} : process'[q] = process[q] /\ stopping'[q] = stopping[q]
        /\ process'[p].step = process[p].step /\ process'[p].leaving
        /\ stopping'[p].hook = stopping[p].hook
        /\ \/ stopping[p].exit # "none" /\ stopping'[p].exit = stopping[p].exit
           \/ stopping[p].exit = "none" /\ stopping'[p].exit = "workers"
    BY <1>1, <2>1, RestartRequested DEF ProcessInv
  <2>3. /\ update' \in [Instance -> Update] /\ update'[p] = NoUpdate
        /\ \A q \in Instance \ {p} : update'[q] = update[q]
    BY <1>1, <2>1 DEF LifecycleTypes, Update, NoUpdate
  <2>4. OnlyOf(p)
    BY <1>1, <2>1, <2>2, <2>3 DEF OnlyOf, LifecycleTypes
  <2>5. ProcessInv(p)'
    BY <1>1, <2>1, <2>2, <2>3, <1>6 DEF Installed, ProcessInv, Running, NoUpdate
  <2> QED  BY <2>1, <2>4, <2>5, ProcessStep
<1>7. CASE InstallFails(p)
  <2>1. /\ Running(p) /\ UNCHANGED <<owner, alive>> /\ update[p].held = "install"
        /\ update' = [update EXCEPT ![p].held = "free", ![p].phase = "ready"]
        /\ RestartAfterHook(p)
    BY <1>7 DEF InstallFails
  <2>2. /\ update' \in [Instance -> Update]
        /\ update'[p].held = "free" /\ update'[p].phase = "ready" /\ (update'[p].pending <=> update[p].pending)
        /\ \A q \in Instance \ {p} : update'[q] = update[q]
    BY <1>1, <2>1 DEF LifecycleTypes, Update
  <2>3. CASE stopping[p].hook = "none"
    <3>1. UNCHANGED <<process, stopping>>
      BY <2>1, <2>3 DEF RestartAfterHook
    <3>2. OnlyOf(p)
      BY <1>1, <2>1, <2>2, <3>1 DEF OnlyOf, LifecycleTypes
    <3>3. ProcessInv(p)'
      BY <1>1, <2>1, <2>2, <2>3, <3>1 DEF ProcessInv, Running
    <3> QED  BY <2>1, <3>2, <3>3, ProcessStep
  <2>4. CASE stopping[p].hook # "none"
    <3>1. /\ process' = [process EXCEPT ![p].restart = TRUE, ![p].leaving = TRUE]
          /\ ExitRequested(p)
      BY <2>1, <2>4 DEF RestartAfterHook
    <3>2. /\ process' \in [Instance -> Process] /\ stopping' \in [Instance -> Stopping]
          /\ \A q \in Instance \ {p} : process'[q] = process[q] /\ stopping'[q] = stopping[q]
          /\ process'[p].step = process[p].step /\ process'[p].leaving
          /\ stopping'[p].hook = stopping[p].hook
          /\ \/ stopping[p].exit # "none" /\ stopping'[p].exit = stopping[p].exit
             \/ stopping[p].exit = "none" /\ stopping'[p].exit = "workers"
      BY <1>1, <3>1, RestartRequested DEF ProcessInv
    <3>3. OnlyOf(p)
      BY <1>1, <2>1, <2>2, <3>2 DEF OnlyOf, LifecycleTypes
    <3>4. ProcessInv(p)'
      BY <1>1, <2>1, <2>2, <3>2 DEF ProcessInv, Running
    <3> QED  BY <2>1, <3>3, <3>4, ProcessStep
  <2> QED  BY <2>3, <2>4
<1> QED
  BY <1>2, <1>3, <1>4, <1>5, <1>6, <1>7

LEMMA LifecycleNextInv == LifecycleInv /\ [LifecycleNext]_appVars => LifecycleInv'
<1> SUFFICES ASSUME LifecycleInv, [LifecycleNext]_appVars
             PROVE  LifecycleInv'
  OBVIOUS
<1>1. CASE UNCHANGED appVars
  BY <1>1 DEF appVars, LifecycleInv, LifecycleTypes, ProcessInv, Running
<1>2. ASSUME NEW p \in Instance,
             \/ Launch(p) \/ TryLock(p) \/ ProcessCrashes(p) \/ Quit(p) \/ Leave(p) \/ Replace(p) \/ Exit(p)
             \/ Transfer(p)
      PROVE  LifecycleInv'
  BY <1>2, LaunchInv, TryLockInv, TransferInv, ProcessEndsInv, QuitInv, LeaveInv, ReplaceInv
     DEF ProcessCrashes, Exit
<1>3. ASSUME NEW p \in Instance, NEW by \in {"exit", "hook"}, StopService(p, by)
      PROVE  LifecycleInv'
  BY <1>3, StopServiceInv
<1>4. ASSUME NEW p \in Instance,
             \/ \E by \in {"worker", "command"} : CheckUpdate(p, by)
             \/ \E phase \in {"current", "error", "ready"} : CheckEnds(p, phase)
             \/ InstallUpdate(p) \/ Hook(p) \/ Installed(p) \/ InstallFails(p)
      PROVE  LifecycleInv'
  BY <1>4, UpdatesInv
<1>5. ASSUME NEW p \in Instance, InstallerTakesOver(p)
      PROVE  LifecycleInv'
  BY <1>5, ProcessEndsInv DEF InstallerTakesOver
<1> QED
  BY <1>1, <1>2, <1>3, <1>4, <1>5 DEF LifecycleNext

LEMMA LifecycleInvSound == LifecycleInv => LifecycleSound
<1> SUFFICES ASSUME LifecycleInv
             PROVE  LifecycleSound
  OBVIOUS
<1>1. \A p \in Instance : owner # p => alive[p] \subseteq {"removals"}
  BY DEF LifecycleInv, ProcessInv
<1>2. {p \in Instance : "workers" \in alive[p]} \subseteq {owner}
  BY <1>1
<1>3. Cardinality({p \in Instance : "workers" \in alive[p]}) <= 1
  <2>1. IsFiniteSet({owner}) /\ Cardinality({owner}) = 1
    BY FS_Singleton
  <2> QED  BY <1>2, <2>1, FS_Subset
<1>4. NotLeftStopped
  BY DEF LifecycleInv, ProcessInv, NotLeftStopped
<1>5. ReadyIsHeld
  BY DEF LifecycleInv, ProcessInv, ReadyIsHeld
<1> QED
  BY <1>1, <1>3, <1>4, <1>5 DEF LifecycleSound, OneOwner

\* Whichever processes are started, replaced, updated or crash: only one works on the
\* profile, no process stays with stopped workers, and "ready" means that there is
\* something to install (app.rs, updates.rs).
THEOREM LifecycleIsSound == LifecycleSpec => []LifecycleSound
<1>1. LifecycleSpec => []LifecycleInv
  BY LifecycleInitInv, LifecycleNextInv, PTL DEF LifecycleSpec
<1> QED
  BY <1>1, LifecycleInvSound, PTL
-----------------------------------------------------------------------------
(* Terminals *)

RunStep == {"none", "preparing", "opening", "opened", "refused", "reading", "closing", "ended"}

TerminalTypeOK ==
  /\ host \in [saved : BOOLEAN, settings : Nat, changing : BOOLEAN]
  /\ shells \subseteq [session : Session, settings : Nat, running : BOOLEAN]
  /\ tab \in [Tab -> [session : 0 .. MaxConnects, connects : 0 .. MaxConnects, disposed : BOOLEAN]]
  /\ run \in [Session -> RunStep]

\* Sessions to come have not been used.
Unused == \A t \in Tab, n \in 1 .. MaxConnects : n > tab[t].connects => run[<<t, n>>] = "none"

\* An open is asked for by the connect call that waits for it.
OpenAwaited == \A s \in Session : <<"open", s>> \in asked => run[s] = "opening"

\* The connect call of a shell has not ended: it will ask for the shell to be closed.
Followed == \A x \in shells : run[x.session] \in {"opened", "reading", "closing"}

\* Outside of a change of the server, shells have the settings that are saved.
ShellsCurrent == ~host.changing => \A x \in shells : host.saved /\ x.settings = host.settings

TerminalInv == TerminalTypeOK /\ Unused /\ OpenAwaited /\ Followed /\ ShellsCurrent
-----------------------------------------------------------------------------
LEMMA TerminalInitInv == TerminalInit => TerminalInv
BY TerminalAssumption
DEF TerminalInit, TerminalInv, TerminalTypeOK, RunStep, Unused, OpenAwaited, Followed, ShellsCurrent, Session

\* The end of a connect call whose open is not on its way.
LEMMA FinallyInv ==
  ASSUME TerminalInv, NEW s \in Session, Finally(s), UNCHANGED <<host, shells, asked>>,
         run[s] \in {"preparing", "opened", "refused", "reading"}
  PROVE  /\ TerminalInv' /\ run'[s] = "closing"
         /\ \A t \in Tab : <<t, tab[t].session>> # s => tab'[t].session = tab[t].session
<1>1. s[1] \in Tab /\ s = <<s[1], s[2]>> /\ 0 \in 0 .. MaxConnects
  BY TerminalAssumption DEF Session
<1>2. /\ run' \in [Session -> RunStep] /\ run'[s] = "closing"
      /\ \A r \in Session : r # s => run'[r] = run[r]
  BY DEF Finally, TerminalInv, TerminalTypeOK, RunStep
<1>3. /\ tab' \in [Tab -> [session : 0 .. MaxConnects, connects : 0 .. MaxConnects, disposed : BOOLEAN]]
      /\ \A t \in Tab : tab'[t].connects = tab[t].connects
  BY <1>1 DEF Finally, TerminalInv, TerminalTypeOK
<1>4. \A t \in Tab : <<t, tab[t].session>> # s => tab'[t].session = tab[t].session
  BY <1>1 DEF Finally, TerminalInv, TerminalTypeOK, Shown
<1>5. Unused'
  <2> SUFFICES ASSUME NEW t \in Tab, NEW n \in 1 .. MaxConnects, n > tab[t].connects
               PROVE  run'[<<t, n>>] = "none"
    BY <1>3 DEF Unused
  <2>1. <<t, n>> \in Session /\ run[<<t, n>>] = "none"
    BY DEF TerminalInv, Unused, Session
  <2> QED  BY <1>2, <2>1
<1>6. OpenAwaited'
  BY <1>2 DEF TerminalInv, OpenAwaited
<1>7. Followed'
  BY <1>2 DEF TerminalInv, TerminalTypeOK, Followed
<1> QED  BY <1>2, <1>3, <1>4, <1>5, <1>6, <1>7 DEF TerminalInv, TerminalTypeOK, ShellsCurrent
-----------------------------------------------------------------------------
(* The interface *)

LEMMA ConnectInv == ASSUME TerminalInv, NEW t \in Tab, Connect(t) PROVE TerminalInv'
<1> DEFINE n == tab[t].connects + 1
           s == <<t, n>>
<1>1. n \in 1 .. MaxConnects /\ s \in Session
  BY TerminalAssumption DEF TerminalInv, TerminalTypeOK, Connect, Session
<1>2. /\ run' = [run EXCEPT ![s] = "preparing"] /\ UNCHANGED <<host, shells, asked>>
      /\ tab' = [tab EXCEPT ![t].session = n, ![t].connects = n]
  BY DEF Connect
<1>3. run[s] = "none"
  BY <1>1, TerminalAssumption DEF TerminalInv, TerminalTypeOK, Unused
<1>4. /\ run' \in [Session -> RunStep] /\ run'[s] = "preparing"
      /\ \A r \in Session : r # s => run'[r] = run[r]
  BY <1>1, <1>2 DEF TerminalInv, TerminalTypeOK, RunStep
<1>5. /\ tab' \in [Tab -> [session : 0 .. MaxConnects, connects : 0 .. MaxConnects, disposed : BOOLEAN]]
      /\ tab'[t].connects = n /\ \A u \in Tab : u # t => tab'[u] = tab[u]
  BY <1>1, <1>2, TerminalAssumption DEF TerminalInv, TerminalTypeOK
<1>6. Unused'
  <2> SUFFICES ASSUME NEW u \in Tab, NEW m \in 1 .. MaxConnects, m > tab'[u].connects
               PROVE  run'[<<u, m>>] = "none"
    BY DEF Unused
  <2>1. <<u, m>> \in Session /\ m > tab[u].connects /\ <<u, m>> # s
    BY <1>5 DEF Session, TerminalInv, TerminalTypeOK
  <2> QED  BY <1>4, <2>1 DEF TerminalInv, Unused
<1>7. OpenAwaited'
  BY <1>2, <1>3, <1>4 DEF TerminalInv, OpenAwaited
<1>8. Followed'
  BY <1>2, <1>3, <1>4 DEF TerminalInv, TerminalTypeOK, Followed
<1> QED  BY <1>2, <1>4, <1>5, <1>6, <1>7, <1>8 DEF TerminalInv, TerminalTypeOK, ShellsCurrent

LEMMA PreparedInv ==
  ASSUME TerminalInv, NEW s \in Session, Prepared(s)
  PROVE  TerminalInv'
<1>1. CASE Shown(s)
  <2>1. /\ run' = [run EXCEPT ![s] = "opening"] /\ asked' = asked \union {<<"open", s>>}
        /\ UNCHANGED <<host, shells, tab>> /\ run[s] = "preparing"
    BY <1>1 DEF Prepared
  <2>2. /\ run' \in [Session -> RunStep] /\ run'[s] = "opening"
        /\ \A r \in Session : r # s => run'[r] = run[r]
    BY <2>1 DEF TerminalInv, TerminalTypeOK, RunStep
  <2>3. Unused'
    <3> SUFFICES ASSUME NEW t \in Tab, NEW n \in 1 .. MaxConnects, n > tab[t].connects
                 PROVE  run'[<<t, n>>] = "none"
      BY <2>1 DEF Unused
    <3>1. <<t, n>> \in Session /\ run[<<t, n>>] = "none"
      BY DEF TerminalInv, Unused, Session
    <3> QED  BY <2>1, <2>2, <3>1
  <2>4. OpenAwaited'
    BY <2>1, <2>2 DEF TerminalInv, OpenAwaited
  <2>5. Followed'
    BY <2>1, <2>2 DEF TerminalInv, TerminalTypeOK, Followed
  <2> QED  BY <2>1, <2>2, <2>3, <2>4, <2>5 DEF TerminalInv, TerminalTypeOK, ShellsCurrent
<1>2. CASE ~Shown(s)
  BY <1>2, FinallyInv DEF Prepared
<1> QED  BY <1>1, <1>2

\* A step of a connect call that is neither waiting for its open nor ended.
LEMMA RunOnly ==
  ASSUME TerminalInv, NEW s \in Session, NEW step \in {"opened", "refused", "reading", "ended"},
         run' = [run EXCEPT ![s] = step], run[s] # "none",
         shells' \subseteq [session : Session, settings : Nat, running : BOOLEAN],
         asked' \subseteq asked, UNCHANGED <<host, tab>>,
         run[s] = "opening" => <<"open", s>> \notin asked',
         \A x \in shells' :
           \/ x.session = s /\ step \in {"opened", "reading"}
           \/ x.session # s /\ \E y \in shells : y.session = x.session
  PROVE  TerminalTypeOK' /\ Unused' /\ OpenAwaited' /\ Followed'
<1>1. /\ run' \in [Session -> RunStep] /\ run'[s] = step
      /\ \A r \in Session : r # s => run'[r] = run[r]
  BY DEF TerminalInv, TerminalTypeOK, RunStep
<1>2. Unused'
  <2> SUFFICES ASSUME NEW t \in Tab, NEW n \in 1 .. MaxConnects, n > tab[t].connects
               PROVE  run'[<<t, n>>] = "none"
    BY DEF Unused
  <2>1. <<t, n>> \in Session /\ run[<<t, n>>] = "none"
    BY DEF TerminalInv, Unused, Session
  <2> QED  BY <1>1, <2>1
<1>3. OpenAwaited'
  BY <1>1 DEF TerminalInv, OpenAwaited
<1>4. Followed'
  <2> SUFFICES ASSUME NEW x \in shells' PROVE run'[x.session] \in {"opened", "reading", "closing"}
    BY DEF Followed
  <2>1. CASE x.session = s  BY <1>1, <2>1
  <2>2. CASE x.session # s
    <3>1. PICK y \in shells : y.session = x.session  BY <2>2
    <3>2. x.session \in Session /\ run[x.session] \in {"opened", "reading", "closing"}
      BY <3>1 DEF TerminalInv, TerminalTypeOK, Followed
    <3> QED  BY <1>1, <2>2, <3>2
  <2> QED  BY <2>1, <2>2
<1> QED  BY <1>1, <1>2, <1>3, <1>4 DEF TerminalInv, TerminalTypeOK

LEMMA OpenedInv ==
  ASSUME TerminalInv, NEW s \in Session, Opened(s)
  PROVE  TerminalInv'
<1>1. CASE run[s] = "opened" /\ Shown(s)
  <2>1. run' = [run EXCEPT ![s] = "reading"] /\ UNCHANGED <<host, shells, tab, asked>>
    BY <1>1 DEF Opened
  <2>2. TerminalTypeOK' /\ Unused' /\ OpenAwaited' /\ Followed'
    BY <1>1, <2>1, RunOnly DEF TerminalInv, TerminalTypeOK
  <2> QED  BY <2>1, <2>2 DEF TerminalInv, ShellsCurrent
<1>2. CASE ~(run[s] = "opened" /\ Shown(s))
  BY <1>2, FinallyInv DEF Opened
<1> QED  BY <1>1, <1>2

LEMMA ReadEndsInv ==
  ASSUME TerminalInv, NEW s \in Session, ReadEnds(s)
  PROVE  TerminalInv'
BY FinallyInv DEF ReadEnds

LEMMA DisconnectInv ==
  ASSUME TerminalInv, NEW t \in Tab, NEW dispose \in BOOLEAN, Disconnect(t, dispose)
  PROVE  TerminalInv'
<1>1. /\ tab' = [tab EXCEPT ![t].session = 0, ![t].disposed = dispose]
      /\ UNCHANGED <<host, shells, run>>
      /\ \A s \in Session : <<"open", s>> \in asked' => <<"open", s>> \in asked
  BY DEF Disconnect
<1>2. /\ tab' \in [Tab -> [session : 0 .. MaxConnects, connects : 0 .. MaxConnects, disposed : BOOLEAN]]
      /\ \A u \in Tab : tab'[u].connects = tab[u].connects
  <2>1. 0 \in 0 .. MaxConnects  BY TerminalAssumption
  <2> QED  BY <1>1, <2>1 DEF TerminalInv, TerminalTypeOK
<1> QED  BY <1>1, <1>2 DEF TerminalInv, TerminalTypeOK, Unused, OpenAwaited, Followed, ShellsCurrent
-----------------------------------------------------------------------------
(* The native side *)

LEMMA OpenInv ==
  ASSUME TerminalInv, NEW s \in Session, Open(s)
  PROVE  TerminalInv'
<1>1. /\ asked' = asked \ {<<"open", s>>} /\ ~host.changing /\ UNCHANGED <<host, tab>>
      /\ run[s] = "opening"
  BY DEF Open, TerminalInv, OpenAwaited
<1>2. \A x \in shells : x.session # s
  BY <1>1 DEF TerminalInv, Followed
<1>3. CASE run' = [run EXCEPT ![s] = "refused"] /\ UNCHANGED shells
  <2>1. TerminalTypeOK' /\ Unused' /\ OpenAwaited' /\ Followed'
    BY <1>1, <1>2, <1>3, RunOnly DEF TerminalInv, TerminalTypeOK
  <2> QED  BY <1>1, <1>3, <2>1 DEF TerminalInv, ShellsCurrent
<1>4. CASE /\ shells' = shells \union {[session |-> s, settings |-> host.settings, running |-> TRUE]}
           /\ run' = [run EXCEPT ![s] = "opened"] /\ host.saved
  <2>1. [session |-> s, settings |-> host.settings, running |-> TRUE]
          \in [session : Session, settings : Nat, running : BOOLEAN]
    BY DEF TerminalInv, TerminalTypeOK
  <2>2. TerminalTypeOK' /\ Unused' /\ OpenAwaited' /\ Followed'
    BY <1>1, <1>2, <1>4, <2>1, RunOnly DEF TerminalInv, TerminalTypeOK
  <2> QED  BY <1>1, <1>4, <2>2 DEF TerminalInv, ShellsCurrent
<1> QED  BY <1>3, <1>4 DEF Open

LEMMA CloseInv ==
  ASSUME TerminalInv, NEW s \in Session, Close(s)
  PROVE  TerminalInv'
<1>1. shells' = {x \in shells : x.session # s} /\ UNCHANGED <<host, tab>>
  BY DEF Close, Removed
<1>2. ShellsCurrent'
  BY <1>1 DEF TerminalInv, ShellsCurrent
<1>3. CASE asked' = asked \ {<<"close", s>>} /\ UNCHANGED run
  BY <1>1, <1>2, <1>3 DEF TerminalInv, TerminalTypeOK, Unused, OpenAwaited, Followed
<1>4. CASE run[s] = "closing" /\ run' = [run EXCEPT ![s] = "ended"] /\ UNCHANGED asked
  <2>1. TerminalTypeOK' /\ Unused' /\ OpenAwaited' /\ Followed'
    BY <1>1, <1>4, RunOnly DEF TerminalInv, TerminalTypeOK
  <2> QED  BY <1>2, <2>1 DEF TerminalInv
<1> QED  BY <1>3, <1>4 DEF Close

LEMMA ShellEndsInv ==
  ASSUME TerminalInv, NEW s \in Session, ShellEnds(s)
  PROVE  TerminalInv'
<1>1. /\ shells' = {IF x.session = s THEN [x EXCEPT !.running = FALSE] ELSE x : x \in shells}
      /\ UNCHANGED <<host, tab, run, asked>>
  BY DEF ShellEnds
<1>2. ASSUME NEW x \in shells'
      PROVE  /\ x \in [session : Session, settings : Nat, running : BOOLEAN]
             /\ \E y \in shells : y.session = x.session /\ y.settings = x.settings
  <2>1. PICK y \in shells : x = IF y.session = s THEN [y EXCEPT !.running = FALSE] ELSE y
    BY <1>1
  <2>2. y \in [session : Session, settings : Nat, running : BOOLEAN]
    BY DEF TerminalInv, TerminalTypeOK
  <2> QED  BY <2>1, <2>2
<1> QED  BY <1>1, <1>2 DEF TerminalInv, TerminalTypeOK, Unused, OpenAwaited, Followed, ShellsCurrent

LEMMA HostChangesInv ==
  ASSUME TerminalInv, CloseServer \/ \E stored \in BOOLEAN : ChangeServer(stored)
  PROVE  TerminalInv'
<1>1. UNCHANGED <<tab, run, asked>> /\ shells' \subseteq shells
  BY DEF CloseServer, ChangeServer
<1>2. host' \in [saved : BOOLEAN, settings : Nat, changing : BOOLEAN]
  <2>1. ASSUME CloseServer PROVE host' \in [saved : BOOLEAN, settings : Nat, changing : BOOLEAN]
    <3>1. host' = host \/ host' = [host EXCEPT !.changing = FALSE]  BY <2>1 DEF CloseServer
    <3> QED  BY <3>1 DEF TerminalInv, TerminalTypeOK
  <2>2. ASSUME NEW stored \in BOOLEAN, ChangeServer(stored)
        PROVE  host' \in [saved : BOOLEAN, settings : Nat, changing : BOOLEAN]
    <3>1. host' = [saved |-> stored, settings |-> host.settings + 1, changing |-> TRUE]
      BY <2>2 DEF ChangeServer
    <3>2. host.settings + 1 \in Nat  BY DEF TerminalInv, TerminalTypeOK
    <3> QED  BY <3>1, <3>2
  <2> QED  BY <2>1, <2>2
<1>3. ShellsCurrent'
  BY DEF TerminalInv, TerminalTypeOK, CloseServer, ChangeServer, ShellsCurrent
<1> QED  BY <1>1, <1>2, <1>3 DEF TerminalInv, TerminalTypeOK, Unused, OpenAwaited, Followed
-----------------------------------------------------------------------------
LEMMA TerminalStep == TerminalInv /\ [TerminalNext]_terminalVars => TerminalInv'
<1> SUFFICES ASSUME TerminalInv, [TerminalNext]_terminalVars PROVE TerminalInv'  OBVIOUS
<1>1. ASSUME NEW t \in Tab, Connect(t) PROVE TerminalInv'  BY <1>1, ConnectInv
<1>2. ASSUME NEW t \in Tab, NEW dispose \in BOOLEAN, Disconnect(t, dispose) PROVE TerminalInv'
  BY <1>2, DisconnectInv
<1>3. ASSUME NEW s \in Session, Prepared(s) PROVE TerminalInv'  BY <1>3, PreparedInv
<1>4. ASSUME NEW s \in Session, Opened(s) PROVE TerminalInv'  BY <1>4, OpenedInv
<1>5. ASSUME NEW s \in Session, ReadEnds(s) PROVE TerminalInv'  BY <1>5, ReadEndsInv
<1>6. ASSUME NEW s \in Session, Open(s) PROVE TerminalInv'  BY <1>6, OpenInv
<1>7. ASSUME NEW s \in Session, Close(s) PROVE TerminalInv'  BY <1>7, CloseInv
<1>8. ASSUME NEW s \in Session, ShellEnds(s) PROVE TerminalInv'  BY <1>8, ShellEndsInv
<1>9. CASE CloseServer \/ \E stored \in BOOLEAN : ChangeServer(stored)  BY <1>9, HostChangesInv
<1>10. CASE UNCHANGED terminalVars
  BY <1>10 DEF terminalVars, TerminalInv, TerminalTypeOK, Unused, OpenAwaited, Followed, ShellsCurrent
<1> QED  BY <1>1, <1>2, <1>3, <1>4, <1>5, <1>6, <1>7, <1>8, <1>9, <1>10 DEF TerminalNext

\* Whatever the order in which opens and closes arrive, and whatever is edited meanwhile,
\* no shell stays that nobody will close, and none with replaced settings
\* (session.ts, terminal.rs, commands.rs).
THEOREM NoTerminalIsOrphaned == TerminalSpec => []NoOrphanTerminal
<1>1. TerminalInv => NoOrphanTerminal
  BY DEF TerminalInv, Followed, ShellsCurrent, NoOrphanTerminal
<1>2. TerminalSpec => []TerminalInv
  BY TerminalInitInv, TerminalStep, PTL DEF TerminalSpec
<1> QED  BY <1>1, <1>2, PTL

\* A tab loses a session only to the end of that session's connect call or to a disconnect
\* that asks for its shell to be closed (disconnect and connect of session.ts).
THEOREM OnlyOwnSessionEnds == TerminalSpec => OwnSessionEnds
<1> DEFINE Own(t) == <<t, tab[t].session>>
<1>1. TerminalInv /\ [TerminalNext]_terminalVars => EndsOwn
  <2> SUFFICES ASSUME TerminalInv, [TerminalNext]_terminalVars, NEW t \in Tab,
                      tab[t].session # 0, tab'[t].session # tab[t].session
               PROVE  run'[Own(t)] = "closing" \/ <<"close", Own(t)>> \in asked'
    BY DEF EndsOwn
  <2>1. ASSUME NEW u \in Tab, Connect(u) PROVE FALSE
    <3>1. tab[u].session = 0 /\ \A v \in Tab : v # u => tab'[v] = tab[v]
      BY <2>1 DEF Connect, TerminalInv, TerminalTypeOK
    <3> QED  BY <3>1
  <2>2. ASSUME NEW u \in Tab, NEW dispose \in BOOLEAN, Disconnect(u, dispose)
        PROVE  <<"close", Own(t)>> \in asked'
    <3>1. u = t  BY <2>2 DEF Disconnect, TerminalInv, TerminalTypeOK
    <3> QED  BY <2>2, <3>1 DEF Disconnect
  <2>3. ASSUME NEW s \in Session, Prepared(s) \/ Opened(s) \/ ReadEnds(s)
        PROVE  run'[Own(t)] = "closing"
    <3>1. /\ Finally(s) /\ UNCHANGED <<host, shells, asked>>
          /\ run[s] \in {"preparing", "opened", "refused", "reading"}
      BY <2>3 DEF Prepared, Opened, ReadEnds
    <3>2. s = Own(t) /\ run'[s] = "closing"  BY <3>1, FinallyInv
    <3> QED  BY <3>2
  <2>4. ASSUME NEW s \in Session, Open(s) \/ Close(s) \/ ShellEnds(s) PROVE FALSE
    BY <2>4 DEF Open, Close, ShellEnds
  <2>5. ASSUME CloseServer \/ \E stored \in BOOLEAN : ChangeServer(stored) PROVE FALSE
    BY <2>5 DEF CloseServer, ChangeServer
  <2>6. CASE UNCHANGED terminalVars  BY <2>6 DEF terminalVars
  <2> QED  BY <2>1, <2>2, <2>3, <2>4, <2>5, <2>6 DEF TerminalNext
<1>2. TerminalSpec => []TerminalInv
  BY TerminalInitInv, TerminalStep, PTL DEF TerminalSpec
<1> QED  BY <1>1, <1>2, PTL DEF TerminalSpec, OwnSessionEnds
-----------------------------------------------------------------------------
(* Saved measurements *)

HistoryRows == [series : Series, at : Nat, summary : BOOLEAN, of : SUBSET Nat]

HistoryTypes ==
  /\ clock \in Nat /\ clock <= known.newest
  /\ rows \subseteq HistoryRows
  /\ upkeep \in [now : Nat, cutoff : Int] /\ upkeep.now <= known.newest
  /\ known \in [readings : SUBSET (Series \X Nat), newest : Nat, back : Nat]

\* A raw row stands for its reading; a summary for readings of its minute.
Exact(r) ==
  /\ ~r.summary => r.of = {r.at}
  /\ r.summary => MinuteOf(r.at) = r.at /\ \A x \in r.of : MinuteOf(x) = r.at
Apart(a, b) == a.series = b.series /\ a # b => a.at # b.at /\ (a.summary => MinuteOf(b.at) # a.at)
RowsExact == \A r \in rows : Exact(r)
RowsApart == \A a, b \in rows : Apart(a, b)
Recent(k) == k[2] >= known.newest - Retention + Minute
Holds(r, k) == r.series = k[1] /\ k[2] \in r.of
NoneLost == \A k \in known.readings : Recent(k) => \E r \in rows : Holds(r, k)
HistoryInv == HistoryTypes /\ RowsExact /\ RowsApart /\ NoneLost

LEMMA Minutes ==
  ASSUME NEW x \in Nat
  PROVE  /\ MinuteOf(x) \in Nat /\ MinuteOf(x) <= x /\ x < MinuteOf(x) + Minute
         /\ MinuteOf(MinuteOf(x)) = MinuteOf(x)
  BY HistoryAssumption DEF MinuteOf

LEMMA Fewer ==
  ASSUME NEW a \in Int, NEW b \in Int, NEW d \in Nat \ {0}, a * d < (b + 1) * d
  PROVE  a <= b
  OBVIOUS

LEMMA SameMinute ==
  ASSUME NEW m \in Nat, MinuteOf(m) = m, NEW x \in Nat
  PROVE  (m <= x /\ x < m + Minute) <=> MinuteOf(x) = m
<1>1. Minute \in Nat \ {0}
  BY HistoryAssumption
<1>2. PICK a, b \in Int : /\ m = a * Minute /\ MinuteOf(x) = b * Minute
  <2>1. m \div Minute \in Int /\ x \div Minute \in Int
    BY <1>1
  <2>. QED
    BY <2>1 DEF MinuteOf
<1>3. MinuteOf(x) \in Nat /\ MinuteOf(x) <= x /\ x < MinuteOf(x) + Minute
  BY Minutes
<1>4. ASSUME m <= x, x < m + Minute PROVE MinuteOf(x) = m
  <2>1. a * Minute < (b + 1) * Minute /\ b * Minute < (a + 1) * Minute
    BY <1>1, <1>2, <1>3, <1>4
  <2>2. a <= b /\ b <= a
    BY <1>1, <1>2, <2>1, Fewer
  <2>. QED
    BY <1>2, <2>2
<1>. QED
  BY <1>3, <1>4

LEMMA ReadingInMinute ==
  ASSUME NEW r \in HistoryRows, Exact(r), NEW x \in r.of
  PROVE  x \in Nat /\ r.at <= x /\ x < r.at + Minute /\ MinuteOf(x) = MinuteOf(r.at)
<1>1. x \in Nat /\ r.at \in Nat /\ r.summary \in BOOLEAN
  BY DEF HistoryRows
<1>2. CASE r.summary
  BY <1>1, <1>2, Minutes DEF Exact
<1>3. CASE ~r.summary
  <2>1. x = r.at
    BY <1>3 DEF Exact
  <2>. QED
    BY <1>1, <2>1, HistoryAssumption
<1>. QED
  BY <1>1, <1>2, <1>3

\* What the property asks of the rows.
LEMMA WholeHistory == HistoryInv => HistoryWhole
<1>. SUFFICES ASSUME HistoryInv PROVE MinutesWhole /\ CountedOnce
  BY DEF HistoryWhole
<1>1. MinutesWhole
  BY DEF MinutesWhole, HistoryRange, HistoryInv, RowsApart, Apart
<1>2. CountedOnce
  <2>. SUFFICES ASSUME NEW k \in known.readings, k[2] >= known.newest - Retention + Minute
                PROVE  Cardinality({r \in rows : r.series = k[1] /\ k[2] \in r.of}) = 1
    BY DEF CountedOnce
  <2>1. PICK r \in rows : Holds(r, k)
    BY DEF HistoryInv, NoneLost, Recent
  <2>2. ASSUME NEW a \in rows, NEW b \in rows, Holds(a, k), Holds(b, k), a # b, a.summary
        PROVE  FALSE
    <3>1. a.series = b.series /\ MinuteOf(b.at) # a.at
      BY <2>2 DEF Holds, HistoryInv, RowsApart, Apart
    <3>2. MinuteOf(k[2]) = a.at
      BY <2>2 DEF Holds, HistoryInv, RowsExact, Exact
    <3>3. MinuteOf(k[2]) = MinuteOf(b.at)
      BY <2>2, ReadingInMinute DEF Holds, HistoryInv, RowsExact, HistoryTypes
    <3>. QED
      BY <3>1, <3>2, <3>3
  <2>3. ASSUME NEW a \in rows, NEW b \in rows, Holds(a, k), Holds(b, k), ~a.summary, ~b.summary
        PROVE  a = b
    <3>1. a.at = k[2] /\ b.at = k[2] /\ a.series = b.series
      BY <2>3 DEF Holds, HistoryInv, RowsExact, Exact
    <3>. QED
      BY <3>1 DEF HistoryInv, RowsApart, Apart
  <2>4. \A a \in rows : Holds(a, k) => a = r
    BY <2>1, <2>2, <2>3
  <2>5. {a \in rows : a.series = k[1] /\ k[2] \in a.of} = {r}
    BY <2>1, <2>4 DEF Holds
  <2>. QED
    BY <2>5, FS_Singleton
<1>. QED
  BY <1>1, <1>2

LEMMA HistoryStarts == HistoryInit => HistoryInv
  BY HistoryAssumption
  DEF HistoryInit, HistoryInv, HistoryTypes, RowsExact, RowsApart, NoneLost, NoUpkeep

\* Pruning keeps what is recent: a row lasts as long as the last reading it stands for.
LEMMA PruneKeeps ==
  ASSUME HistoryInv, NEW now \in Nat, now <= known.newest, NEW k \in known.readings, Recent(k)
  PROVE  \E r \in Prune(rows, now) : Holds(r, k)
<1>1. PICK r \in rows : Holds(r, k)
  BY DEF HistoryInv, NoneLost
<1>2. r \in HistoryRows /\ Exact(r) /\ known.newest \in Nat
  BY DEF HistoryInv, HistoryTypes, RowsExact
<1>3. k[2] \in Nat /\ r.at \in Nat /\ k[2] < r.at + Minute
  BY <1>1, <1>2, ReadingInMinute DEF Holds, HistoryRows
<1>4. r.at >= now - Retention
  BY <1>2, <1>3, HistoryAssumption DEF Recent
<1>. QED
  BY <1>1, <1>4 DEF Prune

LEMMA PruneSubset ==
  ASSUME NEW set, NEW now
  PROVE  Prune(set, now) \subseteq set
  BY DEF Prune

\* Fewer rows are still exact and apart.
LEMMA FewerRows ==
  ASSUME HistoryInv, rows' \subseteq rows, UNCHANGED <<clock, upkeep, known>>,
         \A k \in known.readings : Recent(k) => \E r \in rows' : Holds(r, k)
  PROVE  HistoryInv'
  BY DEF HistoryInv, HistoryTypes, RowsExact, RowsApart, NoneLost, Exact, Apart, Recent, Holds, MinuteOf

LEMMA PrunesNow ==
  ASSUME HistoryInv, rows' = Prune(rows, clock), UNCHANGED <<clock, upkeep, known>>
  PROVE  HistoryInv'
<1>1. clock \in Nat /\ clock <= known.newest
  BY DEF HistoryInv, HistoryTypes
<1>2. \A k \in known.readings : Recent(k) => \E r \in rows' : Holds(r, k)
  BY <1>1, PruneKeeps
<1>. QED
  BY <1>2, PruneSubset, FewerRows

LEMMA ClockMoves ==
  ASSUME HistoryInv, clock' \in Nat, UNCHANGED <<rows, upkeep>>,
         known'.readings = known.readings, known' \in [readings : SUBSET (Series \X Nat), newest : Nat, back : Nat],
         known'.newest >= known.newest, clock' <= known'.newest
  PROVE  HistoryInv'
<1>1. HistoryTypes'
  BY DEF HistoryInv, HistoryTypes
<1>2. RowsExact' /\ RowsApart'
  BY DEF HistoryInv, RowsExact, RowsApart, Exact, Apart, MinuteOf
<1>3. NoneLost'
  <2>. SUFFICES ASSUME NEW k \in known.readings, Recent(k)'
                PROVE  \E r \in rows : Holds(r, k)
    BY DEF NoneLost, Holds
  <2>1. k[2] \in Nat /\ known.newest \in Nat /\ known'.newest \in Nat
    BY DEF HistoryInv, HistoryTypes
  <2>2. Recent(k)
    BY <2>1, HistoryAssumption DEF Recent
  <2>. QED
    BY <2>2 DEF HistoryInv, NoneLost
<1>. QED
  BY <1>1, <1>2, <1>3 DEF HistoryInv

LEMMA ForwardInv == ASSUME HistoryInv, Forward PROVE HistoryInv'
<1>1. /\ clock \in Nat /\ known.newest \in Nat /\ clock <= known.newest
      /\ known \in [readings : SUBSET (Series \X Nat), newest : Nat, back : Nat]
  BY DEF HistoryInv, HistoryTypes
<1>2. PICK newest \in Nat : newest = Max({known.newest, clock + 1}) /\ newest >= known.newest /\ newest >= clock + 1
  <2>1. \E n \in {known.newest, clock + 1} : \A m \in {known.newest, clock + 1} : n >= m
    BY <1>1
  <2>2. /\ Max({known.newest, clock + 1}) \in {known.newest, clock + 1}
        /\ \A m \in {known.newest, clock + 1} : Max({known.newest, clock + 1}) >= m
    BY <2>1 DEF Max
  <2>. QED
    BY <1>1, <2>2
<1>3. known' = [known EXCEPT !.newest = newest] /\ clock' = clock + 1 /\ UNCHANGED <<rows, upkeep>>
  BY <1>2 DEF Forward
<1>4. /\ known'.readings = known.readings /\ known'.newest = newest
      /\ known' \in [readings : SUBSET (Series \X Nat), newest : Nat, back : Nat]
  BY <1>1, <1>3
<1>. QED
  BY <1>1, <1>2, <1>3, <1>4, ClockMoves

LEMMA BackInv == ASSUME HistoryInv, Back PROVE HistoryInv'
<1>1. /\ clock \in Nat /\ known.newest \in Nat /\ clock <= known.newest
      /\ known \in [readings : SUBSET (Series \X Nat), newest : Nat, back : Nat]
  BY DEF HistoryInv, HistoryTypes
<1>2. PICK d \in 1 .. Minute + Day : d <= clock /\ clock' = clock - d
  BY DEF Back
<1>3. clock' \in Nat /\ clock' <= known.newest
  BY <1>1, <1>2
<1>4. known' = [known EXCEPT !.back = @ + 1] /\ UNCHANGED <<rows, upkeep>>
  BY DEF Back
<1>5. /\ known'.readings = known.readings /\ known'.newest = known.newest
      /\ known' \in [readings : SUBSET (Series \X Nat), newest : Nat, back : Nat]
  BY <1>1, <1>4
<1>. QED
  BY <1>1, <1>3, <1>4, <1>5, ClockMoves

LEMMA RecordInv == ASSUME HistoryInv, NEW s \in Series, RecordReading(s) PROVE HistoryInv'
<1>1. /\ clock \in Nat /\ known.newest \in Nat /\ clock <= known.newest
      /\ known \in [readings : SUBSET (Series \X Nat), newest : Nat, back : Nat]
      /\ rows \subseteq HistoryRows /\ UNCHANGED <<clock, upkeep>>
  BY DEF HistoryInv, HistoryTypes, RecordReading
<1>2. CASE Summarized(s, MinuteOf(clock))
  BY <1>1, <1>2, PrunesNow DEF RecordReading
<1>3. CASE ~Summarized(s, MinuteOf(clock))
  <2>1. PICK new : new = [series |-> s, at |-> clock, summary |-> FALSE, of |-> {clock}]
    OBVIOUS
  <2>2. PICK others : others = {r \in rows : ~(r.series = s /\ r.at = clock)}
    OBVIOUS
  <2>3. /\ rows' = Prune(others \union {new}, clock)
        /\ known' = [known EXCEPT !.readings = @ \union {<<s, clock>>}]
    BY <1>1, <1>3, <2>1, <2>2 DEF RecordReading, Stored
  <2>4. /\ new \in HistoryRows /\ Exact(new) /\ new.series = s /\ new.at = clock /\ new.of = {clock}
        /\ ~new.summary
    BY <1>1, <2>1 DEF HistoryRows, Exact
  <2>5. /\ known'.readings = known.readings \union {<<s, clock>>} /\ known'.newest = known.newest
        /\ known' \in [readings : SUBSET (Series \X Nat), newest : Nat, back : Nat]
    BY <1>1, <2>3
  <2>6. rows' \subseteq others \union {new}
    BY <2>3, PruneSubset
  <2>7. HistoryTypes'
    BY <1>1, <2>2, <2>4, <2>5, <2>6 DEF HistoryInv, HistoryTypes
  <2>8. RowsExact'
    <3>1. \A r \in rows' : Exact(r)
      BY <2>2, <2>4, <2>6 DEF HistoryInv, RowsExact
    <3>. QED
      BY <3>1 DEF RowsExact, Exact, MinuteOf
  <2>9. RowsApart'
    <3>1. ASSUME NEW r \in others PROVE Apart(r, new) /\ Apart(new, r)
      <4>1. r.series = s => r.at # clock
        BY <2>2
      <4>2. r.series = s /\ r.summary => r.at # MinuteOf(clock)
        BY <1>3, <2>2 DEF Summarized
      <4>. QED
        BY <2>4, <4>1, <4>2 DEF Apart
    <3>2. \A a, b \in rows' : Apart(a, b)
      BY <2>2, <2>6, <3>1 DEF HistoryInv, RowsApart, Apart
    <3>. QED
      BY <3>2 DEF RowsApart, Apart, MinuteOf
  <2>10. NoneLost'
    <3>. SUFFICES ASSUME NEW k \in known'.readings, Recent(k)
                  PROVE  \E r \in rows' : Holds(r, k)
      BY <2>5 DEF NoneLost, Recent, Holds
    <3>1. new \in rows'
      BY <1>1, <2>3, <2>4, HistoryAssumption DEF Prune
    <3>2. CASE k = <<s, clock>>
      BY <2>4, <3>1, <3>2 DEF Holds
    <3>3. CASE k # <<s, clock>>
      <4>1. k \in known.readings /\ k \in Series \X Nat
        BY <1>1, <2>5, <3>3
      <4>2. PICK r \in Prune(rows, clock) : Holds(r, k)
        BY <1>1, <4>1, PruneKeeps
      <4>3. r \in rows
        BY <4>2, PruneSubset
      <4>4. ~(r.series = s /\ r.at = clock)
        <5>1. ASSUME r.series = s, r.at = clock PROVE FALSE
          <6>1. ~r.summary
            <7>1. ASSUME r.summary PROVE FALSE
              <8>1. MinuteOf(clock) = clock
                BY <4>3, <5>1, <7>1 DEF HistoryInv, RowsExact, Exact
              <8>2. r.summary = TRUE
                BY <1>1, <4>3, <7>1 DEF HistoryRows
              <8>. QED
                BY <1>3, <4>3, <5>1, <8>1, <8>2 DEF Summarized
            <7>. QED
              BY <7>1
          <6>2. r.of = {clock}
            BY <4>3, <5>1, <6>1 DEF HistoryInv, RowsExact, Exact
          <6>3. k[1] = s /\ k[2] = clock
            BY <4>2, <5>1, <6>2 DEF Holds
          <6>. QED
            BY <3>3, <4>1, <6>3
        <5>. QED
          BY <5>1
      <4>5. r \in rows'
        BY <2>2, <2>3, <4>2, <4>3, <4>4 DEF Prune
      <4>. QED
        BY <4>2, <4>5
    <3>. QED
      BY <3>2, <3>3
  <2>. QED
    BY <2>7, <2>8, <2>9, <2>10 DEF HistoryInv
<1>. QED
  BY <1>2, <1>3

LEMMA UpkeepMoves ==
  ASSUME HistoryInv, UNCHANGED <<clock, rows, known>>,
         upkeep' \in [now : Nat, cutoff : Int], upkeep'.now <= known.newest
  PROVE  HistoryInv'
  BY DEF HistoryInv, HistoryTypes, RowsExact, RowsApart, NoneLost, Exact, Apart, Recent, Holds, MinuteOf

LEMMA BeginInv == ASSUME HistoryInv, BeginUpkeep PROVE HistoryInv'
<1>1. clock \in Nat /\ clock <= known.newest
  BY DEF HistoryInv, HistoryTypes
<1>2. PICK cutoff \in Int : cutoff = Cutoff
  BY <1>1, HistoryAssumption DEF Cutoff, MinuteOf
<1>3. upkeep' = [now |-> clock, cutoff |-> cutoff] /\ UNCHANGED <<clock, rows, known>>
  BY <1>2 DEF BeginUpkeep
<1>. QED
  BY <1>1, <1>3, UpkeepMoves

LEMMA EndInv == ASSUME HistoryInv, EndUpkeep PROVE HistoryInv'
<1>1. known.newest \in Nat
  BY DEF HistoryInv, HistoryTypes
<1>. QED
  BY <1>1, UpkeepMoves DEF EndUpkeep, NoUpkeep

\* A minute of one series.
Bucket(b) == b.series \in Series /\ b.at \in Nat /\ MinuteOf(b.at) = b.at
               /\ b = [series |-> b.series, at |-> b.at]

LEMMA MergedRows ==
  ASSUME HistoryInv, NEW kept \in SUBSET rows, NEW b, Bucket(b), NEW r \in kept
  PROVE  r \in Merged(kept, b) <=> (r.series = b.series /\ MinuteOf(r.at) = b.at)
<1>1. r.at \in Nat
  BY DEF HistoryInv, HistoryTypes, HistoryRows
<1>2. (b.at <= r.at /\ r.at < b.at + Minute) <=> MinuteOf(r.at) = b.at
  BY <1>1, SameMinute DEF Bucket
<1>3. (r.at >= b.at) <=> (b.at <= r.at)
  BY <1>1 DEF Bucket
<1>. QED
  BY <1>2, <1>3 DEF Merged, InMinute

LEMMA SummaryExact ==
  ASSUME HistoryInv, NEW kept \in SUBSET rows, NEW b, Bucket(b)
  PROVE  SummaryOver(kept, b) \in HistoryRows /\ Exact(SummaryOver(kept, b))
<1>1. ASSUME NEW r \in Merged(kept, b), NEW x \in r.of
      PROVE  x \in Nat /\ MinuteOf(x) = b.at
  <2>1. r \in kept /\ r \in HistoryRows /\ Exact(r)
    BY DEF Merged, HistoryInv, HistoryTypes, RowsExact
  <2>2. MinuteOf(r.at) = b.at
    BY <2>1, MergedRows
  <2>. QED
    BY <1>1, <2>1, <2>2, ReadingInMinute
<1>2. PICK of : of = UNION {r.of : r \in Merged(kept, b)}
  OBVIOUS
<1>3. of \in SUBSET Nat /\ \A x \in of : MinuteOf(x) = b.at
  BY <1>1, <1>2
<1>4. SummaryOver(kept, b) = [series |-> b.series, at |-> b.at, summary |-> TRUE, of |-> of]
  BY <1>2 DEF SummaryOver
<1>. QED
  BY <1>3, <1>4 DEF Exact, HistoryRows, Bucket

LEMMA SummaryApart ==
  ASSUME HistoryInv, NEW kept \in SUBSET rows, NEW b, Bucket(b),
         NEW r \in kept \ Merged(kept, b)
  PROVE  Apart(r, SummaryOver(kept, b)) /\ Apart(SummaryOver(kept, b), r)
<1>1. PICK n : n = SummaryOver(kept, b)
  OBVIOUS
<1>2. n.series = b.series /\ n.at = b.at /\ n.summary
  BY <1>1 DEF SummaryOver
<1>3. r.series = b.series => MinuteOf(r.at) # b.at
  BY MergedRows
<1>4. r.summary => MinuteOf(r.at) = r.at
  BY DEF HistoryInv, RowsExact, Exact
<1>5. Apart(r, n) /\ Apart(n, r)
  BY <1>2, <1>3, <1>4 DEF Apart, Bucket
<1>. QED
  BY <1>1, <1>5

LEMMA SummariesApart ==
  ASSUME NEW kept, NEW a, NEW b, Bucket(a), Bucket(b)
  PROVE  Apart(SummaryOver(kept, a), SummaryOver(kept, b))
<1>1. PICK m, n : m = SummaryOver(kept, a) /\ n = SummaryOver(kept, b)
  OBVIOUS
<1>2. m.series = a.series /\ m.at = a.at /\ n.series = b.series /\ n.at = b.at
  BY <1>1 DEF SummaryOver
<1>3. m # n => a # b
  BY <1>1
<1>4. a # b => a.series # b.series \/ a.at # b.at
  BY DEF Bucket
<1>5. Apart(m, n)
  BY <1>2, <1>3, <1>4 DEF Apart, Bucket
<1>. QED
  BY <1>1, <1>5

Compacts(kept, buckets) ==
  /\ rows' = (kept \ UNION {Merged(kept, b) : b \in buckets}) \union
               {SummaryOver(kept, b) : b \in buckets}
  /\ upkeep' = IF buckets = {} THEN NoUpkeep ELSE upkeep

LEMMA CompactInv == ASSUME HistoryInv, CompactBatch PROVE HistoryInv'
<1>1. /\ rows \subseteq HistoryRows /\ upkeep \in [now : Nat, cutoff : Int] /\ upkeep.now <= known.newest
      /\ known.newest \in Nat /\ UNCHANGED <<clock, known>>
  BY DEF HistoryInv, HistoryTypes, CompactBatch
<1>2. PICK raw \in Oldest(RawLimit, {r \in Prune(rows, upkeep.now) : ~r.summary /\ r.at < upkeep.cutoff}) :
      \E buckets \in Oldest(Batch, {[series |-> r.series, at |-> MinuteOf(r.at)] : r \in raw}) :
        Compacts(Prune(rows, upkeep.now), buckets)
  BY Zenon DEF CompactBatch, Compacts
<1>3. PICK buckets \in Oldest(Batch, {[series |-> r.series, at |-> MinuteOf(r.at)] : r \in raw}) :
        Compacts(Prune(rows, upkeep.now), buckets)
  BY <1>2
<1>4. PICK kept : /\ kept = Prune(rows, upkeep.now) /\ raw \subseteq kept
                  /\ rows' = (kept \ UNION {Merged(kept, b) : b \in buckets}) \union
                               {SummaryOver(kept, b) : b \in buckets}
                  /\ upkeep' = IF buckets = {} THEN NoUpkeep ELSE upkeep
  <2>1. raw \subseteq Prune(rows, upkeep.now)
    BY <1>2 DEF Oldest
  <2>. QED
    BY <1>3, <2>1 DEF Compacts
<1>5. kept \in SUBSET rows
  BY <1>4, PruneSubset
<1>6. \A b \in buckets : Bucket(b)
  <2>1. raw \subseteq kept
    BY <1>4
  <2>2. buckets \subseteq {[series |-> r.series, at |-> MinuteOf(r.at)] : r \in raw}
    BY <1>3 DEF Oldest
  <2>. SUFFICES ASSUME NEW b \in buckets PROVE Bucket(b)
    OBVIOUS
  <2>3. PICK r \in raw : b = [series |-> r.series, at |-> MinuteOf(r.at)]
    BY <2>2
  <2>4. r.series \in Series /\ r.at \in Nat
    BY <1>1, <1>5, <2>1 DEF HistoryRows
  <2>5. MinuteOf(r.at) \in Nat /\ MinuteOf(MinuteOf(r.at)) = MinuteOf(r.at)
    BY <2>4, Minutes
  <2>. QED
    BY <2>3, <2>4, <2>5 DEF Bucket
<1>7. HistoryTypes'
  <2>1. rows' \subseteq HistoryRows
    BY <1>1, <1>4, <1>5, <1>6, SummaryExact
  <2>2. upkeep' \in [now : Nat, cutoff : Int] /\ upkeep'.now <= known.newest
    BY <1>1, <1>4 DEF NoUpkeep
  <2>. QED
    BY <1>1, <2>1, <2>2 DEF HistoryInv, HistoryTypes
<1>8. RowsExact'
  <2>1. \A r \in rows' : Exact(r)
    BY <1>4, <1>5, <1>6, SummaryExact DEF HistoryInv, RowsExact
  <2>. QED
    BY <2>1 DEF RowsExact, Exact, MinuteOf
<1>9. RowsApart'
  <2>1. \A a, b \in rows' : Apart(a, b)
    <3>. SUFFICES ASSUME NEW a \in rows', NEW b \in rows' PROVE Apart(a, b)
      OBVIOUS
    <3>1. \/ a \in kept /\ \A c \in buckets : a \notin Merged(kept, c)
          \/ \E c \in buckets : a = SummaryOver(kept, c)
      BY <1>4
    <3>2. \/ b \in kept /\ \A c \in buckets : b \notin Merged(kept, c)
          \/ \E c \in buckets : b = SummaryOver(kept, c)
      BY <1>4
    <3>3. CASE a \in kept /\ b \in kept
      BY <1>5, <3>3 DEF HistoryInv, RowsApart
    <3>4. ASSUME a \in kept, \A c \in buckets : a \notin Merged(kept, c),
                 NEW c \in buckets, b = SummaryOver(kept, c)
          PROVE  Apart(a, b)
      BY <1>5, <1>6, <3>4, SummaryApart
    <3>5. ASSUME b \in kept, \A c \in buckets : b \notin Merged(kept, c),
                 NEW c \in buckets, a = SummaryOver(kept, c)
          PROVE  Apart(a, b)
      BY <1>5, <1>6, <3>5, SummaryApart
    <3>6. ASSUME NEW c \in buckets, a = SummaryOver(kept, c), NEW d \in buckets, b = SummaryOver(kept, d)
          PROVE  Apart(a, b)
      BY <1>6, <3>6, SummariesApart
    <3>. QED
      BY <3>1, <3>2, <3>3, <3>4, <3>5, <3>6
  <2>. QED
    BY <2>1 DEF RowsApart, Apart, MinuteOf
<1>10. NoneLost'
  <2>. SUFFICES ASSUME NEW k \in known.readings, Recent(k)
                PROVE  \E r \in rows' : Holds(r, k)
    BY <1>1 DEF NoneLost, Recent, Holds
  <2>1. PICK r \in kept : Holds(r, k)
    BY <1>1, <1>4, PruneKeeps
  <2>2. ASSUME NEW b \in buckets, r \in Merged(kept, b)
        PROVE  SummaryOver(kept, b) \in rows' /\ Holds(SummaryOver(kept, b), k)
    <3>1. r.series = b.series
      BY <1>5, <1>6, <2>2, MergedRows
    <3>2. PICK of : of = UNION {x.of : x \in Merged(kept, b)}
      OBVIOUS
    <3>3. k[2] \in of
      BY <2>1, <2>2, <3>2 DEF Holds
    <3>4. SummaryOver(kept, b) = [series |-> b.series, at |-> b.at, summary |-> TRUE, of |-> of]
      BY <3>2 DEF SummaryOver
    <3>5. PICK n : n = SummaryOver(kept, b)
      OBVIOUS
    <3>6. n.series = b.series /\ n.of = of
      BY <3>4, <3>5
    <3>7. Holds(n, k)
      BY <2>1, <3>1, <3>3, <3>6 DEF Holds
    <3>. QED
      BY <1>4, <3>5, <3>7
  <2>3. CASE \A b \in buckets : r \notin Merged(kept, b)
    BY <1>4, <2>1, <2>3
  <2>. QED
    BY <2>2, <2>3
<1>. QED
  BY <1>7, <1>8, <1>9, <1>10 DEF HistoryInv

LEMMA ClearInv == ASSUME HistoryInv, ClearSaved PROVE HistoryInv'
<1>1. known \in [readings : SUBSET (Series \X Nat), newest : Nat, back : Nat]
  BY DEF HistoryInv, HistoryTypes
<1>2. known' = [known EXCEPT !.readings = {}] /\ rows' = {} /\ UNCHANGED <<clock, upkeep>>
  BY DEF ClearSaved
<1>3. /\ known'.readings = {} /\ known'.newest = known.newest
      /\ known' \in [readings : SUBSET (Series \X Nat), newest : Nat, back : Nat]
  BY <1>1, <1>2
<1>. QED
  BY <1>2, <1>3 DEF HistoryInv, HistoryTypes, RowsExact, RowsApart, NoneLost

LEMMA DeleteInv == ASSUME HistoryInv, NEW s \in Series, DeleteSeries(s) PROVE HistoryInv'
<1>1. known \in [readings : SUBSET (Series \X Nat), newest : Nat, back : Nat]
  BY DEF HistoryInv, HistoryTypes
<1>2. /\ known' = [known EXCEPT !.readings = {k \in @ : k[1] # s}]
      /\ rows' = {r \in rows : r.series # s} /\ UNCHANGED <<clock, upkeep>>
  BY DEF DeleteSeries
<1>3. PICK readings : readings = {k \in known.readings : k[1] # s}
  OBVIOUS
<1>4. known' = [known EXCEPT !.readings = readings]
  BY <1>2, <1>3
<1>5. readings \in SUBSET (Series \X Nat)
  BY <1>1, <1>3
<1>6. /\ known'.readings = readings /\ known'.newest = known.newest
      /\ known' \in [readings : SUBSET (Series \X Nat), newest : Nat, back : Nat]
  BY <1>1, <1>4, <1>5
<1>7. HistoryTypes'
  BY <1>2, <1>6 DEF HistoryInv, HistoryTypes
<1>8. RowsExact' /\ RowsApart'
  BY <1>2 DEF HistoryInv, RowsExact, RowsApart, Exact, Apart, MinuteOf
<1>9. NoneLost'
  BY <1>2, <1>3, <1>6 DEF HistoryInv, NoneLost, Recent, Holds
<1>. QED
  BY <1>7, <1>8, <1>9 DEF HistoryInv

LEMMA ShowInv == ASSUME HistoryInv, ShowHistory PROVE HistoryInv'
  BY PrunesNow DEF ShowHistory

LEMMA HistoryRests == ASSUME HistoryInv, UNCHANGED historyVars PROVE HistoryInv'
  BY DEF historyVars, HistoryInv, HistoryTypes, RowsExact, RowsApart, NoneLost, Exact, Apart, Recent, Holds, MinuteOf

LEMMA HistoryKept == HistoryInv /\ [HistoryNext]_historyVars => HistoryInv'
  BY ForwardInv, BackInv, RecordInv, BeginInv, EndInv, CompactInv, ClearInv, DeleteInv, ShowInv, HistoryRests
  DEF HistoryNext
-----------------------------------------------------------------------------
(* Rates of a summarized minute *)

\* A set of numbers has a least one.
Below == {p \in Nat \X Nat : p[1] < p[2]}
LEMMA Least == ASSUME NEW S, S \subseteq Nat, S # {} PROVE \E m \in S : \A k \in S : m <= k
<1>1. IsWellFoundedOn(Below, Nat)
  BY NatLessThanWellFounded DEF OpToRel, Below
<1>2. PICK m \in S : \A k \in S : <<k, m>> \notin Below
  BY <1>1, WFMin
<1>3. ASSUME NEW k \in S PROVE m <= k
  <2>1. k \in Nat /\ m \in Nat  OBVIOUS
  <2>2. ~(k < m)  BY <1>2, <2>1 DEF Below
  <2> QED  BY <2>1, <2>2
<1> QED  BY <1>3

\* The pairs counted one by one, up to the reading n.
CountOf(m, c, i) == IF i = 1 THEN NothingCounted ELSE WithPair(c[i - 1], m[i - 1], m[i])
Counts(m, n, c) == c = [i \in 1 .. n |-> CountOf(m, c, i)]

LEMMA CountsExist == ASSUME NEW m, NEW n \in Nat PROVE \E c : Counts(m, n, c)
<1>1. PICK bad : bad = {k \in Nat : ~\E c : Counts(m, k, c)}
  OBVIOUS
<1>. SUFFICES ASSUME n \in bad PROVE FALSE
  BY <1>1
<1>2. PICK k \in bad : \A j \in bad : k <= j
  <2>1. bad \subseteq Nat /\ bad # {}
    BY <1>1
  <2>. QED
    BY <2>1, Least
<1>3. k \in Nat
  BY <1>1
<1>4. CASE k = 0
  <2>1. PICK c : c = [i \in 1 .. 0 |-> 0]
    OBVIOUS
  <2>2. Counts(m, 0, c)
    BY <2>1 DEF Counts
  <2>. QED
    BY <1>1, <1>4, <2>2
<1>5. CASE k # 0
  <2>1. k - 1 \in Nat /\ k - 1 \notin bad
    BY <1>2, <1>3, <1>5
  <2>2. PICK c : Counts(m, k - 1, c)
    BY <1>1, <2>1
  <2>3. PICK d : d = [i \in 1 .. k |-> IF i = k THEN CountOf(m, c, k) ELSE c[i]]
    OBVIOUS
  <2>4. ASSUME NEW i \in 1 .. k PROVE d[i] = CountOf(m, d, i)
    <3>1. i # 1 => d[i - 1] = c[i - 1]
      BY <1>3, <2>3
    <3>2. CountOf(m, d, i) = CountOf(m, c, i)
      BY <3>1 DEF CountOf
    <3>3. CASE i = k
      BY <2>3, <3>2, <3>3
    <3>4. CASE i # k
      <4>1. i \in 1 .. k - 1
        BY <1>3, <3>4
      <4>2. c[i] = CountOf(m, c, i)
        BY <2>2, <4>1 DEF Counts
      <4>. QED
        BY <2>3, <3>2, <3>4, <4>2
    <3>. QED
      BY <3>3, <3>4
  <2>5. d = [i \in 1 .. k |-> CountOf(m, d, i)]
    <3>1. d = [i \in 1 .. k |-> d[i]]
      BY <2>3
    <3>. QED
      BY <2>4, <3>1
  <2>. QED
    BY <1>1, <2>5 DEF Counts
<1>. QED
  BY <1>4, <1>5

LEMMA CountedIs ==
  ASSUME NEW m, Len(m) \in Nat
  PROVE  \E c : Counts(m, Len(m), c) /\ Counted(m) = c[Len(m)]
<1>1. \E c : c = [i \in 1 .. Len(m) |-> IF i = 1 THEN NothingCounted ELSE WithPair(c[i - 1], m[i - 1], m[i])]
  BY CountsExist DEF Counts, CountOf
<1>. QED
  BY <1>1 DEF Counts, Counted, CountOf

\* Of two peaks the greater is not below the average of both.
LEMMA NewPeak ==
  ASSUME NEW pb \in Int, NEW ps \in Nat \ {0}, NEW B \in Int, NEW S \in Nat,
         NEW b \in Int, NEW s \in Nat \ {0}, pb * S >= B * ps, b * ps > pb * s
  PROVE  b * (S + s) >= (B + b) * s
<1>1. (b * ps) * S >= (pb * s) * S
  OBVIOUS
<1>2. (pb * S) * s >= (B * ps) * s
  OBVIOUS
<1>3. (b * S) * ps >= (B * s) * ps
  BY <1>1, <1>2
<1>4. PICK x, y \in Int : x = b * S /\ y = B * s
  OBVIOUS
<1>5. x >= y
  <2>1. x * ps >= y * ps
    BY <1>3, <1>4
  <2>. QED
    BY <2>1
<1>. QED
  BY <1>4, <1>5

LEMMA OldPeak ==
  ASSUME NEW pb \in Int, NEW ps \in Nat \ {0}, NEW B \in Int, NEW S \in Nat,
         NEW b \in Int, NEW s \in Nat \ {0}, pb * S >= B * ps, ~(b * ps > pb * s)
  PROVE  pb * (S + s) >= (B + b) * ps
<1>1. pb * (S + s) = pb * S + pb * s /\ (B + b) * ps = B * ps + b * ps
  OBVIOUS
<1>2. PICK u, v, x, y \in Int : u = pb * S /\ v = pb * s /\ x = B * ps /\ y = b * ps
  OBVIOUS
<1>. QED
  BY <1>1, <1>2
LEMMA ReadingFacts ==
  ASSUME NEW r \in Reading
  PROVE  /\ r.at \in Nat /\ r.uptime \in Int
         /\ r.bytes # Missing => r.bytes \in Int
<1>1. CASE r \in [at : Times, bytes : 0 .. MaxCounter, uptime : 0 .. MaxCounter]
  <2>1. r.at \in Times /\ r.bytes \in 0 .. MaxCounter /\ r.uptime \in 0 .. MaxCounter
    BY <1>1
  <2>2. r.at \in Nat
    BY <2>1, SummaryAssumption
  <2>3. r.bytes \in Int /\ r.uptime \in Int
    BY <2>1
  <2>. QED
    BY <2>2, <2>3
<1>2. CASE r \in [at : Times, bytes : {Missing}, uptime : {0}]
  <2>1. r.at \in Times /\ r.bytes = Missing /\ r.uptime = 0
    BY <1>2
  <2>2. r.at \in Nat
    BY <2>1, SummaryAssumption
  <2>. QED
    BY <2>1, <2>2
<1>. QED
  BY <1>1, <1>2 DEF Reading

\* What is counted of the first i readings.
Average(m, c, i) ==
  /\ c.bytes = m[i].bytes - m[1].bytes /\ c.bytes \in Int
  /\ c.seconds = m[i].at - m[1].at /\ c.seconds \in Nat
Peak(c) ==
  /\ c.peak.bytes \in Int /\ c.peak.seconds \in Nat \ {0}
  /\ c.peak.bytes * c.seconds >= c.bytes * c.peak.seconds
Steady(m, i) ==
  /\ \A k \in 1 .. i : m[k].bytes # Missing
  /\ \A j, k \in 1 .. i : j < k => m[j].bytes <= m[k].bytes /\ m[j].uptime <= m[k].uptime
CountedSo(m, c, i) ==
  ~c.invalid => \/ i = 1 /\ c = NothingCounted
                \/ i > 1 /\ Average(m, c, i) /\ Peak(c) /\ Steady(m, i)

LEMMA OnePairMore ==
  ASSUME NEW m \in Seq(Reading), NEW i \in 2 .. Len(m), NEW c, CountedSo(m, c, i - 1)
  PROVE  CountedSo(m, WithPair(c, m[i - 1], m[i]), i)
<1>1. /\ m[1] \in Reading /\ m[i - 1] \in Reading /\ m[i] \in Reading /\ i \in Nat /\ Len(m) \in Nat
      /\ \A k \in 1 .. i : m[k] \in Reading
  OBVIOUS
<1>2. PICK a, b : a = m[i - 1] /\ b = m[i]
  OBVIOUS
<1>3. PICK d : d = WithPair(c, a, b)
  OBVIOUS
<1>. SUFFICES ASSUME ~d.invalid PROVE Average(m, d, i) /\ Peak(d) /\ Steady(m, i)
  BY <1>2, <1>3 DEF CountedSo
<1>4. Continues(a, b)
  <2>1. ASSUME ~Continues(a, b) PROVE FALSE
    <3>1. d = [c EXCEPT !.invalid = TRUE]
      BY <1>3, <2>1 DEF WithPair
    <3>. QED
      BY <3>1
  <2>. QED
    BY <2>1
<1>5. /\ a.at \in Nat /\ b.at \in Nat /\ a.bytes \in Int /\ b.bytes \in Int
      /\ a.uptime \in Int /\ b.uptime \in Int
      /\ b.at > a.at /\ a.bytes <= b.bytes /\ a.uptime <= b.uptime
      /\ a.bytes # Missing /\ b.bytes # Missing
  BY <1>1, <1>2, <1>4, ReadingFacts DEF Continues
<1>6. PICK bytes \in Int, seconds \in Nat \ {0} : bytes = b.bytes - a.bytes /\ seconds = b.at - a.at
  <2>1. b.bytes - a.bytes \in Int /\ b.at - a.at \in Nat \ {0}
    <3>1. PICK p, q \in Nat : p = a.at /\ q = b.at
      BY <1>5
    <3>2. PICK x, y \in Int : x = a.bytes /\ y = b.bytes
      BY <1>5
    <3>3. q - p \in Nat \ {0}
      BY <1>5, <3>1
    <3>. QED
      BY <3>1, <3>2, <3>3
  <2>. QED
    BY <2>1
<1>7. /\ d.bytes = c.bytes + bytes /\ d.seconds = c.seconds + seconds /\ d.invalid = c.invalid
      /\ d.peak = IF bytes * c.peak.seconds > c.peak.bytes * seconds
                  THEN [bytes |-> bytes, seconds |-> seconds] ELSE c.peak
  BY <1>3, <1>4, <1>6 DEF WithPair
<1>8. /\ c.bytes \in Int /\ c.seconds \in Nat /\ Peak(c)
      /\ d.bytes = b.bytes - m[1].bytes /\ d.seconds = b.at - m[1].at
      /\ Steady(m, i - 1)
  <2>1. CASE i - 1 = 1 /\ c = NothingCounted
    <3>1. c.bytes = 0 /\ c.seconds = 0 /\ c.peak.bytes = 0 /\ c.peak.seconds = 1
      BY <2>1 DEF NothingCounted
    <3>2. a = m[1]
      BY <1>2, <2>1
    <3>3. Peak(c)
      BY <3>1 DEF Peak
    <3>4. Steady(m, i - 1)
      BY <1>5, <2>1, <3>2 DEF Steady
    <3>. QED
      BY <1>5, <1>6, <1>7, <3>1, <3>2, <3>3, <3>4
  <2>2. CASE i - 1 > 1 /\ Average(m, c, i - 1) /\ Peak(c) /\ Steady(m, i - 1)
    <3>1. m[1].bytes \in Int /\ m[1].at \in Nat
      BY <1>1, <2>2, ReadingFacts DEF Steady
    <3>2. c.bytes = a.bytes - m[1].bytes /\ c.seconds = a.at - m[1].at
      BY <1>2, <2>2 DEF Average
    <3>3. c.bytes \in Int /\ c.seconds \in Nat
      BY <2>2 DEF Average
    <3>4. PICK x, y \in Int : x = m[1].bytes /\ y = m[1].at
      BY <3>1
    <3>5. c.bytes = a.bytes - x /\ c.seconds = a.at - y
      BY <3>2, <3>4
    <3>6. d.bytes = c.bytes + bytes /\ d.seconds = c.seconds + seconds
      BY <1>7
    <3>7. PICK aBytes, aAt, bBytes, bAt \in Int :
            aBytes = a.bytes /\ aAt = a.at /\ bBytes = b.bytes /\ bAt = b.at
      BY <1>5
    <3>8. d.bytes = aBytes - x + (bBytes - aBytes) /\ d.seconds = aAt - y + (bAt - aAt)
      BY <1>6, <3>5, <3>6, <3>7
    <3>9. d.bytes = bBytes - x /\ d.seconds = bAt - y
      BY <3>8
    <3>. QED
      BY <2>2, <3>3, <3>4, <3>7, <3>9
  <2>. QED
    BY <1>7, <2>1, <2>2 DEF CountedSo
<1>9. Average(m, d, i)
  <2>1. d.bytes \in Int /\ d.seconds \in Nat
    BY <1>6, <1>7, <1>8
  <2>2. d.bytes = m[i].bytes - m[1].bytes /\ d.seconds = m[i].at - m[1].at
    BY <1>2, <1>8
  <2>. QED
    BY <2>1, <2>2 DEF Average
<1>10. Peak(d)
  <2>1. PICK pb \in Int, ps \in Nat \ {0} : pb = c.peak.bytes /\ ps = c.peak.seconds
    BY <1>8 DEF Peak
  <2>2. PICK B \in Int, S \in Nat : B = c.bytes /\ S = c.seconds /\ pb * S >= B * ps
    BY <1>8, <2>1 DEF Peak
  <2>3. CASE bytes * ps > pb * seconds
    <3>1. d.peak.bytes = bytes /\ d.peak.seconds = seconds
      BY <1>7, <2>1, <2>3
    <3>2. bytes * (S + seconds) >= (B + bytes) * seconds
      BY <2>2, <2>3, NewPeak
    <3>. QED
      BY <1>6, <1>7, <2>2, <3>1, <3>2 DEF Peak
  <2>4. CASE ~(bytes * ps > pb * seconds)
    <3>1. d.peak.bytes = pb /\ d.peak.seconds = ps
      BY <1>7, <2>1, <2>4
    <3>2. pb * (S + seconds) >= (B + bytes) * ps
      BY <2>2, <2>4, OldPeak
    <3>. QED
      BY <1>6, <1>7, <2>1, <2>2, <3>1, <3>2 DEF Peak
  <2>. QED
    BY <2>3, <2>4
<1>11. Steady(m, i)
  <2>1. ASSUME NEW k \in 1 .. i PROVE m[k].bytes # Missing
    BY <1>1, <1>2, <1>5, <1>8, <2>1 DEF Steady
  <2>2. ASSUME NEW j \in 1 .. i, NEW k \in 1 .. i, j < k
        PROVE  m[j].bytes <= m[k].bytes /\ m[j].uptime <= m[k].uptime
    <3>1. CASE k < i
      BY <1>1, <1>8, <2>2, <3>1 DEF Steady
    <3>2. CASE k = i
      <4>1. j \in 1 .. i - 1 /\ i - 1 \in 1 .. i - 1
        BY <2>2, <3>2
      <4>2. m[j].bytes \in Int /\ m[j].uptime \in Int
        BY <1>1, <1>8, <4>1, ReadingFacts DEF Steady
      <4>3. m[j].bytes <= a.bytes /\ m[j].uptime <= a.uptime
        <5>1. CASE j < i - 1
          BY <1>2, <1>8, <4>1, <5>1 DEF Steady
        <5>2. CASE j = i - 1
          BY <1>2, <1>5, <5>2
        <5>. QED
          BY <4>1, <5>1, <5>2
      <4>4. PICK x, y, u, v \in Int : x = m[j].bytes /\ y = a.bytes /\ u = m[j].uptime /\ v = a.uptime
        BY <1>5, <4>2
      <4>5. PICK p, q \in Int : p = b.bytes /\ q = b.uptime
        BY <1>5
      <4>6. x <= y /\ u <= v
        BY <4>3, <4>4
      <4>7. y <= p /\ v <= q
        BY <1>5, <4>4, <4>5
      <4>8. x <= p /\ u <= q
        BY <4>6, <4>7
      <4>. QED
        BY <1>2, <3>2, <4>4, <4>5, <4>8
    <3>. QED
      BY <2>2, <3>1, <3>2
  <2>. QED
    BY <2>1, <2>2 DEF Steady
<1>. QED
  BY <1>9, <1>10, <1>11

LEMMA CountedRight ==
  ASSUME NEW m \in Seq(Reading), Len(m) >= 1
  PROVE  CountedSo(m, Counted(m), Len(m))
<1>1. Len(m) \in Nat
  OBVIOUS
<1>2. PICK c : Counts(m, Len(m), c) /\ Counted(m) = c[Len(m)]
  BY <1>1, CountedIs
<1>3. \A i \in 1 .. Len(m) : c[i] = CountOf(m, c, i)
  BY <1>2 DEF Counts
<1>4. PICK bad : bad = {i \in 1 .. Len(m) : ~CountedSo(m, c[i], i)}
  OBVIOUS
<1>. SUFFICES ASSUME bad # {} PROVE FALSE
  BY <1>1, <1>2, <1>4
<1>5. PICK i \in bad : \A j \in bad : i <= j
  <2>1. bad \subseteq Nat
    BY <1>1, <1>4
  <2>. QED
    BY <2>1, Least
<1>6. i \in 1 .. Len(m)
  BY <1>4
<1>7. CASE i = 1
  <2>1. c[1] = NothingCounted
    BY <1>3, <1>6, <1>7 DEF CountOf
  <2>. QED
    BY <1>4, <1>7, <2>1 DEF CountedSo
<1>8. CASE i # 1
  <2>1. i \in 2 .. Len(m) /\ i - 1 \in 1 .. Len(m) /\ i - 1 < i
    BY <1>1, <1>6, <1>8
  <2>2. i - 1 \notin bad
    BY <1>5, <1>6, <2>1
  <2>3. CountedSo(m, c[i - 1], i - 1)
    BY <1>4, <2>1, <2>2
  <2>4. c[i] = WithPair(c[i - 1], m[i - 1], m[i])
    BY <1>3, <1>6, <1>8 DEF CountOf
  <2>. QED
    BY <1>4, <2>1, <2>3, <2>4, OnePairMore
<1>. QED
  BY <1>7, <1>8

SummaryInv ==
  /\ minute \in Seq(Reading) /\ Len(minute) >= 1
  /\ summary # Missing => summary.rate = Rate(minute)

LEMMA SummaryRight == SummaryInv => RatesBridgeNothing
<1>. SUFFICES ASSUME SummaryInv, summary # Missing, summary.rate # Missing
              PROVE  RatesBridgeNothing
  BY DEF RatesBridgeNothing
<1>1. PICK c : c = Counted(minute)
  OBVIOUS
<1>2. PICK rate : rate = summary.rate
  OBVIOUS
<1>3. /\ ~c.invalid /\ c.seconds # 0
      /\ rate = [bytes |-> c.bytes, seconds |-> c.seconds, peak |-> c.peak]
  BY <1>1, <1>2 DEF SummaryInv, Rate
<1>4. rate.bytes = c.bytes /\ rate.seconds = c.seconds /\ rate.peak = c.peak
  BY <1>3
<1>5. Average(minute, c, Len(minute)) /\ Peak(c) /\ Steady(minute, Len(minute))
  <2>1. CountedSo(minute, c, Len(minute))
    BY <1>1, CountedRight DEF SummaryInv
  <2>. QED
    BY <1>3, <2>1 DEF CountedSo, NothingCounted
<1>. QED
  BY <1>2, <1>4, <1>5 DEF RatesBridgeNothing, Average, Peak, Steady

LEMMA SummaryStarts == SummaryInit => SummaryInv
<1>. SUFFICES ASSUME SummaryInit PROVE SummaryInv
  OBVIOUS
<1>1. PICK n \in 1 .. MaxSamples : minute \in [1 .. n -> Reading]
  BY DEF SummaryInit
<1>2. minute \in Seq(Reading) /\ Len(minute) = n
  BY <1>1, SummaryAssumption
<1>. QED
  BY <1>2 DEF SummaryInit, SummaryInv

LEMMA SummaryKept == SummaryInv /\ [SummaryNext]_summaryVars => SummaryInv'
<1>1. ASSUME SummaryInv, Summarize PROVE SummaryInv'
  <2>1. summary'.rate = Rate(minute) /\ UNCHANGED minute
    BY <1>1 DEF Summarize
  <2>2. Rate(minute)' = Rate(minute)
    BY <2>1 DEF Rate, Counted
  <2>. QED
    BY <1>1, <2>1, <2>2 DEF SummaryInv
<1>2. ASSUME SummaryInv, UNCHANGED summaryVars PROVE SummaryInv'
  <2>1. Rate(minute)' = Rate(minute)
    BY <1>2 DEF summaryVars, Rate, Counted
  <2>. QED
    BY <1>2, <2>1 DEF SummaryInv, summaryVars
<1>. QED
  BY <1>1, <1>2 DEF SummaryNext
-----------------------------------------------------------------------------
(* Both, in a desktop that serves one of them *)

SamplesInv ==
  /\ serving = "history" => HistoryInv
  /\ serving # "history" => MinutesWhole /\ CountedOnce
  /\ serving = "summary" => SummaryInv
  /\ serving # "summary" => summary = Missing

LEMMA SamplesStart == DesktopInit => SamplesInv
  BY HistoryStarts, WholeHistory, SummaryStarts DEF DesktopInit, SamplesInv, HistoryWhole

\* What rests is as true as it was.
LEMMA HistoryUnmoved ==
  ASSUME UNCHANGED historyVars
  PROVE  (HistoryInv => HistoryInv') /\ (HistoryWhole => HistoryWhole')
<1>1. UNCHANGED <<clock, rows, upkeep, known>>
  BY DEF historyVars
<1>2. HistoryWhole' = HistoryWhole
  BY <1>1 DEF HistoryWhole, MinutesWhole, CountedOnce, HistoryRange, MinuteOf
<1>. QED
  BY <1>2, HistoryRests

LEMMA SamplesKept == SamplesInv /\ [DesktopNext]_desktopVars => SamplesInv'
<1>. SUFFICES ASSUME SamplesInv, [DesktopNext]_desktopVars PROVE SamplesInv'
  OBVIOUS
<1>1. serving' = serving
  BY DEF DesktopNext, desktopVars
<1>2. CASE serving = "history"
  <2>1. [HistoryNext]_historyVars /\ UNCHANGED summaryVars
    BY <1>2 DEF DesktopNext, desktopVars
  <2>2. HistoryInv'
    BY <1>2, <2>1, HistoryKept DEF SamplesInv
  <2>. QED
    BY <1>1, <1>2, <2>1, <2>2 DEF SamplesInv, summaryVars
<1>3. CASE serving = "summary"
  <2>1. [SummaryNext]_summaryVars /\ UNCHANGED historyVars
    BY <1>3 DEF DesktopNext, desktopVars
  <2>2. SummaryInv'
    BY <1>3, <2>1, SummaryKept DEF SamplesInv
  <2>3. HistoryWhole'
    BY <1>3, <2>1, HistoryUnmoved DEF SamplesInv, HistoryWhole
  <2>. QED
    BY <1>1, <1>3, <2>2, <2>3 DEF SamplesInv, HistoryWhole
<1>4. CASE serving \notin {"history", "summary"}
  <2>1. UNCHANGED historyVars /\ UNCHANGED summaryVars
    BY <1>4 DEF DesktopNext, desktopVars
  <2>2. HistoryWhole'
    BY <1>4, <2>1, HistoryUnmoved DEF SamplesInv, HistoryWhole
  <2>. QED
    BY <1>1, <1>4, <2>1, <2>2 DEF SamplesInv, HistoryWhole, summaryVars
<1>. QED
  BY <1>2, <1>3, <1>4

LEMMA SamplesRight == SamplesInv => SamplesTrue
  BY WholeHistory, SummaryRight DEF SamplesInv, SamplesTrue, HistoryWhole, RatesBridgeNothing

\* However readings, summaries, prunings and the clock meet: a chart shows no minute both
\* as a summary and as its readings, every stored reading within the retention is in one
\* row, and a summary's rate is what was counted over the whole minute (metrics_db.rs
\* record, history_range; rollup.rs maintain, summarize).
THEOREM SamplesAreTrue == DesktopSpec => []SamplesTrue
<1>1. DesktopSpec => []SamplesInv
  BY SamplesStart, SamplesKept, PTL DEF DesktopSpec
<1>. QED
  BY <1>1, SamplesRight, PTL
=============================================================================

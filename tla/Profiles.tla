------------------------------ MODULE Profiles ------------------------------
(***************************************************************************)
(* The encrypted profiles and the key that opens them: the start of the    *)
(* application, which moves an older key and imports plaintext profiles,   *)
(* and saves, with a crash or a power loss between any two steps:          *)
(*                                                                         *)
(*   src-tauri/src/config.rs                 Store                         *)
(*   src-tauri/src/vault.rs                  read, write_with_password     *)
(*   src-tauri/src/migration/credentials.rs  load, mark                    *)
(*   src-tauri/src/migration/profile.rs      import_profiles,              *)
(*                                           remove_plaintext              *)
(*   src-tauri/src/manager.rs                new, save_with_password       *)
(*                                                                         *)
(* A version stands for a configuration with its passwords; key 1 is the   *)
(* one an earlier release stored.                                          *)
(***************************************************************************)
EXTENDS Naturals

CONSTANTS NoVault,     \* there is no vault
          MaxSaves,    \* bound: attempts to save
          MaxCrashes   \* bound: crashes

Vault == [version : Nat, key : Nat, synced : BOOLEAN]

ASSUME ProfilesAssumption == MaxSaves \in Nat /\ MaxCrashes \in Nat /\ NoVault \notin Vault

VARIABLES
  vault,    \* profiles.stronghold as programs see it: its version, its key, its data on disk
  durable,  \* the vault a power loss leaves
  plain,    \* version of config.json and its like, 0 when there are none
  keys,     \* in the system's storage: modern, legacy (0: none); the marker file beside the
            \* vault, and whether a power loss leaves it
  app,      \* the process
  past      \* history: the last version saved with success, attempts, crashes, the key was lost

profileVars == <<vault, durable, plain, keys, app, past>>
-----------------------------------------------------------------------------
Off == [step |-> "off", key |-> 0, config |-> 0, writing |-> 0]

Old(version) == [version |-> version, key |-> 1, synced |-> TRUE]

\* A new installation, plaintext profiles, a vault with the old key, one with the new
\* key, and one whose key is gone.
ProfilesInit ==
  /\ \E start \in {"new", "plain", "legacy", "modern", "lost"} :
       /\ plain = IF start = "plain" THEN 1 ELSE 0
       /\ vault = IF start \in {"new", "plain"} THEN NoVault ELSE Old(1)
       /\ keys = [modern |-> IF start = "modern" THEN 1 ELSE 0, legacy |-> IF start = "legacy" THEN 1 ELSE 0,
                  marker |-> start = "modern", kept |-> start = "modern"]
       /\ past = [saved |-> IF start = "new" THEN 0 ELSE 1, tries |-> 1, crashes |-> 0, lost |-> start = "lost"]
  /\ durable = vault
  /\ app = Off

Become(step) == app' = [app EXCEPT !.step = step]
Opens(key) == IF vault = NoVault THEN TRUE ELSE vault.key = key

\* The names of the vault and of the marker, which share a directory, are on disk.
DirectoryOnDisk ==
  /\ durable' = vault
  /\ keys' = [keys EXCEPT !.kept = keys.marker]
-----------------------------------------------------------------------------
(* The key: credentials.rs *)

Launched ==
  /\ app.step = "off"
  /\ Become("key")
  /\ UNCHANGED <<vault, durable, plain, keys, past>>

\* The storage cannot be read or written, or what it holds does not open the vault; saves are refused.
Refuse ==
  /\ app.step \in {"key", "create", "stage", "sync", "remove"}
  /\ app' = [Off EXCEPT !.step = IF app.config = 0 THEN "refused" ELSE "running", !.config = app.config, !.key = app.key]
  /\ UNCHANGED <<vault, durable, plain, keys, past>>

\* A key that was moved; the marker is written when it was not.
TakeModern ==
  /\ app.step = "key" /\ keys.modern # 0
  /\ keys.marker \/ Opens(keys.modern)
  /\ keys' = [keys EXCEPT !.marker = TRUE]
  /\ app' = [app EXCEPT !.step = "load", !.key = keys.modern]
  /\ UNCHANGED <<vault, durable, plain, past>>

\* Variant: a missing key is replaced although there is a vault.
TakeAny ==
  /\ app.step = "key" /\ keys.modern = 0 /\ ~keys.marker
  /\ app' = [app EXCEPT !.step = "create", !.key = IF keys.legacy # 0 THEN keys.legacy ELSE 2]
  /\ UNCHANGED <<vault, durable, plain, keys, past>>

\* The old key when it opens the vault; a new one only when there is no vault.
TakeLegacy ==
  /\ app.step = "key" /\ keys.modern = 0 /\ ~keys.marker
  /\ IF keys.legacy # 0 THEN Opens(keys.legacy) ELSE vault = NoVault
  /\ app' = [app EXCEPT !.step = "create", !.key = IF keys.legacy # 0 THEN keys.legacy ELSE 2]
  /\ UNCHANGED <<vault, durable, plain, keys, past>>

\* The key is stored and read back; then it is marked as moved.
Create ==
  /\ app.step = "create"
  /\ keys' = [keys EXCEPT !.modern = app.key]
  /\ Become("key")
  /\ UNCHANGED <<vault, durable, plain, past>>
-----------------------------------------------------------------------------
(* Loading: Store.load, import_profiles *)

\* The key opens the vault, or there is none and the plaintext is imported.
Load ==
  /\ app.step = "load" /\ Opens(app.key)
  /\ IF vault = NoVault THEN app' = [app EXCEPT !.step = "stage", !.writing = IF plain = 0 THEN 1 ELSE plain]
     ELSE app' = [app EXCEPT !.step = "remove", !.writing = vault.version]
  /\ UNCHANGED <<vault, durable, plain, keys, past>>
LoadFails ==
  /\ app.step = "load" /\ ~Opens(app.key)
  /\ app' = [Off EXCEPT !.step = "refused"]
  /\ UNCHANGED <<vault, durable, plain, keys, past>>

\* remove_plaintext, when the vault holds what it held.  The names of one directory reach
\* the disk in the order in which they were changed: the vault is there before the
\* plaintext is gone.
RemovePlaintext ==
  /\ app.step = "remove"
  /\ plain' = 0
  /\ DirectoryOnDisk
  /\ app' = [app EXCEPT !.step = "running", !.config = app.writing, !.writing = 0]
  /\ UNCHANGED <<vault, past>>
-----------------------------------------------------------------------------
(* Saving: write_with_password *)

\* save_with_password of the manager.  No command saves while another one does.
Save ==
  /\ app.step = "running" /\ past.tries < MaxSaves
  /\ past' = [past EXCEPT !.tries = @ + 1]
  /\ app' = [app EXCEPT !.step = "stage", !.writing = past.tries + 1]
  /\ UNCHANGED <<vault, durable, plain, keys>>

\* Variant: the staged vault is not synced before it replaces the other.
StageUnsynced ==
  /\ app.step = "stage" /\ Opens(app.key)
  /\ vault' = [version |-> app.writing, key |-> app.key, synced |-> FALSE]
  /\ Become("sync")
  /\ UNCHANGED <<durable, plain, keys, past>>

\* The replacement is written, read back, synced and put in place at once.
Stage ==
  /\ app.step = "stage" /\ Opens(app.key)
  /\ vault' = [version |-> app.writing, key |-> app.key, synced |-> TRUE]
  /\ Become("sync")
  /\ UNCHANGED <<durable, plain, keys, past>>

\* The save has succeeded; an import goes on to remove the plaintext.
Saved ==
  /\ past' = [past EXCEPT !.saved = app.writing]
  /\ app' = IF app.config = 0 THEN [app EXCEPT !.step = "remove"]
            ELSE [app EXCEPT !.step = "running", !.config = app.writing, !.writing = 0]

\* Variant: the directory is not synced.
SavedUnsynced ==
  /\ app.step = "sync"
  /\ Saved
  /\ UNCHANGED <<vault, durable, plain, keys>>

\* sync_directory; when it fails (Refuse) the save fails although the vault is replaced.
SyncDirectory ==
  /\ app.step = "sync"
  /\ DirectoryOnDisk
  /\ Saved
  /\ UNCHANGED <<vault, plain>>
-----------------------------------------------------------------------------
(* The computer *)

\* The system writes the directory when it likes.
WriteBack ==
  /\ durable # vault \/ keys.kept # keys.marker
  /\ DirectoryOnDisk
  /\ UNCHANGED <<vault, plain, app, past>>

\* What the next start finds: the files of the process that has ended, or those on disk.
CrashOrPowerLoss ==
  /\ app.step # "off" /\ past.crashes < MaxCrashes
  /\ app' = Off
  /\ \/ UNCHANGED <<vault, keys>>
     \/ vault' = durable /\ keys' = [keys EXCEPT !.marker = keys.kept]
  /\ past' = [past EXCEPT !.crashes = @ + 1]
  /\ UNCHANGED <<durable, plain>>

ProfilesNext ==
  \/ Launched \/ Refuse \/ TakeModern \/ TakeLegacy \/ Create
  \/ Load \/ LoadFails \/ RemovePlaintext
  \/ Save \/ Stage \/ SyncDirectory
  \/ WriteBack \/ CrashOrPowerLoss

ProfilesSpec == ProfilesInit /\ [][ProfilesNext]_profileVars
-----------------------------------------------------------------------------
(* Properties *)

\* The key the next start takes.
NextKey == IF keys.modern # 0 THEN keys.modern ELSE IF keys.marker THEN 0 ELSE keys.legacy

\* What was saved with success is what the next start loads, or something saved after it,
\* wherever the application or the power ends: the vault is whole and its key is there, or
\* the plaintext still is.  A vault whose key is missing is left as it is, and no other
\* key takes its place.
AcknowledgedLoads ==
  IF past.lost THEN vault = Old(1) /\ keys.modern = 0
  ELSE \A left \in {vault, durable} :
         IF left = NoVault THEN past.saved = plain
         ELSE left.synced /\ left.version >= past.saved /\ left.key = NextKey
=============================================================================

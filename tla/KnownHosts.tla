---------------------------- MODULE KnownHosts ----------------------------
(***************************************************************************)
(* Connections that check one server's host key at the same time, against  *)
(* a file that the user and other programs edit:                           *)
(*                                                                         *)
(*   src-tauri/src/known_hosts.rs  inspect, verify                         *)
(*                                                                         *)
(* An entry is what a line says of this host; lines of other hosts and the *)
(* forms of a pattern are left out.  The lock is one of the open file, and *)
(* an editor that replaces the file leaves it with those who had it open.  *)
(***************************************************************************)
EXTENDS Naturals, FiniteSets

CONSTANTS Link,       \* connections
          Key,        \* host keys
          Unlocked,   \* nobody holds the lock of a file
          MaxEdited,  \* bound: edits by the user
          MaxEntered  \* bound: entries the user makes at a time, and the system's

ASSUME KnownHostsAssumption ==
  MaxEdited \in Nat /\ MaxEntered \in Nat /\ Unlocked \notin Link /\ Key # {}

VARIABLES
  system,   \* entries of the system's file, which verify only reads
  files,    \* the files that have had the name: entries, whether a line is incomplete
  inUse,    \* the one that has it
  flock,    \* lock_exclusive, of each
  link,     \* each connection: step, the key presented, the file it opened and what it read
  trusted   \* history: keys accepted since the user's last edit, what that entered, edits,
            \* and whether a connection had the file open then

hostVars == <<system, files, inUse, flock, link, trusted>>

File  == 0 .. MaxEdited
Entry == [key : Key, marker : {"plain", "revoked", "authority"}]
Entered == {s \in SUBSET Entry : Cardinality(s) <= MaxEntered}

Idle == [step |-> "idle", key |-> CHOOSE k \in Key : TRUE, file |-> 0, read |-> {}]

HostsInit ==
  /\ system \in Entered
  /\ files = [f \in File |-> [entries |-> {}, torn |-> FALSE]]
  /\ inUse = 0
  /\ flock = [f \in File |-> Unlocked]
  /\ link = [c \in Link |-> Idle]
  /\ trusted = [keys |-> {}, entered |-> {}, edits |-> 0, crossed |-> FALSE]
-----------------------------------------------------------------------------
Revoked(entries, key) == [key |-> key, marker |-> "revoked"] \in entries
Found(entries)        == \E e \in entries : e.marker # "revoked"
Trusted(entries, key) == [key |-> key, marker |-> "plain"] \in entries

\* The handshake presents a key; the system's file is read without a lock.
Present(c, key) ==
  /\ link[c].step = "idle"
  /\ link' = [link EXCEPT ![c].step = IF Revoked(system, key) THEN "refused" ELSE "opening", ![c].key = key]
  /\ UNCHANGED <<system, files, inUse, flock, trusted>>

OpenHosts(c) ==
  /\ link[c].step = "opening"
  /\ link' = [link EXCEPT ![c].step = "locking", ![c].file = inUse]
  /\ UNCHANGED <<system, files, inUse, flock, trusted>>

Hosts(c) == files[link[c].file]

Read(c) ==
  link' = [link EXCEPT ![c].step = IF Hosts(c).torn THEN "refused" ELSE "checked",
                       ![c].read = Hosts(c).entries]

\* Variant: the file is read before it is locked.
LockLate(c) ==
  /\ link[c].step = "locking"
  /\ Read(c)
  /\ UNCHANGED <<system, files, inUse, flock, trusted>>

\* The lock, then the whole file; a line that cannot be parsed refuses the connection.
LockAndRead(c) ==
  /\ link[c].step = "locking" /\ flock[link[c].file] = Unlocked
  /\ Read(c)
  /\ flock' = IF Hosts(c).torn THEN flock ELSE [flock EXCEPT ![link[c].file] = c]
  /\ UNCHANGED <<system, files, inUse, trusted>>

\* The file is closed, and its lock given up.
Ends(c, step) ==
  /\ link' = [link EXCEPT ![c] = [Idle EXCEPT !.step = step]]
  /\ flock' = [flock EXCEPT ![link[c].file] = IF @ = c THEN Unlocked ELSE @]

Accept(c) ==
  /\ Ends(c, "accepted")
  /\ trusted' = [trusted EXCEPT !.keys = @ \union {link[c].key}]

Known(c)   == link[c].read \union system
New(c)     == ~Revoked(link[c].read, link[c].key) /\ ~Found(Known(c))
Written(c) == [files EXCEPT ![link[c].file].entries = @ \union {[key |-> link[c].key, marker |-> "plain"]}]

Decide(c) ==
  /\ link[c].step = "checked"
  /\ \/ /\ ~Revoked(link[c].read, link[c].key) /\ Trusted(Known(c), link[c].key)
        /\ Accept(c) /\ UNCHANGED files
     \/ /\ Revoked(link[c].read, link[c].key) \/ (Found(Known(c)) /\ ~Trusted(Known(c), link[c].key))
        /\ Ends(c, "refused") /\ UNCHANGED <<files, trusted>>
     \/ /\ New(c)
        /\ files' = Written(c) /\ Accept(c)
  /\ UNCHANGED <<system, inUse>>

\* The append or its sync fails, or the process ends part way: a line is left, perhaps
\* incomplete.
AppendFails(c) ==
  /\ link[c].step = "checked" /\ New(c)
  /\ \/ files' = [files EXCEPT ![link[c].file].torn = TRUE]
     \/ files' = Written(c)
  /\ Ends(c, "refused")
  /\ UNCHANGED <<system, inUse, trusted>>

\* The connection is over; another one may present another key.
LinkEnds(c) ==
  /\ link[c].step \in {"accepted", "refused"}
  /\ link' = [link EXCEPT ![c] = Idle]
  /\ UNCHANGED <<system, files, inUse, flock, trusted>>

\* The user removes what the file says of the host, or enters lines.  ssh and editors do
\* not hold the lock; they write the file in place or replace it.
UserEdits(entries) ==
  /\ trusted.edits < MaxEdited
  /\ inUse' \in {inUse, trusted.edits + 1}
  /\ files' = [files EXCEPT ![inUse'] = [entries |-> entries, torn |-> FALSE]]
  /\ trusted' = [keys |-> {}, entered |-> entries, edits |-> trusted.edits + 1,
                 crossed |-> \E c \in Link : link[c].step \in {"locking", "checked"}]
  /\ UNCHANGED <<system, flock, link>>

HostsNext ==
  \/ \E c \in Link : \/ \E key \in Key : Present(c, key)
                     \/ OpenHosts(c) \/ LockAndRead(c) \/ Decide(c) \/ AppendFails(c) \/ LinkEnds(c)
  \/ \E entries \in Entered : UserEdits(entries)

HostsSpec == HostsInit /\ [][HostsNext]_hostVars
-----------------------------------------------------------------------------
(* Properties *)

\* Keys accepted although neither the system nor the user had entered them.
Learned == trusted.keys \ {e.key : e \in system \union trusted.entered}

\* Between two edits of the user a server is believed with one key that nobody entered,
\* and only when nothing was said of it: connections that meet it for the first time at
\* once do not each accept another one (verify holds the lock from before it reads to
\* after it writes).  A key the user's file revokes is not accepted.  Both lapse from an
\* edit that meets a connection with the file open until the next edit: the lock does not
\* order that one, and the connection may decide by what it has read.  A key the system's
\* file revokes is never accepted.
OneHostKey ==
  /\ \A k \in trusted.keys : ~Revoked(system, k)
  /\ ~trusted.crossed =>
       /\ \A a, b \in Learned : a = b
       /\ Learned # {} => ~Found(system \union trusted.entered)
       /\ \A k \in trusted.keys : ~Revoked(files[inUse].entries, k)
=============================================================================

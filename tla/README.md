# Newport, modelled

TLA+ modules for Newport (formerly Porthop), a desktop application that keeps SSH
connections to servers and offers, over them, tunnels, terminals, files, Git, metrics and a
shared clipboard. The desktop is a Rust process with a web frontend (`src/src-tauri`,
`src/src`); some features talk to an agent that runs on the Linux server
(`src/tools/agent`). Every definition is translated from that code; `PROJECT.json` maps each
one to its lines, and lists components, hazards, runs, mutants and theorems.

## 1. The system

| Component | State it keeps | Operations | Talks to |
|---|---|---|---|
| Git journal, agent (`git/journal.rs`, `git/cli/writes.rs`, `git/cli/command.rs`) | a record per operation on disk, a lock file per repository, `catalog.lock` | `start`, `get`, `review`, `begin`, `save`; a `git` child | other agent processes, through the files; the repository |
| Agent write actions (`git/cli/writes.rs`, `worktrees.rs`, `create.rs`) | the marker of managed integrations, temporary directories | every action of the protocol, a plan of checks and git commands | the repository, its remotes, other Git programs |
| Agent Git reads (`git/cli/*`, `git/tokens.rs`) | none: cursors carry what the listing was | status, differences, history, references, blobs; partial selections | the repository |
| Git protocol (`git/protocol.rs`, `msgpack.rs`, `git/mod.rs`, `git/client.rs`) | one conversation per lane | requests, logs, chunks and acknowledgements, pings | both ends of a lane |
| Desktop Git session (`git/mod.rs`, `git/reads.rs`) | four lanes, the access lock, registered reads | connect, request, cancel, ping, idle close, disconnect | agent processes, one per lane |
| Desktop Git writes (`git/pending.rs`, `git/mod.rs`) | a receipt per operation on disk | start, lookup, review, acknowledge | the agent's journal, by request and answer |
| Connectivity evidence (`connectivity.rs`, `manager.rs`) | per server: last outcome, its times, a revision | observe, broadcast, snapshot, discard on edit | every SSH attempt reports to it; the frontend reads it |
| SSH transport (`ssh.rs`, `ssh/auth.rs`, `known_hosts.rs`) | `known_hosts`, one login at a time | verify a host key, choose and offer secrets, retry | servers, the SSH agent, the user |
| Tunnel supervision (`manager.rs`, `commands.rs`, `ssh.rs`, `system_events.rs`) | saved profiles, a task per tunnel, shown status and health | connect, disconnect, save, delete, retry, sleep and wake | SSH servers, local ports |
| Remote file operations (`files/operations.rs`, `files/transfer.rs`, `files/mod.rs`) | a registry of operations, tombstones, cleanup tasks | upload, download, preview, list, cancel, shutdown | SFTP servers |
| Metrics (`metrics_sampler.rs`, `metrics_db.rs`, `metrics_db/rollup.rs`) | latest reading and gate per server, history in SQLite | periodic and requested samples, clear, compaction | servers, the connectivity evidence |
| Terminals (`terminal.rs`, `terminal/session.ts`) | up to eight shells, a session per tab | open, read, send, resize, close | SSH channels, the frontend |
| Integration (`clipboard.rs`, `agent.rs`, `ssh/callback.rs`; agent `session.rs`, `demand.rs`, `browser.rs`, `x_protocol.rs`, `wl_protocol.rs`) | offers by revision, requested formats, account locks, forwards | offer, request, reply in chunks, heartbeat, open a URL | X11 and Wayland clients, local helpers |
| Profiles (`config.rs`, `vault.rs`, `migration/`) | one encrypted snapshot and its key | load, save, import | every command |
| Preferences (`preferences.rs`, `preferences/projects.rs`) | one JSON file | bookmarks, identity, sidebar width | the Store plugin |
| Lifecycle and updates (`app.rs`, `updates.rs`) | the instance lock, services, an update | start, quit, install, restart | the installer |

**How they interact.** All commands reach a server's settings through the manager's lock, and
`save_server` advances a connection revision that sampler, sessions, evidence and files compare
with what they started with. A Git write passes the receipt log (`GitWrites`), a session and
its lane (`GitSession`, `GitWire`, `GitCoding`), the journal (`GitJournal`) and the plan of its
action (`GitApply`). A clipboard read passes a display (`XSelection`, `WaylandOffers`), the
agent's cache (`Clipboard`) and the desktop's integration, of which one per account may run
(`AgentOwnership`).

**Hard behaviours.** Several agent processes share one journal through try-locks, and any of
them may die with a `git` child running; other Git programs change the repository between any
two commands of an action or a listing. A connection breaks at any point of a write. Callers of
a shared session give up, are cancelled or find another configuration while they queue for
three kinds of lock. Outcomes of overlapping connection attempts reach the evidence by two
paths in any order. Supervisors end, fail, sleep and back off while a command that holds the
manager's lock waits for them. Cancelled requests are still on the wire. A power loss may come
between any two steps of a save. Agents start while the last one cleans up. The hazards of
`PROJECT.json` list each at its line, with the properties about it.

## 2. Modules

| Module | What it models |
|---|---|
| `WriteLog` | abstract: an operation begins once, changes its repository at most once and never after a definite outcome; a repository takes a new write only when no earlier one is unresolved |
| `GitJournal` | agent processes, locks, records and git children, a step between any two file operations; implements `WriteLog` |
| `GitWrites` | EXTENDS `GitJournal`: the desktop's receipts, the lane that carries operations, lost connections, crashes |
| `GitWritesProofs` | theorems about `GitJournal`, with the refinement, and about the receipts of `GitWrites` |
| `GitApply` | what `apply` does with a repository: each action as a plan of checks, comparisons and git commands |
| `GitReads` | listings, differences, histories and blobs, page by page |
| `GitAgentProofs` | theorems about `GitApply` and `GitReads`: verdicts are true, pages make one listing |
| `HunkSelection` | partial selections: the patch that is built and what git does with it |
| `GitWire`, `GitCoding` | a lane's conversation over two pipes; messages as MessagePack and back |
| `GitSession` | one session of several lanes, shared by callers |
| `GitSessionProofs` | locks, streams and results of the session's calls |
| `Connectivity` | the evidence, its two paths, revisions and profile edits |
| `KnownHosts`, `Authentication` | host keys with their lock and other editors; one login with its choice of secrets |
| `ServersProofs` | theorems about `Connectivity`, `KnownHosts` and `Authentication` |
| `Tunnels` | commands with the manager's lock, supervisors, sleep, health |
| `TunnelsProofs` | ports, settings and shown states of any number of tunnels |
| `FileOperations` | registry, uploads, cleanup tasks, shutdown, the server's side of SFTP |
| `Downloads`, `Folders` | a download or preview of a file, a listing of a folder, that other programs change meanwhile |
| `FilesProofs` | theorems about `FileOperations`, `Downloads` and `Folders` |
| `Metrics`, `MetricHistory`, `MetricSummary` | the sampler and its cache; the saved history; the summary of a minute |
| `Terminals` | tabs, sessions and shells, with calls in any order |
| `Clipboard` | the exchange of one session: offers, requests, chunks, the agent's cache |
| `AgentOwnership` | agents of several installations, their locks, sockets and files |
| `Browser` | helpers, the broker, forwards of login callbacks |
| `XSelection`, `WaylandOffers` | the two displays of the agent |
| `Profiles`, `Preferences`, `Lifecycle` | start, save, import and power loss; the preferences file; processes, services and updates |
| `DesktopProofs` | theorems about `Preferences`, `Profiles`, `Metrics`, `Lifecycle`, `Terminals`, `MetricHistory` and `MetricSummary` |
| `IntegrationProofs` | theorems about `AgentOwnership`, `Browser`, `XSelection`, `WaylandOffers` and `Clipboard` |
| `MC*` | instances for TLC |

**Composition.** `GitWrites` runs the desktop and the agents' journal together, each step of
one being seen by the other. The machines that `MCGitAgent`, `MCIntegration`, `MCServers`,
`MCFileOperations`, `MCDesktop` and `MCLiveness` bring together share no variable: in the code they
meet only in a server's settings, a lane or a repository, and each module has the changes of those as actions
of its own. A product of them would add interleavings of independent steps and nothing else,
so in each behaviour one machine is *served* (`serving`, chosen at the start) and the others
rest in an initial state. Every property of such a run is checked in the behaviours of all.

### State and actions

*GitJournal.* A request of process `a` moves through `pc[a]`: for a start, `existing` (a record
with this id?), `lock` (repository), `recheck` (id again, snapshot, Git's own locks), `begin`
(catalog), `scan`, `persist`, `apply`, `git`, `saveLock`, `save`. Lookups go `load`, `getLock`,
`getReread`, `saveLock`, `save`, reviews likewise. Every lock is a try-lock, so a busy one is
an answer. `Return` drops the locks, as the guards of the Rust function do; `Crash` drops them
too and leaves `child`. `DiskFault` fails a save before its rename or after it. `version` is
what a status fingerprint tells apart: it rises with each effect. `run` is history, read by
properties and never by the code's actions. A start with an id that exists goes on as a lookup
of it. `BeginAdmitted` keeps the branch in which `begin` hands back an existing record of the
same payload and `start` goes on to `apply`; the proofs show it is never taken
(`StillFresh`), because whoever creates such a record holds the same repository lock.

*GitWrites.* A session is the agent process of its lane. `StartWrite` writes the receipt,
`Send` puts the request on the wire, `Deliver` hands it to `GitJournal`'s `Receive`, `Work`
takes its steps. `CloseLane` ends the session from the desktop's side: what had arrived is
still read by the agent, what had not is lost. `AnswerTaken` is `remote_outcome` with
`observe`; `AnswerDropped` a receipt that cannot be saved or a profile that changed meanwhile;
`AnswerMisread` bytes that are no frame of the protocol, after which the receipt and the lane stay.

*GitApply.* An action is one of the plans of `Plans[action]`, a sequence of steps: argument
checks, `expect` (compare a part of the repository with what the user confirmed), `run`,
`leased` (a command that carries the expected old value), `kept` (its result is judged by a
later step), and the steps of integrations, worktrees and creation. Of each part of a
repository it matters whether it is still what the user saw, ours, or another program's.
`Other...` are the changes of other programs, between any two steps. The verdict
(`outcome`) is what `start` records.

*GitReads.* `step` is the command the agent is at, `held` what it has read, `answer` the page
or error it sent, `sent` the cursor of the request, all the agent has of earlier ones. The
client follows cursors, starts again, or sends a cursor of another listing.
`OtherEdit` and `OtherReplace` change the repository between any two commands. Rows have sizes,
one of which fits no page.

*HunkSelection.* A file is its difference, a sequence of kept, removed and added lines, and its
kind. The client names hunks and lines of the file it was `shown` by their ids, which are made of
positions and texts; `Capture` and `ReadDifference` are the agent's two looks, `Missing` its
refusal of ids it does not find, and `EditFile` another program that adds a line at the top or
the bottom. `PatchHunk` is `diff::selection`, which turns the lines around to unstage or discard
(`reverse`); `ApplyHunk` is git's search for the place of a hunk from its new position on.

*GitWire, GitCoding.* Pipes hold a bounded number of frames; the agent writes up to
`StreamWindow` chunks ahead of the acknowledgements. A message is a typed value; both sides
derive how a value is coded from the key or column that leads to it, and count the nesting.

*GitSession.* `req[q].pc` is where a call of `git_request` waits: the server's revision, the
entries, the connecting lock, the dial, the subscription, the access lock, the lane's mutex,
the start of its agent, the wire, and the settling afterwards. Mutexes are fair queues, the
access lock admits readers together. `CancelSeen` and `CloseSeen` are the other branches of
each `select!`. A lane's `stream` is `clean`, `dirty` from a request until its whole answer is read,
`none`, or `foreign` when something was on it that does not begin like a frame. A request can end
in four ways on the wire: `Answer`; `WriteInterrupted` and `ReadInterrupted`, which close the
session or drop the stream; and `Misread`, for which `receive` answers UNSUPPORTED_PROTOCOL
(`client.rs:215`), which neither `reads.rs:114` nor `git/mod.rs:496` counts among the failures of a
stream: the lane keeps it and the caller gets the error as it is.

*Connectivity.* An attempt captures server and revision (`Capture`), begins, authenticates,
finishes, and reports over the bounded broadcast channel (`SendEvent`) or by
`observe_connection` (`Observe`). `HandleEvent` applies an event if its beginning is not older
than the last edit. Clock readings are ticks, so that two of them can tie.

*KnownHosts.* `Present`, `OpenHosts`, `LockAndRead` and `Decide` are `verify`. ssh and editors
take no lock: they write `known_hosts` in place or put another file under its name (`inUse`),
and the lock stays with the file that was opened (`flock`). `AppendFails` leaves a line, perhaps
cut off. *Authentication.* `choice` is what the profile says and who
connects; `login.step` the way through `authenticate`; `watchdog` the deadline that stands
still while the SSH agent waits for the user, with the change notice it may not have seen yet.
`Verified` is the server's answer to a signature, which may still be a refusal.

*Tunnels.* `todo` is what is left of the command that holds the manager's lock; no other
command starts meanwhile, and supervisors run. A supervisor works on the copies of tunnel and
server it was spawned with. `world` is what a connection meets: `up`; `locked`, when servers answer
and an SSH agent that a login is tied to is locked, lacks the key or declines, which other logins do
not notice (`Connected`); `down`, the network; `asleep`, the system. A failure that the code
retries (`is_transient_connection_error`) comes in each of them but `up`.

*FileOperations.* `op[o].at` is where the upload waits. A request that is on the wire is
carried out whether or not anyone still waits for it, in order. `DropWork` is the drop of
`RemoteTemp` (which registers the cleanup), `Unregister` the later drop of the registry's
guard. `Serve` is the server; it may refuse anything. *Downloads.* `reading.at` is the request
that is waited for: stat, open, reads, close, and for a download the second stat and the local
file; `inode` are the files that have had the name, `second` the clock that stamps them.
*Folders.* `listing` is the handle's loop, with the batch in hand and the names delivered.

*Metrics.* `job` is each call of `Sampler::sample` (the worker's and the refreshes'), `view`
each call of `first_reading`, `barrier` the manager's history guard. Instants are compared only
with the completion of reads, so a request remembers how many had completed. *MetricHistory*
keeps rows, each with the readings it stands for; `CompactBatch` replaces complete minutes;
the clock may be set back. Of rows with equal times a query with a `LIMIT` may return any, so
`Oldest` is the set of its possible answers. *MetricSummary* computes one row from a minute's
readings, which are taken at some of `Times`.

*Terminals.* `run[s]` is the frontend's connect call of a session, `asked` the `terminal_open`
and `terminal_close` calls on their way, which arrive in any order, `shells` the native
registry. *Profiles.* `vault` is what programs see and `durable` what a power loss leaves;
`keys` the system's key storage and the migration marker beside the vault, with whether a power
loss leaves it (`kept`: `mark` syncs the file and not its directory). *Preferences.* `doing` is the command
that holds `ACCESS`, cut where memory has changed and the file has not. *Lifecycle.* `process`
and `alive` are the processes and their services, `stopping` the two callers of
`stop_services`, `update` the installer's phases.

*Clipboard.* `desk` is `run_once` and `Agent`, `store` the agent's `Store`, `toAgent` and
`toDesk` the frames on the channel. `Gathered` is `Store::reply`, `RoomMade` its eviction,
`Polled` and `Requests` the agent's turn, `Spawn` and `Joined` the desktop's reads.
*AgentOwnership.* `proc[p].pc` goes through the start of `Session` (lock, bind, displays,
files) and back through the drops of its fields in their order; `flock` and `sock` are the
lock files and sockets. *Browser.* `pending` is the broker's request, `leases` the forwards.
*XSelection.* `properties`, one incremental `transfer` per connection, and `paste`, what a
client has read. *WaylandOffers.* `known` is the loop's copy, polled every 100 ms, `devices`
the offers clients hold, `worker` the transfers to pipes.

## 3. Runs

| Run | Bounds | Question |
|---|---|---|
| `git_journal` | 2 processes, 2 operations, 1 payload | the journal's safety, action properties and the refinement of `WriteLog` |
| `git_journal_repos` | the same, 2 payloads in 2 repositories, `MaxRecords = 1` | locks of two repositories and one catalog; ids used for either |
| `git_writes` | 2 processes, 2 writes, `MaxFaults = 1` | receipts against the agent's disk |
| `git_writes_live` | 1 write, `MaxFaults = 2`, fair | every write settles |
| `git_agent` | all plans with 2 changes by others; all listings with 2 edits; all differences of 5 lines, one more added meanwhile; conversations of up to 20 chunks with the real window; bodies nested past the limit; 2 calls on 2 lanes of a session: a write or a difference beside a status under one revision, a write beside a status under 2 | what the agent does to a repository and reads from it; what a lane and a session do to those who share them |
| `git_session` | 2 calls, a write and a read among them, 2 revisions (an edit and the removal), fair | every call returns |
| `file_operations` | 2 uploads of at most 1 chunk, `MaxEdits = 1`; files of up to 2 chunks, 2 changes, 2 seconds; folders of up to 3 items, 1 change | whole uploads, downloads and listings, current login, clean shutdown |
| `servers` | 3 attempts, 2 settings, `MaxTime = 3`, a channel of 1; 2 connections, 2 host keys, an edit of 1 entry; a login with every choice, twice | evidence is current and does not rewind; one host key is believed; only the chosen secret is offered |
| `desktop` | see `MCDesktop.cfg` | tunnels, sampler, history, terminals, profiles, preferences, processes |
| `integration` | 2 readers, 2 formats, 2 copies, a cache of 2 chunks; 2 installations, 3 processes, 3 faults; 3 links; values of 0 to 5 units; 2 devices, 2 workers | what is served is whole; what is published is true; links and forwards are accounted for |
| `liveness` | 2 tunnels of one port range; 1 reader, 2 copies, 1 lost connection; fair | commands return, tunnels recover, a copy arrives |
| `hunk_shift` | 7 lines | *violation*: exactly the selected lines are applied |

A property that joins several (`ActionSound`, `SessionSound`, ...) is the conjunction of the
named invariants beside it in its module; each is documented there.

Why the bounds are enough to be interesting:

- *Journal.* A race is between two requests, so two processes suffice for each race; a third
  matters only as "whoever comes after", which a process does again once it is idle. The
  theorems cover every number. With `MaxRecords = 1` and two operations the journal fills.
- *Writes.* `MaxFaults` bounds lost connections, crashes and disk errors together. The deepest
  case, a write that outlives its connection and is looked up over the next, needs one;
  settling is checked with two.
- *Actions and reads.* Two changes by others allow one before and one after a comparison, or
  one that is taken back. Three rows are more than a page, and one row exceeds every page.
  Every difference of five lines includes two hunks with context between, and a hunk with all
  three kinds of line; seven are needed for the finding.
- *Lane.* Twenty chunks are more than twice the window of eight, which is the code's.
- *Session.* A write and a read meet on every lock; two slots let a session be replaced; two
  revisions let a caller be overtaken by an edit. Edits are left to the instance of a write and a
  read (`EditedNext`), where they meet every wait; a difference, which has a lane of its own and can
  be cancelled, meets the other read under one revision (`FixedNext`).
- *Connectivity.* An order of arrival needs three outcomes to tell "the latest of all" from
  "the later of two"; `MaxTime = 3` lets attempts overlap, follow one another and tie;
  `Capacity = 1` overflows at the second report; `FreshFor = 2` lets evidence expire.
- *Host keys.* Two connections that are shown two keys are a race; one edit falls before,
  between or after them, and one entry of it may be for either key, revoked or of an authority.
- *Tunnels.* An overlap is of two tunnels. Two edits allow an edit during the restart of an
  earlier one. One port range with two tunnels makes every start compete.
- *Files.* `Limit` and `Tombstones` are the registry's 8 and 128. With two operations the limit
  is two; one tombstone is kept, so that the second cancel evicts the first. `MaxSize` is in chunks: with one, a
  file may be empty, complete, cut or grown. A downloaded file has a chunk that is read and one
  that is not yet when it changes, and two changes can undo each other's size. `DirectoryLimit`
  is 20,000; with two, a folder of three is one too many.
- *Metrics.* A worker and a refresh meet at the gate; a second completed read makes the first
  old. The history's clock covers its whole retention and may be set back once.
- *Clipboard.* One format of two chunks and one of one fill a cache of two, so every fetch
  beside a finished one evicts it; a limit of two requests is reached by two readers. In
  `liveness` the limit is one and an agent asks twice, so that requests overrun it.
- *Ownership.* Three processes are an agent that ends, one that starts, and a killed one.

`CHECK_DEADLOCK FALSE` where a bound ends every behaviour (the clocks of `Connectivity` and
`MetricHistory`, the counted attempts, copies and faults) or the application has exited. The
two runs of the journal, those of `GitWrites`, `git_agent` and `git_session` check deadlock.
A machine that always has an outside event enabled (a timer, another program, an idle check)
shows little by that; where waiting for one another is a hazard, a property says so (`InStep`
of a lane, `CallsReturn`, `CommandsReturn`).

### Fairness

- `git_writes_live`: processes and the desktop's own code run (weak fairness of `Deliver`,
  `Work`, `AgentExits`, `Connect`, `Send`, `LaneDied`, `AnswerTaken`: threads and tasks that
  never block on a lock), and an operator goes on looking up open receipts and reviewing
  unknown ones, however often the desktop is busy (strong fairness of those two: the interface
  offers them whenever it is idle). Crashes, lost connections and disk errors are not fair.
- `git_session`: each call's own steps and the end of each ping are weakly fair; every wait in
  them has a deadline, and tokio's mutexes are queues, so nothing stronger is assumed of a lock.
- `liveness`, tunnels: tasks run; `Manage`, `Supervise` and `Interrupted` are fair apart,
  because a `select!` never passes over a ready branch for ever. Neither the network nor the
  system nor an SSH agent is fair: `Recovers` has `<>[](world = "up")` as its premise, that servers
  answer, the system is awake and the agents that logins are tied to sign, all for good. While such
  an agent stays locked its tunnels reconnect for ever, with the network up: the code counts
  `SelectedAgentUnavailable` as transient (`ssh.rs:81`, `manager.rs:416`).
- `liveness`, clipboard: the loops of both sides run. `Joined` and `OfferClip` are strongly
  fair: a branch of `run_once`'s `select!` is chosen at random among the ready ones, and
  heartbeats, five seconds apart, disable it only for an answer.
- No fairness is assumed of users, servers, other programs or faults.

## 4. What is proved

The theorems hold for every value of the constants that the named assumptions of the modules
allow: any number of processes, operations, tunnels, callers, servers' keys and so on, and any
bound. The assumptions say that bounds are natural numbers, that a null value is not a member of
the set it stands beside, and a few things the code justifies: `RepoOf` is a function from
payloads to repositories (the hash of a payload covers its repository); the tunnels are finitely
many (they are a list in the profile), and so are the formats of the clipboard, each of which has
a first chunk, and the items of a folder; a session has a slot to spare for every call
(`SlotsAssumption`: sessions are made on demand); the keys of an SSH agent are not called like the
secrets of the settings (`AuthenticationAssumption`); every row has a size (`ReadAssumption`).

Each theorem `Spec => []P` has an inductive invariant that contains `P` or implies it; each action
property follows from the same invariant. A proof has one lemma per action or kind of action, and
before it the lemmas that several of them share. The runs check each `P` on small instances.

The provers cannot instantiate the library's induction theorems, but they can use that the natural
numbers are well founded. Where an argument is an induction over a length or a number of elements,
it is the least counterexample that is led to a contradiction (lemma `Least`): so it goes for the
halving of a page that is too large, for the cardinality of a set of rows or of a cache, and for
counters along a minute.

### The journal: `GitWritesProofs`, first part

| Theorem | Property |
|---|---|
| `LaunchedAtMostOnce`, `JournalledBeforeEffect`, `RepliesHonest`, `WritesOneAtATime` | `AtMostOnce`, `JournalBeforeEffect`, `HonestReplies`, `OneAtATime` |
| `SnapshotsAreSpent` | `SnapshotOnce`: two writes on one status snapshot mean that one was reviewed |
| `JournalStaysBounded` | `JournalBounded`: never more than `MaxRecords` records |
| `RecordsStepForward` (with `RecordsForward`) | `StepsForward`: records move along running, outcome, review, and a rejected one never began |
| `JournalImplementsLog` | `ImplementsLog`: the journal implements `WriteLog` |

That a save may overwrite a record rests on who holds which lock and on what the process
remembers. `IInv` adds, per process (`AgentInv`), that a request fits its phase, which locks a
phase holds, that between the second lookup and the begin no record of the payload appears
(`StillFresh`), that a process that executes a write owns its record, still `running` and first
in sequence (`OwnsRecord`), and that a lookup or review saves the successor of what is on disk
(`SavesNext`); per operation (`IdInv`), that the record and the git command agree. `Quiet...`
lemmas carry the actions that change nothing shared; `BegunOther`, `SavedOther` and
`ExecutingOther` say why another process's part survives a begin, a save and an execution: it
works on another repository, because the lock has one holder. The refinement needs only which
steps change a record (`RecordSteps`) or an effect (`EffectSteps`).

Two theorems need more than `IInv`. `SnapInv`: of two operations that changed a repository on
one snapshot, or still may, one was reviewed (`DistinctBases`); a base is behind the version its
effect made (`BasesBehind`); and from the comparison of a snapshot to the launch, the snapshot is
later than every change that is known to have succeeded or failed (`SnapshotFresh`). `RoomInv`:
the records are finitely many, and what a scan under `catalog.lock` counted stays true until the
record is written (`RoomLeft`).

### Receipts: `GitWritesProofs`, second part

`ReceiptsAreSound` (`ReceiptSound`) and `ConfirmedOutcomesStay` (`ConfirmedStays`) are about the
desktop and the agents together, so their invariant `WInv` contains `IInv`. To it come what a
reply or a request under way says (`ReplySays`, `DesktopInv`) and, per operation (`ReceiptInv`):
whatever exists in a journal has a receipt; the desktop sends a start once, so that it is in one
place at a time - on the wire, in an agent's inbox, or in a process (`StartedOnce`); and what an
answer to a start refused is `Dead`: no record, and no request anywhere that could still make one.
`Dead` is what makes the refusals of `start` final. It is not stable for an operation that a
*lookup* found missing: `ReceiptSound` claims nothing of what becomes of such a write
(`RefusedNeverBegins` is about `start`, `DismissedIsResolved` exempts lookups), and section 5 says
why it cannot.

### The agent's commands: `GitAgentProofs`

*Actions.* `ActionIsSound` (`ActionSound`) holds for every plan of every action and any number of
changes by others. `PlanSound`, shown of each set of plans in a lemma, is the order in which a
plan has its steps: whatever can refuse the action comes before the first write, a command whose
end is judged is followed by its judge, an integration is marked before it begins, a worktree is
moved at once. `ActionInv` adds, while an action runs (`Underway`), that the writes of the steps
done so far stand unless a later step writes there again (`HeldTo`), that before the first write
nothing is the action's (`NothingTo`), and where a kill may leave it. A step then either fails the
action (`Fails`, `Refuses`, `FailsUnread`) or goes on (`Advances`), and says only what it writes.

*Listings.* `PagesAreSound` (`PagesSound`) holds for any repository, any size of rows, pages and
frames, and any number of edits. `ReadInv` says that the rows a client has are the first of one
listing (`Collected`); that the cursor it was given is of that listing and stands where its rows
end, with a fingerprint that says what the listing is (`Answered`, `Own`, `Shows`); that the cursor
of a request is none, another listing's or such a one, and that what the agent has compared with
it agrees (`Asking`); that a file whose stamp is the first one has the first content (`Content`);
and that what was read of such a file, at each step, is what the client saw (`DifferenceRead`). A
cursor is refused as invalid only with an excuse (`Excused`). Pages are cut in four ways - a whole
listing, a difference, a history, an object - and each is shown to give a `GoodPage` of the
listing: not empty, the rows that follow, and a cursor exactly if more are left. `FittingIs` says
what the packing into a frame returns, `ShrunkIs` what the halving of an object does. A step
answers with such a page (`ReplyInv`), refuses (`FailInv`), or reads on (`GoOn`, `GoOnDiff`).
`OthersInv` shows that edits keep all of it.

### The session: `GitSessionProofs`

`SessionIsSound` (`SessionSound`) and `CallsUndisturbed` (`Undisturbed`) hold for any number of
calls, slots and revisions. `SessionSound` says of streams that an answer cut short by a cancel, a
deadline, a broken channel or a frame of another request leaves nothing in its lane; of a write,
that one reported unknown was sent, and one that was sent is reported by its outcome, as unknown or
by the error for a channel that does not speak the protocol. It exempts `foreign` streams, which
the code keeps (section 5). `SessionInv` says who owns what: a slot belongs to calls in the phases
that have one (`SlotsUsed`); the connecting lock is a queue without doubles of the calls that
dial, the first being its holder (`DialsInTurn`), and so is each lane's mutex (`LanesInTurn`);
access is shared by readers or has one writer (`AccessAlone`); a slot is of the revision its
callers captured (`SessionsAgree`); a call past the wire knows whether its request was sent
(`FateKnown`); a registered read belongs to a call that has not returned (`ReadsRegistered`).
`Queued`, `Dropped` and `Released` are lemmas about a mutex without doubles, which the proof needs
wherever a call joins, gives up or leaves. The lemmas `Enters`, `Works`, `Leaves`, `Around` (a step
of a ping or an idle task) and `Apart` (a step off the lanes) preserve `SessionInv` for a kind of
step, so that an action only has to be shown to be of that kind. `Closers` names the steps that
close a session and in which state of it; with `AccessAlone` and `SessionsAgree` all but a
disconnect and a change of the configuration concern a session without a call on the wire, or one
whose link is dead.

### Servers: `ServersProofs`

*Evidence.* `EvidenceIsSound` (`EvidenceSound`) and `EvidenceAdvances` (`NoRewind`). `EvidenceInv`
adds that an attempt's clock readings are in order and behind the clock (`ClocksInOrder`), that
an attempt that logged in to the current settings did so with the saved password
(`PasswordSaved`), that what is on the channel is the outcome of a finished attempt (`Reported`), and that the belief is made of what has
been heard (`FromHeard`) and of its latest (`LatestHeard`).

*Host keys.* `HostKeyLearnedOnce` (`OneHostKey`). `OneHostKey` speaks of what was accepted, and
not of what connections under way are about to accept. What it says of the user's file, one key
learned at most and none revoked, it says between two edits and only if the former edit met no
connection with the file open (`crossed`); what the system's file revokes is refused always
(`SystemHeeded`, by `Unrevoked`). `HostsInv` adds that who decides holds the
lock of the file it read (`Locked`), has read it as it is (`UpToDate`), and that the file holds
what the user entered and at most one key more, learned when nothing was said of the server
(`AddedOne`). The last two lapse when an edit crosses a connection, and hold again from the
next edit that does not.

*Login.* `LoginIsSound` (`LoginSound`). `LoginInv` adds that the step a login is at is one its
settings lead to, with identities that are chosen (`StepChosen`), and that a prompt that is open
is either known to the watchdog or the notice of it is unseen and will be read first (`PromptSeen`).

### Tunnels: `TunnelsProofs`

`TunnelsAreSafe` (`TunnelsSafe`): ports, settings and shown states agree between commands, and
`TunnelInv` says what holds during one. Whatever is out of date - a supervisor with old settings
or of a deleted profile - has a `stop` still to come in `todo` (`SavedInv`); a start comes after the
stop of its tunnel and only of a saved one (`Shape`); what is shown follows from where the task is
(`TaskInv`); and a port is free not only now but for every start still to come (`PortsInv`). The
lemmas are about such sequences of steps: what their head does, what a removed head leaves, what
`StopsAll` puts before a save.

### Files: `FilesProofs`

`FilesAreSound` (`FilesSound`), `PublishesWhole` (`PublishedWhole`) and `DownloadsAreWhole`
(`DownloadWhole`, a part of `FilesSound`). `OperationsInv` has a part for each machine.

- *Uploads* (`FilesInv`). `Fine` says of each phase who has the staging file and what is in it:
  nobody before it is asked for (`Fresh`); the request on the wire, which finds what it was sent
  for (`Awaiting`); the upload between two requests (`Copying`); after its drop, a request left
  behind (`Dropping`); in the end the cleanup task, or a cause why it is left (`OverNow`).
  `Registered` ties the registry, the cleanups and the shutdown to the phases, and `Remembered`
  says that an upload cancelled before it registered has its tombstone until it ends.
- *Downloads* (`DownloadInv`), for files of any length: as long as no change has left size and time
  as they were, a name that still leads to the first stamp leads to the file that was opened, with
  the content of the first look (`Untouched`), so what was read so far is its beginning, and what
  the second look lets pass is all of it (`Verified`).
- *Folders* (`FolderInv`): each delivered name is in the batch in hand or has one row (`GivenOnce`),
  a row tells the truth of an item that stayed (`StayedTrue`), and at the end nothing that stayed
  is missing. Sorting keeps every row once.

### The rest of the desktop: `DesktopProofs`

- `PreferencesAreStored` (`PreferencesStored`): the rows in memory are those on disk unless a
  command is changing them, which remembers the ones to go back to, and a file is never half
  written (`InMemory`).
- `ProfilesAreKept` (`AcknowledgedLoads`): both vaults, the one programs see and the one a power
  loss leaves, open with the key the next start takes, and hold the acknowledged version
  (`OnDisk`); what the process has in hand can only replace them by a later one (`InHand`). If the
  key is gone, nothing is written at all (`KeyIsGone`).
- `ReadingsAreFresh` (`ReadingsReach`) and `ReadingsAreInOrder` (`ReadingsInOrder`): the cached
  reading is the last completed one unless it is marked (`LatestInv`), a job that reads holds the
  gate and began last, and one that records holds the barrier with its settings still saved
  (`JobInv`), and a view that is about to sleep is woken if there is a reading (`ViewInv`).
- `LifecycleIsSound` (`LifecycleSound`): per process, which stage of the exit goes with which of
  the instance lock, the services and the update (`ProcessInv`).
- `NoTerminalIsOrphaned` (`NoOrphanTerminal`), `OnlyOwnSessionEnds` (`OwnSessionEnds`): a shell's
  connect call has not ended (`Followed`), an open on its way has a caller who waits for it
  (`OpenAwaited`), so it cannot start a shell for a call that is over, sessions to come have not
  been used (`Unused`), and shells have the current settings outside a change (`ShellsCurrent`).
- `SamplesAreTrue` (`SamplesTrue`). Of the history: a raw row stands for its reading and a summary
  for readings of its minute (`RowsExact`), no summary stands beside a row of its minute
  (`RowsApart`), and every reading within the retention is in some row (`NoneLost`). That a batch
  replaces minutes whole, though it picks them by a limited query, is the step that needs it. Of
  the summary: its rate is the one of its readings, no step of which is a gap or a counter that
  went back; the peak is not below it, by induction along the readings.

### Integration: `IntegrationProofs`

- `OwnershipIsTrue` (`PublishedTruth`), `RefusalsHaveCause` (`RefusedByLive`): a process holds
  its lock files exactly in the phases between taking and dropping them (`LocksHeld`), a live
  socket is the one of the process that listens (`SocketsThere`), and while a process serves the
  files name its client (`FilesName`).
- `LinksAreTrue` (`LinksTrue`): ids are not used again, so a frame or an opening with the id
  of the broker's request is for the same helper (`RequestKnown`); an answer that says success
  under that id is of a link that was opened (`AnswersTrue`), and so is what a helper was told
  (`OpenedIsTrue`); only the last forward can belong to a link that is still to be opened
  (`LastUnopened`).

- `DisplaysAreTrue` (`DisplaysTrue`). X (`XInv`): what a client has of a paste, with what is in its
  property and what the transfer still has to send, is the value, in order (`PastesHave`), and a
  client that waits has its notice on the way (`Notified`). Wayland (`WlInv`): the loop's copy is the
  source's or an older one (`KnownOlder`), a device's selection is the loop's copy
  (`SelectionCurrent`), and a pipe has the beginning of its offer's content (`PipeBegins`).
- `CacheIsSound` (`CacheSound`). A request is in one place: asked, put off, being read, being
  replied to, or its frames are on the way (`InOnePlace`); its id is the agent's, of the entry it was sent for
  (`Known`). Entries, frames and replies each hold pieces of one content (`EntriesExact`,
  `FramesExact`, `RepliesExact`), and the pieces that come are those that the entry lacks, in order
  (`Served`). So a reader that gets anything gets a whole copy. What the cache holds is the
  cardinality of the set of its chunks, which turns the sum into facts about sets.

### Model-checked only

- Liveness: `EveryWriteSettles`, `CallsReturn`, `TunnelsLive`, `CopyArrives`. The proof system
  treats neither `ENABLED` nor fairness.
- `WireExact` (`GitWire`, `GitCoding`): coding follows the nesting of a message by a RECURSIVE
  operator, which a module with theorems cannot use; the run checks all bodies up to its bound.
- `SelectionExact`: it compares git's search for a hunk with the selection, both computed along a
  difference of any length by several recursive functions; no proof has been written.

## 5. What the code does not keep

*Found by a run.* `hunk_shift`: `diff::selection` writes every hunk's new position equal to
its old one (`tools/agent/src/git/cli/diff.rs:609`), without the shift of the selected hunks
before it. git looks for a hunk from its new position on, so in a file that repeats itself a
later hunk may be applied at the wrong repetition, with success. `SelectionExact`, which holds,
says when the selection is exact: one hunk, or no repetition.

*Stated, not expected.* Documents and comments promise more than the code keeps in the
following places. Each is stated as a formula in its module, so that it can be put into a
configuration, where TLC finds the behaviour that breaks it; no run expects it to hold.

| Statement | Who says it | What happens |
|---|---|---|
| `GitWrites!MissingMeansNeverBegan` | `src-tauri/src/git/mod.rs:537`: a missing record proves that the write never began | a request that had arrived at the old agent is looked up, found missing, settled as rejected and dismissed before that agent begins it. Hence `DismissedIsResolved` and `RefusedNeverBegins` are stated of the refusals of `start` only |
| `GitJournal!ReviewedHasStopped` | `src/api/gitMutations.ts:69`: native code verifies that a reviewed operation has stopped | after the agent's death its git child may still run, and the repository lock is free (`journal.rs:214`) |
| `GitSession!FailedStreamsDiscarded` | `src-tauri/src/git/client.rs:1`: a stream is discarded after any failure of the transport or the protocol | a frame in the middle of a request that does not begin with `M` ends it with UNSUPPORTED_PROTOCOL (`client.rs:215`), which is not among the errors after which a stream is dropped (`reads.rs:114`) or a session closed (`git/mod.rs:496`): the lane keeps a stream that is out of step until a later request fails on it in another way. The error of a write that was sent is not made the uncertain outcome; its receipt stays open for a lookup. Hence `StreamsClean` and `HonestFate` exempt it |
| `GitSession!CurrentSessionKept` | `src-tauri/src/git/mod.rs:165`: a connection is replaced that is closed or of an older configuration | a caller that read the revision before an edit and waited behind a newer caller closes the session of the current configuration (`mod.rs:207`) |
| `GitApply!ForeignIntegrationKept` | `writes.rs:924`: "This integration was not started by the CLI backend." | the marker `.git/newport-cli-integration` outlives an integration that another program ended, and lets the next one of another program be continued, skipped or aborted |
| `Connectivity!FailureKeepsSuccess` | `connectivity.rs:57`: a failure cannot erase evidence obtained while the failed attempt was running | it does when the success arrives second |
| `FileOperations!RemovalTried` | `docs/files.md:29`: a removal is attempted of a staging file | none is when an upload is cancelled or times out while the file is being created (`transfer.rs:84`) |
| `AgentOwnership!StoppedForCause` | `session.rs:62`, the message "Integration is active in another Newport installation.", and `clipboard.rs:142`: reconnects identify their previous agent | an installation's own earlier agent, whose files are still being written or already removed, is taken for another one's |
| `Clipboard!ReadersNeverStop` | `docs/clipboard.md:96`: requests that fail can be retried without restarting the agent | a ninth request during an answer ends the integration with an error (`agent.rs:254`) |

## 6. Abstractions, and what is left out

- *Journal and actions.* A fingerprint is a version counter; only writes of the journal raise
  it in `GitJournal`, where other programs appear as Git's own lock files. What they do to a
  repository during an action is in `GitApply`. A change between the fingerprint and the launch
  of git is a window no check of this code can close. The journal's limit in bytes, and that of
  1,000 receipts on the desktop, are not modelled; `PersistFailed` includes a full disk.
- *Reads.* The parsing of git's output is left out. A file's stamp is taken to change with its
  content. A stash is read by its index after its list was compared, as the code does. A cursor
  past the end of a history is refused (`history.rs:194`). `msgpack.rs:38` numbers the column of
  the bytes of a line; the compaction of other columns is represented by the modes.
- *Session.* A method that the agent does not offer is refused before it is sent
  (`client.rs:101`); here that is one of the answers. How a stream that is out of step is read on is
  abstract: the rest may look like an answer, like another request's frame, or like none.
- *Connectivity.* The wall clock, which expires evidence across a suspend, is left out.
- *Host keys and login.* Patterns of hosts are left out: an entry is what a line says of this
  host. An edit while a connection has the file open can take back or add an entry after it was
  read; `verify` cannot know, and what `OneHostKey` says of the user's file leaves out the time up to the
  next edit.
  A selected agent that fails is retried also when no fingerprint is chosen, as in the
  code. The SSH library, remote commands and relays are not modelled.
- *Tunnels.* Delays and their growth, relays, destination checks beyond their verdict, the
  restore at startup (a series of connects), and the half of `validate_unique` about remote
  duplicates are left out. A bind that another program defeats is final, as in the code.
- *Files.* A server tells sizes and times of all its files or of none, times in seconds.
  `DownloadWhole` names what the second stat cannot see: a server that tells nothing, and a
  change that leaves size and time as they were at the first look. A preview has no second
  stat and may show a mixture, within its limit. Servers are taken to deliver an item that stays
  in a folder exactly once, as `readdir` does. Checks of paths and names, progress, and which
  bytes make an image, a PDF or a text are abstract. The desktop's write of the local staging
  file fails as a request does.
- *Metrics.* A reading's time is taken before the history guard (`metrics_sampler.rs:103`): one
  collected before a clear may be recorded after it, and only its settings are checked, which
  is what `RecordedCurrent` says. The remote command and its parsing are left out. One series
  shows every case of the history, whose rows of different series never meet.
- *Terminals.* The bytes a shell reads and writes, and its bounded channels, are left out; tabs
  share only the limit of shells.
- *Profiles.* Encryption is left out. A failed sync of the directory leaves the vault newer
  than the memory, with the password of the new one in use; the migration's marker file is renamed
  without a sync of its directory, so that a power loss may take it back, and the next start writes
  it again. Both are in `Profiles`. That somebody removes a key from the system's storage later is
  not.
- *Preferences.* `get_sidebar_width` reads without `ACCESS`; it changes nothing.
- *Lifecycle.* Commands that arrive during a shutdown are not refused (`updates.rs:168`); what
  they start dies with the process. Windows and the tray are platform calls.
- *Integration.* The agent's `Store` is closed when the desktop's session ends, and readers get
  an error; a reader of a Wayland pipe cannot tell a content that was cut off from a whole one,
  so `OfferServesOwn` speaks of what is written. The legacy helper's lock, the standalone
  display service's snapshot path, the byte formats of X11 and Wayland and the upload of the
  agent's binary are not modelled.
- *Repository creation* follows the journal's protocol with a destination path for a
  repository; its own steps are the action `create` of `GitApply`.

### Not modelled

The views of ports, services and containers (one remote command each, no state); the platform
layer; the frontend's Git session, queries, state and editors, which order the calls of one
window: what reaches a server is decided by the native commands. The command runners of
`tools/agent` (examples, benchmarks) and the build.

## 7. Possible extensions

A proof of `SelectionExact`, by least counterexample over the lines of a difference, and of the
part of `WireExact` that is about a lane's window (`GitWire`), which has no recursion. Of the
system: relays of tunnels, the remote half of `validate_unique`, and the standalone display
service of the agent.

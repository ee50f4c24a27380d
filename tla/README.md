# VeloceNetwork in TLA+

Models, model-checking runs and machine-checked proofs for the VeloceNetwork
workspace. The source is read from `src/Linux`; `src/Windows` and `src/macOS`
hold copies of the same crates (`job.rs`, for one, is the same file in all
three and contains every platform's code behind `cfg`).

1. [The system](#the-system) – inventory of components, state, operations
2. [Modules](#modules) – what each models, and how it corresponds to the code
3. [Runs](#runs) – what each checks, its bounds, what it shows
4. [Fairness](#fairness)
5. [Proofs](#proofs)
6. [Where code and documentation part](#where-code-and-documentation-part)
7. [What is not modelled](#what-is-not-modelled)
8. [Plan](#plan)

To check: `tlc -config MCx.cfg MCx` for a run, `tlapm XProofs.tla` for proofs.

## The system

One daemon per machine, *VeloceCore* (`crates/veloce-core`), supervises child
processes ("nodes") on behalf of local clients. The clients talk to it over a
named pipe or Unix socket (`crates/veloce-ipc`, `crates/veloce-sdk`). Names
under `.vln` are resolved and proxied by `crates/veloce-net`; the daemons of
several machines are joined by `crates/veloce-mesh`.

| component | state it keeps | operations | talks to | hard behaviour |
|---|---|---|---|---|
| node supervision (`job.rs`, `state.rs`, `registry.rs`, handlers in `session.rs`) | `NodeTable` (handles, health, service labels), 64 slots in a memory-mapped file, the processes | spawn, kill, auto-kill on disconnect, scan for exits, delayed restart | sessions, reconciler, portal, health loop: all call the same tables | no lock spans table, slot and process; the scan works from a copy; restarts fire after a delay; the Core may die between any two writes |
| session (`session.rs`) | granted capabilities, auto-kill list, push channel | one handler per IPC message, one at a time | everything | the client may go away at any time; handlers await |
| reconciler (`reconciler.rs`) | the desired state | `apply`, a pass every 5 s | `NodeTable`, `spawn_node_via_state` | a pass works from two copies while awaiting its spawns |
| Hub deployment (`hub.rs`, `portal.rs`, `session.rs`) | catalogue on disk | spawn of a catalogue entry, host name, ingress rule | supervision, net registry | goes on when the registry is full |
| mesh KV and locks (`kv.rs`) | entries with version/time/origin, lease locks, a token counter | set, cas, delete, snapshot, merge, acquire, release | sessions; other peers' stores | updates late, repeated, reordered; clock read outside the lock; nothing survives a restart |
| cluster coordinator (`control.rs`) | term, role, leader, a lock each | promote, handle heartbeat, assign replicas | other peers | three locks taken in turn; announcements in any order |
| health probing (`job.rs`) | streaks per node, health status | probe, threshold | `NodeTable` | one task for all probes; results applied after the await; streaks outlive restarts |
| registry KV area (`registry.rs`) | a list of entries in the mapped file | get, set | sessions | old entry dead before the new one fits; the file outlives the process |
| mesh peers (`lib.rs`, `peer.rs`, `identity.rs`) | peer table, one-time codes, per connection a queue, a writer and a reader | connect, accept, disconnect, gossip, ping | net registry, forwarders | an old connection's end against a new one's start; a reader that waits to write; partial reads; a code given back after a failure |
| mesh forwarders (`forward.rs`) | forwarders by name, proxy streams | refresh, remove, open, data | net registry, peers | two tables, two locks; a forwarder is never refreshed; bounded queues |
| net registry (`veloce-net/registry.rs`) | names with owner and TTL | register, unregister, resolve, gc | sessions, portal, mesh | expiry is lazy; anybody may write over a name |
| port forwards (`port_forward.rs`) | rules by name, a listener each | add, remove | sessions | check and insert under different locks, with the bind between them |
| autoscaler, cron, shares | policies, jobs, share codes, each behind one lock | set, list, remove | sessions | none: what would act on them is not called |
| node events and logs | broadcast channels, push queues | subscribe, forward | sessions | lag, events between spawn and subscription |
| stores and engines (secrets, volumes, OIDC, OTel, VFS, Wasm, bridge) | a map each | get and set | files | sequential |
| SDK client (`veloce-sdk`) | requests under way by correlation id; templates, kept in the registry | one request per call, several for templates | sessions | a call gives up while its last request is under way; three requests, two keys |
| apps, installers, mobile bindings | none shared | user interface | SDK | – |

What makes each of the first group correct:

- **Supervision.** A node id has at most one process and one task answering for
  it; a process is never lost; a node reported killed stays dead; a slot is
  written only for its owner; exits are noticed; cleanup ends.
- **Reconciler.** It does nothing supervision does not allow; a pass never
  exceeds the replicas asked for and kills only what it spawned for the
  service; a shortage ends.
- **Locks.** Leases of one daemon's process exclude each other; tokens grow.
- **KV.** Equal knowledge means equal state; stamps identify entries; a peer
  never goes back; peers that keep talking converge.
- **Coordinator.** Role, leader and term tell one story however calls overlap; a
  leadership is announced once; a split brain heals. Each but for the named cases.
- **Probing.** A status is earned by results in a row, and is that of the
  process it is shown for.
- **Registry KV.** It is a map, whatever is refused or cut short.
- **Mesh.** A name of the mesh has a forwarder, a forwarder leads to a daemon
  that has had the name; names spread; a link's reader gets on; a one-time code
  connects once.
- **Service order, port forwards.** Sorted exactly if it can be; an add writes over
  no rule but that of an add beside it.
- **Proxied streams.** What one end sends the other gets, in order, unless one of
  the named losses happens; an entry goes when its stream ends, but for the named cases.
- **Templates.** What is saved is listed, what is listed has a value, wherever a
  call breaks off.

`PROJECT.json` lists every component, the hazards at their lines, and the map
from definitions to source lines.

## Modules

```
NodeLifecycle                                   (what supervision promises of an id)
   ^ implemented by
NodeSupervision ──┬── ServiceReconciliation     (EXTENDS; RecSpec => Spec)
                  ├── HubDeployment ──┐
                  └── HealthProbing ──┴── HubProbing   (both over one table)
LeaseLock     MeshKv     ClusterCoordination    (one per mesh component)

KvRegister <── RegistryKv ──────────────┐
PeerLink  PortForwards  ProxyStreams ───┼── LiveParts    (EXTENDS all; one runs)
                          MeshNames ────┤
ServiceOrder  JoinCodes  TemplateStore ─┴── TableParts   (EXTENDS all; one runs)
```

`MC*` modules give the instances; `*Proofs` modules hold the theorems
(`HubProbingProofs` those of `HealthProbing`, `HubDeployment` and `HubProbing`;
`TablePartsProofs` those of the four modules below `TableParts`, `LivePartsProofs`
those of the others below `LiveParts`). A
definition marked `Mutant` in a comment is not part of a model: it is a
plausible bug, which the property it is paired with must catch when put in
place of the definition after it.

### NodeSupervision

A step is the code between two points where another task can run: one lock of
the registry or the table taken and released, or a process created or ended.

| variable | code |
|---|---|
| `slots` | the registry file: per slot `node_id` and the status byte (`registry.rs`) |
| `nodes`, `labels` | `NodeTable.nodes`, `.service_labels` (`state.rs`) |
| `procs`, `strays` | live processes as `<<node, restart_count>>`; those no handle leads to: outside their job object, missed by a kill, or older than the Core |
| `spawns` | a handler between `alloc_node` and `NodeTable::insert` |
| `kills` | a handler that holds a removed handle and has yet to terminate it |
| `restarts` | the detached tasks `check_nodes` starts (`job.rs:669`) |
| `scan` | what is left of the `list_live` copy a scan walks |
| `conn`, `autoKill` | a session's life and its `auto_kill_nodes` |
| `killed` | history: ids answered with `NodeKilled` |

| actions | code |
|---|---|
| `SessionSpawn`, `PortalDeploy`, `ReconcilerSpawn` → `SpawnProcess` / `SpawnFails` → `InsertSpawned` | `session.rs:282`, `portal.rs:499`, `job.rs:499`: `alloc_node`, `spawn_node`, `insert` |
| `SessionKill`, `SessionKillNotFound`, `ReconcilerKill` → `FinishKill` / `FinishKillFails` | `session.rs:316`, `reconciler.rs:172`: `remove`, `terminate_node`, status, answer |
| `Connect`, `Disconnect`, `CleanupNode`, `CleanupDone` | `session.rs:83-191` |
| `ScanBegin`, `ScanSkip`, `ScanExited` | `check_nodes`, `job.rs:572-702` |
| `RestartSpawn`, `RestartFails`, `RestartInsert` | the restart task, `job.rs:669-691` |
| `ProcessExits`, `CoreRestarts` | the environment |

Decisions a reader should know of:

- `OnWindows` tells the two builds apart, where they differ in control:
  - `check_nodes` has a body on Windows only (`job.rs:759` is empty elsewhere),
    so on unix nothing scans, probes or restarts: an exit is never noticed there,
    and `ExitIsNoticed` and the statuses are claims about Windows.
  - When the Core dies, Windows closes every job object and with it kills the
    processes in it (`job.rs:768`); only strays live on. On unix nothing ties a
    child to the Core (`spawner.rs:123-171`: neither `kill_on_drop` nor a
    parent-death signal): all live on and no handle leads to them (`Survivors`).
    The systemd unit in `packaging` would kill its control group when the service
    stops, but what the Core has put into cgroups of its own is beyond the source;
    a process killed in that way is one that ends by itself (`ProcessExits`).
  - A kill on unix may report success and miss the process: a failed `add_proc` is
    only a warning, and killing the empty cgroup succeeds (`spawner.rs:63-65`,
    `:88-92`). It never fails, whereas `TerminateProcess` may (`FinishKillFails`).
  - A process that was created and then left without a handle by a failing spawn
    is a matter of Windows (`AssignProcessToJobObject`, `job.rs:426`).
- A node may have no restart policy, or a smaller budget than another:
  `ScanExited` may schedule no restart at all, or one as long as the largest
  budget (`MaxRestarts`) allows.
- `NodeTable::remove` takes the label under a second lock. Nothing can tell:
  `list_live` shows the labels of handles it finds, and holds the label lock
  while it looks. So removal is one step.
- `spawn_node_via_state` sets the label before the insert; the process and its
  label come in one step, since a label without a handle is not shown either.
- A process the health loop's copied handle refers to may have been closed by a
  kill and its value reused; `ScanSkip` allows the entry to be passed over then.
- The back-off delay is any delay: a restart task may fire whenever it likes.

`NodeLifecycle` says the same of one id without any of these tables: `new`,
`spawning`, `tracked`, then `restarting` or `killing`, in the end `gone`, with
an attempt counter and at most one process, which on unix (`Outlives`) may
outlast the id. `KeepsLifecycle` maps the tables to
it: `Life` and `Attempt` read off which of `spawns`, `nodes`, `kills` and
`restarts` holds the id.

### HealthProbing

`NodeSupervision` plus `health` (`NodeTable.health_statuses`), `streak` (the
counters of `health_map`, a local of `health_loop`) and the `probe` that is
awaited. `ProbeBegin` takes the entry from the scan's copy; until `ProbeEnds`
the health loop does nothing else, while everybody else goes on (`Others`).
`ProbeEnds` counts the result, and at the threshold writes the status by node
id, whatever has become of the node. `NodeTable::remove` clears the status,
nobody clears a streak. `healthOf` and `results` are history. A counter stops at
its threshold, where it tells nothing new; the interval between probes is any.

### HubDeployment

`NodeSupervision` plus the one thing the portal does and nobody else: when
`alloc_node` fails it goes on with slot 0 (`portal.rs:531-533`). `unlisted`
holds the ids that got no slot of their own. Slots are never freed, so a full
registry stays full. `HubProbing` puts this and the probes over one table; it is
what the run `hub` checks.

### ServiceReconciliation

`NodeSupervision` plus `desired`, the `pass` under way with its two copies
(the desired state and the live nodes by service), the service at hand and what
is left to spawn and kill for it, and the `replica` index of the labels. The
reconciler's free choice in `NodeSupervision` is replaced by what
`reconcile_once` decides: `PassBegins`, one of `SkipService`, `ScaleUp`,
`ScaleDown`, `AtCount` per service in dependency order, `SpawnReplica` or
`SpawnRefused`, `KillReplica`, `PassEnds`; `ApplyDesiredState` is the session's
handler. `PROPERTY Spec` says that this is an implementation of
`NodeSupervision`.

- Reading the desired state and the table are two reads in the code; nothing
  lies between them that could see the difference, so `PassBegins` is one step.
- `topo_sort` is used by what it promises (`Orderable`): some topological order,
  or an error for a missing or circular dependency. A service listed twice
  counts as circular in the code and is not in `DesiredState`.
- The index is computed right before the slot is allocated, in one step. As only
  the reconciler labels nodes, that can but make it larger than the code's.
- Whether a dependency is Healthy is left open: `SkipService` may always be
  taken for a service with such a condition.

### LeaseLock

`acquire_lock` in three steps: the clock is read (`AskLock`), the table changes
(`Refuse`, `AcquireLock`), the client learns the outcome (`LearnOutcome`); time
(`Tick`), other clients and a `Restart` of the daemon may come in between. A
client believes in a lease until the expiry it was told, or until it asks for
its release. Daemons share the clock; a drifting one would only affect the
clients' beliefs and is not modelled. The clock never steps back here: it is
`SystemTime`, which an operator or NTP may set back, and then a lease that another
client has taken over would seem live to its first holder again. `HolderAssumption`: clients of one daemon
use different holder names, as a lock is re-entrant for its name.

### MeshKv

One key of the store: keys never meet in the code. `Set`, `Cas`, `Delete`,
`TakeSnapshot` and `MergeEntry` are the functions of `kv.rs`; a write may carry
any earlier clock reading. The workspace has no transport that carries updates
to `merge_entry` (its callers are tests), so `sent` is the set of everything
produced and any of it may arrive anywhere, at any time, again or never. `seen`
is history.

### ClusterCoordination

The two calls of `control.rs` that write, split at each lock: `Promote`,
`TakeRole`, `NameSelf`; `Heartbeat` (the comparison), `StoreTerm`, `Follow`,
`Resign`. Nothing serialises callers (`&self` over an atomic and two locks), so
`Tasks[p]` is a set of tasks that may be in a call of `p`'s coordinator at once;
delivery is as free as in `MeshKv`. The code starts no election by itself: who
calls `promote_to_leader`, and when, is left open.

With two tasks much that one expects is not so, and the properties say what is
left. A heartbeat that is checked before a promotion raises the term and stored
after it sets the term back (`setBack`, history): terms do not grow, and a
leadership may be announced again, which `NewLeadership` excepts. A follower may
be left recognising itself. A peer may be left leading in the term another one
announced; if that one has restarted since, nobody repeats the term, the peer
does not repeat its own, and two may lead for good: `SplitBrainHeals` excepts a
peer that is so `Stranded`. What holds without exception is `LeaderIsRecognised`: a
peer leads under another leader only inside a call that is about to change that,
whoever is recognised has announced a leadership, and a peer at rest is in a term
that was announced.

### RegistryKv

The region behind the node slots as a sequence of entries with their spans.
`Lookup` is `kv_scan`, `Tombstoned` and `Stored` the second and third phase of
`kv_write`, `KvSetOverflows` a set that fails after the second. `KvCrash` is the
end of the process between the two phases or before the answer: the mapped file
keeps what was written. A process that ends in the middle of one phase (between
the two stores of a header, `registry.rs:406-407`) is not modelled. `KvRegister`
is the map it implements; `request` and `reply` tie each answer to its question.

### PeerLink

Both sides of one connection, with a queue, a `writer`, a `wire` and a reader
each. The reader's `select` is `ReaderBegins`/`ReaderHandles` against
`TickerFires`; a ticker that fires while half a frame is read drops that half
(`frame` becomes `"cut"`). `owes` is what the reader waits to send: a ping, a
gossip message, or the answer to what it has just read; it reads nothing until
there is room. A message may have to be answered or not (`Msgs`), and that is
all that is told of its kind. A message that the writer cannot encode or encrypt is
dropped when it is taken.

### MeshNames

Names, forwarders and connections of all daemons. `NameComes` and `NameGoes` are
sessions, portal and gc; `Handshake`, `Tabled`, `ReaderEnds`, `PeerGone`,
`Disconnect`, `DropForwarders` the life of a connection at each end, step by
step as its locks are taken; `Gossip`, `EntryTaken`, `EntryIgnored`,
`EntryUnbound` the handling of a message entry by entry. `refresh_forwarder`
holds the lock of the forwarders while it registers the name and inserts, so
that is one step. Times (of entries, of records) are not counted: an entry may
be refused, a name may go. `hostname_origins` only warns and is left out. That a
reader ends does not remove forwarders nor close the socket, and `Disconnect`
leaves the connection as it is: so does the code.

### ServiceOrder, PortForwards, JoinCodes

`ServiceOrder` is `topo_sort` node by node, where each iteration over a map
takes any order (`SetToSeqs`), on every desired state of `States`.

`PortForwards` splits `add` at its locks and its await, with `met`, the history
of which calls have overlapped. A listener runs until its sender, which its rule
holds or the call that will write the rule, is dropped, or `accept` fails.

`JoinCodes` is the part of `connect_to_peer` that looks at VM3 codes: the check
and the record are one step, under one lock, and the attempt is another; several
may be under way. All its times, `Ttl` among them, are seconds (`identity.rs:48`
multiplies `ttl_mins` by 60).

### ProxyStreams

One stream: `run_proxy_client` at the `Asker`, `handle_proxy_open` at the
`Server`, and at each the two pumps, the entry in `PROXY_STREAMS` (`entries`) and
the queue (`chunks`). `toPeer` and `fromPeer` say where the pumps are; `link` is
all that one side has sent and the other's reader not yet handled, in order,
whatever of it is in the queue or on the wire. `DataArrives` drops a chunk when
the queue is full or nobody reads it, as `try_send` does; `overrun` remembers the
first. A queue outlives its entry: the pump still gets what is in it. Local ends
may stop writing (`"shut"`) or close at any time. A write to a socket succeeds
unless the local end has closed.

Two things come from the link (`peer.rs`). A chunk of 16 KiB whose bytes are nearly
all above 99 is about 65.5 KB of JSON, more than a Noise frame holds: the writer
drops it and goes on (`PumpReadsOversize`, `PumpSendsOversize`; it has no number, as
no property can ask for it). And a reader may stop while the link stands, since its
end does not close the socket that forwarders' senders keep: on a frame it cannot decrypt
(`peer.rs:267`), or because it waits for ever for room (`Crossed`). `stopped` holds
such sides; what is sent to them fills the link up, and then senders wait (`Blocked`).

### TemplateStore

`save_template` and `delete_template` of the SDK: calls of two or three requests
to the registry's key-value area, over the template's own key and the index of
names. `requests` holds what a client has sent and its session not handled, in
order; `calls` how far its call is. `CallFails` is an error, the timeout of five
seconds, or a caller that drops the call: the last request stays where it is and
is carried out all the same, and its answer finds no one (`Answered`; the
correlation id). A set does what `KvRegister` says of it, so that a refused one
may cost the old value. `list_templates` and `get_template` only read.

`LiveParts` and `TableParts` each check several of these modules side by side: the
first state says which one a behaviour is about (`part`, `concern`), and the others stand still.
`LiveParts` takes those whose promises are about whole behaviours, `MeshNames` with
one connection among them, `TableParts` those about states, `MeshNames` with two.

## Runs

Passing runs (distinct states as found by TLC):

| run | instance | states | shows |
|---|---|---|---|
| `supervision` | Windows; 2 ids, 2 sessions, 1 portal request, reconciler, 2 slots, budget 1 | 248 000 | the invariants of supervision; implementation of `NodeLifecycle`; `ExitIsNoticed`, `CleanupEnds` |
| `hub` | Windows; 2 ids, one of them probed, 1 slot, 1 session, 1 portal request, thresholds 2 | 206 000 | nodes stay apart although they share a slot; `HealthIsCurrent`, `StatusEarned`, `ExitIsNoticed` with a loop that awaits probes |
| `reconciliation` | unix; 2 ids, 1 session, 2 services, one needing the other, 1 replica each | 299 000 | `KillsItsOwn`, with every kind of turn; `NoLostProcess` where processes outlive kills and the Core |
| `reconciliation_live` | Windows; 2 ids, 1 session, 1 service of up to 2 replicas | 335 000 | `NeverTooMany`, implementation of `NodeSupervision`, `ShortageEnds` |
| `leases` | 1 daemon, 2 clients with ttl 2 and 1, time to 4, 3 tokens, 1 restart | 407 000 | `MutualExclusion`, `FencesIncrease` |
| `kv` | 2 peers, 1 value, versions to 2, time to 1, one peer may restart once | 259 000 | `ReplicasAdvance`; until the restart `StampsUnique`, `SameSeenSameState`, `Convergence` |
| `coordination` | 2 peers, 2 tasks at one and 1 at the other, terms to 2, 1 restart each | 766 000 | `LeaderIsRecognised`, `NewLeadership`, `SplitBrainHeals` |
| `tables` | names: 2 daemons, 1 name given by one of them, 2 connections, 1 gossip message on its way; desired states of up to 3 services; 2 codes, time to 3, 2 attempts at once; 2 clients, 1 template, 2 requests under way | 1 675 000 | `MeshNamesForwarded`, `NamesHaveOrigin`, `OrderIsRight`, `OneTimeOnce`, `SavedAreListed` |
| `live_parts` | link: queues and wires of 1; names: 1 connection; 2 adds, 2 names, 2 ports; a stream of 2 chunks from the client and any number of oversize ones both ways, a queue of 1 chunk, 2 messages on the link; KV: 4 keys, 2 values, 32 bytes | 86 000 | `KvKeepsPromise`, `ReaderReturns`, `NamesSpread`, `OnlyRivalsReplaced`, `StreamKeepsData`, `StreamsEnd` |

Why the bounds are enough for what the runs ask. Every conflict in supervision
is between two tasks over one id, or between two ids over one slot: two ids and
two sessions, with the reconciler and the portal, give both, and a budget of one
lets a restarted node be scanned and killed again, and its budget run out. The
proofs are for either value of `OnWindows`. One slot fewer than
ids is what `hub` needs. A pass with two replicas has a spawn with another one
left, which is when a count may be overtaken. Leases need a clock that can pass
one expiry, and the one that follows the takeover; ttls that differ let a stale
reading matter. Two versions, two times and two origins are every case of
`is_newer`; two writes of one stamp would differ by their tombstone, so one
value is enough. A status needs two results in a row to differ from one that is
wrongly counted. Two connections between two daemons let a new one be made, put
into the table and used for gossip while the old one's end, its callback and a
disconnect are under way; one name at one home already has its forwarder, its
node and its gossip race, and with two homes only the loop described below is
added. 32 bytes hold two short entries, or one long one, or leave exactly the
sentinel's two bytes missing; the keys have 0, 1, 2 and too many bytes. A queue
of one is full as soon as it is used, which is the case the link is about. Three
services give a chain, a fork, a join, a cycle, and a name that occurs twice;
two attempts at one code and a second code let the limit evict it. Two tasks
at one peer let a promotion or a heartbeat fall between the steps of another
call there; terms to 2 let that peer lead, be set back or overtaken, and lead again.
Two requests that are under way while a call begins are those of a call that was
given up and of the one before; the keys of two templates meet in the index only,
which is read and written whole. Two chunks can change places or overflow a queue of one; the service answers
with oversize chunks only and with its close, which meet them on half-closed
streams (the functions are the same on both sides, and the theorem has chunks both
ways); a link with room for two holds a close
behind data. For the
safety properties the proofs remove the bounds: budgets above one, services of
many replicas that restart, a third peer that passes entries on, more daemons,
names and connections are in the theorems, not in every run.

The bounds are constants: `MaxNodes` (64 in the code), `MaxRestarts` (the largest
`max_restarts`; in the mesh modules, restarts of a peer), `MaxReplicas`,
`SuccessThreshold`, `FailureThreshold`, `RegionSize` (`KV_REGION_SIZE`),
`KeyLimit` (0xFFFF), `QueueSize` (256), `WireSize` (the socket's buffers),
`Window` (86 400), `ChunkRoom` (64), `MaxNonces` (10 000), `KeptNonces` (5 000) are the code's own.
`MaxTime`, `MaxFence`, `MaxVersion`, `MaxTerm`, `MaxClock`, `MaxTries`,
`MailSize`, `Conns`, `Adds`, `ChunksOf`, `LinkRoom`, `SendRoom` and `Homes` (which names are given where) only make
the state finite, and a model at its bound stops: hence `CHECK_DEADLOCK FALSE`
in the mesh configurations and those of the parts, where a link may also come to stand still
(`Crossed`). In the supervision modules deadlock is checked. Symmetry is used on
ids in `reconciliation` and `replica_index`, neither of which checks liveness.

Violation runs each check one sentence of a comment, a test or a document
against the model; see [below](#where-code-and-documentation-part).

## Fairness

- Supervision: the tokio runtime keeps polling the tasks it was given
  (`run_core`, `main.rs:208-291`), so the health loop, handlers under way,
  cleanups and restart timers make progress: weak fairness for each. Nothing
  obliges a client, the portal or a process to do anything, and there is no
  fairness for `ProcessExits` or `CoreRestarts`.
- Reconciliation: in addition the loop of `Reconciler::run` goes round (weak
  fairness of `PassStep`).
- Probing: the health loop goes round and a probe ends, by its timeout at the
  latest (`ProbeStep`); the exit handling is fair by itself, as a scan gets past
  every entry. Nobody but the health loop gains an obligation.
- PeerLink: the writers are polled (weak fairness), whether or not they drop what they take. The reader's `select` takes
  its ready branches at random and the channel admits senders in their order:
  strong fairness for reading a frame and for a send that has room again and
  again. Tickers and senders owe nothing.
- MeshNames: the gossip ticker fires (weak), and an entry that comes again and
  again is not refused for ever (strong). That assumes what the code leaves to its
  surroundings: `gossip_interval_secs` above 0, gossip that fits in a frame (all
  names are in one message), a link that is not `Crossed`, clocks within five
  minutes of each other, an ACL that allows the entry, free ports. No connection
  has to be made or to last.
- ProxyStreams: the pumps, the call that asks and a reader that has not stopped
  are polled (weak fairness). No local end has to send or to close, a link may
  fail whenever it likes, and a reader may stop whenever it likes while the link stands.
- MeshKv: peers that stay connected exchange snapshots, and what was sent is
  merged in the end by every peer that has not seen it. Nobody is obliged to write. The workspace leaves this
  exchange to a transport it does not contain: fairness is here the assumption
  under which the store promises convergence, as its tests take it.
- Coordination: a call that was made goes on; the announcement that a leader
  keeps repeating, of the term it is in, is in the end taken up by each other
  peer (strong fairness, since a peer busy with another call is not ready for
  it). A leader repeats the announcement of the term it is in, and only if it made
  one. Again the transport's.

## Proofs

All by TLAPS, for every value of the constants that meets the named `ASSUME`s. Of
these, few say more than that a constant has its type: clients of one daemon use
different holder names (`HolderAssumption`), a link has two sides, `Nodes` and
`Services` are finite (for the cardinalities), there is a slot (`BoundsAssumption`)
and room for the sentinel of an empty list (`SizesAssumption`: two bytes), and there
are a rule and a port to speak of (`AddsAssumption`). Every safety and action
property that a passing run checks is the subject of a theorem.

**NodeSupervisionProofs.** `IInv` is the conjunction of the invariants of the
`supervision` run with a few more. `OneHolder` is not inductive by itself: that a restart
inserts into a table without its id needs that a scan finds only ids that are
neither being spawned nor waiting (`ScanApart`), which needs that the scan's copy
is current (`ScanIsCurrent`). That an id is fresh must exclude every trace of
older ids (`TracesRecorded`), which is where `SlotsExclusive` comes from. Strays
are the processes no task holds; `StraysUnheld` says they are the last of their
id. One lemma per action, then `SupervisionInvariant`, from which
`NeverTwoProcesses`, `KilledForGood`, `NothingLost` and `SlotsKeepTheirOwner`
follow, for Windows and unix alike (`OnWindows` is a constant of the theorems); `OneAnswers`, `ScansStayCurrent` and `LabelsFollowNodes` are parts of
`IInv`.

All of `IInv` but `SlotsExclusive` is `TaskInv({})`. `TaskInv(U)` allows a set `U` of
ids without a slot of their own, and is inductive by itself for any `U` that is
empty until the registry is full (`TaskStep`): the tasks, tables and processes do
not depend on who owns a slot. `HubProbingProofs` uses it with `U = unlisted`.

`SupervisionImplementsLifecycle` is `Spec => KeepsLifecycle`: under `IInv` each
action changes `Life`, `Attempt` and the live ids of one node as one action of
`NodeLifecycle` does, or not at all. `OneHolder` makes `Life` well defined; that an
exit is noticed only with no live process, and a launch finds none, is
`NoLostProcess`.

**HubProbingProofs** first proves that the probes take only steps of
`NodeSupervision` (`ProbingImplementsSupervision`), so that `IInv` holds, and
then `HealthStaysCurrent`. A late status can only hit the process it was measured
on, since an awaited probe is of the handle in the table or of an id that is not
coming back (`ProbeIsCurrent`: while the health loop waits, it starts no restart,
and ids are drawn once); a restart begins with no status because the exit removed
it (`StatusRests`).

`HubKeepsNodesApart` is about the portal's nodes that share slot 0: `IInv` is false
then, `TaskInv(unlisted)` is not. The registry was full when the first such node
came, and stays so (`FullStaysFull`), so that no later spawn can draw an id that is
in no slot. Probes and deployments together implement `HubDeployment`
(`LocalImplementsHub`); the run's specification has `LocalTypeCorrect`,
`LocalNodesApart`, `LocalHealthIsCurrent`, and `LocalStatusEarned`: each counter
says how many of the last results are equal (`StreaksTrue`), for results of any
length cut to their tail, so that a counter at its threshold has that many behind
it.

**ServiceReconciliationProofs** extends `NodeSupervisionProofs`. `Interference` sums up what
all other tasks may do to nodes, labels and spawns between two steps of a pass;
the pass's steps are taken against it. `NeverTooMany` needs `CountsBound` (a
service whose turn is to come has no labelled node the copy does not have: only
the reconciler labels) and `SpawnsForPass`; `KillsItsOwn` needs `CopyTrue` (an id
in the copy bears that service wherever it now is, since ids are never reused)
and `LabelsTrue`. `ReconcilerImplements` is the refinement `RecSpec => Spec`, so
everything proved of supervision holds with the real reconciler. `Nodes` is
assumed finite, for the cardinalities.

**LeaseLockProofs.** A lease a client believes in is in the table under its name
with no earlier an expiry (`LeasesBacked`), as is an answer under way
(`AnswersBacked`); a key has one lock; hence `LocksExclude`. A session's stale
reading never shortens its own lock because its lock was taken with an older
reading still (`CallsInOrder`, `LocksInTime`). `TokensGrow` rests on
`TokensIssued`: what was granted is below the counter.

**MeshKvProofs.** `Newer` is a strict order on entries with different stamps;
what a peer has is a newest of what it has seen (`NewestSeen`), so with unique
stamps equal knowledge gives equal state (`StrongConvergence`). `StampsUnique`
needs that a peer's own writes are no newer than what it has, wherever they are
by now (`OwnWritesKept`), which fails after a restart: hence `NoRestartYet`.
`NothingComesBack` holds with restarts.

**ClusterCoordinationProofs** hold for any number of tasks in each coordinator.
`CoordinationInvariant` has, besides `LeaderIsRecognised`, where a term comes from
(`TermKnown`: an announcement, or a promotion that is still to announce it), what a
call under way was made with (`CallConsistent`), and that the terms of a peer's
promotions are new and differ from one another until it restarts or is set back
(`TermsAreNew`), from which `LeadershipsAreNew` follows.

**TablePartsProofs.** `MeshNamesAreForwarded` holds since `EntryTaken`
writes both tables at once and `DropForwarders` removes the name with the
forwarder, whoever has written it. For `ForwardersHaveOrigin` everything that
gossip is made of must have an owner: names of nodes (`NodesOwned`), what is on
its way (`MailOwned`) and forwarders on connections that were made (`FwdMade`).
`CodesConnectOnce` needs that attempts and successes with a code are one at most,
and none while it is valid and unrecorded (`CodeInv`): it covers codes that expire
before their nonce is evicted and that the limit has not evicted, as `OneTimeOnce`
does. For `SavedStayListed`, what waits to be carried out must be harmless whenever
that happens (`TemplatesInv`): only the first request in a session's queue can write
the index or clear a value (`FirstsWait`), and as long as calls have not met it does
so with what is in the index now (`Harmless`, `CallTrue`, `AnswerTrue`), because one
client is busy at most (`OneBusy`).

`SortsInOrder` is the correctness of Kahn's algorithm, for desired states of any
length. While it runs, a counter is the number of dependencies not yet visited,
and a service is visited or ready, once, exactly if that number is 0 (`Counts`);
so what is visited came after all it depends on (`DepsFirst`), and what is returned
respects the dependencies. If something is left when nothing
is ready and yet an order exists, the first service in that order that was not
visited waits for nothing (`AllVisited`), a contradiction. `LeastOf`, any set of numbers has a
least element, takes the place of an induction over the length. `PartsStayApart`
says that a behaviour of `TableParts` is one of each of its modules; with it come
`TablesTypeCorrect` and `TablesKeepPromises`, all of the run's safety invariants.

**LivePartsProofs.** `KvImplementsRegister` is the refinement
`KvSpec => KvKeepsPromise` for any keys, values and sizes; it rests on
`OneLiveEntry`, by which the first live entry that a scan finds and the last that
a set marks dead are the same. That the list never outgrows its region
(`KvShape`) needs sums over sequences of any length: `Total` is a running sum,
which exists, is unique, does not change when an entry dies, and grows by the new
entry's span.

`StreamsKeepTheirData`: `Direction` describes a link's direction whole, as an open
if it is on its way, the chunks between the last that has come and the last that was
sent, and a close if the sender has closed. It holds of what has been received as long
as the receiving side is `Sound`, that is, nothing of what `StreamKeepsData`
excepts has happened. For a chunk to find a reader, the receiver's entry and pump
must be there until the close has come (`Receives`), which needs to know how far
the asking is (`Stages`), and that nobody takes an entry away before the stream
is asked for (`EntryWaits`). Chunks that no frame holds leave all of it as it is.

`AddsReplaceRivals`: from the look-up to the insert of an add, whatever rule there is
of its name comes from an add it has overlapped with (`Rivals`).

`LivePartsStayApart` brings these, `LiveTypeCorrect` and `LiveKvImplementsRegister` to
the specification the run checks. The types of `PeerLink` need that a frame that
was begun is still in the socket (`LinkShape`).

Only model-checked is liveness, fairness and `ENABLED` being out of the prover's
reach: `ExitIsNoticed`, `CleanupEnds`, `ShortageEnds`, `Convergence`,
`SplitBrainHeals`, `ReaderReturns`, `NamesSpread`, `StreamsEnd`; and, of
course, the violations. No recursive operator is used. The induction theorems of the
library cannot be instantiated with these provers, so where an argument goes by
induction over a length or a number it goes through the least element of a set.
The type invariants of `NodeSupervision`, `LeaseLock`, `MeshKv`,
`ClusterCoordination` and `ServiceReconciliation` are proved and not part of a run.

## Where code and documentation part

Three runs end in a counterexample, each to one sentence of a comment, a document
or a test:

| run | the code | the sentence |
|---|---|---|
| `auto_kill` | a node in its restart delay escapes the cleanup and comes back (`session.rs:122`) | `message.rs:968` |
| `excess` | a restarted replica has no label and is never removed (`job.rs:680`, `state.rs:266`) | `reconciler.rs:4-5` |
| `replica_index` | two live replicas of one index (`reconciler.rs:158`) | `message.rs:1000` |

The models show more of the kind, for which no run is kept:

| the code | the sentence |
|---|---|
| a restart does not write the slot again, so a restarted node that runs is listed as stopped (`job.rs:680`) | `registry.rs:28`, the status byte |
| a failed spawn, or the reconciler's kill, leaves a slot that says running (`session.rs:293`, `reconciler.rs:173`) | `registry.rs:28` |
| with a full registry the portal's node writes over the slot of another (`portal.rs:533`) | `registry.rs:27`, the node id of a slot |
| tokens start from 1 in every process (`kv.rs:46`) | `consensus_test.rs:6`, monotonic tokens |
| lock tables are never exchanged, so clients of two daemons hold one lock (`kv.rs:120`) | `kv.rs:108`, a distributed lock |
| a store that came back empty reuses its stamps; if the clock agrees too (two writes in one second), two peers differ for good (`kv.rs:44`) | `consensus_test.rs:7`, convergence |
| versions are compared before times, so a merge may replace a later write (`kv.rs:225`) | `kv.rs:220`, last write wins |
| cas looks at the local entry and is not replicated (`kv.rs:85`) | `kv.rs:73`, strong consistency |
| a promotion asks nobody, so two peers lead one term (`control.rs:61`) | `PROJECT_SCOPE.md:67`, Raft-style election |
| check and store of the term are not atomic, so with two tasks in one coordinator a term goes back (`control.rs:70-72`) | `consensus_test.rs:16`, term monotonicity |
| a peer that promotes itself while it handles a heartbeat may be left leading in the other's term, and once that peer has restarted both may lead for good (`control.rs:61-66`, `:72`) | `consensus_test.rs:5`, "Split-Brain Leadership Resignation" |
| on unix a node outlives a Core that dies, with no handle (`spawner.rs:123`) | `job.rs:7`, "node dies when VeloceCore exits", said of the Windows job |
| two adds of one name that bind different ports both succeed (`port_forward.rs:45`, `:90`) | `port_forward.rs:34`, "if a rule with the same name already exists" |
| a one-time code without expiry, or valid for a day or more, connects again once its nonce is evicted, and any does after a restart (`lib.rs:226`) | `identity.rs:22-24`, "any replay attempt is rejected" |
| streaks outlive the process, so a restarted node may turn Healthy on its first probe (`job.rs:588`, `:600`) | `message.rs:1316`, consecutive successes |
| a set that does not fit has already removed the old value (`registry.rs:403-416`) | `registry.rs:352`, tombstoned and appended |
| a set of the empty key is answered as done and stores nothing (`registry.rs:418`) | `registry.rs:249`, end of records |
| two clients that save templates at once both read the index and write it: a saved name is missing (`client.rs:278-281`) | `client.rs:286`, "the names of all saved templates" |
| disconnecting from a peer also unregisters a name that a local node has taken over (`forward.rs:127`) | `forward.rs:115`, "their hostnames" |

Those about the key-value store, the locks and the coordinator concern promises its comments and tests make while no
transport uses these functions yet. The update strategies of the desired state
(`reconciler.rs:7-10`, `message.rs:1446-1449`) are not implemented at all.

Behaviours the models have because the code has them, with no sentence of the
repository to hold against:

- Both readers of a link can wait for room in queues that only the other one's
  reading would empty (`Crossed`; `peer.rs:216`, `:241`, `:439`). `ReaderReturns`
  names it as the one way in which a reader may be stuck while both are there.
- A ticker that fires while half a frame has been read loses that half
  (`peer.rs:246`: `read_exact` in a `select`), and the connection with it: `ReaderReturns` excepts readers that ended.
- Two daemons whose nodes have the same name can both hear the other's gossip
  before their own record is written over; then each forwards the name to the
  other (`forward.rs:71`). This is why `NamesHaveOrigin` speaks of names a node
  *has had*.
- A forwarder keeps sending on the connection it was made for, after that one has
  been replaced (`forward.rs:62`); its registration ends after an hour, and
  nothing renews it. `disconnect` does not close the connection.
- Names whose time is over are gossiped until gc removes them
  (`veloce-net/registry.rs:96`).
- Proxied data is lost in four ways. A chunk whose JSON is longer than a frame is
  dropped by the writer, and the stream goes on without it (`peer.rs:161`); of the
  other chunks `StreamKeepsData` excepts three losses by name: a
  full queue drops a chunk and the stream goes on without it (`forward.rs:186`); a
  client that only stops writing gets no more of the answer, as the end of
  `pump_to_peer` removes the entry that leads to it and has the other side's
  removed (`forward.rs:257-258`); a refusal or the end of the link says nothing of what was
  sent before.
- An open that cannot be sent leaves its entry in the static table for good
  (`forward.rs:215-219`), which `StreamsEnd` excepts; when a link fails, the
  entries of its streams stay until their local ends close.
- A reader that ends on a frame it cannot decrypt leaves the socket open, as
  forwarders keep a sender (`peer.rs:267`, `forward.rs:81-104`). The other side's
  sends then neither fail nor end once everything between them is full; pumps that wait
  so never remove their entries. `StreamsEnd` excepts them (`Blocked`).
- On unix `NodeKilled` may be answered for a node that lives on (`spawner.rs:63-65`,
  `:88-92`): `KilledStaysDead` and `NoLostProcess` except it as a stray.
- A listener whose `accept` fails ends and leaves its rule (`port_forward.rs:71`),
  and so does a forwarder (`forward.rs:96`).

## What is not modelled

- Autoscaler and cron: `Autoscaler::evaluate`, `poll_due_jobs`, `record_start`
  and `record_completion` have no callers outside their tests. Shares: a map of
  codes; `one_time` and `access_count` are stored and never acted upon.
- Proxied streams whose random 32-bit ids collide, which would share an entry;
  the bytes themselves.
- Node events and log streams: broadcast channels that lose what comes before the
  subscription or when a receiver lags (`session.rs:1238`); no modelled part acts
  on an event.
- `assign_replicas`: a division with a remainder. The owner map of gossip: it
  warns. Expiry of host names: a name may go at any time.
- The session's handshake and capabilities, the frame decoder: one sequential
  task per client.
- Pure I/O, parsing, cryptography, operating-system configuration, user
  interfaces: nothing for TLC to interleave. `PROJECT.json` gives the reason for
  each component.
- A failing flush of the registry file, which would leak a slot in `alloc_node`
  (in `kv_set` it is modelled); a process that ends inside one write to the mapped
  file; wrap-around of versions, terms and tokens (64 bits).
- `src/Windows` and `src/macOS`: copies of the same crates.

## Plan

1. Done: the modules above.
2. Open, should the code grow into it: a model of the cron scheduler and the
   autoscaler once something calls them; of the transport of `MeshKv`'s updates
   once it exists, in place of arbitrary delivery.
3. Proofs: that a file cut short inside a write is still a list; an abstract register that `MeshKv` implements on one peer.

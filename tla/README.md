# Percona Backup for MongoDB: specifications

Percona Backup for MongoDB (PBM) runs an agent beside every `mongod` of a cluster. The agents
have no connection to each other: they share documents in MongoDB collections (commands, locks,
metadata) and files on a backup storage, and poll both. What makes the program hard is that
every decision rests on something read a moment ago, and that any agent may fail, be cancelled,
stall or die between two round trips.

This directory holds TLA+ models of the program, TLC configurations that check them on small
instances, and proofs of the central properties for instances of every size.

## The system

| Component | State | Operations | What is hard | What makes it correct |
|---|---|---|---|---|
| Locks (`pbm/lock`, `cmd/pbm-agent/lock.go`) | `pbmLock`, `pbmLockOp`, `pbmOpLog`; a heartbeat goroutine per lock held | acquire, log, beat, release, take over a stale lock and mark its operation | several agents judge the same stale lock; delete by header | one holder per replica set, a command runs once, a takeover fails only what is dead |
| Command stream (`pbm/ctrl`) | `pbmCmd`; what an agent remembers of the last commands | insert, look once a second, leave out duplicates, hand over | clocks of several machines, a main loop that is busy | each command is handled by every agent, once |
| Nomination, priorities (`nominateRS`, `pbm/prio`, `pbm/topo/agent.go`) | agents' statuses; nominees and acknowledgements in the metadata | report, offer to groups in rounds, acknowledge | a slow nominee acknowledges when the next round is offered; statuses are old | one agent per replica set, of the best that can |
| Backup (`pbm/backup`, `cmd/pbm-agent/backup.go`) | the backup's record: status, heartbeat, per-replica-set entries; files; balancer mode | init, run per replica set, converge, wait, write metadata, check, done; cancel; backup-finish | the leader and the followers poll each other's progress; deferred cleanup on every error path | a backup that is done, or has a metadata file, is complete and consistent; everybody leaves; the balancer is restored |
| Dump and replay (`pbm/archive`, `pbm/snapshot`, `pbm/oplog/restore.go`) | archive of collections and indexes; oplog slices; the replay's catalog of indexes | dump collections in parallel, slice the oplog, restore, replay | the source changes while it is read | the restored data is that of one point in time |
| Physical copy (`pbm/backup/physical.go`, file part of `pbm/restore/physical.go`) | files, changed blocks, a chain of increments | backup cursor, plan and upload, put together, patch the system collections | files that change, shrink and go; shards with new names | every file is the checkpoint's, every shard finds its data |
| PITR agent (`cmd/pbm-agent/pitr.go`, `pbm/oplog/nomination.go`) | the job and its mutex; monitors; cluster status, replica set errors and nominees in `pbmPITR` | main loop, start and stop of the job, wake-up, monitors, ready/running/reconfig/error | five goroutines around one mutex and channels; statuses that overwrite each other | slicing stops when disabled and restarts after errors |
| Slicer (`pbm/slicer`, `pbm/oplog/chunk.go`) | last timestamp, chunks on the storage and in `pbmPITRChunks` | catch up, stream, cut at a backup's start, delete the last chunk | races with backups, capped oplog, gaps | the ranges that are shown are those a restore accepts |
| Delete, cleanup, lifecycle (`pbm/backup/delete.go`, `pbm/lifecycle`) | backups, chains of increments, chunks | delete backup, chain, chunks; cleanup; purge by policy | what a restore still needs | a base is kept while something depends on it |
| Restore, logical (`pbm/restore/logical.go`) | restore record, oplog and distributed transactions being replayed | converge, snapshot, replay, finalise | transactions that span replica sets and chunks | committed transactions are applied on all replica sets or none |
| Restore, physical (`pbm/restore/physical.go`) | status and heartbeat files on the storage | converge by files, stop and start `mongod`, move data aside, clean up | the database is down; nodes die in the middle | the cluster is restored as a whole, or goes back as a whole, or is known to be partly done |
| Resync, configuration (`pbm/resync`, `pbm/config`, `cmd/pbm`, `sdk`) | lists rebuilt from the storage; configuration and profiles | resync, set, add, remove, clear, wait | a resync while others write | what is listed is stored, clients end |
| Storage (`pbm/storage`) | objects, parts of a file, arenas and a heap of chunks | save in parts, read concurrently, delete | chunks out of order, few buffers, errors | the bytes that come out are those that went in |
| Entrypoint, speed test, `x/`, logs, presentation | | | | no state of the cluster |

The operations meet in a few places: a command document wakes every agent; the primary of the
leader replica set initialises the metadata and nominates; the nominee takes the lock of its
replica set; the leader's agent converges the replica sets' statuses into the cluster's; a lock
that went stale is taken over by whatever operation comes next, which then writes the status of
an operation it knows nothing about.

## Modules

| Module | Models |
|---|---|
| `PbmLock` | one replica set's lock, all agents and commands that contend for it |
| `PbmLockProofs` | type correctness, run-once, exclusion |
| `BackupContract` | what a backup promises to an observer (abstract) |
| `BackupRun` | one backup by one agent per replica set |
| `BackupRunProofs` | type correctness, completeness, consistency, the balancer, refinement of `BackupContract` |
| `Commands` | the stream of commands and each agent's listener |
| `AgentStatus` | what agents report of themselves and which of them others take to be of use (operators) |
| `BackupStart` | `Commands` with the nomination of the agents that make a backup, up to their lock |
| `Catalog` | configuration, profiles, lists of backups, chunks and restores; resync; the clients that wait |
| `Control` | `BackupStart` and `Catalog` side by side |
| `CatalogProofs` | type correctness, what is listed is stored, what is synced is listed |
| `PitrAgent` | the goroutines of point-in-time recovery inside one agent |
| `PitrAgentProofs` | type correctness, one stream, at most one late job |
| `PitrCluster` | the agents of a cluster around `pbmPITR` and the PITR locks |
| `Timelines` | timelines of chunks, their gaps and their merge (operators) |
| `Archive` | backups, chunks, restores, deletes and cleanup over time |
| `Lifecycle` | `Archive` with the retention policy |
| `ArchiveProofs` | type correctness, chains of increments, chunks and restores, what a cleanup and a purge leave, what the timelines say, of `Archive` with `Lifecycle` |
| `TxnReplay` | what a replay keeps of transactions (operators) |
| `LogicalRestore` | the coordination of a logical restore |
| `LogicalRestoreProofs` | failures are reported, transactions are atomic |
| `PhysicalRestore` | the coordination of a physical restore |
| `PhysicalRestoreProofs` | type correctness, what done means, old or new data, one end for all, failures told (with `RestoreView`) |
| `RestoreView` | `PhysicalRestore` with the client that watches its files |
| `SourceData` | collections, documents, indexes, and the oplog (external: MongoDB) |
| `RouterTables` | the routing tables of a config server in a restore (operators) |
| `LogicalDump` | a logical dump while the source changes |
| `LogicalData` | `LogicalDump`, its restore and the replay |
| `PhysicalData` | files and increments, their restore, the renaming of shards |
| `BackupData` | `LogicalData` or `PhysicalData` |
| `Download` | concurrent chunks of one object |
| `SplitMerge` | files saved in parts |
| `StoredFile` | `SplitMerge` over `Download` |
| `StoredFileProofs` | what is read back is the file that was saved |
| `MC...` | instances for TLC |

What one module has in steps another has in one: `BackupRun`, `PitrCluster` and `LogicalRestore`
follow the statuses of an operation, `Archive` knows it by its result only, `BackupData` by the
data. The point where they meet is named in each module's header. An operator beside a modelled one
whose comment says *Faulty variant* is not part of the model: it is the definition with a
plausible mistake, kept to see that the properties notice it.

### PbmLock

Each *attempt* is one node's handling of one command: `Agent.acquireLock` with the `Lock.Acquire`
calls it makes, the operation, and `Release`. A database round trip is an action: `Insert`
(`acquireImpl`), `Log` (`Lock.log`, the unique index of `pbmOpLog`), `FindPeer`, `Judge` (the
cluster time is read after the lock), `Steal` (`DeleteOne` by header), `ReadStatus` and
`WriteStatus` (`markBcpStale`, `markRestoreStale`), `Beat`, `Finish`, `Release`. A `Crash` takes
all attempts of a node; the locks stay. `now` is the cluster clock in heartbeat periods.

The variable `timely` selects between two environments. In one, anything may take any time. In
the other a holder beats once a period and nobody sits between reading a lock and deleting it for
a whole period (`Tick`); this is what the ratio of the 5 second beat to the 30 second frame is
for. Exclusion holds in the second only, run-once in both.

Abstractions: the read of the cluster time before an insert or a beat is taken with the write
(an older reading is like a missed beat); for `pbmLockOp` the "commands" are incarnations of the
PITR routine, whose locks all have the same header on one node.

### BackupRun

One `pc` per replica set follows its agent from `waitNomination` through `Run`, `doLogical` or
`doPhysical`, to the deferred functions and the release of the lock. Labels are named for the
call they stand before. The initiator (the agent of the cluster's primary) writes the metadata
and nominates. Cluster status, entries' statuses, first and last writes, locks, files and the
metadata file are the shared state; a local error, a cancelled context, a crash, a stalled
heartbeat or poll, a takeover and `pbm backup-finish` interleave between any two steps.

Run's deferred functions are `deleteFiles` (leader, once `waitStart` is passed), `markRS`,
`markBackup` (leader), `balancerOn`, then `release` of `Agent.Backup`. The errors of Run's
first part return before they are registered.

Abstractions:

- a heartbeat is *fresh* or *stale*, which is all its readers compute; `HbExpires` says when it
  may become stale if nobody stalls;
- a context-dependent call with a cancelled context fails; `waitForStatus` and
  `waitForFirstLastWrite`, which select on `ctx.Done()`, may also return with no error, as they do
  in the code;
- the reads inside polls and the writes of the deferred functions do not fail (their errors are
  only logged, or retried by the next poll);
- timeouts may fire at any time while the wait lasts;
- one takeover and one `backup-finish`; incremental backups behave as physical ones;
- the cluster is sharded, so the balancer matters; a replica set outside a cluster is the
  instance with one shard and the balancer off;
- local errors are not placed on the waiting steps, so that fairness never forces a failure.

`BackupContract` is the view of resync, restore and the user: replica sets copy, the backup is
published (metadata file), announced (done) or given up, and a verdict stands unless an outsider
that has read the metadata before still has its write to come (`Meddle`). `BackupRun` implements
it with `published <- metaFile`, `copied <- dumped`, the final statuses as `verdict`, and
`meddled` while a takeover's or backup-finish's write may be under way.

### Commands, AgentStatus, BackupStart

`Commands`: a client inserts with the second of its own clock (`SendCommand`, possibly late or
skewed); an agent finds what is not older than its last hand-over and not remembered (`Find`),
and hands it to its main loop (`HandOver`), waiting while the loop is busy. A look that finds
nothing is no step. `BackupStart` adds the handlers: look for a running backup, ask whether the
node suits, the leader's `InitMeta` and nomination by groups of equal priority, the wait of the
others, the lock with `pbmOpLog`, the acknowledgement; a cancel; a resync, which keeps the main
loop busy. `AgentStatus` computes what an agent's status says of its node and who is a candidate.

The clock counts seconds. Rounds of 5 s against a wait of 15 s are 2 against 6, the same three
rounds. What is nearest is done before the clock moves (`Pending`), as the polls are a second
apart and the steps milliseconds; a crash, a slow step (`Drop`, `faults`) is the exception a
plan allows once.

### Catalog, Control

Clients (`pbm config`, `profile`, `delete-backup`, `backup`) look for a lock, change the
configuration and send commands; the agents of the leader's replica set carry them out under the
lock, a backup beside them. A resync clears and fills each list in steps of its own, and logs its
end. Every agent hears every command here, and a lock is stale as soon as its holder is gone:
`Commands` and `PbmLock` have the rest. `Control` puts both specifications side by side, since
they share no state: a behaviour is one of the stream or one of the lists.

### PitrAgent, PitrCluster

`PitrAgent` has each goroutine of an agent: the main loop's pass (`config` to `catchup`), the
job (`Stream` and what follows it: release the lock, cancel, `removePitr`), its watcher, the
`sliceNow` callers of backups, the command loop with a restore. `pitrjob`, `slicerMx` (held while
a sender blocks on the job's unbuffered channel) and the lock are shared. A pass sees a restore by
its lock only, which a physical restore releases before it copies (`RestoreUnlock`); `late` are the
jobs that got the PITR lock under the restore that runs. The cluster is an environment that may
answer anything.

`PitrCluster` has the pass of every agent in the cluster (`wait`, `lock`, `ack`, `slice`), the
leader's goroutine of `leadNomination`, the monitors (configuration, errors, activity, topology,
heartbeat), and the document they all write. The monitors of errors and of activity are goroutines with
a step for each round trip: the latter reads the status, the errors, the acknowledgements and the
locks (`ReadStatus` to `CompareLocks`), each of another moment, and writes "reconfig" later still.
A plan says which agents there are and bounds `faults` (failures, crashes, changes of leader or
configuration) and `misses`: the healthy starts
that are undone because acknowledgements and locks were read around a change, or because a slow agent
made a ready status be withdrawn. `hitch` and `mixed` remember what nothing detects: a wait given up
just when the nomination comes, an agent lost in the middle of one, a nomination that meets another
or what is left of it. `Run` has slots for nominations that go on at the same time.

### Timelines, Archive, Lifecycle

Time is a small range of seconds. A plan says how many replica sets, which backups, which PITR
modes. Backups begin and end (or fail), a slicer catches up and saves chunks, the oplog's oldest
entry moves (it is capped), a restore resets the time, and `Delete...`, `Cleanup`, `Purge` remove
what the code's decisions allow. The decisions are operators translated one by one (`CanDelete`,
`IsRequired`, `CleanupInfo`, `SplitByBaseSnapshot`, ...); a command is one step.
A chain of increments (`Chain`) and what an increment comes from (`Ancestors`) are stated as the
smallest sets that are closed under the source of a backup; the code walks to them from either
end (`FetchAllIncrements`, `extractLastIncrementalChain`). `Purge` deletes one target after another,
each from what the earlier ones have left.

### LogicalRestore, TxnReplay

The agents of the primaries meet in the restore's record: each reports a status, the leader moves
the cluster's once all have, everybody waits for the cluster's. The leader's convergence reads the
record and writes it in two steps, a failing agent writes the cluster's status and then its own,
heartbeats are looked at where the code does. `TxnReplay` replays the oplog of each replica set:
prepared statements are buffered, commits remembered in a queue (`Cap`), and what is left over is
settled with the others' commits, which arrive in the record while others wait.

### PhysicalRestore, RestoreView

Every node takes part. A node, a replica set and the cluster each have a set of status files
(`file`) and a heartbeat (`stale`); `toState` writes the node's, the primary waits for its replica
set's nodes and writes its, the cluster's leader for the replica sets. `Outcome` translates
the count of done, failed and lost nodes into done, partlyDone or error; `progress`, `db` and
`kept` follow the data directory and the fallback directory. `Prepare` to `Finishing` follow
`Snapshot`; the deferred `MarkFailed` and the choice among the cleanups (`resolveCleanupStrategy`)
end it. Heartbeats go stale only when no living agent has a short step to do (`Expire`): the
stale frame is minutes, a step milliseconds. `RestoreView` adds the client, who sees the files only:
it polls the cluster's conditions in the order of their time, and the cleanup's heartbeat.

### SourceData, RouterTables, LogicalDump, LogicalData, PhysicalData, BackupData

`SourceData` is MongoDB as the code uses it: a database maps UUIDs to collections, operations change
it and become oplog entries, `applyOps` of an entry may have the outcomes the code expects. In
`LogicalDump` a node that may lag behind is read: namespaces listed, indexes collection by
collection, cursors in parallel that see each document when they get there, users, the oplog from
before to after. `LogicalData` restores collection by collection and replays with the filters and
the catalog of indexes of `oplog/restore.go`; `RouterTables` are its filters on a config server. The
replay of a snapshot goes up to the cluster's last write, the least of the replica sets'
(`setClusterLastWrite`): any time up to this one's own, also one before its dump was done. A
collection, or a record of the tables, of which nothing is logged between its being read and that
time is restored as it was at some moment in between (`Window`); with a later end these windows are
one moment, the restore's. Chunks are updated whole or by a diff, which carries no UUID; a config
server dumped with no collections but with chunks leaves the selector nil, and the restore panics
(`NoSelector`). A plan has one kind of change (documents, DDL, indexes, renames, users, routing
tables) or one kind of restore (selective, a clone under a new name, to a point in time).
`PhysicalData` has files of blocks that change under a backup cursor, the plan of what to upload
(`PlanUploads` joins neighbouring blocks), increments that refer to earlier backups, the restore
that lays them over each other, and the renaming of shards in the system collections.

### Download, SplitMerge, StoredFile

A file is split into parts of at most the configured limit and read back part after part. Within
a part workers fetch chunks concurrently into the spans of their arenas, and one goroutine passes
them on in order, with a heap for those that came early. Faults are a request or copy that fails, an
error taken for the end of the object, and a reader that closes early.

## Runs

| Run | Instance | Shows |
|---|---|---|
| `lock` | 2 nodes, 2 commands, stale frame of 1 period, clock to 4, both collections, both environments | `RunOnce`, `LostOnlyToTakeover`, `Exclusive` |
| `backup` | 2 replica sets, all types; failures, cancellation, crashes, takeover | `MetaFileIsLast`, `DoneIsComplete`, `SnapshotsMeet`, `SnapshotsWithoutBalancer`, `BalancerRestored`, and `ContractSpec`, the refinement |
| `backup_live` | 2 replica sets, all types; failures, crashes, stalls | `BackupEnds` |
| `commands` | 3 agents in one or two replica sets, 1-2 commands, one fault or clock skew; and 2 clients, 2 agents, 2 storages, a profile | `EveryCommandSeen`, `BackupStarts`, `BestNodeRuns`; `ListedIsStored`, `SyncedIsListed`, `ClientsEnd` |
| `pitr` | 2 jobs, 1 wake-up at a time, restores, configuration turned on and off | `OneStream`, `OneLateJob`, `DisabledStops` |
| `pitr_cluster` | a config shard of 1 agent and a shard of 2, no fault, 3 misses; and a shard of 1, 1 fault, 1 miss | `AllSlice`, `ErrorStopsAll` |
| `archive` | 2 replica sets with physical backups; 1 with incremental, logical and selective ones and a policy; 4 seconds | `TimelinesAgree`, `ShownIsRestorable`, `NoChunkAcrossRestore`, `ChainsComplete`, `CleanupKeeps`, `PurgeKeeps` |
| `restore_logical` | 2 replica sets, 3 transactions, a queue of 1 commit, 1 fault | `TxnAtomic`, `FailureReported`, `RestoreEnds` |
| `restore_physical` | 3 nodes of one replica set; a config server and a shard of 2; 7 combinations of options, 1 fault | `DoneMeansRestored`, `OldOrNew`, `SameEnd`, `ToldAsItIs` (`DoneIsThere` and `FailedIsUndone`), `RestoreEnds` |
| `restore_physical_told` | the same | *violation* of `FallbackIsTold` |
| `storage` | files of 1-3 parts, limits of 2 and 3 that may change, 1-3 workers, 1-2 spans, 1 fault | `ReadBack`, `ReadEnds` |
| `data` | 13 plans of logical, 13 of physical backups; 2-4 changes each | `RestoredIsSource`, `RoutesAreSource`, `FilesAreSource` |

The modules of the protocols state their type invariant (`TypeOK`; `Catalog`'s stands with its proofs).
Those of `PbmLock`, `BackupRun`, `PitrAgent`, `PhysicalRestore`, `Catalog` and `Archive` are proved;
that of `StoredFile` stands with its proof.

### Bounds

- A conflict over a lock needs a holder and a contender; two nodes and two commands give every
  attempt a rival of the same command, of the same node and of neither, and one that takes over.
  A stale frame of one period and a clock of four let a lock expire twice. Attempts and
  commands are interchangeable, so the lock run uses symmetry.
- In a backup or a logical restore one leader and one follower show every interleaving of the
  two roles; followers do not read each other's state. A physical restore needs three nodes, for
  a replica set to have a primary, one lost and one that counts them.
- `Job` has two slots, one that ends and one that begins; slots are used again.
- Three misses of a start are more than a start has agents and replica sets. One nomination at a time:
  with two the waits of agents may keep each other short of a
  nomination for ever, as they have no clock here. Errors need two replica sets, of an agent each.
- Nomination needs a group for every round; three agents make three groups, and two groups and
  another replica set.
- Four seconds hold a backup, a chunk before and after it, a delete and a restore; two increments
  after a base, or three bases.
- The queue of commits holds 100 in the code and one here, with a history that overflows it.
- Four changes of one kind around a dump reach a collection made, changed, renamed and dropped on
  either side of its cursor. Two files of two blocks (which may grow) have neighbours to join and
  ends to cut.
- One fault per behaviour, and in the two backup runs any number of those listed. What two faults
  in one restore or one read would reach is no run's claim. Tried once beside the runs, the
  physical restore with `MaxFaults = 2` keeps `SameEnd` (5.7 million states) and breaks
  `DoneIsThere`, a half of `ToldAsItIs` (known behaviour 17); `SameEnd` and the other half are proved
  for any number of faults (the first but for agents that exit in between).

Deadlock is checked in `commands` only; the other systems come to an end (or, in `pitr`, may
wedge: see below), which is no deadlock in their specification.

### Fairness

Agents that are alive keep taking steps (goroutines and tickers; weak fairness of each agent or
node as a whole, so that alternatives within a step stay open), time passes once what is due is
done, heartbeats of the dead expire, an operator finishes an external backup or copy that is
ready. Strong fairness is assumed in `PitrAgent` only, for a job that selects between its
channels: `select` chooses at random, so that a channel which is ready again and again is taken.
Nothing makes failures, crashes or cancellations happen.

Liveness is conditional where the code leaves somebody waiting; each condition is a named state:
`Unnoticed` (backup), `Wedged` (PITR agent), `Abandoned` (logical restore), `Orphaned`,
`KeptPrimary`, `NoCommits` (physical restore). `ErrorStopsAll` holds where no `hitch` has come in
between, `AllSlice` without faults and with nominations that do not meet (`mixed`), but with starts that
are missed.

## Known behaviours

What the code does that a property has to except, or a run shows, or that was met while modelling.
The names in parentheses are the definitions that except it: without them TLC finds the behaviour.

Locks and backups

1. A takeover deletes a lock by its header. PITR locks have no OPID; a node that restarts and
   takes its own stale lock over writes a lock with the same header, and a second agent that judged
   the old one deletes the new one (`lock.go:75`, `lock.go:116`). `pbmLock` is not affected: the
   OPID differs, or `pbmOpLog` refuses it.
2. After the convergence to dumpDone the leader waits for every last write and looks only at locks
   that exist; a follower whose final oplog slice fails has released its lock, and its error
   status is not looked at (`backup.go:772`, `backup.go:794`).
3. A cancelled follower leaves the wait for done with no error and releases its lock as if the
   backup was done (`backup.go:424`, `backup.go:656`).
4. The leader's second read of the metadata overwrites the pointer the deferred function uses; if
   it fails the agent panics and, in a cluster of one config shard, the balancer stays off
   (`backup.go:256-260`, `backup.go:387`). With more replica sets a follower turns it on again.
5. Two backups may both pass the check for a running one; the lock decides between them. A cancel
   in the nomination window is forgotten. An unsuitable leader goes on to nominate all the same.

Commands, lists

6. A command inserted in, or before, the second of another's hand-over, or found late because a
   resync kept the loop busy, is never found; of two of a kind in one second the second is left
   out as a duplicate; with an agent's clock behind, one is handed over twice and the lock's log
   refuses it.
7. Agents of a fourth group are nominated when they no longer wait. A gone agent remains a candidate
   for 35 s, and a storage found in order is not looked at again for 15 s.
8. A resync that finds the lock taken is dropped, and its client waits for a log entry that
   never comes. A resync logs success after errors, with a list that failed left empty. Profiles
   that are synced together (`resync.go:90`) and hold a backup of one name: the second is passed over
   as a duplicate (`rsync.go:175`), and what one has listed the other may clear; the resync succeeds
   and a backup is missing (`SyncedIsListed` makes its claim for a profile synced by itself).
9. `waitOp` takes a lock that is not there yet for an operation that has ended, so that profile
   commands report OK before, or without, being carried out (`sdk/impl.go:425`). Overlapping
   `pbm config` clients may each skip the resync. A resync between a backup's record and its
   lock deletes the record. The main storage and profiles share one name space of backups. The
   leader and a nominee read the configuration separately.

PITR, archive

10. A wake-up that meets a job which has just ended blocks for ever with `slicerMx` locked, and
    with it the main loop and a restore's command loop (`pitr.go:161`; `Wedged`).
11. A pass of the main loop that has looked before a restore, or that does not see the restore's lock
    because a physical restore has released it, may start a job under the restore, which has waited
    "for the slicer to stop on every node" (`restore.go:95`) by then. As
    a pass reads the configuration first, there is one such job at most, and none after that
    (`OneLateJob`).
12. A nominated agent restarted between nomination and acknowledgement within the stale frame
    leaves its replica set unsliced: it is neither nominated again nor missed. So does one that stops
    waiting just when it is nominated (`hitch`). An agent nominated in an earlier round that acquires
    its lock late, after the document was made anew, slices without an acknowledgement, and the
    leader's nominations wait for its lock (`mixed`). The activity monitor may take a start for a failure,
    as it reads acknowledgements and locks one after the other: all begin again.
13. With two increments and more an inner one is taken for the previous base; a gap before a
    backup's last write makes it "not required"; `MakeCleanupInfo` with no backups before the
    time deletes the chunk that spans it, which a physical backup inside that chunk needs
    (`CleanupKeeps` is stated for bases that end before). `OplogOnlyCatchup` falls through to the
    last chunk before a restore (`fell`). On a cluster error slicers delete a last chunk all
    replica sets may have. Replica sets without chunks are skipped by `list` and `status`.

Restores

14. Logical: a leader that drops out before it has written the record, a shard lost after its dump,
    a failed write of commits, `SetRestoreMetaIfNotExists` writing the record anew, an oplog replay
    where the leader's replica set has no data: waits without end (`Abandoned`). A shard that
    comes late to an oplog replay turns done into error.
15. Physical: a primary lost outside `toState` before its replica set's status is written, whose
    peers keep its heartbeat alive (`physical.go:3043`); a secondary whose agent goes before the
    server's shutdown, for which `flush` waits without a timeout (`physical.go:449`); a wait for
    commits that looks at neither errors nor heartbeats (`physical.go:2283`).
16. A node that dies after reporting done is counted in by some peers and not by others
    (`LostWhenDone`). A failure in the middle of moving files leaves the progress "untouched" and
    the cleanup is skipped; one in the middle of moving them back leaves half of them, and the
    fallback directory goes (`MoveFailed`). A failing node of an external restore takes the
    cluster's copyReady for the end (`physical.go:418`): it keeps what it has, in a replica set of
    its own the restored data, while the others, who wait on, see its error and fall back (`SameEnd`
    excepts it). A node that is done may still write an error. Old backups without sizes turn the
    fallback off.
17. `restore_physical_told`: the leader of a replica set that fails before it has put its data
    aside has no fallback to do, its peers fall back, and nobody marks the cluster: a client is
    told done. The comment at `physical.go:316` says otherwise. So it goes with a leader whose own
    fallback fails (`physical.go:320` returns before the mark): that takes a second fault.
18. A client waits for ever if the cleanup never writes a heartbeat; its stale frame is 3 minutes,
    the agents' 4.

Data, storage

19. The cluster's last write is the least of the replica sets': if one of them was idle, it may lie
    before the end of another's dump, and what that one read later is restored next to documents of
    the point in time (`Window`), at odds with "cluster consistency through oplog capture"
    (`src/README.md:17`). A primary's noop writer keeps the gap to some seconds. A collection
    renamed between listing and cursor is dumped as an empty one and lost (`Misread`), and one
    renamed between the point in time and the dump may be (`RenamedLater`). An index that is being
    built while indexes are listed, or an index after a rename, may differ. A clone of a collection
    made after the dump fails. `updateRouterTables` maps shard names twice in a logical restore:
    where two shards swap names, what was dumped is mapped back, and routed to the other's shard
    (`again`). The chunks of a sessions collection made anew during a backup are restored
    (`ofSessions`), the replay of a delete of its entry deletes the target's (`dropped`), and diff
    updates of the sessions' chunks pass the filter of the replay, where `mongod` may insert a part
    of them (`diffed`); these four names are parts of `RoutesAreSource`. A config server whose
    collections were dumped empty and whose chunks were not makes a selective restore panic
    (`selective.go:48-61`, `:289`) with the databases restored already; with no chunks in the dump a
    restore leaves the target's. In a selective backup of a config server chunks are selected before
    the tables are dumped, and later changes are not replayed.
20. A restored file may keep a stale tail; its checkpoint part is right.
21. A limit raised since a file was saved makes a read end after the first part; an error that
    wraps `io.EOF` loses a chunk and the read hangs (`download.go:355`); a delete broken off after
    the base part leaves the others for ever.

## Proofs

Eight modules prove the safety properties below for all values of the constants: any number of
nodes, replica sets, clients, backups and faults. The assumptions are named in the modules and say
what the code takes for granted: the leader is one of the replica sets, the stale frame is positive
(`TimeAssumption`), every replica set has one primary, and nodes, replica sets and the cluster have
different names (`PrimaryAssumption`, `ClustersAssumption`), what the clients ask for exists and a
backup has a name of its own (`ScriptsAssumption`; the name is its time), a policy has positive
bucket widths (`Assumptions` of `Archive`), limits and spans are positive and files have a largest
size (`SizesAssumption`, `SettingsAssumption`), and the server writes transactions as
`HistoryAssumption` says: all statements before the one end, the oplog read from the oldest open
transaction on (`findTransactionStartTime`), and what one replica set commits no other aborts. TLC
evaluates all of them on the instances of the runs.

TLC checked the invariants' conjuncts on small instances before they were proved; where one turned
out not to be inductive, what it lacked is one of the conjuncts named here.

### Locks: `PbmLockProofs`

- `TypeCorrect`.
- `RunsOnce`: inductive because an attempt enters `ran` only with the insertion of its OPID into
  `pbmOpLog`, which never shrinks.
- `KeptUnlessTakenOver`: each document in the collection was inserted by an attempt with that
  header; an attempt beats only between its insert and its release; headers of two different
  beating attempts differ.
- `MutualExclusion`: in timely behaviours a beating attempt's heartbeat is the current or the
  previous period's (`HolderBeats`), at most one document exists (`OneLock`), and what a contender
  has judged stale cannot have been refreshed since (`SnapIsSound`), because no period passes
  between the judgement and the delete.

### Backup: `BackupRunProofs`

- `TypeCorrect`, `MetaFileComesLast`, `DoneMeansComplete`, `SnapshotsAgree`, `ImplementsContract`:
  from one inductive invariant, the conjunction of `Places` (who can be at which step in which type
  of backup), `Copies` (a replica set that reports a copied status has copied), `Writes` (first and
  last write are set when the leader is past them), `Ends` (the metadata file and its files while
  the leader closes the backup), `Slices` (a final slice was taken after all dumps unless the
  agent is cancelled) and `Verdicts` (the status is open while the leader runs and no outsider
  wrote). None of the properties is inductive by itself: that a status *done* in an entry means a
  finished dump depends on the way the agent got there.
- `ImplementsContract` maps each step to a step of `BackupContract` or a stutter; most steps
  leave all four abstract variables alone.
- `BalancerIsRestored`: when all agents have left without a crash the balancer is as it was. Whoever
  still has to turn it on is at a step from which only the deferred `balancerOn` leads out (`Debt`):
  the leader, or, if its deferred function panics, every follower. The induction fails at
  a cluster of one replica set, where no follower is left; the theorem names that exception, and
  an instance with one shard shows it (known behaviour 4).
- `SnapshotsEndWithoutBalancer`: the balancer may be turned on by an agent that leaves
  while others copy. `Spoilt` says that there then is an agent that has quit with an entry the leader
  can no longer converge on, so that this backup never becomes done. It needs `Entries` (what the
  entry of an agent at work can say) and `Timing` (nobody but a cancelled agent copies before
  the leader has reported running).

### Lists: `CatalogProofs`

- `TypeCorrect`; among the types is which step a client can be at for what it asks.
- `DoneIsStored`: what the list shows as done is stored where its record says. A lock at a time
  lets one task or backup work (`TasksAreLocked`, `BackupsAreLocked`); a backup before its lock
  is told apart by its name, which no storage knows yet (`NamesAreFresh`); a backup that runs has
  its record still there, and has stored what its step says (`RunsAreListed`). The property
  makes its claim where nobody changes the configuration, and `ConfigurationStands` says what that
  gives: the leader and the nominee, who read it separately, have read the same.
- `SyncedIsListedAlways`, an action property: a resync logged as succeeded without an error has
  listed its storage. `SyncsShow` follows it from list to list (clear, insert, chunks, restores):
  what earlier steps have filled stays as nobody else works under the lock.

### PITR: `PitrAgentProofs`

- `TypeCorrect`.
- `OneStreamAlways`: a job between its acquiring the lock and its release owns it (`UnderLock`),
  which is what excludes a second one, as the lock is deleted by a header that names no job.
- `OneLateJobAtMost`: while a restore runs one job at most gets the PITR lock. Once its wait is over
  (`Sealed`), PITR is off and no job holds the lock; only a pass of the main loop already past the
  configuration can start a job, and a job that has got the lock under the restore leaves no
  such pass (`Spent`). It does not rest on what a pass sees of the restore's lock. That `NoJob` is no
  job follows from `Names` by counting.

### Backups, chunks, deletions: `ArchiveProofs`

- `TypeCorrect`, for `LifecycleSpec`, that is with every operation that deletes.
- `ChainsStayComplete`: no increment loses what it comes from. `Whole` is the inductive form. A chain
  that is deleted is closed under "comes from" (`ChainIsClosed`). A cleanup takes all backups
  up to a time, less the last chain; the last write of an increment is its start
  (`BackupsInTime`), so that the increments it takes are the earliest (`Earliest`), and no increment
  was done between another and its source (`NoneBetween`); so whoever is left and comes
  from one that is taken comes from the last, whose ancestors stay (`LastChainStays`). A purge deletes
  target after target: `SomeRecursion` shows that the recursive function which says what is left
  exists (here, and for `EarliestEnd` and `MergedGaps`), `WholeIsLeft` that it is whole after each; both
  go by the smallest number for which they fail (`Smallest`).
- `EachDeletionKeepsChains`: each of those deletions by itself, so that a purge or a cleanup that
  stops half-way has left no increment alone.
- `NoChunkSpansRestore`: since a restore each slicer begins after it (`SlicedAfterRestore`): from a
  backup that `Catchup` has compared with the restore, from a chunk that is not outdated, or not at
  all; `OplogOnlyCatchup`, which has no such test, sets `fell`.
- `CleanupsKeepRestorable`, an action property: a point after the time of a cleanup that could be
  restored from a backup of before still can be. A restore walks sorted chunks (`Accepts`), a
  cleanup merges timelines; `Covers` says what both are about without an order: chunks whose union has
  no hole. What is accepted from an earlier backup on is accepted from the base that the cleanup
  keeps, without the chunks that end before it (`LaterBaseReaches`), and then the chunks in between
  make a single timeline in all replica sets (`ReachableIsCovered`, `CoveredBySingleTimeline`), so the
  cleanup does keep that base. It is complete, as an increment that is stored is (`WholeIsComplete`).
- `PurgesKeepPolicy`, an action property: nothing that the policy keeps is deleted, and `minKeep`
  complete backups are left. The later rules only add to what is kept, and always with whole chains
  (`IsKept`, `AllRulesKeep`). An increment has one root (`ChainHasOneRoot`), so a target, which is
  deleted with all that comes from it, takes nothing of what is kept (`TargetsSpareKept`). That
  the targets in their order are targets (`OrderedAreTargets`) is a count of what comes before each,
  and then what is kept is left after every one of them (`KeptIsLeft`), among it the restore points
  that were counted before the first.
- `TimelinesAreWhatRestoresAccept`, `ShownRangesAreRestorable`: the two ways in which the code looks
  at chunks agree, in both directions. It takes `InRow` (`RowInvariant`): what starts later in a replica
  set does not end earlier, nothing starts twice, and a slicer goes on after all that is stored; a
  catch-up adds the gap and the backup's own oplog in that order, a restore and an error of another
  slicer only take away or stop. Then a range is accepted exactly if no break between neighbours is in
  it (`AcceptedIfJoined`); what `Gettimelines` leaves between its timelines are those breaks
  (`TimelinesOfRow`); merging overlapping gaps keeps what they cover (`GapIsMerged`,
  `MergedGapsAvoid`), and the merged range goes from the latest start to the earliest end
  (`MergedIfJoined`). A range that is shown with a base begins after the last write of a backup that
  is stored (`ShownFromBase`), in a timeline that the restore then accepts.
- `Highest` and `Newest` are `CHOOSE`s; `GreatestOfFinite` (a finite, totally ordered set has a
  greatest element) shows that they name one.

### Restores: `LogicalRestoreProofs`, `PhysicalRestoreProofs`

- `FailuresAreReported` (logical): the leader writes its statuses over the error a failing agent has
  written. What saves the report is that the leader looks at all entries before its last status, and
  that by then nobody can fail any more: replica sets that said done have left (`DoneHaveLeft`), and a
  leader that says done has seen all of them (`LastWord`).
- `TransactionsAreAtomic` (logical): a restore that is done has a distributed transaction on all
  replica sets that hold any of it, or on none, for any oplogs, length of the queue, chunk borders
  and faults. `ReplayInv` says what one replay has come to after each entry: the queue has the last
  commits in their order (`Follows`; a transaction it has dropped has `Cap` commits after it), the
  statements of what has no end yet are there, and an entry that comes twice changes nothing. By
  `TxnsInv` the record never says more of a replica set than what it has replayed, also after it is
  set anew, and whoever asked had the commits of all, none of whom replays again (`Past`, `Settled`);
  the leader's last status finds all of them done (`DoneIsDone`). The oplogs need not end at one
  time for this (`Aligned` plays no part).
- `TypeCorrect` (physical), with `Stage`: how far a node's data are follows from where it is.
- `DoneIsAPromise` (physical): files are only added to, so that what has been seen in a wait stays so
  (`Looks`), and each file about an end holds for its objects (`FilesTell`): a node's for itself, a
  replica set's for its nodes, the cluster's for all. It holds with any number of nodes that fail, die
  or stall.
- `NothingIsLost` (physical, not of restores from outside): a node that has ended has its old data or the
  new, or has failed in moving files itself. `DataKept`: until the cleanup the fallback directory is
  complete or the data directory untouched, a node cleans up after "done" only when the
  cluster's file says so, which is `DoneIsAPromise` again, and what it ends with follows from the status
  it took for the end (`EndOf`). `HalfMoved`: half of the files are in a directory only if a move has
  failed.
- `AllEndAlike` (physical): unless a node is lost after it has reported done, no node ends with the
  restored data while another has gone back to the old. No invariant speaks of two nodes at once:
  `Verdict` says that either some node has failed for good before it was done, so that the cluster
  can never be done (`Hopeless`), or nobody has seen a sign of failure, and whoever has left has
  seen the cluster done (`AllWell`). `EndData` ties the data a node has ended with to what it took
  for the end of the restore. Not for agents that exit in between (kind "exit"): they come back with
  no memory of what they have seen.
- `ToldFailedIsUndone`, the half of `ToldAsItIs` that holds with any number of faults: a client that
  is told of a failure finds no node that has ended with the restored data. An error that is shown
  of the cluster is in its file, or in those of all nodes of a replica set; either way `AllWell` is
  out of the question, and who has ended has ended with an error.

### Files on the storage: `StoredFileProofs`

- `FilesAreReadBack`: what is read back is what was saved, in order. `ReadBack` is stated without a
  fold over the parts: each chunk is the one that comes `After` the chunk before, and the parts are
  full but the last and add up to the size (`PartsAreFile`). `Spans` is the heart: a span in use
  belongs to one worker or to one chunk in the heap, and holds that chunk of the present object, so
  that no worker writes over what waits, across objects too, and after breaks, errors and ends that
  leave spans in use. Which chunk is whose, and whether one was lost, plays no part: `InTurn`
  alone makes the order. `SizeIsReached` counts the chunks with data, so that the goroutine cannot
  take an object for ended too early; `PartsFound` shows that the search for parts finds those that
  were saved, as long as the limit is not above the one they were saved under.

### Only model-checked

- Every liveness property: fairness and ENABLED are out of the prover's reach.
- `RestoredIsSource`, `RoutesAreSource`, `FilesAreSource`: they compare what recursive functions
  and folds have computed along an oplog or a list of files, and would need induction over that data.
- `SameEnd` for agents that exit and are started again to finish (kind "exit"): what has been seen
  is lost with the process, and the argument would have to follow the files alone; open.
- `DoneIsThere`: it holds with one fault only.
- `ErrorStopsAll`, `AllSlice`, `EveryCommandSeen`, `BackupStarts` and the like are liveness;
  `BestNodeRuns` ranges over clocks of several machines; open.
- The type invariants of the modules not named above.

## Not modelled

- Calendar buckets and storage profiles of the lifecycle policy; sharded PITR deletes that fail
  half way (a delete command is one step; order of the files within it is noted above).
- Roles, users beyond their presence in dump and restore, timeseries buckets, mixed versions.
- The archive format, multiplexing, compression: the identity. Multipart uploads, credentials,
  retries of the SDKs, `Copy` and `List` of the storages, the file system back end.
- What `mongod` does with restored files at its three starts, its options and ports; the copying of
  an external backup by hand.
- Two backups in one model (the second would record the balancer as off, `backup.go:259`).
- Free space computed with unsigned integers (`physical.go:3013`), which is a warning or an error
  before anything has been touched.
- Presentation, the log, process supervision, the speed test, and `x/`, an experimental rewrite that
  the agents do not use.

## Plan

The modules were written in the order locks and backup, PITR, archive, restores, storage, commands
and lists, data; proved are locks, backup, PITR agent, restores, lists, archive and the files of the
storage. What is left:

1. `PhysicalRestore`: `SameEnd` for agents that exit in between, from what the files of the replica
   sets say about each other (a replica set whose copy is ready and which has an error is seen by
   the cluster's leader).
2. `LogicalRestore`: `TypeOK` in full.
3. `BackupStart`: `BestNodeRuns`, with the rounds of the nomination against the wait of the nominees.
4. `PitrCluster`: that a slicer holds its replica set's lock.

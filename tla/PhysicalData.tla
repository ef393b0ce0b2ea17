---------------------------- MODULE PhysicalData ----------------------------
(***************************************************************************)
(* What a physical backup of one replica set brings back: the files of a   *)
(* backup cursor and its increments (pbm/backup/physical.go), put together *)
(* again and brought to the point in time (pbm/restore/physical.go).       *)
(*                                                                         *)
(* A file is a sequence of blocks.  A timestamp is a number; the data at a *)
(* timestamp is what the checkpoint in the files and the oplog up to there *)
(* make.  PhysicalRestore has the nodes, the statuses and the failures.    *)
(***************************************************************************)
EXTENDS RouterTables

LOCAL INSTANCE FiniteSetsExt
LOCAL INSTANCE SequencesExt
LOCAL INSTANCE Functions

CONSTANTS
  PhysPlans,   \* kinds: what may happen to the files, and writes, how often; backups: how many,
               \* and full: full ones too; csrs: of the config servers; shards, targets: the
               \* replica sets of the shards then and now; rsMap: --replset-remapping
  FileNames    \* in the cursor's order

ASSUME FileNames \in Seq(STRING)

VARIABLES
  phys,     \* the plan
  disk,     \* the node's files
  written,      \* its last write
  known,    \* the snapshots WiredTiger keeps for increments: id -> files (a node that has
            \* been changed or restarted has none, and increments fail)
  cursor,   \* the backup that is being made, as far as it is
  backups,  \* those that are done
  restore,  \* the backup that is restored, and up to when
  volume      \* the data of the node restored: see PhysRestore

\* mongod's own file, in every backup and always the same.
StorageBSON == "storage.bson"

physVars == <<phys, disk, written, known, cursor, backups, restore, volume>>

None == [state |-> "none"]

PhysInit ==
  /\ phys \in PhysPlans
  /\ disk = StorageBSON :> <<0>> @@ [f \in ToSet(FileNames) |-> <<0, 0>>] /\ written = 0
  /\ known = EmptyFunction /\ cursor = None /\ backups = <<>>
  /\ restore = None /\ volume = None

-----------------------------------------------------------------------------
(* mongod: blocks are written, files grow, are cut, made and dropped.        *)

Files == DOMAIN disk \ {StorageBSON}

Changed(f, blocks) == disk' = (f :> blocks) @@ disk

FileWrite ==
  /\ restore = None
  /\ written < phys.writes /\ written' = written + 1
  /\ \/ \E f \in DOMAIN disk : \E i \in DOMAIN disk[f] :
          "block" \in phys.kinds /\ Changed(f, [disk[f] EXCEPT ![i] = written'])
     \/ \E f \in Files :
          \/ "grow" \in phys.kinds /\ Len(disk[f]) < 3 /\ Changed(f, Append(disk[f], written'))
          \/ "cut" \in phys.kinds /\ cursor = None /\ Len(disk[f]) > 1 /\ Changed(f, Front(disk[f]))
          \/ "drop" \in phys.kinds /\ cursor = None /\ disk' = Without(disk, {f})
     \/ \E f \in ToSet(FileNames) \ DOMAIN disk : Changed(f, <<written'>>)
  /\ UNCHANGED <<phys, known, cursor, backups, restore, volume>>

-----------------------------------------------------------------------------
(* The cursor.                                                               *)

Entry(f, off, len) == [name |-> f, off |-> off, len |-> len, size |-> Len(disk[f])]

\* Of a file that has changed since the source every block that has, the ones it has
\* lost too; of one that has not, an entry without length.
ChangedBlocks(f, old) ==
  {i \in 1..Max({Len(disk[f]), Len(old)}) : i \notin DOMAIN disk[f] \/ i \notin DOMAIN old \/ disk[f][i] # old[i]}

FileEntries(f, src) ==
  IF f \notin DOMAIN src THEN <<Entry(f, 0, Len(disk[f]))>>
  ELSE IF src[f] = disk[f] THEN <<Entry(f, 0, 0)>>
  ELSE [i \in 1..Cardinality(ChangedBlocks(f, src[f])) |->
          Entry(f, SetToSortSeq(ChangedBlocks(f, src[f]), <)[i] - 1, 1)]

There == SelectSeq(FileNames, LAMBDA f : f \in DOMAIN disk)

CursorData(src) == FlattenSeq([i \in DOMAIN There |-> FileEntries(There[i], src)])

\* Put behind what the cursor has, with the whole length.
GetStorageBSON == Entry(StorageBSON, 0, 1)

\* LastIncrementalBackup, and the id its cursor was opened with at last. (If there is
\* none the backup fails.)
LastIncremental == {i \in DOMAIN backups : backups[i].type = "incremental"}

\* BackupCursor.create: on a retry the id is another one; WiredTiger may have kept the
\* snapshots of both.
OpenRetries(id) == {<<id, {id}>>, <<id + 1, {id, id + 1}>>}

\* A base forgets what there was.
Open(type, base) ==
  /\ cursor = None /\ restore = None
  /\ Len(backups) < phys.backups
  /\ \E opened \in OpenRetries(2 * Len(backups)) :
       LET incr == type = "incremental"
           src == IF incr /\ ~base THEN Max(LastIncremental) ELSE 0
           kept == IF base THEN EmptyFunction ELSE known
           from == IF base THEN EmptyFunction ELSE known[backups[src].id]
       IN /\ incr /\ ~base => LastIncremental # {} /\ backups[src].id \in DOMAIN known
          /\ known' = IF incr THEN [i \in opened[2] |-> disk] @@ kept ELSE known
          /\ cursor' = [state |-> "open", type |-> type, src |-> src, id |-> opened[1], cp |-> written,
                        files |-> disk,
                        data |-> Append(IF incr THEN CursorData(from)
                                        ELSE [i \in DOMAIN There |-> Entry(There[i], 0, 0)], GetStorageBSON)]
  /\ UNCHANGED <<phys, disk, written, backups, restore, volume>>

-----------------------------------------------------------------------------
(* planUploads and writeFile.                                                *)

IsUnchanged(e) == e.len = 0 \/ e.off >= e.size

\* Faulty variant: blocks of one file are joined though they are not neighbours.
JoinsAny(w, e) == w.name = e.name

Joins(w, e) == w.name = e.name /\ w.off + w.len = e.off

\* The blocks are joined as long as they follow each other; what has not changed is
\* recorded and not uploaded. (The first entry is not looked at.)
PlanUploads(data, incr) ==
  LET walk(acc, e) ==
        IF incr /\ IsUnchanged(e)
          THEN [acc EXCEPT !.items = Append(@, [e EXCEPT !.off = -1, !.len = -1])]
        ELSE IF Joins(acc.w, e) THEN [acc EXCEPT !.w.len = @ + e.len, !.w.size = e.size]
        ELSE [items |-> Append(acc.items, acc.w), w |-> e]
      end == FoldLeft(walk, [w |-> Head(data), items |-> <<>>], Tail(data))
  IN IF incr /\ end.w.off = 0 /\ end.w.len = 0 THEN end.items ELSE Append(end.items, end.w)

\* The blocks from the cursor's checkpoint; the size is that of the file by now.
WriteFile(e) ==
  LET blocks == cursor.files[e.name] IN
  [name |-> e.name, off |-> e.off, len |-> e.len,
   size |-> IF e.off < 0 THEN e.size ELSE Max({Len(blocks), Len(disk[e.name])}),
   blocks |-> IF e.off < 0 THEN <<>>
              ELSE SubSeq(blocks, e.off + 1, IF e.len = 0 THEN Len(blocks) ELSE Min({e.off + e.len, Len(blocks)}))]

\* In parallel, and listed in the plan's order.
UploadFiles(items) == [i \in DOMAIN items |-> WriteFile(items[i])]

\* Journals: up to the cluster's last write, which is the latest of the replica sets'.
UploadPhysical ==
  /\ cursor.state = "open" /\ cursor.type # "external"
  /\ \E ts \in {cursor.cp, written} :
       backups' = Append(backups, [type |-> cursor.type, src |-> cursor.src, id |-> cursor.id, cp |-> cursor.cp,
                                   files |-> cursor.files, ts |-> ts, journal |-> written,
                                   list |-> UploadFiles(PlanUploads(cursor.data, cursor.type = "incremental"))])
  /\ cursor' = None
  /\ UNCHANGED <<phys, disk, written, known, restore, volume>>

\* handleExternal: the list stays with the files while somebody copies what is there.
HandleExternal ==
  /\ cursor.state = "open" /\ cursor.type = "external"
  /\ backups' = Append(backups, [type |-> "external", src |-> 0, cp |-> cursor.cp, files |-> cursor.files,
                                 ts |-> written, journal |-> written, list |-> cursor.data,
                                 copy |-> cursor.files @@ disk])
  /\ cursor' = None
  /\ UNCHANGED <<phys, disk, written, known, restore, volume>>

\* Its snapshot stays known to WiredTiger.
BackupFails ==
  /\ cursor.state = "open"
  /\ cursor' = None
  /\ UNCHANGED <<phys, disk, written, known, backups, restore, volume>>

-----------------------------------------------------------------------------
(* The restore.                                                              *)

\* The backup and those it rests on, the base first.
Chain(b) ==
  LET from[i \in 0..Len(backups)] == IF i = 0 THEN <<>> ELSE Append(from[backups[i].src], i)
  IN from[b]

\* setBcpFiles: what the target lists, and has been uploaded with one of the chain.
TargetFiles(b) == {backups[b].list[i].name : i \in DOMAIN backups[b].list}

SetBcpFiles(b) ==
  LET ops(i) == SelectSeq(backups[i].list, LAMBDA e : e.name \in TargetFiles(b) /\ e.off >= 0)
  IN FlattenSeq([k \in DOMAIN Chain(b) |-> ops(Chain(b)[k])])

\* copyFile: written from the offset on, and cut, or filled up, to the size.
CopyFile(blocks, e) ==
  [i \in 1..e.size |-> IF i > e.off /\ i <= e.off + Len(e.blocks) THEN e.blocks[i - e.off]
                       ELSE IF i \in DOMAIN blocks THEN blocks[i] ELSE -1]

\* planCopyFiles: by destination, so that files are copied in parallel and one file's
\* parts in order.
CopyFiles(b) ==
  LET ops == SetBcpFiles(b) IN
  [f \in {ops[i].name : i \in DOMAIN ops} |->
     FoldLeft(CopyFile, <<>>, SelectSeq(ops, LAMBDA e : e.name = f))]

\* prepareExtRestore, cleanupDatadir: what is not on the list is removed.
CleanupDatadir(b) == Restrict(backups[b].copy, TargetFiles(b))

\* What the system collections of the replica set say.
SystemData ==
  [pitr |-> TRUE, shards |-> phys.shards, identity |-> CHOOSE s \in DOMAIN phys.shards : TRUE,
   databases |-> [s \in DOMAIN phys.shards |-> s], chunks |-> [s \in DOMAIN phys.shards |-> Chunk("A", s)]]

\* Of the last backup: those behind it would play no part.
PhysRestore ==
  /\ restore = None /\ cursor = None
  /\ backups # <<>>
  /\ LET b == Len(backups)
         external == backups[b].type = "external"
     IN \E to \in {backups[b].ts} \cup IF external THEN {} ELSE {written} :
       /\ restore' = [state |-> "copy", bcp |-> b, to |-> to]
       /\ volume' = [files |-> IF external THEN CleanupDatadir(b) ELSE CopyFiles(b),
                     oplog |-> backups[b].journal, cut |-> backups[b].journal, at |-> backups[b].cp,
                     system |-> SystemData]
  /\ UNCHANGED <<phys, disk, written, known, cursor, backups>>

Restoring(from, to) ==
  /\ restore.state = from /\ restore' = [restore EXCEPT !.state = to]
  /\ UNCHANGED <<phys, disk, written, known, cursor, backups>>

\* oplogTruncateAfterPoint.
PrepareData ==
  /\ Restoring("copy", "prepared")
  /\ volume' = [volume EXCEPT !.cut = backups[restore.bcp].ts]

\* mongod cuts its oplog and replays what is left.
RecoverStandaloneFromOplog ==
  /\ Restoring("prepared", "recovered")
  /\ volume' = [volume EXCEPT !.oplog = Min({@, volume.cut}), !.at = Max({@, Min({volume.oplog, volume.cut})})]

\* The chunks from the backup's last write on.
ReplayPITROnStandalone ==
  /\ Restoring("recovered", "replayed")
  /\ volume' = [volume EXCEPT !.at = Max({@, restore.to})]

\* The names of the shards that are not called like their replica set.
ShardRemap == LET named == {s \in DOMAIN phys.shards : s # phys.shards[s]}
              IN [rs \in {phys.shards[s] : s \in named} |-> CHOOSE s \in named : phys.shards[s] = rs]

ReverseRSMap(rs) == IF rs \in Range(phys.rsMap) THEN CHOOSE r \in DOMAIN phys.rsMap : phys.rsMap[r] = rs ELSE rs

\* From the shards' names then to those of now.
GetShardMapping ==
  LET source(t) == MapS(ShardRemap, ReverseRSMap(phys.targets[t]))
      moved == {t \in DOMAIN phys.targets : source(t) # t}
  IN [s \in {source(t) : t \in moved} |-> CHOOSE t \in moved : source(t) = s]

\* On a config server the shards, their hosts and the routing tables are renamed.
ResetConfigServer(sys) ==
  LET tables == UpdateRouterTables([databases |-> sys.databases, chunks |-> sys.chunks], GetShardMapping)
  IN [sys EXCEPT !.shards = [s \in {MapS(GetShardMapping, i) : i \in DOMAIN @} |->
                               IF s \in DOMAIN phys.targets THEN phys.targets[s] ELSE ""],
                 !.databases = tables.databases, !.chunks = tables.chunks, !.pitr = FALSE]

\* A shard learns who it is now.
ResetShard(sys) ==
  LET rs == MapS(phys.rsMap, phys.shards[sys.identity]) IN
  [sys EXCEPT !.identity = CHOOSE s \in DOMAIN phys.targets : phys.targets[s] = rs]

ResetRS ==
  /\ Restoring("replayed", "done")
  /\ volume' = [volume EXCEPT !.system = IF phys.csrs THEN ResetConfigServer(@) ELSE ResetShard(@)]

PhysNext ==
  \/ FileWrite
  \/ Open("incremental", TRUE) \/ Open("incremental", FALSE)
  \/ phys.full /\ (Open("physical", FALSE) \/ Open("external", FALSE))
  \/ UploadPhysical \/ HandleExternal \/ BackupFails
  \/ PhysRestore \/ PrepareData \/ RecoverStandaloneFromOplog \/ ReplayPITROnStandalone \/ ResetRS

-----------------------------------------------------------------------------
\* What a shard is called now, whose data were those of shard s.
Renamed(s) == CHOOSE t \in DOMAIN phys.targets : phys.targets[t] = MapS(phys.rsMap, phys.shards[s])

\* A physical restore has every file of the backup's checkpoint, block for block (what
\* may follow is not in the checkpoint), and none that was dropped before, its data is
\* that of the point in time and of no later one, and its shards are those of now,
\* each with the data it had: however many increments, failed backups, changed files
\* and new names there were in between (setBcpFiles, copyFiles, prepareData, resetRS
\* of pbm/restore/physical.go).
FilesAreSource ==
  restore # None /\ restore.state = "done" =>
    LET b == backups[restore.bcp]
        sys == volume.system
    IN
    /\ DOMAIN volume.files = DOMAIN b.files
    /\ \A f \in DOMAIN b.files : /\ Len(volume.files[f]) >= Len(b.files[f])
                                 /\ SubSeq(volume.files[f], 1, Len(b.files[f])) = b.files[f]
    /\ volume.at = restore.to /\ volume.oplog = b.ts
    /\ IF phys.csrs
         THEN /\ sys.shards = phys.targets /\ ~sys.pitr
              /\ \A s \in DOMAIN phys.shards : sys.databases[s] = Renamed(s) /\ sys.chunks[s].shard = Renamed(s)
         ELSE sys.identity = Renamed(SystemData.identity)
=============================================================================

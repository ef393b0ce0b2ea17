---------------------------- MODULE RouterTables ----------------------------
(***************************************************************************)
(* The routing tables of a config server in a full restore                 *)
(* (pbm/restore/logical_cfgsvr_full.go, logical.go; the filters of         *)
(* pbm/oplog/restore.go).  The target keeps its own config.system.sessions;*)
(* that of the backup is left out.                                         *)
(*                                                                         *)
(* Documents: of "databases" the primary shard, of "collections" the       *)
(* collection's UUID, of "chunks" the collection's UUID and the shard.     *)
(***************************************************************************)
EXTENDS SourceData

LOCAL INSTANCE Functions

Tables == {"databases", "collections", "chunks"}

Sessions == 1   \* the id of config.system.sessions in "collections"

\* MakeRSMapFunc.
MapS(sMap, s) == IF s \in DOMAIN sMap THEN sMap[s] ELSE s

Chunk(uuid, shard) == [uuid |-> uuid, shard |-> shard]

\* The UUID of the sessions collection; none: "".
SessUUID(docs) == IF Sessions \in DOMAIN docs THEN docs[Sessions] ELSE ""

-----------------------------------------------------------------------------
(* configsvrFullRestore. kept is what the target has, dump what was saved.   *)

FullRestoreConfigDatabases(dump, sMap) == [i \in DOMAIN dump |-> MapS(sMap, dump[i])]

FullRestoreConfigCollections(kept, dump) ==
  Restrict(kept, DOMAIN kept \cap {Sessions}) @@ Without(dump, {Sessions})

\* Faulty variant: the chunks of the backup's sessions are restored as well.
FullRestoreConfigChunksAll(kept, dump, own, skip, sMap) ==
  Restrict(kept, {i \in DOMAIN kept : own # "" /\ kept[i].uuid = own})
    @@ [i \in DOMAIN dump |-> [dump[i] EXCEPT !.shard = MapS(sMap, @)]]

FullRestoreConfigChunks(kept, dump, own, skip, sMap) ==
  Restrict(kept, {i \in DOMAIN kept : own # "" /\ kept[i].uuid = own})
    @@ [i \in {i \in DOMAIN dump : skip = "" \/ dump[i].uuid # skip} |->
          [dump[i] EXCEPT !.shard = MapS(sMap, @)]]

\* t: the tables by name.
ConfigsvrFullRestore(t, dump, sMap) ==
  [databases |-> FullRestoreConfigDatabases(dump.databases, sMap),
   collections |-> FullRestoreConfigCollections(t.collections, dump.collections),
   chunks |-> FullRestoreConfigChunks(t.chunks, dump.chunks, SessUUID(t.collections),
                                      SessUUID(dump.collections), sMap)]

-----------------------------------------------------------------------------
(* configsvrSelRestore, of the databases and collections in sel: theirs are   *)
(* replaced, and the chunks of the dumped collections.                        *)

RestoreDatabases(t, dump, sel, sMap) ==
  [i \in DOMAIN dump \cap sel |-> MapS(sMap, dump[i])] @@ t

RestoreCollections(t, dump, sel) == Restrict(dump, DOMAIN dump \cap sel) @@ t

RestoreChunks(t, dump, uuids, sMap) ==
  [i \in {i \in DOMAIN dump : dump[i].uuid \in uuids} |-> [dump[i] EXCEPT !.shard = MapS(sMap, @)]]
    @@ Restrict(t, {i \in DOMAIN t : t[i].uuid \notin uuids})

\* An empty table is not looked at. Without collections there is no selector of chunks,
\* not even an empty one: the agent panics on it.
NoSelector(dump) == DOMAIN dump.collections = {} /\ DOMAIN dump.chunks # {}

ConfigsvrSelRestore(t, dump, sel, sMap) ==
  LET uuids == {dump.collections[i] : i \in DOMAIN dump.collections \cap sel} IN
  [databases |-> RestoreDatabases(t.databases, dump.databases, sel, sMap),
   collections |-> RestoreCollections(t.collections, dump.collections, sel),
   chunks |-> IF DOMAIN dump.chunks = {} \/ NoSelector(dump) THEN t.chunks
              ELSE RestoreChunks(t.chunks, dump.chunks, uuids, sMap)]

-----------------------------------------------------------------------------
(* The replay. A delete carries an id only, and a diff no UUID: those of      *)
(* sessions' documents pass.                                                 *)

IsSessionsEntry(o) == o.op = "i" /\ o.name = "collections" /\ o.arg[1] = Sessions

\* sessUUID once an entry has been looked at.
LearnSessUUID(o, sessUUID) == IF sessUUID = "" /\ IsSessionsEntry(o) THEN o.arg[2] ELSE sessUUID

IsConfigCollectionsDocAllowed(o) == ~IsSessionsEntry(o)

IsConfigChunksDocAllowed(o, sessUUID) ==
  sessUUID = "" \/ o.name # "chunks" \/ o.op \in {"d", "diff"} \/ o.arg[2].uuid # sessUUID

IsRoutingDocExcluded(o, sessUUID) ==
  ~IsConfigCollectionsDocAllowed(o) \/ ~IsConfigChunksDocAllowed(o, sessUUID)

-----------------------------------------------------------------------------
\* updateRouterTables: what has come from the oplog is mapped, and what has come from
\* the dump a second time.
UpdateRouterTables(t, sMap) ==
  [t EXCEPT !.databases = [i \in DOMAIN @ |-> MapS(sMap, @[i])],
            !.chunks = [i \in DOMAIN @ |-> [@[i] EXCEPT !.shard = MapS(sMap, @)]]]
=============================================================================

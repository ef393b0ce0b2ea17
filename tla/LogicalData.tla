----------------------------- MODULE LogicalData -----------------------------
(***************************************************************************)
(* What a logical backup of one replica set brings back: the dump          *)
(* (LogicalDump), its restore (RunSnapshot of pbm/restore/logical.go,      *)
(* pbm/archive, pbm/snapshot) and the replay of the oplog up to a point in *)
(* time (pbm/oplog/restore.go).                                            *)
(*                                                                         *)
(* The oplog is there as far as the restore needs it: Archive has the      *)
(* chunks.  Transactions are in TxnReplay, the statuses in LogicalRestore. *)
(***************************************************************************)
EXTENDS LogicalDump

LOCAL INSTANCE FiniteSetsExt
LOCAL INSTANCE SequencesExt
LOCAL INSTANCE Functions

VARIABLES
  rstep,     \* of the restore: see RestoreNext
  until,     \* the point in time
  pos,       \* the entry that is replayed next
  target,    \* the data of the replica set that is restored
  catalog,   \* indexes by collection name
  sessUUID   \* the sessions collection of the backup

restoreVars == <<rstep, until, pos, target, catalog, sessUUID>>
vars == <<plan, dumpVars, restoreVars>>

\* plan.clone: the collection restored as another one; none: "".
Cloned == "c"
CloneUUID == "c"
OwnUser == 9          \* the agent's own user, which is kept
OwnUsers == "own"     \* the UUID of the target's users

(* RunSnapshot: the files are composed into one archive, which mongorestore  *)
(* reads; what the target has under the same names is dropped.               *)

RestoreSelected(n) == plan.sel = {} \/ n \in plan.sel

Restored(n) ==
  /\ n # Users /\ n \notin Tables
  /\ IF plan.clone # "" THEN n = plan.clone ELSE RestoreSelected(n) \/ n = Tmp

TargetName(n) == IF n = plan.clone THEN Cloned ELSE n
TargetUUID(n) == IF n = plan.clone THEN CloneUUID ELSE files[n].uuid

\* The archive: the collections to be made, by their UUIDs.
Compose ==
  LET names == {n \in DOMAIN files : Restored(n)}
      name(u) == CHOOSE n \in names : TargetUUID(n) = u
  IN [u \in {TargetUUID(n) : n \in names} |->
        [Coll(TargetName(name(u))) EXCEPT !.docs = files[name(u)].docs]]

\* mongorestore. (The name of the clone is free.)
Snapshot(t) == Compose @@ Without(t, UNION {Named(t, Compose[u].name) : u \in DOMAIN Compose})

\* loadIndexesFrom: of every collection of the dump.
LoadIndexes ==
  [m \in {TargetName(n) : n \in DOMAIN files} |->
     files[CHOOSE n \in DOMAIN files : TargetName(n) = m].idx]

DumpedTables == [n \in Tables |-> files[n].docs]
TablesOf(d) == [n \in Tables |-> d[n].docs]
WithTables(d, t) == [u \in DOMAIN d |-> IF u \in Tables THEN [d[u] EXCEPT !.docs = t[u]] ELSE d[u]]

SnapshotTables(t) ==
  IF plan.sel = {} THEN ConfigsvrFullRestore(t, DumpedTables, plan.sMap)
  ELSE ConfigsvrSelRestore(t, DumpedTables, plan.sel, plan.sMap)

\* swapUsers and DropTMPcoll: all users but the agent's own are replaced by the copy
\* that was dumped.
SwapUsers(t) ==
  LET copy == IF Tmp \in DOMAIN files THEN files[Tmp].docs ELSE EmptyFunction
  IN [Without(t, {TmpUUID}) EXCEPT
        ![OwnUsers].docs = Restrict(@, DOMAIN @ \cap {OwnUser}) @@ Without(copy, {OwnUser})]

\* The point in time is the cluster's last write, the least of the replica sets': that
\* of an idle or a lagging one may be before this one's dump is done, or even before
\* it began. PITR goes on from there.
RunSnapshot ==
  /\ rstep = "begin" /\ step = "saved"
  /\ until' \in 0..IF plan.pitr THEN Len(log) ELSE saved
  /\ target' = IF plan.csrs THEN WithTables(target, SnapshotTables(TablesOf(target)))
               ELSE IF plan.users THEN SwapUsers(Snapshot(target)) ELSE Snapshot(target)
  /\ catalog' = LoadIndexes
  /\ sessUUID' = IF plan.csrs /\ plan.sel = {} THEN SessUUID(DumpedTables.collections) ELSE ""
  /\ pos' = Max({1, first})
  /\ rstep' = IF \/ plan.clone # "" /\ Named(target', Cloned) = {}
                 \/ plan.csrs /\ plan.sel # {} /\ NoSelector(DumpedTables)
              THEN "failed" ELSE "replay"
  /\ UNCHANGED <<plan, dumpVars>>

-----------------------------------------------------------------------------
(* The replay: handleOp and handleNonTxnOp.                                  *)

IsOpExcluded(o) == o.name = Tmp

IsOpAllowed(o) == plan.csrs => o.name \in Tables

IsSelectiveUserOrRoleOp(o) == plan.users /\ o.name = Users /\ o.op \in {"i", "u", "d"}

\* Of the routing tables only the databases' changes pass a selection.
IsSelectiveConfigDatabasesOp(o) == o.name = "databases" /\ o.op = "u" /\ o.arg[1] \in plan.sel

\* A rename is not among the commands a selection lets pass.
IsOpSelected(o) ==
  \/ plan.sel = {}
  \/ IF plan.csrs THEN IsSelectiveConfigDatabasesOp(o)
     ELSE IsSelectiveUserOrRoleOp(o) \/ (o.name \in plan.sel /\ o.op # "renameCollection")

IsOpForCloning(o) == plan.clone = "" \/ (o.name = plan.clone /\ o.op # "renameCollection")

ReplayedOp(o) ==
  /\ ~IsOpExcluded(o) /\ IsOpAllowed(o)
  /\ IsOpSelected(o) /\ IsOpForCloning(o)
  /\ ~(plan.csrs /\ IsRoutingDocExcluded(o, sessUUID))
  /\ o.op \notin {"startIndexBuild", "abortIndexBuild"}

\* Without its UUID an entry is about the collection of the name.
FilterUUIDs(o) == IF o.name = Users THEN [o EXCEPT !.ui = OwnUsers] ELSE o

CloneEntry(o) == IF plan.clone = "" THEN o ELSE [o EXCEPT !.name = Cloned, !.ui = CloneUUID]

\* A collection is dropped before it is created; not so the clone: the drop has its new
\* name by then, which the filter above does not let pass.
Apply(t, o) ==
  IF o.op = "create" /\ plan.clone = "" THEN ApplyOps(Without(t, {o.ui}), o) ELSE ApplyOps(t, o)

Indexes(n) == IF n \in DOMAIN catalog THEN catalog[n] ELSE {}

\* What becomes of the index catalog: by name.
Catalogue(o) ==
  CASE o.op \in {"createIndexes", "commitIndexBuild"} -> (o.name :> Indexes(o.name) \cup {o.arg}) @@ catalog
    [] o.op = "dropIndexes" -> (o.name :> Indexes(o.name) \ {o.arg}) @@ catalog
    [] o.op \in {"drop", "create"} -> (o.name :> {}) @@ catalog
    [] OTHER -> catalog

HandleOp(o) ==
  /\ catalog' = Catalogue(o)
  /\ IF o.op \in IndexOps THEN UNCHANGED <<target, rstep>>
     ELSE \E t \in Apply(target, o) :
            IF t = Failed THEN rstep' = "failed" /\ UNCHANGED target
            ELSE target' = t /\ UNCHANGED rstep

Replay ==
  /\ rstep = "replay" /\ pos <= until
  /\ IF ReplayedOp(log[pos]) THEN HandleOp(CloneEntry(FilterUUIDs(log[pos]))) ELSE UNCHANGED <<target, catalog, rstep>>
  /\ sessUUID' = IF plan.csrs /\ IsOpSelected(log[pos]) THEN LearnSessUUID(log[pos], sessUUID) ELSE sessUUID
  /\ pos' = pos + 1
  /\ UNCHANGED <<plan, dumpVars, until>>

-----------------------------------------------------------------------------
\* restoreIndexes: of the selected names. createIndexes makes a collection that is
\* not there.
WithIndexes(t) ==
  LET names == {n \in DOMAIN catalog :
                  /\ catalog[n] # {}
                  /\ IF plan.clone # "" THEN n = Cloned ELSE RestoreSelected(n)}
      missing == {n \in names : Named(t, n) = {}}
      there == t @@ [u \in missing |-> Coll(u)]
  IN [u \in DOMAIN there |->
        IF there[u].name \in names THEN [there[u] EXCEPT !.idx = @ \cup catalog[there[u].name]] ELSE there[u]]

RestoreIndexes ==
  /\ rstep = "replay" /\ pos > until
  /\ target' = IF plan.csrs THEN WithTables(target, UpdateRouterTables(TablesOf(target), plan.sMap))
               ELSE WithIndexes(target)
  /\ rstep' = "done"
  /\ UNCHANGED <<plan, dumpVars, until, pos, catalog, sessUUID>>

\* A replica set is not emptied first: the target has a collection of its own.
OwnColl(n) == [Coll(n) EXCEPT !.docs = OwnUser :> 1]

TargetInit ==
  IF plan.csrs
    THEN "databases" :> [Coll("databases") EXCEPT !.docs = OwnUser :> "t"]
         @@ "collections" :> [Coll("collections") EXCEPT !.docs = Sessions :> "T" @@ OwnUser :> "O"]
         @@ "chunks" :> [Coll("chunks") EXCEPT !.docs = 8 :> Chunk("T", "t") @@ OwnUser :> Chunk("O", "t")]
    ELSE OwnUsers :> OwnColl(Users) @@ "old" :> OwnColl("b")

Init ==
  /\ DumpInit
  /\ rstep = "begin" /\ until = 0 /\ pos = 0 /\ sessUUID = ""
  /\ target = TargetInit /\ catalog = EmptyFunction

RestoreNext == RunSnapshot \/ Replay \/ RestoreIndexes

Next ==
  \/ rstep = "begin" /\ DumpNext /\ UNCHANGED <<plan, restoreVars>>
  \/ RestoreNext

Spec == Init /\ [][Next]_vars

-----------------------------------------------------------------------------
(* What is promised, and where it is not kept.                               *)

\* The source's data once it had the first k entries of the oplog.
At(k) == FoldLeft(Exec, plan.init, SubSeq(log, 1, k))

LastTime == Max({until, dumped})

\* The point in time, and what came after it until the collection was dumped.
Window(n) ==
  until..Max({until, IF n = Users THEN copied ELSE IF n \in DOMAIN files THEN files[n].end ELSE dumped})

\* An operation of the kind, in a part of the oplog that a dump or its replay may miss.
Happened(op, last) == \E i \in first + 1..last : log[i].op = op

Wanted(n) ==
  IF plan.clone # "" THEN n = plan.clone
  ELSE IF n = Users THEN plan.users ELSE Selected(n) /\ RestoreSelected(n)

\* The values of a document, one or none.
Values(d, n, id) == {d[u].docs[id] : u \in {u \in Named(d, n) : id \in DOMAIN d[u].docs}}

IndexesOf(d, n) == UNION {d[u].idx : u \in Named(d, n)}

\* The cursor of a name was opened on none or another of the collections than was listed.
Misread == Happened("renameCollection", dumped) /\ \E n \in DOMAIN files : files[n].cur # files[n].uuid

\* A collection was renamed after the point in time and before it was dumped.
RenamedLater == \E i \in until + 1..LastTime : log[i].op = "renameCollection"

\* Each document, each index and each collection that was to be restored is as the
\* source had it at one of the times of its window. Excepted are the documents when a
\* rename made a cursor read another collection than was listed, or none (Misread), or
\* came between the point in time and the dump (RenamedLater); the indexes when a
\* collection was renamed, as the index catalog does not follow a rename; and an index
\* that is still being built, which is listed with the others and whose end is not replayed.
RestoredWithinWindow ==
  LET src == [k \in 0..Len(log) |-> At(k)]
      sometimes(n, P(_)) == \E k \in Window(n) : P(src[k])
      ids == (plan.ids \cup UNION {DOMAIN plan.init[u].docs : u \in DOMAIN plan.init}) \ {OwnUser}
      found(n) == Named(target, TargetName(n)) \ {"old"}
      documents(n) ==
        /\ \A id \in ids : sometimes(n, LAMBDA d : Values(target, TargetName(n), id) = Values(d, n, id))
        /\ n # Users => sometimes(n, LAMBDA d : (found(n) = {}) <=> (Named(d, n) = {}))
      indexes(n) ==
        /\ \A x \in IndexesOf(target, TargetName(n)) :
             sometimes(n, LAMBDA d : \E u \in Named(d, n) : x \in d[u].idx \cup d[u].building)
        /\ found(n) # {} => sometimes(n, LAMBDA d : IndexesOf(d, n) \subseteq IndexesOf(target, TargetName(n)))
  IN /\ \A n \in {n \in Names \cup {Users} : Wanted(n)} :
          /\ documents(n) \/ Misread \/ RenamedLater
          /\ indexes(n) \/ Happened("renameCollection", LastTime) \/ Happened("abortIndexBuild", until)
     /\ ~RestoreSelected("b") => target["old"] = OwnColl("b")
     /\ \A u \in DOMAIN target \cap (DOMAIN plan.init \cup NewUUIDs) : \E k \in until..LastTime : u \in DOMAIN src[k]

\* A logical restore that ends well has, of every collection that was to be restored,
\* exactly the documents and the indexes the source had at the point in time, and
\* none of the collections that were gone by then, and what was not selected is as it
\* was: the dumps of the collections are each of another time, and the replay
\* (pbm/oplog/restore.go) makes them meet. Where that point is before the end of a
\* collection's dump, each of its documents is as it was at one or between the two.
RestoredIsSource == rstep = "done" /\ ~plan.csrs => RestoredWithinWindow

\* In the oplog from before the dump to its end, an entry of the table's document i that
\* P holds of.
Logged(n, i, P(_)) == \E k \in Max({1, first})..LastTime :
  log[k].name = n /\ (IF log[k].op = "d" THEN log[k].arg ELSE log[k].arg[1]) = i /\ P(log[k])

\* Clients have left the collection's own entries as they were.
Untouched(i) == \A n \in {"collections", "chunks"} : ~Logged(n, i, LAMBDA o : TRUE)

\* A full restore of the config servers makes the routing tables those of the source
\* at the point in time under the shards' new names, and leaves the target its own
\* sessions collection; a selective one leaves the other entries alone and brings back those of a
\* collection that has not changed since the backup began, whether or not the backup was
\* selective too (logical_cfgsvr_full.go, selective.go, makeConfigsvrDocFilter). Where
\* that point is before the end of a table's dump, each of its documents is as it was
\* at one or between the two. Excepted are:
\*   - a chunk that only a diff is replayed of: it is what mongod makes of it;
\*   - the chunks of a source's sessions collection that was made anew or dropped: those
\*     that have the one UUID which was dumped are skipped, others come along; and its
\*     entry, as the replay of a delete deletes the target's;
\*   - the name of a shard that is one's new and another's old name: it is mapped twice
\*     where the document was dumped (updateRouterTables).
RoutesAreSource ==
  rstep = "done" /\ plan.csrs =>
    LET src == [k \in 0..Len(log) |-> TablesOf(At(k))]
        own == TablesOf(TargetInit)
        got == TablesOf(target)
        sess == {SessUUID(src[k].collections) : k \in 0..LastTime}
        sh(s, again) == MapS(plan.sMap, IF again THEN MapS(plan.sMap, s) ELSE s)
        value(t, i) == IF i \in DOMAIN t THEN {t[i]} ELSE {}
        mapped(n, docs, again) ==
          CASE n = "databases" -> [i \in DOMAIN docs |-> sh(docs[i], again)]
            [] n = "chunks" -> [i \in {i \in DOMAIN docs : docs[i].uuid \notin sess} |->
                                  [docs[i] EXCEPT !.shard = sh(@, again)]]
            [] OTHER -> docs
        restored(n, i) == \E k \in Window(n), again \in BOOLEAN :
                            value(got[n], i) = value(mapped(n, src[k][n], again), i)
        ofSessions(i) == Cardinality(sess) > 1 /\ \E c \in value(got.chunks, i) :
                           "uuid" \in DOMAIN c /\ c.uuid \in sess
        diffed(i) == Logged("chunks", i, LAMBDA o : o.op = "diff") /\ "uuid" \notin DOMAIN got.chunks[i]
        dropped == Logged("collections", Sessions, LAMBDA o : o.op = "d")
        ids == 1..7
    IN IF plan.sel = {} THEN
         /\ \A i \in ids : restored("databases", i)
         /\ \A i \in ids \ {Sessions} : restored("collections", i)
         /\ \A i \in ids : restored("chunks", i) \/ diffed(i) \/ ofSessions(i)
         /\ value(got.collections, Sessions) = value(own.collections, Sessions) \/ dropped
         /\ value(got.chunks, 8) = value(own.chunks, 8)
         /\ \A n \in Tables : OwnUser \notin DOMAIN got[n]
       ELSE
         /\ \A i \in plan.sel : restored("databases", i)
         /\ Without(got.databases, plan.sel) = own.databases
         /\ Without(got.collections, plan.sel) = own.collections
         /\ \A i \in DOMAIN src[0].collections \cap plan.sel : Untouched(i) =>
              restored("collections", i) /\ restored("chunks", i)
         /\ \A i \in DOMAIN own.chunks : i \in DOMAIN got.chunks /\ got.chunks[i] = own.chunks[i]
=============================================================================

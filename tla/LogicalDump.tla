----------------------------- MODULE LogicalDump -----------------------------
(***************************************************************************)
(* A logical backup of one replica set (doLogical, pbm/archive/backup.go,  *)
(* pbm/backup/slicer.go) while clients write.  The agent reads from its    *)
(* own node, which may lag behind the primary; collections are dumped in   *)
(* parallel, each by a cursor that sees every document as it is when it    *)
(* gets there; the oplog from before the dump to after it goes with them.  *)
(*                                                                         *)
(* BackupRun has the statuses and the other replica sets.  A timestamp is  *)
(* a position in the oplog.                                                *)
(***************************************************************************)
EXTENDS RouterTables

LOCAL INSTANCE FiniteSetsExt
LOCAL INSTANCE SequencesExt

CONSTANT Plans

VARIABLES
  plan,    \* init: the data at first; kinds: what clients do, and writes, how often; lag, users,
           \* csrs: see below; parallel: numParallelColls; nss: the selected collections, none for all
  log,     \* the primary's oplog
  db,      \* the primary's data
  node,    \* the data of the agent's node
  step,    \* of the agent: see DumpNext
  first,   \* FirstWriteTS
  files,   \* the collections that are listed, and how far each has been dumped
  saved,   \* where the slices of the oplog end
  dumped   \* when the replica set's dump is done

VARIABLES
  applied,  \* the entries the agent's node has
  copied,   \* the entry with which the copy of the users was complete
  selector  \* the UUIDs of the selected collections, on the config servers

dumpVars == <<log, db, node, step, first, files, saved, dumped, applied, copied, selector>>

-----------------------------------------------------------------------------
\* admin.system.users and the collection its documents are copied to.
Users == "users"
Tmp == "tmp"
TmpUUID == "tmp"

DumpInit ==
  /\ plan \in Plans
  /\ log = <<>> /\ db = plan.init /\ node = plan.init /\ applied = 0
  /\ step = "start" /\ first = 0 /\ files = EmptyFunction /\ saved = 0 /\ dumped = 0 /\ copied = 0
  /\ selector = {}

\* Writes on the primary; without lag the node has them too.
WriteAll(os) ==
  /\ log' = log \o os
  /\ db' = FoldLeft(Exec, db, os)
  /\ IF plan.lag THEN UNCHANGED <<node, applied>> ELSE node' = db' /\ applied' = Len(log')

Write(o) == WriteAll(<<o>>)

Replicate ==
  /\ applied < Len(log)
  /\ node' = Exec(node, log[applied + 1])
  /\ applied' = applied + 1
  /\ UNCHANGED <<log, db, step, first, files, saved, dumped, copied, selector>>

\* What a client may do next.
Names == {"a", "b"}
NewUUIDs == {"v", "w"}
FreshUUID == {u \in NewUUIDs : /\ \A i \in DOMAIN log : log[i].ui # u
                               /\ u = "w" => \E i \in DOMAIN log : log[i].ui = "v"}

DataWrite ==
  \/ \E u \in DOMAIN db \ {TmpUUID} : LET c == db[u] IN
       \/ "i" \in plan.kinds /\ \E id \in plan.ids \ DOMAIN c.docs : Write(Op("i", db, u, <<id, 1>>))
       \/ "u" \in plan.kinds /\ \E id \in DOMAIN c.docs : Write(Op("u", db, u, <<id, 3 - c.docs[id]>>))
       \/ "d" \in plan.kinds /\ \E id \in DOMAIN c.docs : Write(Op("d", db, u, id))
       \/ /\ c.name \in Names
          /\ \/ "drop" \in plan.kinds /\ Write(Op("drop", db, u, ""))
             \/ "rename" \in plan.kinds /\ \E n \in Names \ {c.name} : Write(Op("renameCollection", db, u, n))
             \/ /\ "index" \in plan.kinds
                /\ CASE "x" \in c.idx -> Write(Op("dropIndexes", db, u, "x"))
                     [] "x" \in c.building -> \E op \in {"commitIndexBuild", "abortIndexBuild"} :
                                                Write(Op(op, db, u, "x"))
                     [] OTHER -> \E op \in {"createIndexes", "startIndexBuild"} : Write(Op(op, db, u, "x"))
  \/ /\ "create" \in plan.kinds
     /\ \E n \in Names : \E u \in FreshUUID :
          Named(db, n) = {} /\ Write([op |-> "create", name |-> n, ui |-> u, arg |-> ""])

\* The primary shard of a database moves; a chunk moves; a collection is sharded, or
\* the sessions collection is made anew.
TableWrite ==
  LET docs(n) == db[n].docs
      write(op, n, arg) == Write(Op(op, db, n, arg))
  IN \/ \E i \in DOMAIN docs("databases") : \E s \in plan.shards \ {docs("databases")[i]} :
          write("u", "databases", <<i, s>>)
     \/ \E i \in DOMAIN docs("chunks") : \E s \in plan.shards \ {docs("chunks")[i].shard} :
          \/ write("u", "chunks", <<i, [docs("chunks")[i] EXCEPT !.shard = s]>>)
          \/ write("diff", "chunks", <<i, [shard |-> s]>>)
     \/ \E i \in {Sessions, 2} \ DOMAIN docs("collections") : \E u \in FreshUUID :
          write("i", "collections", <<i, u>>)
     \/ \E i \in DOMAIN docs("collections") : \E s \in plan.shards :
          /\ i \notin DOMAIN docs("chunks")
          /\ write("i", "chunks", <<i, Chunk(docs("collections")[i], s)>>)
     \/ \E i \in DOMAIN docs("collections") \cap DOMAIN docs("chunks") : write("d", "chunks", i)
     \/ \E i \in DOMAIN docs("collections") \ DOMAIN docs("chunks") : write("d", "collections", i)

ClientWrite ==
  /\ Cardinality({i \in DOMAIN log : log[i].name # Tmp}) < plan.writes
  /\ step = "saved" => plan.pitr
  /\ IF plan.csrs THEN TableWrite ELSE DataWrite
  /\ UNCHANGED <<step, first, files, saved, dumped, copied, selector>>

-----------------------------------------------------------------------------
Begin ==
  /\ step = "start"
  /\ first' = applied /\ saved' = applied
  /\ step' = IF plan.users THEN "users" ELSE IF plan.csrs /\ plan.nss # {} THEN "select" ELSE "list"
  /\ UNCHANGED <<log, db, node, applied, files, dumped, copied, selector>>

\* On the primary, where an earlier backup may have left some.
DropTmp ==
  /\ step = "users"
  /\ WriteAll(<<[op |-> "drop", name |-> Tmp, ui |-> TmpUUID, arg |-> ""],
               [op |-> "create", name |-> Tmp, ui |-> TmpUUID, arg |-> ""]>>)
  /\ step' = "copy"
  /\ UNCHANGED <<first, files, saved, dumped, copied, selector>>

\* copyColl, one document after another.
Uncopied == {id \in DOMAIN db[Users].docs : \A i \in DOMAIN db[TmpUUID].docs : id > i}

CopyUsersNRolles ==
  /\ step = "copy"
  /\ IF Uncopied # {}
       THEN /\ LET id == Min(Uncopied) IN Write(Op("i", db, TmpUUID, <<id, db[Users].docs[id]>>))
            /\ UNCHANGED <<step, copied>>
       ELSE copied' = Len(log) /\ step' = "wait" /\ UNCHANGED <<log, db, node, applied>>
  /\ UNCHANGED <<first, files, saved, dumped, selector>>

\* Faulty variant: the copy is not waited for.
WaitForWriteNot ==
  /\ step = "wait"
  /\ step' = "list"
  /\ UNCHANGED <<log, db, node, applied, copied, first, files, saved, dumped, selector>>

WaitForWrite ==
  /\ step = "wait" /\ applied >= copied
  /\ step' = "list"
  /\ UNCHANGED <<log, db, node, applied, copied, first, files, saved, dumped, selector>>

-----------------------------------------------------------------------------
\* MakeSelectedPred; on the config servers plan.nss has the ids of databases and
\* collections, and their tables are always dumped.
Selected(n) == plan.nss = {} \/ (IF plan.csrs THEN n \in Tables ELSE n \in plan.nss)

\* createBackupChunkSelector, from the config servers as they are before the dump.
SelectChunks ==
  /\ step = "select"
  /\ selector' = {db["collections"].docs[i] : i \in DOMAIN db["collections"].docs \cap plan.nss}
  /\ step' = "list"
  /\ UNCHANGED <<log, db, node, applied, first, files, saved, dumped, copied>>

\* makeConfigsvrDocFilter: what is kept of the tables in a selective backup.
ConfigsvrDocFilter(n, id, doc) ==
  plan.csrs /\ plan.nss # {} => IF n = "chunks" THEN doc.uuid \in selector ELSE id \in plan.nss

\* The names and UUIDs, then the indexes of each, by its name. end: what the node had
\* when the last document was read.
ListAllNamespaces ==
  /\ step = "list"
  /\ files' = [n \in {m \in {node[u].name : u \in DOMAIN node} : Selected(m) \/ (plan.users /\ m = Tmp)} |->
                 [uuid |-> CHOOSE u \in Named(node, n) : TRUE, idx |-> {}, docs |-> EmptyFunction,
                  state |-> "listed", cur |-> "", at |-> 0, end |-> 0]]
  /\ step' = "dump"
  /\ UNCHANGED <<log, db, node, applied, first, saved, dumped, copied, selector>>

Change(n, with) == files' = [files EXCEPT ![n] = with @@ @]

ListIndexes(n) ==
  /\ files[n].state = "listed"
  /\ Change(n, [state |-> "indexed", idx |-> UNION {node[u].idx \cup node[u].building : u \in Named(node, n)}])

\* All of the indexes are listed before a dump begins.
AllListed == \A n \in DOMAIN files : files[n].state # "listed"

\* An empty collection is not read; a file is named by the collection's name, and
\* so is what the cursor is opened on.
DumpCollection(n) ==
  /\ files[n].state = "indexed" /\ AllListed
  /\ Cardinality({m \in DOMAIN files : files[m].state = "open"}) < plan.parallel
  /\ LET found == {u \in Named(node, n) : DOMAIN node[u].docs # {}} IN
       IF found = {} THEN Change(n, [state |-> "done", end |-> applied])
       ELSE Change(n, [state |-> "open", cur |-> CHOOSE u \in found : TRUE])

\* The cursor comes to the next document. A collection that has been dropped is taken
\* to have ended; one that has been renamed may end the whole dump.
Unread(n) == IF files[n].cur \in DOMAIN node
               THEN {id \in DOMAIN node[files[n].cur].docs : id > files[n].at} ELSE {}

ReadDocument(n) ==
  /\ files[n].state = "open" /\ Unread(n) # {}
  /\ LET id == Min(Unread(n))
         doc == node[files[n].cur].docs[id]
     IN Change(n, [at |-> id, docs |-> IF ConfigsvrDocFilter(n, id, doc) THEN id :> doc @@ files[n].docs
                                       ELSE files[n].docs])

EndOfCollection(n) ==
  /\ files[n].state = "open" /\ Unread(n) = {}
  /\ Change(n, [state |-> "done", end |-> applied])

DumpAllCollections ==
  /\ step = "dump"
  /\ \E n \in DOMAIN files : ListIndexes(n) \/ DumpCollection(n) \/ ReadDocument(n) \/ EndOfCollection(n)
  /\ UNCHANGED <<log, db, node, applied, step, first, saved, dumped, copied, selector>>

\* writeMeta, and the statuses: every replica set has dumped.
DumpDone ==
  /\ step = "dump" /\ \A n \in DOMAIN files : files[n].state = "done"
  /\ dumped' = applied
  /\ step' = "slice"
  /\ UNCHANGED <<log, db, node, applied, first, files, saved, copied, selector>>

\* The last slice, when the slicer is told to stop.
LastSlice ==
  /\ step = "slice"
  /\ saved' = applied
  /\ step' = "saved"
  /\ UNCHANGED <<log, db, node, applied, first, files, dumped, copied, selector>>

\* If the last write cannot be read, that is only logged: the slices end where the
\* ticks have brought them.
LastSliceFails ==
  /\ step = "slice" /\ plan.sliceFails
  /\ saved' \in first..applied
  /\ step' = "saved"
  /\ UNCHANGED <<log, db, node, applied, first, files, dumped, copied, selector>>

DumpNext ==
  \/ ClientWrite \/ (plan.lag /\ Replicate)
  \/ Begin \/ DropTmp \/ CopyUsersNRolles \/ WaitForWrite
  \/ SelectChunks \/ ListAllNamespaces \/ DumpAllCollections \/ DumpDone
  \/ LastSlice \/ LastSliceFails
=============================================================================

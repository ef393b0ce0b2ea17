------------------------- MODULE PhysicalRestore -------------------------
(***************************************************************************)
(* A physical restore (src/pbm/restore/physical.go).  Every node of every  *)
(* replica set takes part, and while their servers are down the agents     *)
(* meet only in files on the backup storage: a node, a replica set and the *)
(* cluster each have one file per status reached, and one for heartbeats.  *)
(***************************************************************************)
EXTENDS Integers, FiniteSets

CONSTANTS Clusters,  \* the clusters to restore, as sets of nodes
          RSOf,      \* the replica set of a node
          Config,    \* the replica set of the config servers
          Primaries, \* the nodes that were primary when the restore began
          Options,   \* how it was asked for
          Faults,    \* what may go wrong
          MaxFaults  \* and how often

Nodes == UNION Clusters
RSs == {RSOf[n] : n \in Nodes}
Cluster == "cluster"

\* A node, a replica set and the cluster have files of different names.
ASSUME ClustersAssumption == Nodes \cap (RSs \cup {Config}) = {} /\ Cluster \notin Nodes \cup RSs
ASSUME PrimaryAssumption ==
  \A C \in Clusters : \A n \in C :
    Cardinality({p \in C \cap Primaries : RSOf[p] = RSOf[n]}) = 1
ASSUME OptionsAssumption ==
  Options \subseteq [kind : {"backup", "pitr", "external", "exit"}, fallback : BOOLEAN, allowPartly : BOOLEAN,
              listed : BOOLEAN, sized : BOOLEAN]
ASSUME FaultsAssumption == MaxFaults \in Nat

VARIABLES nodes,    \* the nodes of this cluster
          opts,     \* the options of this restore
          pc,       \* where each agent is in the procedure
          goal,     \* the status whose files it waits for
          left,     \* the objects it has not done with in this wait
          seen,     \* what it has learned from the others
          file,     \* the status files of each object
          stale,    \* the objects whose heartbeat is too old
          up,       \* is the node's server running?
          db,       \* what its data directory holds
          kept,     \* what the fallback directory in it holds
          progress, \* the agent's own account of that
          faults    \* faults so far

vars == <<nodes, opts, pc, goal, left, seen, file, stale, up, db, kept, progress, faults>>

Statuses == {"starting", "running", "down", "copyReady", "copyDone", "extTS", "txn",
             "done", "partlyDone", "error"}
Waits == {"down", "peers", "shards", "cluster"}
Over == {"ended", "dead"}
PCs == Waits \cup Over \cup {"exited", "prepare", "shutdown", "move", "copy", "patch", "failing", "close", "cleanup"}

Peers(n) == {m \in nodes : RSOf[m] = RSOf[n]}
Shards == {RSOf[n] : n \in nodes}
Sharded == Config \in Shards
IsLeader(n) == Sharded => RSOf[n] = Config
IsConfigSrv(n) == Sharded /\ RSOf[n] = Config
IsClusterLeader(n) == n \in Primaries /\ IsLeader(n)

\* The data are copied by somebody else; with "exit" the agents end for that time.
External == opts.kind \in {"external", "exit"}

\* pbm-agent restore-finish, which leaves errors to whoever started it.
Finishing(n) == opts.kind = "exit" /\ goal[n] \in {"copyDone", "done"}

\* A process beats for itself, its replica set and the cluster from init to close.
Beating(n) == pc[n] \notin Over \cup {"exited", "close", "cleanup"}
Beats(o) == {n \in nodes : Beating(n) /\ o \in {n, RSOf[n], Cluster}}

Faulty(f) == f \in Faults /\ faults < MaxFaults /\ faults' = faults + 1

Write(f, o, status) == [f EXCEPT ![o] = @ \cup {status}]

Go(n, step) == pc' = [pc EXCEPT ![n] = step]

----------------------------------------------------------------------------
(* Waiting for files.                                                      *)

Await(n, step, status, objs) ==
  /\ Go(n, step)
  /\ goal' = [goal EXCEPT ![n] = status]
  /\ left' = [left EXCEPT ![n] = objs]
  /\ seen' = [seen EXCEPT ![n] = {}]

\* An error or a stopped heartbeat is noticed before any status.
Bad(o) == "error" \in file[o] \/ o \in stale

\* What a look at an object's files tells, and nothing if it has to go on waiting.
Glance(n, o) ==
  CASE Bad(o) -> {"bad"}
    [] ~Bad(o) /\ goal[n] \in file[o] -> {"good"}
    [] ~Bad(o) /\ goal[n] = "done" /\ file[o] \cap {"done", "partlyDone"} = {"partlyDone"} -> {"good", "partly"}
    [] OTHER -> {}

\* What toState leaves behind when it fails before the restore is done.
DeferredError(n) ==
  IF goal[n] \notin {"starting", "running", "copyReady"} THEN file
  ELSE LET own == IF n \in Primaries THEN Write(file, RSOf[n], "error") ELSE file
       IN IF IsClusterLeader(n) THEN Write(own, Cluster, "error") ELSE own

\* One object of a poll: a bad one ends the wait, unless it is for "done".
Look(n) ==
  /\ pc[n] \in Waits
  /\ \E o \in left[n] :
       LET glance == Glance(n, o) IN
       /\ glance # {}
       /\ left' = [left EXCEPT ![n] = @ \ {o}]
       /\ seen' = [seen EXCEPT ![n] = @ \cup glance]
       /\ IF "bad" \in glance /\ goal[n] # "done"
          THEN file' = DeferredError(n) /\ Go(n, "failing")
          ELSE UNCHANGED <<file, pc>>
  /\ UNCHANGED <<nodes, opts, goal, stale, up, db, kept, progress, faults>>

\* Faulty variant: some nodes in error make no difference to a replica set.
OutcomeOptimistic(n) ==
  CASE "bad" \notin seen[n] -> IF "partly" \in seen[n] THEN "partlyDone" ELSE goal[n]
    [] "bad" \in seen[n] /\ "good" \in seen[n] /\ pc[n] \in {"peers", "down"} -> goal[n]
    [] OTHER -> "error"

\* The result of a wait.  A replica set may be done in part, the cluster may not.
Outcome(n) ==
  CASE "bad" \notin seen[n] -> IF "partly" \in seen[n] THEN "partlyDone" ELSE goal[n]
    [] "bad" \in seen[n] /\ "good" \in seen[n] /\ pc[n] \in {"peers", "down"} -> "partlyDone"
    [] OTHER -> "error"

----------------------------------------------------------------------------
(* The procedure. *)

\* toState: report; primaries, and every node at the end, then speak for
\* the replica set, the cluster's leader (and every node) for the cluster.
ToState(n, status) ==
  /\ file' = Write(file, n, status)
  /\ IF n \in Primaries \/ status = "done"
     THEN Await(n, "peers", status, Peers(n))
     ELSE Await(n, "cluster", status, {Cluster})

AgreeCommonRestoreTS(n) ==
  /\ file' = Write(file, RSOf[n], "extTS")
  /\ IF IsClusterLeader(n)
     THEN Await(n, "shards", "extTS", Shards)
     ELSE Await(n, "cluster", "extTS", {Cluster})

Note(n, p) == [progress EXCEPT ![n] = @ \cup {p}]

\* A restore may not forbid both the fallback and an end in part.
ValidateFallbackOpts == opts.fallback \/ opts.allowPartly

\* The server's program is not there or of another version than the backup, or a
\* later check fails.
CheckMongodFails(n) == Faulty("prepare") /\ Go(n, "failing")

\* init, prepareBackup, the oplog's chunks, checkShutdownFails.
Prepare(n) ==
  /\ pc[n] = "prepare"
  /\ \/ ValidateFallbackOpts /\ ToState(n, "starting") /\ UNCHANGED faults
     \/ ~ValidateFallbackOpts /\ Go(n, "failing") /\ UNCHANGED <<file, goal, left, seen, faults>>
     \/ CheckMongodFails(n) /\ UNCHANGED <<file, goal, left, seen>>
  /\ UNCHANGED <<nodes, opts, stale, up, db, kept, progress>>

\* What follows when the cluster has converged: the next state, or the work before it.
Converged(n) ==
  CASE goal[n] = "starting" -> ToState(n, "running")
    [] goal[n] = "running" ->
         /\ UNCHANGED file
         /\ IF IsConfigSrv(n) THEN Await(n, "down", "down", Shards \ {Config})
            ELSE Go(n, "shutdown") /\ UNCHANGED <<goal, left, seen>>
    [] goal[n] = "copyReady" ->
         /\ UNCHANGED file
         /\ IF opts.kind = "exit" THEN Go(n, "exited") /\ UNCHANGED <<goal, left, seen>>
            ELSE Await(n, "cluster", "copyDone", {Cluster})
    [] goal[n] = "copyDone" -> Go(n, "copy") /\ UNCHANGED <<file, goal, left, seen>>
    [] goal[n] = "extTS" -> Go(n, "patch") /\ UNCHANGED <<file, goal, left, seen>>
    [] goal[n] = "done" ->
         Go(n, IF Finishing(n) THEN "ended" ELSE "close") /\ UNCHANGED <<file, goal, left, seen>>

\* The wait is over.
Settle(n) ==
  /\ pc[n] \in Waits /\ left[n] = {}
  /\ LET outcome == Outcome(n) IN
     CASE outcome = "error" ->
            file' = DeferredError(n) /\ Go(n, "failing") /\ UNCHANGED <<goal, left, seen>>
       [] outcome # "error" /\ pc[n] = "peers" ->
            /\ file' = Write(file, RSOf[n], outcome)
            /\ IF IsClusterLeader(n) \/ goal[n] = "done"
               THEN Await(n, "shards", goal[n], Shards)
               ELSE Await(n, "cluster", goal[n], {Cluster})
       [] outcome # "error" /\ pc[n] = "shards" ->
            file' = Write(file, Cluster, outcome) /\ Await(n, "cluster", goal[n], {Cluster})
       [] outcome # "error" /\ pc[n] = "down" ->
            Go(n, "shutdown") /\ UNCHANGED <<file, goal, left, seen>>
       [] outcome # "error" /\ pc[n] = "cluster" -> Converged(n)
  /\ UNCHANGED <<nodes, opts, stale, up, db, kept, progress, faults>>

\* A primary steps down once it does not see a majority any more.
SteppedDown(n) ==
  \/ n \notin Primaries
  \/ Cardinality(Peers(n)) = 1
  \/ 2 * Cardinality({m \in Peers(n) : up[m]}) <= Cardinality(Peers(n))

\* The server refuses, or does not let go of its lock file in time.
ShutdownFails(n) ==
  /\ Faulty("shutdown")
  /\ \E down \in BOOLEAN : up' = [up EXCEPT ![n] = @ /\ ~down]
  /\ Go(n, "failing")
  /\ UNCHANGED file

\* flush, up to the server's end.
Shutdown(n) ==
  /\ pc[n] = "shutdown"
  /\ \/ /\ SteppedDown(n)
        /\ up' = [up EXCEPT ![n] = FALSE]
        /\ file' = IF n \in Primaries THEN Write(file, RSOf[n], "down") ELSE file
        /\ Go(n, "move")
        /\ UNCHANGED faults
     \/ ShutdownFails(n)
  /\ UNCHANGED <<nodes, opts, goal, left, seen, stale, db, kept, progress>>

MigrateDBDirToFallbackDir(n) ==
  kept' = [kept EXCEPT ![n] = IF opts.fallback THEN "old" ELSE "none"]

\* flush, the rest: the old data are put aside, or removed.  Only a success is
\* noted in progress.
Flush(n) ==
  /\ pc[n] = "move"
  /\ \/ /\ db' = [db EXCEPT ![n] = "none"]
        /\ MigrateDBDirToFallbackDir(n)
        /\ progress' = Note(n, "started")
        /\ IF External THEN ToState(n, "copyReady")
           ELSE Go(n, "copy") /\ UNCHANGED <<file, goal, left, seen>>
        /\ UNCHANGED faults
     \/ /\ Faulty("move")
        /\ db' = [db EXCEPT ![n] = "part"]
        /\ kept' = [kept EXCEPT ![n] = IF opts.fallback THEN "part" ELSE "none"]
        /\ Go(n, "failing")
        /\ UNCHANGED <<progress, file, goal, left, seen>>
  /\ UNCHANGED <<nodes, opts, stale, up>>

\* extDumpFromPhysRestore: an agent leaves its state on the storage before it reports.
Dumped(n) == External /\ "copyReady" \in file[n]

\* physRestoreFromExtDump: an agent that has exited is started again, and beats again.
PhysRestoreFinish(n) ==
  /\ pc[n] = "exited" /\ Dumped(n) /\ "copyReady" \in file[Cluster]
  /\ stale' = stale \ {n, RSOf[n], Cluster}
  /\ Await(n, "cluster", "copyDone", {Cluster})
  /\ UNCHANGED <<nodes, opts, file, up, db, kept, progress, faults>>

\* The administrator has put the data in place (pbm restore-finish).
CopyDone ==
  /\ "copyReady" \in file[Cluster] /\ "copyDone" \notin file[Cluster]
  /\ file' = Write(file, Cluster, "copyDone")
  /\ UNCHANGED <<nodes, opts, pc, goal, left, seen, stale, up, db, kept, progress, faults>>

\* The clean-up of a data directory copied from outside: if the backup's list was
\* copied too, what is not on it is removed, and the fallback directory's files are not.
CleanupDatadir(n) == kept' = [kept EXCEPT ![n] = IF External /\ opts.listed THEN "none" ELSE @]

\* copyFiles, or prepareExtRestore. After an exit the point in time must be known.
CopyFiles(n) ==
  /\ pc[n] = "copy"
  /\ db' = [db EXCEPT ![n] = "copied"]
  /\ CleanupDatadir(n)
  /\ \/ /\ IF opts.kind = "external" THEN AgreeCommonRestoreTS(n)
           ELSE /\ Go(n, "patch")
                /\ file' = IF opts.kind = "pitr" THEN Write(file, RSOf[n], "txn") ELSE file
                /\ UNCHANGED <<goal, left, seen>>
        /\ UNCHANGED faults
     \/ Faulty("copy") /\ Go(n, "failing") /\ UNCHANGED <<file, goal, left, seen>>
  /\ UNCHANGED <<nodes, opts, stale, up, progress>>

\* getcommittedTxn: leftovers of distributed transactions wait for the commits of all
\* shards, whatever has become of them.
CommittedTxnKnown == \A r \in Shards : {"txn", "done"} \cap file[r] # {}

\* The server started on the copied files does not come up, or writes an error to its log.
StartMongoFails(n) == Faulty("copy") /\ Go(n, "failing")

PatchSysData(n) ==
  /\ pc[n] = "patch"
  /\ \/ /\ opts.kind = "pitr" => CommittedTxnKnown
        /\ db' = [db EXCEPT ![n] = "new"]
        /\ progress' = Note(n, "done")
        /\ ToState(n, "done")
        /\ UNCHANGED faults
     \/ StartMongoFails(n) /\ UNCHANGED <<db, progress, file, goal, left, seen>>
  /\ UNCHANGED <<nodes, opts, stale, up, kept>>

----------------------------------------------------------------------------
(* Failure and clean-up. *)

CheckForRSLevelErr(f, n) == \A m \in Peers(n) : "error" \in f[m]
CheckForClusterLevelErr(f) == \E r \in Shards : "error" \in f[r]

\* The node, its replica set if no node is left, and the cluster, if a node of the
\* leader's replica set sees a replica set in error.
MarkedFailed(n) ==
  LET own == Write(file, n, "error")
      rs == IF CheckForRSLevelErr(own, n) THEN Write(own, RSOf[n], "error") ELSE own
  IN IF IsLeader(n) /\ CheckForClusterLevelErr(rs) THEN Write(rs, Cluster, "error") ELSE rs

MarkFailed(n) ==
  /\ pc[n] = "failing"
  /\ IF Finishing(n) THEN Go(n, "ended") /\ UNCHANGED file
     ELSE Go(n, "close") /\ file' = MarkedFailed(n)
  /\ UNCHANGED <<nodes, opts, goal, left, seen, stale, up, db, kept, progress, faults>>

\* The final status in the cluster's files, in the order in which they are looked for.
FinalStatus ==
  LET final == file[Cluster] \cap {"error", "done", "partlyDone", "copyReady"} IN
  CASE "error" \in final -> "error"
    [] "error" \notin final /\ "done" \in final -> "done"
    [] final \in {{"partlyDone"}, {"partlyDone", "copyReady"}} -> "partlyDone"
    [] final = {"copyReady"} -> "copyReady"
    [] final = {} -> "none"

\* Faulty variant: nobody looks at the cluster's heartbeat.
ClusterStatusNoHb == FinalStatus

\* What waitClusterStatus would return now.
ClusterStatus == IF FinalStatus = "none" /\ Cluster \in stale THEN "error" ELSE FinalStatus

\* close waits for a final status (kept in goal) and begins the clean-up.
WaitClusterStatus(n) ==
  /\ pc[n] = "close"
  /\ ClusterStatus # "none"
  /\ goal' = [goal EXCEPT ![n] = ClusterStatus]
  /\ Go(n, "cleanup")
  /\ UNCHANGED <<nodes, opts, left, seen, file, stale, up, db, kept, progress, faults>>

IsForCleanup(n) == "started" \in progress[n] /\ "done" \notin progress[n]

\* Faulty variant: a node that has restored its data keeps them.
ResolveCleanupStrategyKeepDone(n) ==
  CASE "started" \notin progress[n] \/ "done" \in progress[n] -> "skip"
    [] IsForCleanup(n) /\ goal[n] \in {"error", "partlyDone"} ->
         IF opts.fallback THEN "fallback" ELSE "full"
    [] OTHER -> "skip"

\* Faulty variant: partly done is taken as allowed.
ResolveCleanupStrategyPartly(n) ==
  LET discard == IF IsForCleanup(n) THEN "full" ELSE "skip" IN
  CASE "started" \notin progress[n] -> "skip"
    [] "started" \in progress[n] /\ goal[n] = "error" ->
         IF opts.fallback THEN "fallback" ELSE discard
    [] "started" \in progress[n] /\ goal[n] = "partlyDone" -> discard
    [] OTHER -> "skip"

ResolveCleanupStrategy(n) ==
  LET discard == IF IsForCleanup(n) THEN "full" ELSE "skip" IN
  CASE "started" \notin progress[n] -> "skip"
    [] "started" \in progress[n] /\ goal[n] = "error" ->
         IF opts.fallback THEN "fallback" ELSE discard
    [] "started" \in progress[n] /\ goal[n] = "partlyDone" ->
         IF opts.allowPartly \/ ~opts.fallback THEN discard ELSE "fallback"
    [] OTHER -> "skip"

\* doFallbackCleanup: the old data come back, and the leader writes the cluster's error.
MigrateFromFallbackDirToDBDir(n) ==
  \/ db' = [db EXCEPT ![n] = kept[n]] /\ UNCHANGED faults
  \/ Faulty("move") /\ db' = [db EXCEPT ![n] = "part"]

MarkAsFallback(n) == IF IsClusterLeader(n) THEN Write(file, Cluster, "error") ELSE file

\* The clean-up, after which the fallback directory goes whatever happened.
Cleanup(n) ==
  /\ pc[n] = "cleanup"
  /\ \/ /\ ResolveCleanupStrategy(n) = "fallback"
        /\ MigrateFromFallbackDirToDBDir(n)
        /\ file' = IF faults' = faults THEN MarkAsFallback(n) ELSE file
     \/ /\ ResolveCleanupStrategy(n) = "full"
        /\ db' = [db EXCEPT ![n] = "none"]
        /\ UNCHANGED <<file, faults>>
     \/ ResolveCleanupStrategy(n) = "skip" /\ UNCHANGED <<db, file, faults>>
  /\ kept' = [kept EXCEPT ![n] = IF opts.fallback THEN "none" ELSE @]
  /\ Go(n, "ended")
  /\ UNCHANGED <<nodes, opts, goal, left, seen, stale, up, progress>>

\* The agent's process dies; its server, if up, lives on.
Crash(n) ==
  /\ pc[n] \notin Over \cup {"exited"}
  /\ Faulty("crash")
  /\ Go(n, "dead")
  /\ UNCHANGED <<nodes, opts, goal, left, seen, file, stale, up, db, kept, progress>>

\* Everything but copying takes seconds, a heartbeat is too old after minutes:
\* it expires when there is nothing of the former to do.
Busy(n) ==
  \/ pc[n] \in {"prepare", "failing", "cleanup"}
  \/ pc[n] \in Waits /\ (left[n] = {} \/ \E o \in left[n] : Glance(n, o) # {})
  \/ pc[n] = "shutdown" /\ SteppedDown(n)
  \/ pc[n] = "close" /\ ClusterStatus # "none"

Expire ==
  /\ \A n \in nodes : ~Busy(n)
  /\ \E o \in nodes \cup Shards \cup {Cluster} :
       o \notin stale /\ Beats(o) = {} /\ stale' = stale \cup {o}
  /\ UNCHANGED <<nodes, opts, pc, goal, left, seen, file, up, db, kept, progress, faults>>

\* Old backups do not tell their size: the fallback, for which there must be space, is
\* turned off.
DisableFallbackForOldBackup(o) ==
  [kind |-> o.kind, fallback |-> o.fallback /\ o.sized, allowPartly |-> o.allowPartly, listed |-> o.listed]

Init ==
  /\ nodes \in Clusters
  /\ opts \in {DisableFallbackForOldBackup(o) : o \in Options}
  /\ pc = [n \in nodes |-> "prepare"]
  /\ goal = [n \in nodes |-> "starting"]
  /\ left = [n \in nodes |-> {}]
  /\ seen = [n \in nodes |-> {}]
  /\ file = [o \in nodes \cup Shards \cup {Cluster} |-> {}]
  /\ stale = {}
  /\ up = [n \in nodes |-> TRUE]
  /\ db = [n \in nodes |-> "old"]
  /\ kept = [n \in nodes |-> "none"]
  /\ progress = [n \in nodes |-> {}]
  /\ faults = 0

Step(n) ==
  \/ Prepare(n) \/ Look(n) \/ Settle(n) \/ Shutdown(n) \/ Flush(n) \/ PhysRestoreFinish(n) \/ CopyFiles(n)
  \/ PatchSysData(n) \/ MarkFailed(n) \/ WaitClusterStatus(n) \/ Cleanup(n)

Next == (\E n \in nodes : Step(n) \/ Crash(n)) \/ CopyDone \/ Expire

\* Agents poll, clocks tick, and an administrator finishes what he began.
Fairness == (\A n \in Nodes : WF_vars(n \in nodes /\ Step(n))) /\ WF_vars(CopyDone) /\ WF_vars(Expire)

Spec == Init /\ [][Next]_vars /\ Fairness

----------------------------------------------------------------------------
(* Properties. *)

Data == {"old", "part", "none", "copied", "new"}

\* Every variable has its type, and no node is done that has not started.
TypeOK ==
  /\ nodes \in Clusters /\ opts \in {DisableFallbackForOldBackup(o) : o \in Options}
  /\ pc \in [nodes -> PCs]
  /\ goal \in [nodes -> Statuses \cup {"none"}]
  /\ left \in [nodes -> SUBSET (nodes \cup Shards \cup {Cluster})]
  /\ seen \in [nodes -> SUBSET {"bad", "good", "partly"}]
  /\ file \in [nodes \cup Shards \cup {Cluster} -> SUBSET Statuses]
  /\ stale \subseteq nodes \cup Shards \cup {Cluster}
  /\ up \in [nodes -> BOOLEAN]
  /\ db \in [nodes -> Data] /\ kept \in [nodes -> {"none", "part", "old"}]
  /\ progress \in [nodes -> {{}, {"started"}, {"started", "done"}}]
  /\ faults \in 0..MaxFaults

\* "Done" is a promise about all nodes, "partly done" about one of every
\* replica set.
DoneMeansRestored ==
  /\ "done" \in file[Cluster] => \A n \in nodes : "done" \in progress[n]
  /\ "partlyDone" \in file[Cluster] =>
       \A r \in Shards : \E n \in nodes : RSOf[n] = r /\ "done" \in progress[n]

\* A move of files that stopped half way: aside, before that was noted, or back.
MoveFailed(n) ==
  /\ db[n] = "part" /\ "move" \in Faults /\ faults > 0
  /\ goal[n] \in {"error", "partlyDone"}

\* With the fallback no node is left with neither its old data nor the
\* restored.  Not so when moving the files fails midway, for the fallback
\* directory goes all the same.  Nor after a restore from outside, if the list that was
\* copied with the data had the fallback directory removed (CleanupDatadir), or if a node
\* that fails takes the cluster's copyReady for the end, or is one of restore-finish.
OldOrNew ==
  \A n \in nodes : pc[n] = "ended" /\ opts.fallback /\ ~opts.allowPartly =>
    \/ db[n] \in {"old", "new"} \/ MoveFailed(n)
    \/ External /\ (opts.listed \/ goal[n] \in {"copyReady", "copyDone"})

LostWhenDone == \E n \in nodes : pc[n] = "dead" /\ "done" \in file[n]

\* With the fallback all nodes come to the same end: none keeps the restored
\* data while another has gone back to the old.  Not so if one dies after it
\* has reported done: its peers count it in or not, and find different statuses;
\* nor of a node of an external restore that takes the cluster's copyReady for
\* the end, and keeps what it has (waitClusterStatus, resolveCleanupStrategy).
SameEnd ==
  opts.fallback /\ ~opts.allowPartly /\ ~LostWhenDone =>
    \A n, m \in nodes : pc[n] = "ended" /\ pc[m] = "ended" =>
      ~(db[n] = "old" /\ db[m] = "new" /\ goal[m] # "copyReady")

Ended == \A n \in nodes : pc[n] \in Over \cup {"exited"}

Gone(n) == pc[n] \in Over \cup {"exited", "close", "cleanup"}

\* The waits without end: for a primary that fails or dies before it has
\* spoken for its replica set (or the cluster), whose peers keep its heartbeat
\* alive; of a primary for a majority to go down, when the agent of a running
\* server is gone; and for the commits of a shard that will not write them.
Orphaned(n) ==
  /\ pc[n] \in Waits /\ goal[n] \notin {"done", "copyDone"}
  /\ \E p \in nodes \cap Primaries :
       /\ Gone(p)
       /\ \/ goal[n] \notin file[RSOf[p]]
          \/ IsClusterLeader(p) /\ goal[n] \notin file[Cluster]

KeptPrimary(n) == pc[n] = "shutdown" /\ \E m \in Peers(n) \ {n} : up[m] /\ Gone(m)

NoCommits(n) ==
  /\ pc[n] = "patch" /\ opts.kind = "pitr"
  /\ \E r \in Shards : "txn" \notin file[r] /\ \A m \in nodes : RSOf[m] = r => Gone(m)

\* A restore ends on every node, if it is not caught in one of these waits.
RestoreEnds ==
  <>[]Ended \/ <>[](\E n \in nodes : Orphaned(n) \/ KeptPrimary(n) \/ NoCommits(n))
=============================================================================

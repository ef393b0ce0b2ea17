---------------------------- MODULE RestoreView ----------------------------
(***************************************************************************)
(* What a client is told of a physical restore.  The servers are down, so   *)
(* pbm restore --wait, pbm describe-restore and a resync read the status    *)
(* files that the agents leave on the storage (src/pbm/restore/storage.go,  *)
(* src/cmd/pbm/restore.go) and make a report out of them.                   *)
(***************************************************************************)
EXTENDS PhysicalRestore

CONSTANT Watched  \* the clusters at whose restore a client is looking

VARIABLES client,    \* what the client is waiting for, or what it has been told
          cleanupHb  \* the heartbeat of the clean-up: is it there, is it too old?

viewVars == <<vars, client, cleanupHb>>

\* Conditions are sorted by their time.  Nothing is written after an error, and
\* which of "done" and "partlyDone" is the later makes no difference to a client.
Order == [starting |-> 1, running |-> 2, down |-> 3, copyReady |-> 4, copyDone |-> 5, extTS |-> 6,
          partlyDone |-> 7, done |-> 8, error |-> 9]

\* The replica sets' records of transactions are no conditions.
Latest(o) ==
  LET conditions == file[o] \ {"txn"}
  IN IF conditions = {} THEN "none"
     ELSE CHOOSE s \in conditions : \A t \in conditions : Order[t] <= Order[s]

\* No node is left that has not failed, whatever has been written of the replica set.
RSFailed(r) == \A n \in nodes : RSOf[n] = r => Latest(n) = "error"

\* ParsePhysRestoreStatus: the status shown of a node, a replica set or the cluster.
Shown(o) ==
  IF \/ o \in Shards /\ RSFailed(o)
     \/ o = Cluster /\ \E r \in Shards : RSFailed(r)
  THEN "error" ELSE Latest(o)

\* GetPhysRestoreMeta: the record of the restore is made anew from the files.
Meta == [status |-> Shown(Cluster), shown |-> [o \in nodes \cup Shards |-> Shown(o)]]

\* describeRestore: a node that is not done when its replica set is in part has been lost.
NodeShown(n) ==
  IF Meta.shown[RSOf[n]] = "partlyDone" /\ Meta.shown[n] # "done" THEN "error" ELSE Meta.shown[n]

----------------------------------------------------------------------------
(* The client. *)

\* A step of the restore.  The heartbeat of the clean-up is there from the first
\* clean-up on, and beats while one is running.
RestoreStep ==
  /\ Next
  /\ cleanupHb' = IF \E n \in nodes : pc'[n] = "cleanup" THEN "beating" ELSE cleanupHb
  /\ UNCHANGED client

\* The clean-up's heartbeat is too old after seconds, which is all that the steps need
\* that do not wait.
CleanupHbStops ==
  /\ cleanupHb = "beating" /\ \A n \in nodes : ~Busy(n)
  /\ cleanupHb' = "old"
  /\ UNCHANGED <<vars, client>>

\* A heartbeat that has not been written yet counts as one that beats.
IsCleanupHbAlive == cleanupHb # "old"

\* waitForRestoreStatus: until the restore is running.  Here an error is told at once.
WaitForRestoreStatus ==
  /\ client = "start"
  /\ \/ Meta.status \in {"running", "done"} /\ client' = "wait"
     \/ Meta.status = "error" /\ client' = "failed"
  /\ UNCHANGED <<vars, cleanupHb>>

\* Faulty variant: the end is told before the clean-up.
WaitRestoreHasty ==
  /\ client = "wait"
  /\ \/ External /\ Meta.status = "copyReady" /\ client' = "ready"
     \/ Meta.status \in {"done", "partlyDone"} /\ client' = IF External THEN "ready" ELSE "done"
     \/ Meta.status = "error" /\ client' = "failed"
  /\ UNCHANGED <<vars, cleanupHb>>

\* waitRestore: until the end, or for an external restore until the data may be copied.
WaitRestore ==
  /\ client = "wait"
  /\ \/ External /\ Meta.status \in {"copyReady", "done", "partlyDone"} /\ client' = "ready"
     \/ /\ ~External /\ Meta.status \in {"done", "partlyDone"}
        /\ ~IsCleanupHbAlive
        /\ client' = "done"
     \/ Meta.status = "error" /\ ~IsCleanupHbAlive /\ client' = "failed"
  /\ UNCHANGED <<vars, cleanupHb>>

\* checkRestoreStale: a status that is not final, and minutes without a heartbeat.
CheckRestoreStale ==
  /\ \/ client = "start" /\ Meta.status \notin {"running", "done", "error"}
     \/ /\ client = "wait"
        /\ Meta.status \notin {"done", "partlyDone", "error"}
        /\ External => Meta.status # "copyReady"
  /\ Beats(Cluster) = {} /\ \A n \in nodes : ~Busy(n)
  /\ client' = "stale"
  /\ UNCHANGED <<vars, cleanupHb>>

ViewInit ==
  /\ Init
  /\ client = IF nodes \in Watched THEN "start" ELSE "none"
  /\ cleanupHb = "none"

ClientStep == WaitForRestoreStatus \/ WaitRestore \/ CheckRestoreStale

ViewNext == RestoreStep \/ CleanupHbStops \/ ClientStep

ViewSpec == ViewInit /\ [][ViewNext]_viewVars /\ Fairness /\ WF_viewVars(CleanupHbStops)

----------------------------------------------------------------------------
(* Properties. *)

\* "doFallbackCleanup ... marks cluster with fallback error" (physical.go:315-317): when
\* the clean-up is over, a client is told "done" only if the restored data are there.
FallbackIsTold ==
  client = "done" => \A r \in Shards : \E n \in nodes : RSOf[n] = r /\ db[n] = "new"

LeaderLost == \E n \in nodes : IsClusterLeader(n) /\ (pc[n] = "dead" \/ "started" \notin progress[n])

\* A client that is told "done" finds the restored data on a node of every replica set, and
\* the report shows it as done (unless the leader that would have marked a fallback has none
\* to do or is gone: see FallbackIsTold).
DoneIsThere ==
  client = "done" /\ (LeaderLost => opts.allowPartly) =>
    \A r \in Shards : \E n \in nodes : RSOf[n] = r /\ NodeShown(n) = "done" /\ db[n] = "new"

\* A client that is told "failed" finds no node that has ended with the restored data if the
\* fallback is on, so that a report of failure can be acted upon.
FailedIsUndone ==
  client = "failed" /\ opts.fallback /\ ~opts.allowPartly /\ ~LostWhenDone /\ ~External =>
    \A n \in nodes : pc[n] = "ended" => db[n] # "new"

\* What a client is told of the end of a restore is so, either way.
ToldAsItIs == DoneIsThere /\ FailedIsUndone
=============================================================================

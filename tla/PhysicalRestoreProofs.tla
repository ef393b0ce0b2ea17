---------------------- MODULE PhysicalRestoreProofs ----------------------
(***************************************************************************)
(* What the status files of a physical restore promise (PhysicalRestore),  *)
(* for any clusters, options and number of faults.  The agents know of     *)
(* each other only what the files told them at some earlier look, so the   *)
(* invariant says what a look that was taken is still good for: files are  *)
(* only added to, and a status is in a file for a reason that stays.       *)
(***************************************************************************)
EXTENDS RestoreView, TLAPS

Before == {"starting", "running", "down"}
Between == {"copyReady", "copyDone", "extTS"}

\* How far an agent's own data are follows from where it is in the procedure.
StageOf(n) ==
  /\ pc[n] \in {"prepare", "shutdown", "move"} => progress[n] = {}
  /\ pc[n] \in {"copy", "patch", "exited"} => progress[n] = {"started"}
  /\ pc[n] \in Waits =>
       /\ goal[n] \in Before \cup Between \cup {"done"}
       /\ goal[n] \in Before => progress[n] = {}
       /\ goal[n] \in Between => progress[n] = {"started"}
       /\ goal[n] = "done" => progress[n] = {"started", "done"}
       /\ (pc[n] = "down") <=> (goal[n] = "down")

Stage == \A n \in nodes : StageOf(n)

\* The objects that an agent's wait is for.
Targets(n) ==
  CASE pc[n] = "peers" -> Peers(n)
    [] pc[n] = "shards" -> Shards
    [] pc[n] = "down" -> Shards \ {Config}
    [] OTHER -> {Cluster}

PartlyThere(n, o) == goal[n] = "done" /\ "partlyDone" \in file[o]

\* What has been seen in a wait is still so, an object at a time.
LooksOf(n) ==
  pc[n] \in Waits =>
    /\ left[n] \subseteq Targets(n)
    /\ \A o \in Targets(n) \ left[n] :
         \/ "bad" \in seen[n]
         \/ goal[n] \in file[o]
         \/ PartlyThere(n, o) /\ "partly" \in seen[n]
    /\ "good" \in seen[n] => \E o \in Targets(n) : goal[n] \in file[o] \/ PartlyThere(n, o)
    /\ goal[n] # "done" => seen[n] \subseteq {"good"}

Looks == \A n \in nodes : LooksOf(n)

\* Whatever stands in a file about an end is so.
FilesTell ==
  /\ \A n \in nodes :
       "partlyDone" \notin file[n] /\ ("done" \in file[n] => "done" \in progress[n])
  /\ \A r \in Shards :
       /\ "done" \in file[r] => \A n \in nodes : RSOf[n] = r => "done" \in progress[n]
       /\ "partlyDone" \in file[r] => \E n \in nodes : RSOf[n] = r /\ "done" \in progress[n]
  /\ DoneMeansRestored

\* Only an external restore is ever ready for a copy.
CopyIsExternal ==
  ~External =>
    /\ \A o \in DOMAIN file : "copyReady" \notin file[o]
    /\ \A n \in nodes : goal[n] # "copyReady"

\* Until the clean-up, a node's data or its fallback directory are complete.
KeptOf(n) ==
  pc[n] # "ended" =>
    /\ "started" \notin progress[n] => db[n] \in {"old", "part"}
    /\ "started" \in progress[n] /\ opts.fallback => kept[n] = "old"
    /\ "done" \in progress[n] => db[n] = "new"
    /\ pc[n] = "cleanup" =>
         goal[n] \in {"error", "partlyDone"} \/ (goal[n] = "done" /\ "done" \in file[Cluster])

\* At the end a node has the old data or the new, or has failed to move them.
EndOf(n) ==
  pc[n] = "ended" /\ opts.fallback /\ ~opts.allowPartly =>
    db[n] \in {"old", "new"} \/ (db[n] = "part" /\ goal[n] \in {"error", "partlyDone"})

DataKept == ~External => \A n \in nodes : KeptOf(n) /\ EndOf(n)

\* Half of the files are where only a move that failed has left them.
HalfMoved ==
  \A n \in nodes : "part" \in {db[n], kept[n]} => "move" \in Faults /\ faults > 0

PromiseInv == TypeOK /\ Stage /\ Looks /\ FilesTell
DataInv == PromiseInv /\ CopyIsExternal /\ DataKept /\ HalfMoved
----------------------------------------------------------------------------
(* Types.                                                                  *)

Objects == nodes \cup Shards \cup {Cluster}
FileType == [Objects -> SUBSET Statuses]

\* Writing a status into a file of the restore (Write, ToState's put) leaves a record
\* of statuses, in which nothing is lost and only that status is new.
LEMMA WriteFacts ==
  ASSUME NEW f \in FileType, NEW o \in Objects, NEW st \in Statuses
  PROVE  /\ Write(f, o, st) \in FileType
         /\ \A x \in Objects : Write(f, o, st)[x] = IF x = o THEN f[x] \cup {st} ELSE f[x]
  BY DEF Write, FileType

\* An agent, its replica set and the cluster have files.
LEMMA OwnObjects ==
  ASSUME NEW n \in nodes
  PROVE  {n, RSOf[n], Cluster} \subseteq Objects /\ Peers(n) \subseteq Objects /\ RSOf[n] \in Shards
  BY DEF Objects, Shards, Peers

\* Init: the first states have their types.
LEMMA InitType == Init => TypeOK
  BY FaultsAssumption DEF Init, TypeOK, PCs, Waits, Over, Statuses, Data

\* Nothing but errors has been written since the files were as they are.
ErrorsAdded(f) ==
  /\ f \in FileType
  /\ \A x \in Objects : file[x] \subseteq f[x] /\ f[x] \subseteq file[x] \cup {"error"}

\* So it stays when one more error is written.
LEMMA AddError ==
  ASSUME NEW f, ErrorsAdded(f), NEW o \in Objects
  PROVE  ErrorsAdded(Write(f, o, "error"))
<1>1. f \in FileType /\ "error" \in Statuses
  BY DEF ErrorsAdded, Statuses
<1>2. /\ Write(f, o, "error") \in FileType
      /\ \A x \in Objects : Write(f, o, "error")[x] = IF x = o THEN f[x] \cup {"error"} ELSE f[x]
  BY <1>1, WriteFacts
<1> QED BY <1>2 DEF ErrorsAdded

\* A failed toState (its deferred error) writes nothing but errors.
LEMMA DeferredErrorFacts ==
  ASSUME file \in FileType, NEW n \in nodes
  PROVE  ErrorsAdded(DeferredError(n))
<1> DEFINE own == IF n \in Primaries THEN Write(file, RSOf[n], "error") ELSE file
<1>1. RSOf[n] \in Objects /\ Cluster \in Objects
  BY OwnObjects
<1>2. ErrorsAdded(file)
  BY DEF ErrorsAdded
<1>3. ErrorsAdded(Write(file, RSOf[n], "error"))
  BY <1>1, <1>2, AddError
<1>4. ErrorsAdded(own)
  BY <1>2, <1>3
<1>5. ErrorsAdded(Write(own, Cluster, "error"))
  BY <1>1, <1>4, AddError
<1> QED BY <1>2, <1>4, <1>5 DEF DeferredError

\* MarkFailed writes nothing but errors.
LEMMA MarkedFailedFacts ==
  ASSUME file \in FileType, NEW n \in nodes
  PROVE  ErrorsAdded(MarkedFailed(n))
<1> DEFINE own == Write(file, n, "error")
           rs == IF CheckForRSLevelErr(own, n) THEN Write(own, RSOf[n], "error") ELSE own
<1>1. n \in Objects /\ RSOf[n] \in Objects /\ Cluster \in Objects
  BY OwnObjects
<1>2. ErrorsAdded(file)
  BY DEF ErrorsAdded
<1>3. ErrorsAdded(own)
  BY <1>1, <1>2, AddError
<1>4. ErrorsAdded(Write(own, RSOf[n], "error"))
  BY <1>1, <1>3, AddError
<1>5. ErrorsAdded(rs)
  BY <1>3, <1>4
<1>6. ErrorsAdded(Write(rs, Cluster, "error"))
  BY <1>1, <1>5, AddError
<1> QED BY <1>5, <1>6 DEF MarkedFailed

\* Where the agents are and what they wait for.
AgentsType ==
  /\ pc \in [nodes -> PCs]
  /\ goal \in [nodes -> Statuses \cup {"none"}]
  /\ left \in [nodes -> SUBSET Objects]
  /\ seen \in [nodes -> SUBSET {"bad", "good", "partly"}]

\* A wait (waitFiles) begins with nothing seen.
LEMMA AwaitType ==
  ASSUME AgentsType, NEW n \in nodes, UNCHANGED nodes,
         NEW step \in PCs, NEW status \in Statuses, NEW objs \in SUBSET Objects,
         Await(n, step, status, objs)
  PROVE  AgentsType'
  BY DEF AgentsType, Await, Go, Objects, Shards

\* toState types its file and its wait.
LEMMA ToStateType ==
  ASSUME AgentsType, file \in FileType, NEW n \in nodes, UNCHANGED nodes,
         NEW status \in Statuses, ToState(n, status)
  PROVE  AgentsType' /\ (file \in FileType)'
<1>1. AgentsType'
  <2>1. Peers(n) \in SUBSET Objects /\ {Cluster} \in SUBSET Objects
    BY OwnObjects
  <2>2. "peers" \in PCs /\ "cluster" \in PCs
    BY DEF PCs, Waits
  <2>3. CASE n \in Primaries \/ status = "done"
    BY <2>1, <2>2, <2>3, AwaitType DEF ToState
  <2>4. CASE ~(n \in Primaries \/ status = "done")
    BY <2>1, <2>2, <2>4, AwaitType DEF ToState
  <2> QED BY <2>3, <2>4
<1>2. (file \in FileType)'
  BY WriteFacts, OwnObjects DEF ToState, FileType, Objects, Shards
<1> QED BY <1>1, <1>2

\* An agent goes on to another point of the procedure.
LEMMA GoType ==
  ASSUME AgentsType, NEW n \in nodes, UNCHANGED <<nodes, goal, left, seen>>,
         NEW step \in PCs, Go(n, step)
  PROVE  AgentsType'
  BY DEF AgentsType, Go, Objects, Shards

\* One object looked at leaves the wait well typed (Look).
LEMMA LookType ==
  ASSUME AgentsType, file \in FileType, NEW n \in nodes, Look(n)
  PROVE  AgentsType' /\ (file \in FileType)'
<1>1. PICK o \in left[n] :
        LET glance == Glance(n, o) IN
        /\ left' = [left EXCEPT ![n] = @ \ {o}]
        /\ seen' = [seen EXCEPT ![n] = @ \cup glance]
        /\ IF "bad" \in glance /\ goal[n] # "done"
           THEN file' = DeferredError(n) /\ Go(n, "failing")
           ELSE UNCHANGED <<file, pc>>
  BY DEF Look
<1>2. Glance(n, o) \subseteq {"bad", "good", "partly"}
  BY DEF Glance
<1>3. UNCHANGED <<nodes, goal>>
  BY DEF Look
<1>4. (file' = DeferredError(n) /\ Go(n, "failing")) \/ UNCHANGED <<file, pc>>
  BY <1>1
<1>5. (file \in FileType)'
  BY <1>3, <1>4, DeferredErrorFacts DEF ErrorsAdded, FileType, Objects, Shards
<1>6. (pc \in [nodes -> PCs])'
  BY <1>3, <1>4 DEF AgentsType, Go, PCs
<1>7. left' \in [nodes -> SUBSET Objects] /\ seen' \in [nodes -> SUBSET {"bad", "good", "partly"}]
  BY <1>1, <1>2 DEF AgentsType
<1> QED BY <1>3, <1>5, <1>6, <1>7 DEF AgentsType, Objects, Shards

\* What a wait ends with is a status.
LEMMA OutcomeFacts ==
  ASSUME NEW n \in nodes
  PROVE  Outcome(n) \in {goal[n], "partlyDone", "error"}
  BY DEF Outcome

\* The work after the cluster has converged begins well typed (toState's callers).
LEMMA ConvergedType ==
  ASSUME AgentsType, file \in FileType, NEW n \in nodes, UNCHANGED <<nodes, opts>>,
         goal[n] \in {"starting", "running", "copyReady", "copyDone", "extTS", "done"}, Converged(n)
  PROVE  AgentsType' /\ (file \in FileType)'
<1> USE DEF Converged
<1>0. Shards \ {Config} \in SUBSET Objects /\ {Cluster} \in SUBSET Objects
  BY DEF Objects
<1>1. /\ {"down", "cluster", "shutdown", "exited", "copy", "patch", "ended", "close"} \subseteq PCs
      /\ {"running", "down", "copyDone"} \subseteq Statuses
  BY DEF PCs, Waits, Over, Statuses
<1>2. UNCHANGED file => (file \in FileType)'
  BY DEF FileType, Objects, Shards
<1>3. CASE goal[n] = "starting"
  BY <1>3, <1>1, ToStateType
<1>4. CASE goal[n] = "running"
  BY <1>4, <1>0, <1>1, <1>2, AwaitType, GoType
<1>5. CASE goal[n] = "copyReady"
  BY <1>5, <1>0, <1>1, <1>2, AwaitType, GoType
<1>6. CASE goal[n] = "copyDone"
  BY <1>6, <1>1, <1>2, GoType
<1>7. CASE goal[n] = "extTS"
  BY <1>7, <1>1, <1>2, GoType
<1>8. CASE goal[n] = "done"
  BY <1>8, <1>1, <1>2, GoType
<1> QED BY <1>3, <1>4, <1>5, <1>6, <1>7, <1>8

\* The end of a wait leaves everything well typed (Settle).
LEMMA SettleType ==
  ASSUME AgentsType, Stage, file \in FileType, NEW n \in nodes, Settle(n)
  PROVE  AgentsType' /\ (file \in FileType)'
<1>0. UNCHANGED <<nodes, opts>> /\ pc[n] \in Waits
  BY DEF Settle
<1>1. /\ RSOf[n] \in Objects /\ Cluster \in Objects
      /\ Shards \in SUBSET Objects /\ {Cluster} \in SUBSET Objects
  BY OwnObjects DEF Objects
<1>2. {"failing", "shards", "cluster", "shutdown"} \subseteq PCs
  BY DEF PCs, Waits
<1>3. UNCHANGED file => (file \in FileType)'
  BY <1>0 DEF FileType, Objects, Shards
<1>4. goal[n] \in Statuses /\ Outcome(n) \in Statuses
  BY <1>0, OutcomeFacts DEF Stage, StageOf, Before, Between, Statuses
<1>5. \A o \in Objects : (file' = Write(file, o, Outcome(n))) => (file \in FileType)'
  <2>1. FileType' = FileType
    BY <1>0 DEF FileType, Objects, Shards
  <2> QED BY <1>4, <2>1, WriteFacts
<1>6. CASE file' = DeferredError(n) /\ Go(n, "failing") /\ UNCHANGED <<goal, left, seen>>
  <2>1. (file \in FileType)'
    BY <1>0, <1>6, DeferredErrorFacts DEF ErrorsAdded, FileType, Objects, Shards
  <2> QED BY <2>1, <1>0, <1>2, <1>6, GoType
<1>7. CASE /\ file' = Write(file, RSOf[n], Outcome(n))
           /\ \/ Await(n, "shards", goal[n], Shards)
              \/ Await(n, "cluster", goal[n], {Cluster})
  BY <1>0, <1>1, <1>2, <1>4, <1>5, <1>7, AwaitType
<1>8. CASE file' = Write(file, Cluster, Outcome(n)) /\ Await(n, "cluster", goal[n], {Cluster})
  BY <1>0, <1>1, <1>2, <1>4, <1>5, <1>8, AwaitType
<1>9. CASE Go(n, "shutdown") /\ UNCHANGED <<file, goal, left, seen>>
  BY <1>0, <1>2, <1>3, <1>9, GoType
<1>10. CASE pc[n] = "cluster" /\ Converged(n)
  <2>1. goal[n] \in {"starting", "running", "copyReady", "copyDone", "extTS", "done"}
    BY <1>0, <1>10 DEF Stage, StageOf, Before, Between
  <2> QED BY <2>1, <1>0, <1>10, ConvergedType
<1>11. pc[n] = "peers" \/ pc[n] = "shards" \/ pc[n] = "down" \/ pc[n] = "cluster"
  BY <1>0 DEF Waits
<1> QED BY <1>6, <1>7, <1>8, <1>9, <1>10, <1>11 DEF Settle

\* What waitClusterStatus returns is in the cluster's files, or an error if nobody beats.
LEMMA ClusterStatusFacts ==
  /\ ClusterStatus \in {"error", "done", "partlyDone", "copyReady", "none"}
  /\ ClusterStatus \in {"done", "partlyDone", "copyReady"} => ClusterStatus \in file[Cluster]
  /\ "error" \in file[Cluster] => ClusterStatus = "error"
  /\ "error" \notin file[Cluster] /\ "done" \in file[Cluster] => ClusterStatus = "done"
  /\ ClusterStatus = "error" => "error" \in file[Cluster] \/ Cluster \in stale
<1> DEFINE final == file[Cluster] \cap {"error", "done", "partlyDone", "copyReady"}
<1>1. CASE "error" \in final
  BY <1>1 DEF FinalStatus, ClusterStatus
<1>2. CASE "error" \notin final /\ "done" \in final
  BY <1>2 DEF FinalStatus, ClusterStatus
<1>3. CASE final \in {{"partlyDone"}, {"partlyDone", "copyReady"}}
  BY <1>3 DEF FinalStatus, ClusterStatus
<1>4. CASE final = {"copyReady"}
  BY <1>4 DEF FinalStatus, ClusterStatus
<1>5. CASE final = {}
  BY <1>5 DEF FinalStatus, ClusterStatus
<1> QED BY <1>1, <1>2, <1>3, <1>4, <1>5

\* The other steps of an agent leave where it is and the files well typed.
LEMMA OtherStepsType ==
  ASSUME AgentsType, file \in FileType, NEW n \in nodes,
         \/ Prepare(n) \/ Shutdown(n) \/ Flush(n) \/ PhysRestoreFinish(n) \/ CopyFiles(n)
         \/ PatchSysData(n) \/ MarkFailed(n) \/ WaitClusterStatus(n) \/ Cleanup(n) \/ Crash(n)
  PROVE  AgentsType' /\ (file \in FileType)'
<1>0. UNCHANGED <<nodes, opts>>
  BY DEF Prepare, Shutdown, Flush, PhysRestoreFinish, CopyFiles, PatchSysData, MarkFailed,
         WaitClusterStatus, Cleanup, Crash
<1>1. /\ RSOf[n] \in Objects /\ Cluster \in Objects
      /\ Shards \in SUBSET Objects /\ {Cluster} \in SUBSET Objects
  BY OwnObjects DEF Objects
<1>2. /\ {"failing", "shards", "cluster", "move", "copy", "patch", "ended", "close", "cleanup", "dead"} \subseteq PCs
      /\ {"starting", "down", "copyReady", "copyDone", "extTS", "txn", "done", "error", "partlyDone"} \subseteq Statuses
  BY DEF PCs, Waits, Over, Statuses
<1>3. UNCHANGED file => (file \in FileType)'
  BY <1>0 DEF FileType, Objects, Shards
<1>4. \A o \in Objects, st \in Statuses : (file' = Write(file, o, st)) => (file \in FileType)'
  <2>1. FileType' = FileType
    BY <1>0 DEF FileType, Objects, Shards
  <2> QED BY <2>1, WriteFacts
<1>5. CASE Prepare(n)
  BY <1>0, <1>2, <1>3, <1>5, ToStateType, GoType DEF Prepare, CheckMongodFails
<1>6. CASE Shutdown(n)
  <2>1. file' = file \/ file' = Write(file, RSOf[n], "down")
    BY <1>6 DEF Shutdown, ShutdownFails
  <2> QED BY <2>1, <1>0, <1>1, <1>2, <1>3, <1>4, <1>6, GoType DEF Shutdown, ShutdownFails
<1>7. CASE Flush(n)
  BY <1>0, <1>2, <1>3, <1>7, ToStateType, GoType DEF Flush
<1>8. CASE PhysRestoreFinish(n)
  BY <1>0, <1>1, <1>2, <1>3, <1>8, AwaitType DEF PhysRestoreFinish
<1>9. CASE CopyFiles(n)
  <2>1. CASE AgreeCommonRestoreTS(n)
    BY <2>1, <1>0, <1>1, <1>2, <1>4, AwaitType DEF AgreeCommonRestoreTS
  <2>2. CASE ~AgreeCommonRestoreTS(n)
    <3>1. file' = file \/ file' = Write(file, RSOf[n], "txn")
      BY <1>9, <2>2 DEF CopyFiles
    <3>2. UNCHANGED <<goal, left, seen>> /\ (Go(n, "patch") \/ Go(n, "failing"))
      BY <1>9, <2>2 DEF CopyFiles
    <3> QED BY <3>1, <3>2, <1>0, <1>1, <1>2, <1>3, <1>4, GoType
  <2> QED BY <2>1, <2>2
<1>10. CASE PatchSysData(n)
  BY <1>0, <1>2, <1>3, <1>10, ToStateType, GoType DEF PatchSysData, StartMongoFails
<1>11. CASE MarkFailed(n)
  <2>1. file' = file \/ file' = MarkedFailed(n)
    BY <1>11 DEF MarkFailed
  <2>2. (file \in FileType)'
    BY <2>1, <1>0, <1>3, MarkedFailedFacts DEF ErrorsAdded, FileType, Objects, Shards
  <2> QED BY <2>2, <1>0, <1>2, <1>11, GoType DEF MarkFailed
<1>12. CASE WaitClusterStatus(n)
  <2>1. ClusterStatus \in Statuses
    BY <1>2, <1>12, ClusterStatusFacts DEF WaitClusterStatus
  <2> QED BY <2>1, <1>0, <1>2, <1>3, <1>12 DEF WaitClusterStatus, Go, AgentsType, Objects, Shards
<1>13. CASE Cleanup(n)
  <2>1. file' = file \/ file' = Write(file, Cluster, "error")
    BY <1>13 DEF Cleanup, MarkAsFallback
  <2> QED BY <2>1, <1>0, <1>1, <1>2, <1>3, <1>4, <1>13, GoType DEF Cleanup
<1>14. CASE Crash(n)
  BY <1>0, <1>2, <1>3, <1>14, GoType DEF Crash
<1> QED BY <1>5, <1>6, <1>7, <1>8, <1>9, <1>10, <1>11, <1>12, <1>13, <1>14

\* The servers, their data and the agents' account of them.
DataType ==
  /\ stale \subseteq Objects
  /\ up \in [nodes -> BOOLEAN]
  /\ db \in [nodes -> Data] /\ kept \in [nodes -> {"none", "part", "old"}]
  /\ progress \in [nodes -> {{}, {"started"}, {"started", "done"}}]
  /\ faults \in 0..MaxFaults

\* Every step of an agent leaves the data well typed; what is noted in progress
\* is noted in the order of the procedure (flush, then recoverStandalone and the rest).
LEMMA StepDataType ==
  ASSUME DataType, Stage, NEW n \in nodes, Step(n) \/ Crash(n)
  PROVE  DataType'
<1>0. UNCHANGED <<nodes, opts>>
  BY DEF Step, Prepare, Look, Settle, Shutdown, Flush, PhysRestoreFinish, CopyFiles, PatchSysData,
         MarkFailed, WaitClusterStatus, Cleanup, Crash
<1>1. Objects' = Objects
  BY <1>0 DEF Objects, Shards
<1>2. \A f \in Faults : Faulty(f) => faults' \in 0..MaxFaults
  BY FaultsAssumption DEF Faulty, DataType
<1>3. \A f : Faulty(f) => f \in Faults
  BY DEF Faulty
<1> USE DEF DataType
<1>4. CASE Prepare(n)
  BY <1>0, <1>1, <1>2, <1>3, <1>4 DEF Prepare, CheckMongodFails
<1>5. CASE Look(n)
  BY <1>0, <1>1, <1>5 DEF Look
<1>6. CASE Settle(n)
  BY <1>0, <1>1, <1>6 DEF Settle
<1>7. CASE Shutdown(n)
  <2>1. (up \in [nodes -> BOOLEAN])'
    BY <1>0, <1>7 DEF Shutdown, ShutdownFails
  <2> QED BY <2>1, <1>0, <1>1, <1>2, <1>3, <1>7 DEF Shutdown, ShutdownFails
<1>8. CASE Flush(n)
  <2>1. progress[n] = {} /\ UNCHANGED <<stale, up>>
    BY <1>8 DEF Flush, Stage, StageOf
  <2>2. (progress \in [nodes -> {{}, {"started"}, {"started", "done"}}])'
    BY <2>1, <1>0, <1>8 DEF Flush, Note
  <2>3. (db \in [nodes -> Data] /\ kept \in [nodes -> {"none", "part", "old"}])'
    BY <1>0, <1>8 DEF Flush, MigrateDBDirToFallbackDir, Data
  <2>4. faults' \in 0..MaxFaults
    BY <1>2, <1>3, <1>8 DEF Flush
  <2> QED BY <2>1, <2>2, <2>3, <2>4, <1>0, <1>1
<1>9. CASE PhysRestoreFinish(n)
  BY <1>0, <1>1, <1>9 DEF PhysRestoreFinish
<1>10. CASE CopyFiles(n)
  <2>1. (db \in [nodes -> Data] /\ kept \in [nodes -> {"none", "part", "old"}])'
    BY <1>0, <1>10 DEF CopyFiles, CleanupDatadir, Data
  <2>2. faults' \in 0..MaxFaults /\ UNCHANGED <<stale, up, progress>>
    BY <1>2, <1>3, <1>10 DEF CopyFiles
  <2> QED BY <2>1, <2>2, <1>0, <1>1
<1>11. CASE PatchSysData(n)
  <2>1. progress[n] = {"started"} /\ UNCHANGED <<stale, up, kept>>
    BY <1>11 DEF PatchSysData, Stage, StageOf
  <2>2. (progress \in [nodes -> {{}, {"started"}, {"started", "done"}}])'
    BY <2>1, <1>0, <1>11 DEF PatchSysData, Note
  <2>3. (db \in [nodes -> Data])' /\ faults' \in 0..MaxFaults
    BY <1>0, <1>2, <1>3, <1>11 DEF PatchSysData, StartMongoFails, Data
  <2> QED BY <2>1, <2>2, <2>3, <1>0, <1>1
<1>12. CASE MarkFailed(n)
  BY <1>0, <1>1, <1>12 DEF MarkFailed
<1>13. CASE WaitClusterStatus(n)
  BY <1>0, <1>1, <1>13 DEF WaitClusterStatus
<1>14. CASE Cleanup(n)
  <2>1. (db \in [nodes -> Data])'
    BY <1>0, <1>14 DEF Cleanup, MigrateFromFallbackDirToDBDir, Data
  <2>2. (kept \in [nodes -> {"none", "part", "old"}])'
    BY <1>0, <1>14 DEF Cleanup
  <2>3. faults' \in 0..MaxFaults /\ UNCHANGED <<stale, up, progress>>
    BY <1>2, <1>3, <1>14 DEF Cleanup, MigrateFromFallbackDirToDBDir
  <2> QED BY <2>1, <2>2, <2>3, <1>0, <1>1
<1>15. CASE Crash(n)
  BY <1>0, <1>1, <1>2, <1>3, <1>15 DEF Crash
<1> QED BY <1>4, <1>5, <1>6, <1>7, <1>8, <1>9, <1>10, <1>11, <1>12, <1>13, <1>14, <1>15 DEF Step

\* Every step keeps the types.
LEMMA StepType == TypeOK /\ Stage /\ [Next]_vars => TypeOK'
<1> SUFFICES ASSUME TypeOK, Stage, [Next]_vars
             PROVE  TypeOK'
  OBVIOUS
<1>1. AgentsType /\ file \in FileType /\ DataType
  BY DEF TypeOK, AgentsType, FileType, DataType, Objects
<1>2. nodes \in Clusters /\ opts \in {DisableFallbackForOldBackup(o) : o \in Options} /\ UNCHANGED <<nodes, opts>>
  BY DEF TypeOK, Next, vars, Step, Prepare, Look, Settle, Shutdown, Flush, PhysRestoreFinish, CopyFiles,
         PatchSysData, MarkFailed, WaitClusterStatus, Cleanup, Crash, CopyDone, Expire
<1>3. FileType' = FileType /\ Objects' = Objects
  BY <1>2 DEF FileType, Objects, Shards
<1>4. SUFFICES AgentsType' /\ file' \in FileType /\ DataType'
  BY <1>2, <1>3 DEF TypeOK, AgentsType, FileType, DataType, Objects
<1>5. CASE \E n \in nodes : Step(n) \/ Crash(n)
  <2>1. PICK n \in nodes : Step(n) \/ Crash(n)
    BY <1>5
  <2>2. DataType'
    BY <2>1, <1>1, StepDataType
  <2>3. AgentsType' /\ (file \in FileType)'
    BY <2>1, <1>1, LookType, SettleType, OtherStepsType DEF Step
  <2> QED BY <2>2, <2>3, <1>3
<1>6. CASE CopyDone
  <2>1. "copyDone" \in Statuses /\ Cluster \in Objects
    BY DEF Statuses, Objects
  <2>2. file' \in FileType
    BY <2>1, <1>1, <1>6, WriteFacts DEF CopyDone
  <2> QED BY <2>2, <1>1, <1>2, <1>3, <1>6 DEF CopyDone, AgentsType, DataType
<1>7. CASE Expire
  BY <1>1, <1>2, <1>3, <1>7 DEF Expire, AgentsType, DataType, Objects
<1>8. CASE UNCHANGED vars
  BY <1>1, <1>2, <1>3, <1>8 DEF vars, AgentsType, DataType
<1> QED BY <1>5, <1>6, <1>7, <1>8 DEF Next

----------------------------------------------------------------------------
(* How far the agents are. *)

\* The part of the state that tells how far an agent is.
Place(n) == <<pc[n], goal[n], progress[n]>>

\* Init: nobody has begun.
LEMMA InitStage == Init => Stage
  BY DEF Init, Stage, StageOf, Waits

\* A step of one agent does not move another.
LEMMA StepPlaces ==
  ASSUME TypeOK, Stage, NEW n \in nodes, Step(n) \/ Crash(n), NEW m \in nodes, m # n
  PROVE  Place(m)' = Place(m) /\ left'[m] = left[m] /\ seen'[m] = seen[m]
<1> USE DEF Place, TypeOK, Go, Await, ToState
<1>1. CASE Prepare(n)
  BY <1>1 DEF Prepare, CheckMongodFails
<1>2. CASE Look(n)
  BY <1>2 DEF Look
<1>3. CASE Settle(n)
  <2>0. UNCHANGED progress /\ pc[n] \in Waits
    BY <1>3 DEF Settle
  <2>1. CASE \E step \in {"failing", "shutdown"} : Go(n, step) /\ UNCHANGED <<goal, left, seen>>
    BY <2>0, <2>1
  <2>2. CASE \E step \in {"shards", "cluster"}, objs \in {Shards, {Cluster}} : Await(n, step, goal[n], objs)
    BY <2>0, <2>2
  <2>3. CASE pc[n] = "cluster" /\ Converged(n)
    <3>1. goal[n] \in {"starting", "running", "copyReady", "copyDone", "extTS", "done"}
      BY <2>0, <2>3 DEF Stage, StageOf, Before, Between
    <3>2. pc'[m] = pc[m]
      <4>1. pc' = [pc EXCEPT ![n] = pc'[n]]
        BY <2>3, <3>1 DEF Converged
      <4> QED BY <4>1
    <3>3. goal'[m] = goal[m] /\ left'[m] = left[m] /\ seen'[m] = seen[m]
      BY <2>3, <3>1 DEF Converged
    <3> QED BY <2>0, <3>2, <3>3
  <2>4. pc[n] = "peers" \/ pc[n] = "shards" \/ pc[n] = "down" \/ pc[n] = "cluster"
    BY <2>0 DEF Waits
  <2> QED BY <2>1, <2>2, <2>3, <2>4, <1>3 DEF Settle
<1>4. CASE Shutdown(n)
  BY <1>4 DEF Shutdown, ShutdownFails
<1>5. CASE Flush(n)
  BY <1>5 DEF Flush, Note
<1>6. CASE PhysRestoreFinish(n)
  BY <1>6 DEF PhysRestoreFinish
<1>7. CASE CopyFiles(n)
  BY <1>7 DEF CopyFiles, AgreeCommonRestoreTS
<1>8. CASE PatchSysData(n)
  BY <1>8 DEF PatchSysData, StartMongoFails, Note
<1>9. CASE MarkFailed(n)
  BY <1>9 DEF MarkFailed
<1>10. CASE WaitClusterStatus(n)
  BY <1>10 DEF WaitClusterStatus
<1>11. CASE Cleanup(n)
  BY <1>11 DEF Cleanup
<1>12. CASE Crash(n)
  BY <1>12 DEF Crash
<1> QED BY <1>1, <1>2, <1>3, <1>4, <1>5, <1>6, <1>7, <1>8, <1>9, <1>10, <1>11, <1>12 DEF Step

\* The agent that moves is as far as its place in the procedure says.
LEMMA OwnStage ==
  ASSUME TypeOK, Stage, NEW n \in nodes, Step(n) \/ Crash(n)
  PROVE  StageOf(n)'
<1>0. StageOf(n) /\ pc[n] \in PCs
  BY DEF Stage, TypeOK
<1> USE DEF TypeOK, StageOf, Waits, Over, Before, Between, Go, Await, ToState
<1>1. CASE Prepare(n)
  BY <1>0, <1>1 DEF Prepare, CheckMongodFails
<1>2. CASE Look(n)
  BY <1>0, <1>2 DEF Look
<1>3. CASE Settle(n)
  <2>0. UNCHANGED progress /\ pc[n] \in Waits
    BY <1>3 DEF Settle
  <2>1. CASE Go(n, "failing")
    BY <2>0, <2>1, <1>0
  <2>2. CASE /\ pc[n] \in {"peers", "shards"}
             /\ \E step \in {"shards", "cluster"}, objs \in {Shards, {Cluster}} : Await(n, step, goal[n], objs)
    BY <2>0, <2>2, <1>0
  <2>3. CASE pc[n] = "down" /\ Go(n, "shutdown")
    BY <2>0, <2>3, <1>0
  <2>4. CASE pc[n] = "cluster" /\ Converged(n)
    <3>1. goal[n] = "starting" \/ goal[n] = "running" \/ goal[n] = "copyReady" \/ goal[n] = "copyDone"
             \/ goal[n] = "extTS" \/ goal[n] = "done"
      BY <2>0, <2>4, <1>0
    <3>2. CASE goal[n] = "starting"
      BY <3>2, <2>0, <2>4, <1>0 DEF Converged
    <3>3. CASE goal[n] = "running"
      BY <3>3, <2>0, <2>4, <1>0 DEF Converged
    <3>4. CASE goal[n] = "copyReady"
      BY <3>4, <2>0, <2>4, <1>0 DEF Converged
    <3>5. CASE goal[n] = "copyDone"
      BY <3>5, <2>0, <2>4, <1>0 DEF Converged
    <3>6. CASE goal[n] = "extTS"
      BY <3>6, <2>0, <2>4, <1>0 DEF Converged
    <3>7. CASE goal[n] = "done"
      BY <3>7, <2>0, <2>4, <1>0 DEF Converged
    <3> QED BY <3>1, <3>2, <3>3, <3>4, <3>5, <3>6, <3>7
  <2>5. pc[n] = "peers" \/ pc[n] = "shards" \/ pc[n] = "down" \/ pc[n] = "cluster"
    BY <2>0
  <2> QED BY <2>1, <2>2, <2>3, <2>4, <2>5, <1>3 DEF Settle
<1>4. CASE Shutdown(n)
  BY <1>0, <1>4 DEF Shutdown, ShutdownFails
<1>5. CASE Flush(n)
  BY <1>0, <1>5 DEF Flush, Note
<1>6. CASE PhysRestoreFinish(n)
  BY <1>0, <1>6 DEF PhysRestoreFinish
<1>7. CASE CopyFiles(n)
  BY <1>0, <1>7 DEF CopyFiles, AgreeCommonRestoreTS
<1>8. CASE PatchSysData(n)
  BY <1>0, <1>8 DEF PatchSysData, StartMongoFails, Note
<1>9. CASE MarkFailed(n)
  BY <1>0, <1>9 DEF MarkFailed
<1>10. CASE WaitClusterStatus(n)
  BY <1>0, <1>10 DEF WaitClusterStatus
<1>11. CASE Cleanup(n)
  BY <1>0, <1>11 DEF Cleanup
<1>12. CASE Crash(n)
  BY <1>0, <1>12 DEF Crash
<1> QED BY <1>1, <1>2, <1>3, <1>4, <1>5, <1>6, <1>7, <1>8, <1>9, <1>10, <1>11, <1>12 DEF Step

\* What every step of an agent leaves alone.
LEMMA StepKeeps ==
  ASSUME NEW n \in nodes, Step(n) \/ Crash(n)
  PROVE  UNCHANGED <<nodes, opts>>
  BY DEF Step, Prepare, Look, Settle, Shutdown, Flush, PhysRestoreFinish, CopyFiles, PatchSysData,
         MarkFailed, WaitClusterStatus, Cleanup, Crash

\* Every step keeps the stages.
LEMMA StepStage == TypeOK /\ Stage /\ [Next]_vars => Stage'
<1> SUFFICES ASSUME TypeOK, Stage, [Next]_vars
             PROVE  Stage'
  OBVIOUS
<1>1. ASSUME NEW n \in nodes, Step(n) \/ Crash(n)
      PROVE  Stage'
  <2> SUFFICES ASSUME NEW m \in nodes'
               PROVE  StageOf(m)'
    BY DEF Stage
  <2>1. m \in nodes
    BY <1>1, StepKeeps
  <2>2. CASE m = n
    BY <2>2, <1>1, OwnStage
  <2>3. CASE m # n
    <3>1. Place(m)' = Place(m) /\ StageOf(m)
      BY <2>1, <2>3, <1>1, StepPlaces DEF Stage
    <3> QED BY <3>1 DEF Place, StageOf
  <2> QED BY <2>2, <2>3
<1>2. CASE UNCHANGED <<nodes, pc, goal, progress>>
  BY <1>2 DEF Stage, StageOf
<1> QED BY <1>1, <1>2 DEF Next, CopyDone, Expire, vars

----------------------------------------------------------------------------
(* What is written. *)

Ends == {"done", "partlyDone"}

\* Files are only added to, and only statuses of S.
Adds(S) == \A x \in Objects : file[x] \subseteq file'[x] /\ file'[x] \subseteq file[x] \cup S

\* Writing one status, or none, adds just that.
LEMMA WriteAdds ==
  ASSUME file \in FileType, NEW o \in Objects, NEW st \in Statuses, NEW S, st \in S,
         file' = file \/ file' = Write(file, o, st)
  PROVE  Adds(S)
<1>1. \A x \in Objects : Write(file, o, st)[x] = IF x = o THEN file[x] \cup {st} ELSE file[x]
  BY WriteFacts
<1>2. CASE file' = file
  BY <1>2 DEF Adds
<1>3. CASE file' = Write(file, o, st)
  BY <1>1, <1>3 DEF Adds
<1> QED BY <1>2, <1>3

\* Only the end of the patching and the end of a wait can tell of an end of the restore.
LEMMA QuietSteps ==
  ASSUME TypeOK, NEW n \in nodes, Step(n) \/ Crash(n), ~Settle(n), ~PatchSysData(n)
  PROVE  Adds(Statuses \ Ends)
<1>0. file \in FileType
  BY DEF TypeOK, FileType, Objects
<1>1. n \in Objects /\ RSOf[n] \in Objects /\ Cluster \in Objects
  BY OwnObjects
<1>2. {"starting", "down", "copyReady", "extTS", "txn", "error"} \subseteq Statuses \ Ends
  BY DEF Statuses, Ends
<1>3. (UNCHANGED file \/ ErrorsAdded(file')) => Adds(Statuses \ Ends)
  BY <1>2 DEF ErrorsAdded, Adds
<1>4. \A o \in Objects, st \in Statuses \ Ends :
        file' = file \/ file' = Write(file, o, st) => Adds(Statuses \ Ends)
  BY <1>0, WriteAdds
<1>5. CASE Prepare(n)
  BY <1>1, <1>2, <1>4, <1>5 DEF Prepare, ToState
<1>6. CASE Look(n)
  <2>1. file' = file \/ file' = DeferredError(n)
    BY <1>6 DEF Look
  <2> QED BY <2>1, <1>0, <1>3, DeferredErrorFacts
<1>7. CASE Shutdown(n)
  BY <1>1, <1>2, <1>4, <1>7 DEF Shutdown, ShutdownFails
<1>8. CASE Flush(n)
  BY <1>1, <1>2, <1>4, <1>8 DEF Flush, ToState
<1>9. CASE CopyFiles(n)
  <2>1. file' = file \/ file' = Write(file, RSOf[n], "extTS") \/ file' = Write(file, RSOf[n], "txn")
    BY <1>9 DEF CopyFiles, AgreeCommonRestoreTS
  <2> QED BY <2>1, <1>1, <1>2, <1>4
<1>10. CASE MarkFailed(n)
  <2>1. file' = file \/ file' = MarkedFailed(n)
    BY <1>10 DEF MarkFailed
  <2> QED BY <2>1, <1>0, <1>3, MarkedFailedFacts
<1>11. CASE Cleanup(n)
  <2>1. file' = file \/ file' = Write(file, Cluster, "error")
    BY <1>11 DEF Cleanup, MarkAsFallback
  <2> QED BY <2>1, <1>1, <1>2, <1>4
<1>12. CASE PhysRestoreFinish(n) \/ WaitClusterStatus(n) \/ Crash(n)
  BY <1>3, <1>12 DEF PhysRestoreFinish, WaitClusterStatus, Crash
<1> QED BY <1>5, <1>6, <1>7, <1>8, <1>9, <1>10, <1>11, <1>12 DEF Step

\* The end of a wait writes its outcome, an error, or the next state (toState).
LEMMA SettleWrites ==
  ASSUME Stage, NEW n \in nodes, Settle(n)
  PROVE  \/ file' = DeferredError(n)
         \/ Outcome(n) # "error" /\ pc[n] = "peers" /\ file' = Write(file, RSOf[n], Outcome(n))
         \/ Outcome(n) # "error" /\ pc[n] = "shards" /\ file' = Write(file, Cluster, Outcome(n))
         \/ file' = Write(file, n, "running")
         \/ UNCHANGED file
<1>1. CASE pc[n] = "cluster" /\ Converged(n)
  <2>1. goal[n] \in {"starting", "running", "copyReady", "copyDone", "extTS", "done"}
    BY <1>1 DEF Stage, StageOf, Before, Between, Waits
  <2> QED BY <2>1, <1>1 DEF Converged, ToState
<1>2. pc[n] = "peers" \/ pc[n] = "shards" \/ pc[n] = "down" \/ pc[n] = "cluster"
  BY DEF Settle, Waits
<1> QED BY <1>1, <1>2 DEF Settle

\* No step loses what is in a file.
LEMMA StepGrows ==
  ASSUME TypeOK, Stage, [Next]_vars
  PROVE  Adds(Statuses)
<1>0. file \in FileType
  BY DEF TypeOK, FileType, Objects
<1>1. ASSUME NEW n \in nodes, Step(n) \/ Crash(n)
      PROVE  Adds(Statuses)
  <2>1. n \in Objects /\ RSOf[n] \in Objects /\ Cluster \in Objects
    BY OwnObjects
  <2>2. CASE Settle(n)
    <3>1. goal[n] \in Statuses
      BY <2>2 DEF Settle, Stage, StageOf, Before, Between, Statuses
    <3>2. Outcome(n) \in Statuses /\ "running" \in Statuses /\ "error" \in Statuses
      BY <3>1, OutcomeFacts DEF Statuses
    <3>3. file' = DeferredError(n) => Adds(Statuses)
      BY <3>2, <1>0, DeferredErrorFacts DEF ErrorsAdded, Adds
    <3> QED BY <3>2, <3>3, <2>1, <2>2, <1>0, SettleWrites, WriteAdds
  <2>3. CASE PatchSysData(n)
    <3>1. file' = file \/ file' = Write(file, n, "done")
      BY <2>3 DEF PatchSysData, ToState
    <3> QED BY <3>1, <2>1, <1>0, WriteAdds DEF Statuses
  <2>4. CASE ~Settle(n) /\ ~PatchSysData(n)
    BY <2>4, <1>1, QuietSteps DEF Adds
  <2> QED BY <2>2, <2>3, <2>4
<1>2. CASE CopyDone
  <2>1. Cluster \in Objects /\ "copyDone" \in Statuses
    BY DEF Objects, Statuses
  <2> QED BY <2>1, <1>0, <1>2, WriteAdds DEF CopyDone
<1>3. CASE UNCHANGED file
  BY <1>3 DEF Adds
<1> QED BY <1>1, <1>2, <1>3 DEF Next, Expire, vars

----------------------------------------------------------------------------
(* What has been seen stays so. *)

\* Init: nobody waits.
LEMMA InitLooks == Init => Looks
  BY DEF Init, Looks, LooksOf, Waits

\* What an agent waits for has files.
LEMMA TargetsAreObjects ==
  ASSUME NEW n \in nodes
  PROVE  Targets(n) \subseteq Objects
  BY OwnObjects DEF Targets, Objects

\* An agent that stays where it is has seen what is still so, for files only grow.
LEMMA LooksStay ==
  ASSUME NEW m \in nodes, LooksOf(m), Adds(Statuses), UNCHANGED nodes,
         pc'[m] = pc[m], goal'[m] = goal[m], left'[m] = left[m], seen'[m] = seen[m]
  PROVE  LooksOf(m)'
<1>1. Targets(m)' = Targets(m) /\ Targets(m) \subseteq Objects
  BY TargetsAreObjects DEF Targets, Peers, Shards
<1>2. \A o \in Targets(m) : file[o] \subseteq file'[o]
  BY <1>1 DEF Adds
<1>3. \A o \in Targets(m) : PartlyThere(m, o) => PartlyThere(m, o)'
  BY <1>2 DEF PartlyThere
<1> QED BY <1>1, <1>2, <1>3 DEF LooksOf

\* Where the objects of a wait come from.
Suits(n, step, objs) ==
  \/ step = "peers" /\ objs = Peers(n)
  \/ step = "shards" /\ objs = Shards
  \/ step = "down" /\ objs = Shards \ {Config}
  \/ step = "cluster" /\ objs = {Cluster}

\* A wait begins with everything to be looked at.
LEMMA LooksBegin ==
  ASSUME TypeOK, NEW n \in nodes, NEW step, NEW status, NEW objs, Suits(n, step, objs),
         Await(n, step, status, objs), UNCHANGED nodes
  PROVE  LooksOf(n)'
<1>1. pc'[n] = step /\ left'[n] = objs /\ seen'[n] = {}
  BY DEF TypeOK, Await, Go
<1>2. Targets(n)' = objs
  BY <1>1 DEF Suits, Targets, Peers, Shards
<1> QED BY <1>1, <1>2 DEF LooksOf

\* toState begins such a wait.
LEMMA LooksBeginToState ==
  ASSUME TypeOK, NEW n \in nodes, NEW status, ToState(n, status), UNCHANGED nodes
  PROVE  LooksOf(n)'
<1>1. CASE Await(n, "peers", status, Peers(n))
  BY <1>1, LooksBegin DEF Suits
<1>2. CASE Await(n, "cluster", status, {Cluster})
  BY <1>2, LooksBegin DEF Suits
<1> QED BY <1>1, <1>2 DEF ToState

\* An agent that does not wait has nothing to look at.
LEMMA LooksNowhere ==
  ASSUME TypeOK, NEW n \in nodes, NEW step, step \notin Waits, Go(n, step)
  PROVE  LooksOf(n)'
  BY DEF TypeOK, Go, LooksOf

\* One more object is looked at (Look).
LEMMA LooksLook ==
  ASSUME TypeOK, Stage, Looks, NEW n \in nodes, Look(n)
  PROVE  LooksOf(n)'
<1>0. PICK o \in left[n] :
        LET glance == Glance(n, o) IN
        /\ glance # {}
        /\ left' = [left EXCEPT ![n] = @ \ {o}]
        /\ seen' = [seen EXCEPT ![n] = @ \cup glance]
        /\ IF "bad" \in glance /\ goal[n] # "done"
           THEN file' = DeferredError(n) /\ Go(n, "failing")
           ELSE UNCHANGED <<file, pc>>
  BY DEF Look
<1>1. CASE Go(n, "failing")
  BY <1>1, LooksNowhere DEF Waits
<1>2. CASE UNCHANGED <<file, pc>> /\ ("bad" \in Glance(n, o) => goal[n] = "done")
  <2>1. /\ UNCHANGED <<nodes, goal>> /\ pc[n] \in Waits
        /\ left'[n] = left[n] \ {o} /\ seen'[n] = seen[n] \cup Glance(n, o)
    BY <1>0 DEF Look, TypeOK
  <2>2. Targets(n)' = Targets(n)
    BY <1>2, <2>1 DEF Targets, Peers, Shards
  <2>3. /\ left[n] \subseteq Targets(n) /\ o \in Targets(n)
        /\ \A x \in Targets(n) \ left[n] :
             \/ "bad" \in seen[n]
             \/ goal[n] \in file[x]
             \/ PartlyThere(n, x) /\ "partly" \in seen[n]
        /\ "good" \in seen[n] => \E x \in Targets(n) : goal[n] \in file[x] \/ PartlyThere(n, x)
        /\ goal[n] # "done" => seen[n] \subseteq {"good"}
    BY <2>1, <1>0 DEF Looks, LooksOf
  <2>4. \/ Glance(n, o) = {"bad"}
        \/ Glance(n, o) = {"good"} /\ goal[n] \in file[o]
        \/ Glance(n, o) = {"good", "partly"} /\ PartlyThere(n, o)
    BY <1>0 DEF Glance, PartlyThere
  <2>5. \A x : PartlyThere(n, x)' <=> PartlyThere(n, x)
    BY <1>2, <2>1 DEF PartlyThere
  <2>6. (left[n] \subseteq Targets(n))'
    BY <2>1, <2>2, <2>3
  <2>7. \A x \in Targets(n) \ left'[n] :
             \/ "bad" \in seen'[n]
             \/ goal[n] \in file[x]
             \/ PartlyThere(n, x) /\ "partly" \in seen'[n]
    BY <2>1, <2>3, <2>4
  <2>8. "good" \in seen'[n] => \E x \in Targets(n) : goal[n] \in file[x] \/ PartlyThere(n, x)
    BY <2>1, <2>3, <2>4
  <2>9. goal[n] # "done" => seen'[n] \subseteq {"good"}
    BY <1>2, <2>1, <2>3, <2>4 DEF PartlyThere
  <2> QED BY <1>2, <2>1, <2>2, <2>5, <2>6, <2>7, <2>8, <2>9 DEF LooksOf
<1> QED BY <1>0, <1>1, <1>2

\* The end of a wait is the beginning of the next, or of work (Settle).
LEMMA LooksSettle ==
  ASSUME TypeOK, Stage, NEW n \in nodes, Settle(n)
  PROVE  LooksOf(n)'
<1>0. UNCHANGED <<nodes, opts>> /\ pc[n] \in Waits
  BY DEF Settle
<1>1. \A step \in {"failing", "shutdown", "exited", "copy", "patch", "ended", "close"} :
        Go(n, step) => LooksOf(n)'
  <2>1. \A step \in {"failing", "shutdown", "exited", "copy", "patch", "ended", "close"} : step \notin Waits
    BY DEF Waits
  <2> QED BY <2>1, LooksNowhere
<1>2. CASE \/ Await(n, "shards", goal[n], Shards)
           \/ Await(n, "cluster", goal[n], {Cluster})
  <2>1. Suits(n, "shards", Shards) /\ Suits(n, "cluster", {Cluster})
    BY DEF Suits
  <2> QED BY <2>1, <1>0, <1>2, LooksBegin
<1>3. CASE pc[n] = "cluster" /\ Converged(n)
  <2>1. goal[n] = "starting" \/ goal[n] = "running" \/ goal[n] = "copyReady" \/ goal[n] = "copyDone"
           \/ goal[n] = "extTS" \/ goal[n] = "done"
    BY <1>0, <1>3 DEF Stage, StageOf, Before, Between
  <2>2. Suits(n, "down", Shards \ {Config}) /\ Suits(n, "cluster", {Cluster})
    BY DEF Suits
  <2>3. CASE goal[n] = "starting"
    BY <2>3, <1>0, <1>3, LooksBeginToState DEF Converged
  <2>4. CASE goal[n] = "running"
    BY <2>4, <2>2, <1>0, <1>1, <1>3, LooksBegin DEF Converged
  <2>5. CASE goal[n] = "copyReady"
    BY <2>5, <2>2, <1>0, <1>1, <1>3, LooksBegin DEF Converged
  <2>6. CASE goal[n] \in {"copyDone", "extTS", "done"}
    BY <2>6, <1>1, <1>3 DEF Converged
  <2> QED BY <2>1, <2>3, <2>4, <2>5, <2>6
<1>4. pc[n] = "peers" \/ pc[n] = "shards" \/ pc[n] = "down" \/ pc[n] = "cluster"
  BY <1>0 DEF Waits
<1> QED BY <1>1, <1>2, <1>3, <1>4 DEF Settle

\* The agent that moves has seen what is so.
LEMMA OwnLooks ==
  ASSUME TypeOK, Stage, Looks, NEW n \in nodes, Step(n) \/ Crash(n)
  PROVE  LooksOf(n)'
<1>0. UNCHANGED <<nodes, opts>>
  BY StepKeeps
<1>1. \A step \in {"failing", "move", "copy", "patch", "ended", "close", "cleanup", "dead"} :
        Go(n, step) => LooksOf(n)'
  <2>1. \A step \in {"failing", "move", "copy", "patch", "ended", "close", "cleanup", "dead"} : step \notin Waits
    BY DEF Waits
  <2> QED BY <2>1, LooksNowhere
<1>2. \A status : ToState(n, status) => LooksOf(n)'
  BY <1>0, LooksBeginToState
<1>3. \A status :
        Await(n, "cluster", status, {Cluster}) \/ Await(n, "shards", status, Shards) => LooksOf(n)'
  <2>1. Suits(n, "shards", Shards) /\ Suits(n, "cluster", {Cluster})
    BY DEF Suits
  <2> QED BY <2>1, <1>0, LooksBegin
<1>4. CASE Prepare(n)
  BY <1>1, <1>2, <1>4 DEF Prepare, CheckMongodFails
<1>5. CASE Shutdown(n)
  BY <1>1, <1>5 DEF Shutdown, ShutdownFails
<1>6. CASE Flush(n)
  BY <1>1, <1>2, <1>6 DEF Flush
<1>7. CASE PhysRestoreFinish(n)
  BY <1>3, <1>7 DEF PhysRestoreFinish
<1>8. CASE CopyFiles(n)
  BY <1>1, <1>3, <1>8 DEF CopyFiles, AgreeCommonRestoreTS
<1>9. CASE PatchSysData(n)
  BY <1>1, <1>2, <1>9 DEF PatchSysData, StartMongoFails
<1>10. CASE MarkFailed(n) \/ WaitClusterStatus(n) \/ Cleanup(n) \/ Crash(n)
  BY <1>1, <1>10 DEF MarkFailed, WaitClusterStatus, Cleanup, Crash
<1> QED BY <1>4, <1>5, <1>6, <1>7, <1>8, <1>9, <1>10, LooksLook, LooksSettle DEF Step

\* Every step keeps what has been seen true.
LEMMA StepLooks == TypeOK /\ Stage /\ Looks /\ [Next]_vars => Looks'
<1> SUFFICES ASSUME TypeOK, Stage, Looks, [Next]_vars
             PROVE  Looks'
  OBVIOUS
<1>0. Adds(Statuses)
  BY StepGrows
<1>1. ASSUME NEW n \in nodes, Step(n) \/ Crash(n)
      PROVE  Looks'
  <2>0. UNCHANGED nodes
    BY <1>1, StepKeeps
  <2> SUFFICES ASSUME NEW m \in nodes
               PROVE  LooksOf(m)'
    BY <2>0 DEF Looks
  <2>1. CASE m = n
    BY <2>1, <1>1, OwnLooks
  <2>2. CASE m # n
    <3>1. Place(m)' = Place(m) /\ left'[m] = left[m] /\ seen'[m] = seen[m]
      BY <2>2, <1>1, StepPlaces
    <3>2. pc'[m] = pc[m] /\ goal'[m] = goal[m]
      BY <3>1 DEF Place
    <3>3. LooksOf(m)
      BY DEF Looks
    <3> QED BY <3>1, <3>2, <3>3, <1>0, <2>0, LooksStay
  <2> QED BY <2>1, <2>2
<1>2. CASE UNCHANGED <<nodes, pc, goal, left, seen>>
  BY <1>0, <1>2, LooksStay DEF Looks
<1> QED BY <1>1, <1>2 DEF Next, CopyDone, Expire, vars

----------------------------------------------------------------------------
(* What the files tell of the end is so. *)

\* An agent's account of its data is only added to.
ProgressGrows == \A m \in nodes : progress[m] \subseteq progress'[m]

\* Every step adds to it at most.
LEMMA StepProgress ==
  ASSUME TypeOK, [Next]_vars
  PROVE  ProgressGrows
<1>1. ASSUME NEW n \in nodes, Step(n) \/ Crash(n)
      PROVE  \E p : progress' = [progress EXCEPT ![n] = @ \cup p]
  <2>1. UNCHANGED progress => progress' = [progress EXCEPT ![n] = @ \cup {}]
    BY DEF TypeOK
  <2>2. CASE Flush(n)
    BY <2>1, <2>2 DEF Flush, Note
  <2>3. CASE PatchSysData(n)
    BY <2>1, <2>3 DEF PatchSysData, Note
  <2> QED BY <1>1, <2>1, <2>2, <2>3 DEF Step, Prepare, Look, Settle, Shutdown, PhysRestoreFinish, CopyFiles,
              MarkFailed, WaitClusterStatus, Cleanup, Crash
<1>2. CASE UNCHANGED progress
  BY <1>2 DEF ProgressGrows
<1> QED BY <1>1, <1>2 DEF ProgressGrows, TypeOK, Next, CopyDone, Expire, vars

\* A node's file, a replica set's and the cluster's are different files.
LEMMA ObjectsDiffer ==
  ASSUME nodes \in Clusters, NEW n \in nodes, NEW r \in Shards
  PROVE  n # r /\ n # Cluster /\ r # Cluster
<1>1. n \in Nodes /\ r \in RSs
  BY DEF Nodes, RSs, Shards
<1> QED BY <1>1, ClustersAssumption

\* A step that tells of no end keeps true what has been told of it.
LEMMA QuietFiles ==
  ASSUME FilesTell, ProgressGrows, Adds(Statuses \ Ends), UNCHANGED nodes
  PROVE  FilesTell'
<1>1. \A o \in Objects : \A st \in Ends : st \in file'[o] <=> st \in file[o]
  BY DEF Adds, Ends
<1>2. /\ \A n \in nodes : n \in Objects
      /\ \A r \in Shards : r \in Objects
      /\ Cluster \in Objects
  BY DEF Objects
<1>3. Shards' = Shards /\ "done" \in Ends /\ "partlyDone" \in Ends
  BY DEF Shards, Ends
<1>4. \A m \in nodes : "done" \in progress[m] => "done" \in progress'[m]
  BY DEF ProgressGrows
<1> HIDE DEF Ends
<1> QED BY <1>1, <1>2, <1>3, <1>4 DEF FilesTell, DoneMeansRestored

\* A node that reports done has restored its data.
LEMMA PatchFiles ==
  ASSUME TypeOK, FilesTell, ProgressGrows, NEW n \in nodes, PatchSysData(n)
  PROVE  FilesTell'
<1>0. file \in FileType /\ UNCHANGED nodes
  BY DEF TypeOK, FileType, Objects, PatchSysData
<1>1. CASE UNCHANGED file
  BY <1>0, <1>1, QuietFiles DEF Adds
<1>2. CASE file' = Write(file, n, "done") /\ progress' = Note(n, "done")
  <2>1. \A o \in Objects : file'[o] = IF o = n THEN file[o] \cup {"done"} ELSE file[o]
    <3>1. n \in Objects /\ "done" \in Statuses
      BY DEF Objects, Statuses
    <3>2. \A o \in Objects : Write(file, n, "done")[o] = IF o = n THEN file[o] \cup {"done"} ELSE file[o]
      BY <3>1, <1>0, WriteFacts
    <3> QED BY <3>2, <1>2
  <2>2. "done" \in progress'[n]
    BY <1>2 DEF Note, TypeOK
  <2>3. \A m \in nodes : "done" \in progress[m] => "done" \in progress'[m]
    BY DEF ProgressGrows
  <2>4. Cluster \in Objects /\ nodes \subseteq Objects /\ Shards \subseteq Objects /\ Shards' = Shards
    BY <1>0 DEF Objects, Shards
  <2>5. /\ \A r \in Shards : file'[r] = file[r]
        /\ file'[Cluster] = file[Cluster]
    <3>1. nodes \in Clusters /\ RSOf[n] \in Shards
      BY OwnObjects DEF TypeOK
    <3>2. \A r \in Shards : n # r /\ n # Cluster
      BY <3>1, ObjectsDiffer
    <3> QED BY <3>1, <3>2, <2>1, <2>4
  <2>6. \A m \in nodes : /\ "partlyDone" \notin file'[m]
                         /\ "done" \in file'[m] => "done" \in progress'[m]
    <3> SUFFICES ASSUME NEW m \in nodes
                 PROVE  "partlyDone" \notin file'[m] /\ ("done" \in file'[m] => "done" \in progress'[m])
      OBVIOUS
    <3>1. file'[m] = IF m = n THEN file[m] \cup {"done"} ELSE file[m]
      BY <2>1, <2>4
    <3> QED BY <3>1, <2>2, <2>3 DEF FilesTell
  <2> QED BY <1>0, <2>3, <2>4, <2>5, <2>6 DEF FilesTell, DoneMeansRestored
<1> QED BY <1>1, <1>2 DEF PatchSysData, StartMongoFails, ToState

\* A primary that speaks for its replica set has seen all its nodes done, or one of them
\* if the replica set is done in part.
LEMMA PeersAgree ==
  ASSUME TypeOK, Stage, FilesTell, Looks, NEW n \in nodes, pc[n] = "peers", left[n] = {},
         Outcome(n) # "error"
  PROVE  /\ Outcome(n) = "done" => \A m \in Peers(n) : "done" \in progress[m]
         /\ Outcome(n) = "partlyDone" => \E m \in Peers(n) : "done" \in progress[m]
         /\ Outcome(n) \in {goal[n], "partlyDone"}
<1>1. Targets(n) = Peers(n) /\ Peers(n) \subseteq nodes
  BY DEF Targets, Peers
<1>2. /\ \A o \in Peers(n) :
           \/ "bad" \in seen[n]
           \/ goal[n] \in file[o]
           \/ PartlyThere(n, o) /\ "partly" \in seen[n]
      /\ "good" \in seen[n] => \E o \in Peers(n) : goal[n] \in file[o] \/ PartlyThere(n, o)
      /\ goal[n] # "done" => seen[n] \subseteq {"good"}
  BY <1>1 DEF Looks, LooksOf, Waits
<1>3. \A m \in Peers(n) : ~PartlyThere(n, m) /\ ("done" \in file[m] => "done" \in progress[m])
  BY <1>1 DEF PartlyThere, FilesTell
<1>4. n \in Peers(n)
  BY DEF Peers
<1>5. Outcome(n) = "partlyDone" =>
        \/ "bad" \notin seen[n] /\ "partly" \in seen[n]
        \/ "bad" \in seen[n] /\ "good" \in seen[n]
        \/ goal[n] = "partlyDone"
  BY DEF Outcome
<1>6. Outcome(n) = "done" => "bad" \notin seen[n] /\ goal[n] = "done"
  BY DEF Outcome
<1>7. goal[n] # "partlyDone"
  BY DEF Stage, StageOf, Before, Between, Waits
<1>8. Outcome(n) \in {goal[n], "partlyDone"}
  BY OutcomeFacts
<1>9. Outcome(n) = "partlyDone" => "good" \in seen[n] \/ "done" \in file[n]
  BY <1>2, <1>3, <1>4, <1>5, <1>7
<1>10. Outcome(n) = "partlyDone" => goal[n] = "done"
  BY <1>2, <1>5, <1>7
<1>11. Outcome(n) = "done" => \A m \in Peers(n) : "done" \in file[m]
  BY <1>2, <1>3, <1>6
<1>12. Outcome(n) = "partlyDone" => \E m \in Peers(n) : "done" \in file[m]
  BY <1>2, <1>3, <1>4, <1>9, <1>10
<1> QED BY <1>3, <1>8, <1>11, <1>12

\* An agent that speaks for the cluster has seen all its replica sets done, some of them
\* in part if the outcome is in part.
LEMMA ShardsAgree ==
  ASSUME TypeOK, Stage, FilesTell, Looks, NEW n \in nodes, pc[n] = "shards", left[n] = {},
         Outcome(n) # "error"
  PROVE  /\ Outcome(n) = "done" => \A m \in nodes : "done" \in progress[m]
         /\ Outcome(n) = "partlyDone" =>
              \A r \in Shards : \E m \in nodes : RSOf[m] = r /\ "done" \in progress[m]
         /\ Outcome(n) \in {goal[n], "partlyDone"}
<1>1. Targets(n) = Shards
  BY DEF Targets
<1>2. /\ \A r \in Shards :
           \/ "bad" \in seen[n]
           \/ goal[n] \in file[r]
           \/ PartlyThere(n, r) /\ "partly" \in seen[n]
      /\ goal[n] # "done" => seen[n] \subseteq {"good"}
  BY <1>1 DEF Looks, LooksOf, Waits
<1>3. goal[n] # "partlyDone"
  BY DEF Stage, StageOf, Before, Between, Waits
<1>4. "bad" \notin seen[n] /\ Outcome(n) = IF "partly" \in seen[n] THEN "partlyDone" ELSE goal[n]
  BY DEF Outcome
<1>5. Outcome(n) = "done" => \A r \in Shards : "done" \in file[r]
  BY <1>2, <1>4
<1>6. Outcome(n) = "partlyDone" => \A r \in Shards : "done" \in file[r] \/ "partlyDone" \in file[r]
  BY <1>2, <1>3, <1>4 DEF PartlyThere
<1>7. \A m \in nodes : RSOf[m] \in Shards
  BY OwnObjects
<1>8. \A r \in Shards : \E m \in nodes : RSOf[m] = r
  BY DEF Shards
<1> QED BY <1>4, <1>5, <1>6, <1>7, <1>8 DEF FilesTell

\* The outcome of a wait, written for a replica set or for the cluster, is so.
LEMMA SettleFiles ==
  ASSUME TypeOK, Stage, FilesTell, Looks, NEW n \in nodes, Settle(n)
  PROVE  FilesTell'
<1>0. file \in FileType /\ UNCHANGED <<nodes, progress>> /\ left[n] = {}
  BY DEF TypeOK, FileType, Objects, Settle
<1>1. ProgressGrows
  BY <1>0 DEF ProgressGrows
<1>2. /\ n \in Objects /\ RSOf[n] \in Objects /\ Cluster \in Objects
      /\ nodes \subseteq Objects /\ Shards \subseteq Objects /\ Shards' = Shards
      /\ RSOf[n] \in Shards
  BY <1>0, OwnObjects DEF Objects, Shards
<1>3. {"running", "error"} \subseteq Statuses \ Ends
  BY DEF Statuses, Ends
<1>4. goal[n] \in (Statuses \ Ends) \cup {"done"}
  BY DEF Settle, Stage, StageOf, Before, Between, Statuses, Ends
<1>5. Adds(Statuses \ Ends) => FilesTell'
  BY <1>0, <1>1, QuietFiles
<1>6. \A o \in Objects, st \in Statuses \ Ends : file' = file \/ file' = Write(file, o, st) => FilesTell'
  BY <1>0, <1>5, WriteAdds
<1>7. CASE UNCHANGED file \/ file' = Write(file, n, "running")
  BY <1>2, <1>3, <1>6, <1>7
<1>8. CASE file' = DeferredError(n)
  BY <1>0, <1>3, <1>5, <1>8, DeferredErrorFacts DEF ErrorsAdded, Adds
<1>9. CASE Outcome(n) # "error" /\ pc[n] = "peers" /\ file' = Write(file, RSOf[n], Outcome(n))
  <2>1. /\ Outcome(n) = "done" => \A m \in Peers(n) : "done" \in progress[m]
        /\ Outcome(n) = "partlyDone" => \E m \in Peers(n) : "done" \in progress[m]
        /\ Outcome(n) \in {goal[n], "partlyDone"}
    BY <1>0, <1>9, PeersAgree
  <2>2. CASE Outcome(n) \in Statuses \ Ends
    BY <2>2, <1>2, <1>6, <1>9
  <2>3. CASE Outcome(n) \in Ends
    <3>1. Outcome(n) \in Statuses
      BY <2>3 DEF Ends, Statuses
    <3>2. \A o \in Objects : Write(file, RSOf[n], Outcome(n))[o] =
                               IF o = RSOf[n] THEN file[o] \cup {Outcome(n)} ELSE file[o]
      <4>1. file \in FileType /\ RSOf[n] \in Objects
        BY <1>0, <1>2
      <4> QED BY <3>1, <4>1, WriteFacts
    <3>3. /\ \A m \in nodes : file'[m] = file[m]
          /\ file'[Cluster] = file[Cluster]
      <4>1. nodes \in Clusters
        BY DEF TypeOK
      <4>2. \A m \in nodes : m # RSOf[n] /\ RSOf[n] # Cluster
        BY <4>1, <1>2, ObjectsDiffer
      <4>3. nodes \subseteq Objects /\ Cluster \in Objects
        BY <1>2
      <4> QED BY <4>2, <4>3, <3>2, <1>9
    <3>4. \A r \in Shards : file'[r] = IF r = RSOf[n] THEN file[r] \cup {Outcome(n)} ELSE file[r]
      BY <3>2, <1>2, <1>9
    <3>5. /\ \A r \in Shards : "done" \in file'[r] => \A m \in nodes : RSOf[m] = r => "done" \in progress[m]
          /\ \A r \in Shards : "partlyDone" \in file'[r] => \E m \in nodes : RSOf[m] = r /\ "done" \in progress[m]
      <4> SUFFICES ASSUME NEW r \in Shards
                   PROVE  /\ "done" \in file'[r] => \A m \in nodes : RSOf[m] = r => "done" \in progress[m]
                          /\ "partlyDone" \in file'[r] => \E m \in nodes : RSOf[m] = r /\ "done" \in progress[m]
        OBVIOUS
      <4>1. CASE r # RSOf[n]
        BY <4>1, <3>4 DEF FilesTell
      <4>2. CASE r = RSOf[n]
        <5>1. file'[r] = file[r] \cup {Outcome(n)}
          BY <4>2, <3>4
        <5>2. \A m \in nodes : RSOf[m] = r <=> m \in Peers(n)
          BY <4>2 DEF Peers
        <5>3. Peers(n) \subseteq nodes
          BY DEF Peers
        <5> QED BY <5>1, <5>2, <5>3, <2>1 DEF FilesTell
      <4> QED BY <4>1, <4>2
    <3> QED BY <3>3, <3>5, <1>0, <1>2 DEF FilesTell, DoneMeansRestored
  <2> QED BY <2>1, <2>2, <2>3, <1>4 DEF Ends
<1>10. CASE Outcome(n) # "error" /\ pc[n] = "shards" /\ file' = Write(file, Cluster, Outcome(n))
  <2>1. /\ Outcome(n) = "done" => \A m \in nodes : "done" \in progress[m]
        /\ Outcome(n) = "partlyDone" =>
              \A r \in Shards : \E m \in nodes : RSOf[m] = r /\ "done" \in progress[m]
        /\ Outcome(n) \in {goal[n], "partlyDone"}
    BY <1>0, <1>10, ShardsAgree
  <2>2. CASE Outcome(n) \in Statuses \ Ends
    BY <2>2, <1>2, <1>6, <1>10
  <2>3. CASE Outcome(n) \in Ends
    <3>1. Outcome(n) \in Statuses
      BY <2>3 DEF Ends, Statuses
    <3>2. \A o \in Objects : Write(file, Cluster, Outcome(n))[o] =
                               IF o = Cluster THEN file[o] \cup {Outcome(n)} ELSE file[o]
      <4>1. file \in FileType /\ Cluster \in Objects
        BY <1>0, <1>2
      <4> QED BY <3>1, <4>1, WriteFacts
    <3>3. /\ \A m \in nodes : file'[m] = file[m]
          /\ \A r \in Shards : file'[r] = file[r]
      <4>1. nodes \in Clusters
        BY DEF TypeOK
      <4>2. \A m \in nodes, r \in Shards : m # Cluster /\ r # Cluster
        BY <4>1, ObjectsDiffer
      <4> QED BY <4>2, <3>2, <1>2, <1>10
    <3>4. file'[Cluster] = file[Cluster] \cup {Outcome(n)}
      BY <3>2, <1>2, <1>10
    <3>5. DoneMeansRestored'
      BY <3>4, <2>1, <1>0, <1>2 DEF FilesTell, DoneMeansRestored
    <3> QED BY <3>3, <3>5, <1>0, <1>2 DEF FilesTell
  <2> QED BY <2>1, <2>2, <2>3, <1>4 DEF Ends
<1> QED BY <1>7, <1>8, <1>9, <1>10, SettleWrites

\* Every step keeps what the files tell true.
LEMMA StepFiles == TypeOK /\ Stage /\ Looks /\ FilesTell /\ [Next]_vars => FilesTell'
<1> SUFFICES ASSUME TypeOK, Stage, Looks, FilesTell, [Next]_vars
             PROVE  FilesTell'
  OBVIOUS
<1>0. ProgressGrows
  BY StepProgress
<1>1. ASSUME NEW n \in nodes, Step(n) \/ Crash(n)
      PROVE  FilesTell'
  <2>1. CASE ~Settle(n) /\ ~PatchSysData(n)
    BY <2>1, <1>0, <1>1, QuietSteps, QuietFiles, StepKeeps
  <2> QED BY <2>1, <1>0, SettleFiles, PatchFiles
<1>2. CASE CopyDone
  <2>1. file \in FileType /\ Cluster \in Objects /\ "copyDone" \in Statuses /\ "copyDone" \in Statuses \ Ends
    BY DEF TypeOK, FileType, Objects, Statuses, Ends
  <2>2. Adds(Statuses \ Ends)
    BY <2>1, <1>2, WriteAdds DEF CopyDone
  <2> QED BY <2>2, <1>0, <1>2, QuietFiles DEF CopyDone
<1>3. CASE UNCHANGED <<nodes, file>>
  BY <1>0, <1>3, QuietFiles DEF Adds
<1> QED BY <1>1, <1>2, <1>3 DEF Next, Expire, vars

\* Init: the files are empty.
LEMMA InitFiles == Init => FilesTell
  BY DEF Init, FilesTell, DoneMeansRestored

----------------------------------------------------------------------------
(* The old data or the new. *)

NotReady == Statuses \ {"copyReady"}

\* Unless the data are copied by somebody else, no step says that they may be.
LEMMA OnlyExternalCopies ==
  ASSUME TypeOK, Stage, CopyIsExternal, ~External, NEW n \in nodes, Step(n) \/ Crash(n)
  PROVE  Adds(NotReady) /\ goal'[n] # "copyReady"
<1>0. file \in FileType /\ goal[n] # "copyReady"
  BY DEF TypeOK, FileType, Objects, CopyIsExternal
<1>1. n \in Objects /\ RSOf[n] \in Objects /\ Cluster \in Objects
  BY OwnObjects
<1>2. {"starting", "running", "down", "copyDone", "extTS", "txn", "done", "partlyDone", "error"} \subseteq NotReady
  BY DEF Statuses, NotReady
<1>3. (UNCHANGED file \/ ErrorsAdded(file')) => Adds(NotReady)
  BY <1>2 DEF ErrorsAdded, Adds
<1>4. \A o \in Objects, st \in NotReady : file' = file \/ file' = Write(file, o, st) => Adds(NotReady)
  BY <1>0, WriteAdds DEF NotReady
<1>5. \A step, status, objs : Await(n, step, status, objs) => goal'[n] = status
  BY DEF Await, TypeOK
<1>6. \A status : ToState(n, status) => goal'[n] = status /\ file' = Write(file, n, status)
  BY <1>5 DEF ToState
<1>7. CASE Prepare(n)
  BY <1>0, <1>1, <1>2, <1>4, <1>6, <1>7 DEF Prepare, CheckMongodFails
<1>8. CASE Look(n)
  <2>1. file' = file \/ file' = DeferredError(n)
    BY <1>8 DEF Look
  <2> QED BY <2>1, <1>0, <1>3, <1>8, DeferredErrorFacts DEF Look
<1>9. CASE Settle(n)
  <2>1. goal[n] \in NotReady /\ pc[n] \in Waits
    BY <1>0, <1>9 DEF Settle, Stage, StageOf, Before, Between, Statuses, NotReady
  <2>2. Outcome(n) \in NotReady
    BY <2>1, <1>2, OutcomeFacts
  <2>3. Adds(NotReady)
    BY <2>2, <1>0, <1>1, <1>2, <1>3, <1>4, <1>9, SettleWrites, DeferredErrorFacts
  <2>4. CASE pc[n] = "cluster" /\ Converged(n)
    <3>1. goal[n] \in {"starting", "running", "copyDone", "extTS", "done"}
      BY <2>1, <2>4, <1>0 DEF Stage, StageOf, Before, Between
    <3>2. CASE goal[n] = "starting"
      BY <3>2, <2>3, <2>4, <1>6 DEF Converged
    <3>3. CASE goal[n] = "running"
      BY <3>3, <2>3, <2>4, <1>5 DEF Converged
    <3>4. CASE goal[n] \in {"copyDone", "extTS", "done"}
      BY <3>4, <2>3, <2>4 DEF Converged
    <3> QED BY <3>1, <3>2, <3>3, <3>4
  <2>5. pc[n] = "peers" \/ pc[n] = "shards" \/ pc[n] = "down" \/ pc[n] = "cluster"
    BY <2>1 DEF Waits
  <2> QED BY <2>3, <2>4, <2>5, <1>0, <1>5, <1>9 DEF Settle
<1>10. CASE Shutdown(n)
  BY <1>0, <1>1, <1>2, <1>4, <1>10 DEF Shutdown, ShutdownFails
<1>11. CASE Flush(n)
  BY <1>0, <1>3, <1>11 DEF Flush
<1>12. CASE CopyFiles(n)
  <2>1. file' = file \/ file' = Write(file, RSOf[n], "txn")
    BY <1>12 DEF CopyFiles, External
  <2>2. UNCHANGED goal
    BY <1>12 DEF CopyFiles, External
  <2> QED BY <2>1, <2>2, <1>0, <1>1, <1>2, <1>4
<1>13. CASE PatchSysData(n)
  BY <1>0, <1>1, <1>2, <1>4, <1>6, <1>13 DEF PatchSysData, StartMongoFails
<1>14. CASE MarkFailed(n)
  <2>1. file' = file \/ file' = MarkedFailed(n)
    BY <1>14 DEF MarkFailed
  <2> QED BY <2>1, <1>0, <1>3, <1>14, MarkedFailedFacts DEF MarkFailed
<1>15. CASE WaitClusterStatus(n)
  <2>1. "copyReady" \notin file[Cluster]
    BY <1>0, <1>1 DEF CopyIsExternal, FileType
  <2>2. ClusterStatus # "copyReady"
    BY <2>1, ClusterStatusFacts
  <2> QED BY <2>2, <1>3, <1>15 DEF WaitClusterStatus, TypeOK
<1>16. CASE Cleanup(n)
  <2>1. file' = file \/ file' = Write(file, Cluster, "error")
    BY <1>16 DEF Cleanup, MarkAsFallback
  <2> QED BY <2>1, <1>0, <1>1, <1>2, <1>4, <1>16 DEF Cleanup
<1>17. CASE PhysRestoreFinish(n)
  BY <1>3, <1>17, <1>5 DEF PhysRestoreFinish
<1>18. CASE Crash(n)
  BY <1>0, <1>3, <1>18 DEF Crash
<1> QED BY <1>7, <1>8, <1>9, <1>10, <1>11, <1>12, <1>13, <1>14, <1>15, <1>16, <1>17, <1>18 DEF Step

\* Every step keeps it so.
LEMMA StepCopies == TypeOK /\ Stage /\ CopyIsExternal /\ [Next]_vars => CopyIsExternal'
<1> SUFFICES ASSUME TypeOK, Stage, CopyIsExternal, [Next]_vars, ~External'
             PROVE  /\ \A o \in DOMAIN file' : "copyReady" \notin file'[o]
                    /\ \A n \in nodes' : goal'[n] # "copyReady"
  BY DEF CopyIsExternal
<1>0. TypeOK'
  BY StepType
<1>1. UNCHANGED <<nodes, opts>>
  BY StepKeeps DEF Next, CopyDone, Expire, vars
<1>2. ~External /\ file \in FileType /\ DOMAIN file = Objects /\ DOMAIN file' = Objects
  BY <1>0, <1>1 DEF External, TypeOK, FileType, Objects, Shards
<1>3. Adds(NotReady) => \A o \in DOMAIN file' : "copyReady" \notin file'[o]
  BY <1>2 DEF Adds, NotReady, CopyIsExternal
<1>4. ASSUME NEW n \in nodes, Step(n) \/ Crash(n)
      PROVE  Adds(NotReady) /\ \A m \in nodes : goal'[m] # "copyReady"
  <2>1. Adds(NotReady) /\ goal'[n] # "copyReady"
    BY <1>2, <1>4, OnlyExternalCopies
  <2>2. \A m \in nodes \ {n} : goal'[m] = goal[m]
    BY <1>4, StepPlaces DEF Place
  <2> QED BY <2>1, <2>2, <1>2 DEF CopyIsExternal
<1>5. CASE CopyDone
  <2>1. Cluster \in Objects /\ "copyDone" \in Statuses /\ "copyDone" \in NotReady
    BY DEF Objects, Statuses, NotReady
  <2>2. Adds(NotReady)
    BY <2>1, <1>2, <1>5, WriteAdds DEF CopyDone
  <2> QED BY <2>2, <1>2, <1>3, <1>5 DEF CopyDone, CopyIsExternal
<1>6. CASE UNCHANGED <<nodes, file, goal>>
  BY <1>2, <1>6 DEF CopyIsExternal
<1> QED BY <1>1, <1>3, <1>4, <1>5, <1>6 DEF Next, Expire, vars

\* A step of one agent does not touch the data of another.
LEMMA StepData ==
  ASSUME TypeOK, NEW n \in nodes, Step(n) \/ Crash(n), NEW m \in nodes, m # n
  PROVE  db'[m] = db[m] /\ kept'[m] = kept[m]
<1> USE DEF TypeOK
<1>1. CASE Flush(n)
  BY <1>1 DEF Flush, MigrateDBDirToFallbackDir
<1>2. CASE CopyFiles(n)
  BY <1>2 DEF CopyFiles, CleanupDatadir
<1>3. CASE PatchSysData(n)
  BY <1>3 DEF PatchSysData, StartMongoFails
<1>4. CASE Cleanup(n)
  BY <1>4 DEF Cleanup, MigrateFromFallbackDirToDBDir
<1>5. CASE UNCHANGED <<db, kept>>
  BY <1>5
<1> QED BY <1>1, <1>2, <1>3, <1>4, <1>5 DEF Step, Prepare, Look, Settle, Shutdown, PhysRestoreFinish,
             MarkFailed, WaitClusterStatus, Crash

\* The agent that moves keeps the old data until the new are there, and at the end takes
\* back the ones or keeps the others (resolveCleanupStrategy).
LEMMA OwnData ==
  ASSUME TypeOK, Stage, FilesTell, CopyIsExternal, DataKept, ~External,
         NEW n \in nodes, Step(n) \/ Crash(n)
  PROVE  KeptOf(n)' /\ EndOf(n)'
<1>0. /\ KeptOf(n) /\ StageOf(n) /\ goal[n] # "copyReady" /\ pc[n] # "ended"
      /\ UNCHANGED opts
  <2>1. pc[n] # "ended"
    BY DEF Step, Prepare, Look, Settle, Shutdown, Flush, PhysRestoreFinish, CopyFiles, PatchSysData,
           MarkFailed, WaitClusterStatus, Cleanup, Crash, Over, Waits
  <2> QED BY <2>1, StepKeeps DEF DataKept, Stage, CopyIsExternal
<1>1. ~Finishing(n)
  BY DEF Finishing, External
<1> USE DEF TypeOK, Go
<1>2. ASSUME NEW step \in PCs \ {"ended", "cleanup"}, pc' = [pc EXCEPT ![n] = step],
             UNCHANGED <<db, kept, progress>>
      PROVE  KeptOf(n)' /\ EndOf(n)'
  BY <1>0, <1>2 DEF KeptOf, EndOf
<1>3. {"failing", "shards", "peers", "cluster", "down", "shutdown", "move", "copy", "patch", "exited", "close", "dead"}
        \subseteq PCs \ {"ended", "cleanup"}
  BY DEF PCs, Waits, Over
<1>4. \A step, status, objs : Await(n, step, status, objs) => pc' = [pc EXCEPT ![n] = step]
  BY DEF Await
<1>5. \A status : ToState(n, status) => \E step \in {"peers", "cluster"} : pc' = [pc EXCEPT ![n] = step]
  BY <1>4 DEF ToState
<1>6. CASE Prepare(n)
  <2>1. UNCHANGED <<db, kept, progress>>
    BY <1>6 DEF Prepare
  <2> QED BY <2>1, <1>2, <1>3, <1>5, <1>6 DEF Prepare, CheckMongodFails
<1>7. CASE Look(n)
  <2>1. UNCHANGED <<db, kept, progress>> /\ pc[n] \in Waits
    BY <1>7 DEF Look
  <2>2. CASE UNCHANGED pc
    BY <2>1, <2>2, <1>0 DEF KeptOf, EndOf, Waits
  <2>3. CASE Go(n, "failing")
    BY <2>1, <2>3, <1>2, <1>3
  <2> QED BY <2>2, <2>3, <1>7 DEF Look
<1>8. CASE Settle(n)
  <2>1. UNCHANGED <<db, kept, progress>> /\ pc[n] \in Waits
    BY <1>8 DEF Settle
  <2>2. CASE \E step \in {"failing", "shutdown", "shards", "cluster"} : pc' = [pc EXCEPT ![n] = step]
    BY <2>1, <2>2, <1>2, <1>3
  <2>3. CASE pc[n] = "cluster" /\ Converged(n)
    <3>1. goal[n] \in {"starting", "running", "copyReady", "copyDone", "extTS", "done"}
      BY <2>1, <2>3 DEF Stage, StageOf, Before, Between
    <3>2. \E step \in {"peers", "cluster", "down", "shutdown", "exited", "copy", "patch", "close"} :
            pc' = [pc EXCEPT ![n] = step]
      BY <3>1, <2>3, <1>0, <1>1, <1>4, <1>5 DEF Converged
    <3> QED BY <3>2, <2>1, <1>2, <1>3
  <2>4. pc[n] = "peers" \/ pc[n] = "shards" \/ pc[n] = "down" \/ pc[n] = "cluster"
    BY <2>1 DEF Waits
  <2> QED BY <2>2, <2>3, <2>4, <1>4, <1>8 DEF Settle
<1>9. CASE Shutdown(n)
  <2>1. UNCHANGED <<db, kept, progress>>
    BY <1>9 DEF Shutdown
  <2> QED BY <2>1, <1>2, <1>3, <1>9 DEF Shutdown, ShutdownFails
<1>10. CASE Flush(n)
  <2>1. progress[n] = {}
    BY <1>0, <1>10 DEF Flush, StageOf
  <2>2. CASE Go(n, "failing") /\ UNCHANGED progress
    BY <2>1, <2>2, <1>10 DEF Flush, KeptOf, EndOf
  <2>3. CASE MigrateDBDirToFallbackDir(n) /\ progress' = Note(n, "started") /\ Go(n, "copy")
    BY <2>1, <2>3, <1>0 DEF MigrateDBDirToFallbackDir, Note, KeptOf, EndOf
  <2> QED BY <2>2, <2>3, <1>10 DEF Flush
<1>11. CASE CopyFiles(n)
  <2>1. progress[n] = {"started"} /\ UNCHANGED <<kept, progress>>
    BY <1>0, <1>11 DEF CopyFiles, CleanupDatadir, StageOf
  <2>2. CASE Go(n, "patch") \/ Go(n, "failing")
    BY <2>1, <2>2, <1>0, <1>11 DEF KeptOf, EndOf, CopyFiles
  <2> QED BY <2>2, <1>11 DEF CopyFiles, External
<1>12. CASE PatchSysData(n)
  <2>1. progress[n] = {"started"} /\ UNCHANGED kept
    BY <1>0, <1>12 DEF PatchSysData, StageOf
  <2>2. CASE Go(n, "failing") /\ UNCHANGED <<db, progress>>
    BY <2>1, <2>2, <1>2, <1>3
  <2>3. CASE db' = [db EXCEPT ![n] = "new"] /\ progress' = Note(n, "done") /\ ToState(n, "done")
    <3>1. pc'[n] \in {"peers", "cluster"}
      BY <2>3, <1>5
    <3>2. progress'[n] = {"started", "done"} /\ db'[n] = "new"
      BY <2>1, <2>3 DEF Note
    <3> QED BY <3>1, <3>2, <2>1, <1>0, <1>12 DEF KeptOf, EndOf, PatchSysData
  <2> QED BY <2>2, <2>3, <1>12 DEF PatchSysData, StartMongoFails
<1>13. CASE MarkFailed(n)
  <2>1. UNCHANGED <<db, kept, progress>>
    BY <1>13 DEF MarkFailed
  <2> QED BY <2>1, <1>1, <1>2, <1>3, <1>13 DEF MarkFailed
<1>14. CASE WaitClusterStatus(n)
  <2>1. "copyReady" \notin file[Cluster]
    BY DEF CopyIsExternal, Objects
  <2>2. goal'[n] \in {"error", "partlyDone"} \/ (goal'[n] = "done" /\ "done" \in file'[Cluster])
    <3>1. UNCHANGED file /\ goal'[n] = ClusterStatus /\ ClusterStatus # "none"
      BY <1>14 DEF WaitClusterStatus
    <3> QED BY <2>1, <3>1, ClusterStatusFacts
  <2>3. UNCHANGED <<db, kept, progress>> /\ pc'[n] = "cleanup" /\ pc[n] = "close"
    BY <1>14 DEF WaitClusterStatus
  <2> QED BY <2>2, <2>3, <1>0 DEF KeptOf, EndOf
<1>15. CASE Cleanup(n)
  <2>1. pc'[n] = "ended" /\ pc[n] = "cleanup" /\ UNCHANGED progress
    BY <1>15 DEF Cleanup
  <2>2. SUFFICES ASSUME opts.fallback, ~opts.allowPartly
                 PROVE  \/ db'[n] \in {"old", "new"}
                        \/ db'[n] = "part" /\ goal[n] \in {"error", "partlyDone"}
    <3>1. UNCHANGED goal
      BY <1>15 DEF Cleanup
    <3> QED BY <3>1, <2>1, <1>0 DEF KeptOf, EndOf
  <2>3. CASE "started" \notin progress[n]
    <3>1. ResolveCleanupStrategy(n) = "skip" /\ db[n] \in {"old", "part"}
      BY <2>1, <2>3, <1>0 DEF ResolveCleanupStrategy, KeptOf
    <3>2. goal[n] \in {"error", "partlyDone"}
      BY <2>1, <2>3, <1>0 DEF KeptOf, FilesTell, DoneMeansRestored, StageOf
    <3>3. UNCHANGED db
      BY <3>1, <1>15 DEF Cleanup
    <3> QED BY <3>1, <3>2, <3>3
  <2>4. CASE "started" \in progress[n] /\ goal[n] \in {"error", "partlyDone"}
    <3>1. ResolveCleanupStrategy(n) = "fallback" /\ kept[n] = "old"
      BY <2>1, <2>2, <2>4, <1>0 DEF ResolveCleanupStrategy, KeptOf
    <3>2. db' = [db EXCEPT ![n] = kept[n]] \/ db' = [db EXCEPT ![n] = "part"]
      BY <3>1, <1>15 DEF Cleanup, MigrateFromFallbackDirToDBDir
    <3>3. db'[n] \in {"old", "part"}
      BY <3>1, <3>2
    <3> QED BY <3>3, <2>4
  <2>5. CASE "started" \in progress[n] /\ goal[n] = "done" /\ "done" \in file[Cluster]
    <3>1. db[n] = "new"
      BY <2>1, <2>5, <1>0 DEF FilesTell, DoneMeansRestored, KeptOf
    <3>2. ResolveCleanupStrategy(n) = "skip"
      BY <2>5 DEF ResolveCleanupStrategy
    <3> QED BY <3>1, <3>2, <1>15 DEF Cleanup
  <2> QED BY <2>1, <2>3, <2>4, <2>5, <1>0 DEF KeptOf
<1>16. CASE PhysRestoreFinish(n)
  BY <1>16 DEF PhysRestoreFinish, Dumped
<1>17. CASE Crash(n)
  <2>1. UNCHANGED <<db, kept, progress>>
    BY <1>17 DEF Crash
  <2> QED BY <2>1, <1>2, <1>3, <1>17 DEF Crash
<1> QED BY <1>6, <1>7, <1>8, <1>9, <1>10, <1>11, <1>12, <1>13, <1>14, <1>15, <1>16, <1>17 DEF Step

\* Init: all the data are the old.
LEMMA InitData == Init => CopyIsExternal /\ DataKept /\ HalfMoved
  BY DEF Init, CopyIsExternal, DataKept, KeptOf, EndOf, HalfMoved

\* Every step keeps them, or replaces them by the restored.
LEMMA StepDataKept == DataInv /\ [Next]_vars => DataKept'
<1> SUFFICES ASSUME TypeOK, Stage, Looks, FilesTell, CopyIsExternal, DataKept, [Next]_vars
             PROVE  DataKept'
  BY DEF DataInv, PromiseInv
<1>0. UNCHANGED <<nodes, opts>> /\ External' = External
  BY StepKeeps DEF Next, CopyDone, Expire, vars, External
<1>1. CASE External
  BY <1>0, <1>1 DEF DataKept
<1>2. CASE ~External
  <2>1. \A m \in nodes : KeptOf(m) /\ EndOf(m)
    BY <1>2 DEF DataKept
  <2>2. "done" \in file[Cluster] => "done" \in file'[Cluster]
    BY StepGrows DEF Adds, Objects
  <2>3. \A m \in nodes :
          pc'[m] = pc[m] /\ goal'[m] = goal[m] /\ progress'[m] = progress[m] /\ db'[m] = db[m] /\ kept'[m] = kept[m]
            => KeptOf(m)' /\ EndOf(m)'
    BY <2>1, <2>2, <1>0 DEF KeptOf, EndOf
  <2>4. \A m \in nodes : KeptOf(m)' /\ EndOf(m)'
    <3>1. ASSUME NEW n \in nodes, Step(n) \/ Crash(n), NEW m \in nodes
          PROVE  KeptOf(m)' /\ EndOf(m)'
      <4>1. CASE m = n
        BY <4>1, <3>1, <1>2, <2>1, OwnData
      <4>2. CASE m # n
        <5>1. pc'[m] = pc[m] /\ goal'[m] = goal[m] /\ progress'[m] = progress[m]
          BY <4>2, <3>1, StepPlaces DEF Place
        <5> QED BY <5>1, <4>2, <3>1, <2>3, StepData
      <4> QED BY <4>1, <4>2
    <3>2. CASE UNCHANGED <<pc, goal, progress, db, kept>>
      BY <3>2, <2>3
    <3> QED BY <3>1, <3>2 DEF Next, CopyDone, Expire, vars
  <2> QED BY <2>4, <1>0, <1>2 DEF DataKept
<1> QED BY <1>1, <1>2

\* Only a move that fails leaves half of the files in a directory.
LEMMA StepHalfMoved == TypeOK /\ HalfMoved /\ [Next]_vars => HalfMoved'
<1> SUFFICES ASSUME TypeOK, HalfMoved, [Next]_vars
             PROVE  HalfMoved'
  OBVIOUS
<1>0. UNCHANGED nodes
  BY StepKeeps DEF Next, CopyDone, Expire, vars
<1>1. \A f : Faulty(f) => f \in Faults /\ faults' > 0
  BY FaultsAssumption DEF Faulty, TypeOK
<1>2. CASE UNCHANGED <<db, kept>> /\ (UNCHANGED faults \/ faults' > 0)
  BY <1>0, <1>2 DEF HalfMoved
<1>3. ASSUME NEW n \in nodes, Step(n) \/ Crash(n)
      PROVE  HalfMoved'
  <2>1. ASSUME UNCHANGED faults \/ faults' > 0, \A m \in nodes \ {n} : db'[m] = db[m] /\ kept'[m] = kept[m],
               "part" \in {db'[n], kept'[n]} => "part" \in {db[n], kept[n]} \/ ("move" \in Faults /\ faults' > 0)
        PROVE  HalfMoved'
    BY <1>0, <2>1 DEF HalfMoved
  <2>2. \A m \in nodes \ {n} : db'[m] = db[m] /\ kept'[m] = kept[m]
    BY <1>3, StepData
  <2>3. CASE Flush(n)
    <3>1. (UNCHANGED faults /\ db'[n] = "none" /\ kept'[n] # "part") \/ Faulty("move")
      BY <2>3 DEF Flush, MigrateDBDirToFallbackDir, TypeOK
    <3> QED BY <3>1, <2>1, <2>2, <1>1
  <2>4. CASE Cleanup(n)
    <3>1. kept'[n] \in {"none", kept[n]}
      BY <2>4 DEF Cleanup, TypeOK
    <3>2. (UNCHANGED faults /\ db'[n] \in {db[n], kept[n], "none"}) \/ Faulty("move")
      BY <2>4 DEF Cleanup, MigrateFromFallbackDirToDBDir, TypeOK
    <3> QED BY <3>1, <3>2, <2>1, <2>2, <1>1
  <2>5. CASE CopyFiles(n)
    <3>1. db'[n] = "copied" /\ kept'[n] \in {"none", kept[n]} /\ (UNCHANGED faults \/ Faulty("copy"))
      BY <2>5 DEF CopyFiles, CleanupDatadir, TypeOK
    <3> QED BY <3>1, <2>1, <2>2, <1>1
  <2>6. CASE PatchSysData(n)
    <3>1. db'[n] \in {"new", db[n]} /\ UNCHANGED kept /\ (UNCHANGED faults \/ Faulty("copy"))
      BY <2>6 DEF PatchSysData, StartMongoFails, TypeOK
    <3> QED BY <3>1, <2>1, <2>2, <1>1
  <2>7. CASE Prepare(n) \/ Look(n) \/ Settle(n) \/ Shutdown(n) \/ PhysRestoreFinish(n) \/ MarkFailed(n)
               \/ WaitClusterStatus(n) \/ Crash(n)
    <3>1. UNCHANGED <<db, kept>> /\ (UNCHANGED faults \/ \E f : Faulty(f))
      BY <2>7 DEF Prepare, CheckMongodFails, Look, Settle, Shutdown, ShutdownFails, PhysRestoreFinish, MarkFailed,
                  WaitClusterStatus, Crash
    <3> QED BY <3>1, <1>1, <1>2
  <2> QED BY <1>3, <2>3, <2>4, <2>5, <2>6, <2>7 DEF Step
<1> QED BY <1>2, <1>3 DEF Next, CopyDone, Expire, vars

----------------------------------------------------------------------------
(* The same end.  As long as no agent has given up before its data were    *)
(* done, none sees a sign of a failure, and who leaves knows all done.     *)

\* An agent that has given up, and will never have the new data.
Failed(n) == "done" \notin progress[n] /\ pc[n] \in {"failing", "close", "cleanup", "ended", "dead"}

Hopeless == \E n \in nodes : Failed(n)

\* Who is done has said so, first for itself and then for its replica set.
ReportsDone ==
  /\ \A n \in nodes : "done" \in progress[n] => "done" \in file[n]
  /\ "done" \in file[Cluster] => \A r \in Shards : "done" \in file[r]

\* No sign of a failure has reached an agent, and the ones that left had seen all done.
WellOf(n) ==
  /\ pc[n] \notin {"failing", "dead", "exited"}
  /\ pc[n] \in Waits => seen[n] \subseteq {"good"}
  /\ pc[n] \in {"close", "cleanup", "ended"} => "done" \in file[Cluster]
  /\ pc[n] \in {"cleanup", "ended"} => goal[n] = "done"

AllWell ==
  /\ \A o \in Objects : file[o] \cap {"error", "partlyDone"} = {}
  /\ stale # {} => \A n \in nodes : pc[n] = "ended"
  /\ \A n \in nodes : WellOf(n)

\* Agents that do not exit in between are all well, or one of them is lost.
Verdict == opts.kind # "exit" => LostWhenDone \/ Hopeless \/ AllWell

\* What an agent ends with follows from what it took for the end of the restore.
EndDataOf(n) ==
  /\ db[n] = "new" => "done" \in progress[n]
  /\ "done" \in progress[n] /\ pc[n] # "ended" => db[n] = "new"
  /\ pc[n] = "ended" /\ db[n] = "old" => "done" \notin progress[n] \/ goal[n] \in {"error", "partlyDone"}
  /\ pc[n] \in {"cleanup", "ended"} /\ opts.kind # "exit" =>
       \/ goal[n] \in {"error", "partlyDone", "copyReady"}
       \/ goal[n] = "done" /\ "done" \in file[Cluster]
  /\ pc[n] = "ended" /\ db[n] = "new" /\ opts.kind # "exit" /\ opts.fallback /\ ~opts.allowPartly =>
       goal[n] \in {"done", "copyReady"}

EndData == \A n \in nodes : EndDataOf(n)

EndInv == PromiseInv /\ ReportsDone /\ Verdict /\ EndData

\* What has failed or is lost remains so.
LEMMA FailuresStay ==
  ASSUME TypeOK, Stage, [Next]_vars
  PROVE  (Hopeless => Hopeless') /\ (LostWhenDone => LostWhenDone')
<1>0. UNCHANGED <<nodes, opts>> /\ Adds(Statuses)
  BY StepKeeps, StepGrows DEF Next, CopyDone, Expire, vars
<1>1. ASSUME NEW m \in nodes, Failed(m)
      PROVE  Failed(m)'
  <2>1. ASSUME Step(m) \/ Crash(m)
        PROVE  Failed(m)'
    <3>1. \A step : Go(m, step) => pc'[m] = step
      BY DEF Go, TypeOK
    <3> QED BY <1>1, <2>1, <3>1 DEF Failed, Step, Crash, Prepare, Look, Settle, Shutdown, Flush, CopyFiles, PatchSysData,
              PhysRestoreFinish, MarkFailed, WaitClusterStatus, Cleanup, Waits
  <2>2. ASSUME NEW n \in nodes, n # m, Step(n) \/ Crash(n)
        PROVE  Failed(m)'
    BY <1>1, <2>2, StepPlaces DEF Place, Failed
  <2>3. CASE UNCHANGED <<pc, progress>>
    BY <1>1, <2>3 DEF Failed
  <2> QED BY <2>1, <2>2, <2>3 DEF Next, CopyDone, Expire, vars
<1>2. ASSUME NEW m \in nodes, pc[m] = "dead"
      PROVE  pc'[m] = "dead"
  <2>1. ~Step(m) /\ ~Crash(m)
    BY <1>2 DEF Step, Crash, Prepare, Look, Settle, Shutdown, Flush, CopyFiles, PatchSysData,
              PhysRestoreFinish, MarkFailed, WaitClusterStatus, Cleanup, Waits, Over
  <2>2. ASSUME NEW n \in nodes, n # m, Step(n) \/ Crash(n)
        PROVE  pc'[m] = pc[m]
    BY <2>2, StepPlaces DEF Place
  <2> QED BY <1>2, <2>1, <2>2 DEF Next, CopyDone, Expire, vars
<1>3. nodes \subseteq Objects
  BY DEF Objects
<1> QED BY <1>0, <1>1, <1>2, <1>3 DEF Hopeless, LostWhenDone, Adds

\* Init: nobody has failed, or is done.
LEMMA InitEnds == Init => ReportsDone /\ Verdict /\ EndData
<1> SUFFICES ASSUME Init
             PROVE  ReportsDone /\ AllWell /\ EndData
  BY DEF Verdict
<1>1. Shards \subseteq Objects /\ nodes \subseteq Objects /\ Cluster \in Objects /\ \A o \in Objects : file[o] = {}
  BY DEF Init, Objects
<1>2. \A n \in nodes : pc[n] = "prepare" /\ progress[n] = {} /\ db[n] = "old" /\ stale = {}
  BY DEF Init
<1> QED BY <1>1, <1>2 DEF ReportsDone, AllWell, WellOf, EndData, EndDataOf, Waits

\* A step of the cluster's files that tells no replica set done leaves ReportsDone as it is.
LEMMA StepReports ==
  ASSUME TypeOK, Stage, Looks, ReportsDone, [Next]_vars
  PROVE  ReportsDone'
<1>0. UNCHANGED <<nodes, opts>> /\ Adds(Statuses) /\ Shards' = Shards /\ file \in FileType
  BY StepKeeps, StepGrows DEF Next, CopyDone, Expire, vars, Shards, TypeOK, FileType, Objects
<1>1. nodes \subseteq Objects /\ Shards \subseteq Objects /\ Cluster \in Objects
  BY DEF Objects
<1>2. \A o \in Objects, x \in Objects, st \in Statuses :
        Write(file, o, st)[x] = IF x = o THEN file[x] \cup {st} ELSE file[x]
  BY <1>0 DEF Write, FileType
<1>3. ASSUME NEW m \in nodes, "done" \in progress'[m]
      PROVE  "done" \in file'[m]
  <2>1. CASE "done" \in progress[m]
    BY <2>1, <1>0, <1>1 DEF ReportsDone, Adds
  <2>2. CASE PatchSysData(m) /\ UNCHANGED progress
    BY <2>2, <1>3, <2>1
  <2>3. CASE PatchSysData(m) /\ file' = Write(file, m, "done")
    <3>1. m \in Objects /\ "done" \in Statuses
      BY <1>1 DEF Statuses
    <3> QED BY <3>1, <2>3, <1>2
  <2>4. CASE Flush(m)
    <3>1. progress' = progress \/ progress' = [progress EXCEPT ![m] = @ \cup {"started"}]
      BY <2>4 DEF Flush, Note
    <3> QED BY <3>1, <2>1, <1>3 DEF TypeOK
  <2>5. CASE UNCHANGED progress
    BY <2>5, <1>3, <2>1
  <2>6. ASSUME NEW n \in nodes, n # m, Step(n) \/ Crash(n)
        PROVE  "done" \in file'[m]
    <3>1. progress'[m] = progress[m]
      BY <2>6, StepPlaces DEF Place
    <3> QED BY <3>1, <2>1, <1>3
  <2>7. CASE Step(m) \/ Crash(m)
    <3>1. PatchSysData(m) => UNCHANGED progress \/ file' = Write(file, m, "done")
      BY DEF PatchSysData, StartMongoFails, ToState
    <3>2. UNCHANGED progress \/ Flush(m) \/ PatchSysData(m)
      BY <2>7 DEF Step, Prepare, Look, Settle, Shutdown, CopyFiles,
              PhysRestoreFinish, MarkFailed, WaitClusterStatus, Cleanup, Crash
    <3> QED BY <3>1, <3>2, <2>2, <2>3, <2>4, <2>5
  <2>8. CASE ~(\E n \in nodes : Step(n) \/ Crash(n))
    <3>1. UNCHANGED progress
      BY <2>8 DEF Next, CopyDone, Expire, vars
    <3> QED BY <3>1, <2>5
  <2> QED BY <2>6, <2>7, <2>8
<1>4. ASSUME "done" \in file'[Cluster], NEW r \in Shards
      PROVE  "done" \in file'[r]
  <2>0. "done" \in file[r] => "done" \in file'[r]
    BY <1>0, <1>1 DEF Adds
  <2>1. CASE "done" \in file[Cluster]
    BY <2>0, <2>1 DEF ReportsDone
  <2>2. CASE "done" \notin file[Cluster]
    <3>1. ~Adds(Statuses \ Ends)
      BY <2>2, <1>1, <1>4 DEF Adds, Ends
    <3>2. PICK n \in nodes : Settle(n) \/ PatchSysData(n)
      <4>1. CASE CopyDone
        BY <4>1, <2>2, <1>1, <1>4, <1>2 DEF CopyDone, Statuses
      <4>2. CASE UNCHANGED file
        BY <4>2, <2>2, <1>4
      <4> QED BY <4>1, <4>2, <3>1, QuietSteps DEF Next, Expire, vars
    <3>3. n \in Objects /\ RSOf[n] \in Objects /\ RSOf[n] \in Shards /\ n # Cluster /\ RSOf[n] # Cluster
      BY OwnObjects, ObjectsDiffer DEF TypeOK
    <3>4. ~PatchSysData(n)
      <4>1. "done" \in Statuses
        BY DEF Statuses
      <4>2. Write(file, n, "done")[Cluster] = file[Cluster]
        BY <4>1, <3>3, <1>1, <1>2
      <4> QED BY <4>2, <2>2, <1>4 DEF PatchSysData, ToState, StartMongoFails
    <3>5. Settle(n) /\ Outcome(n) \in Statuses /\ "running" \in Statuses
      <4>1. goal[n] \in Statuses
        BY <3>2, <3>4 DEF Settle, Stage, StageOf, Before, Between, Statuses
      <4> QED BY <4>1, <3>2, <3>4, OutcomeFacts DEF Statuses
    <3>6. pc[n] = "shards" /\ Outcome(n) = "done"
      <4>1. DeferredError(n)[Cluster] \subseteq file[Cluster] \cup {"error"}
        BY <1>0, <1>1, DeferredErrorFacts DEF ErrorsAdded
      <4>2. /\ Write(file, RSOf[n], Outcome(n))[Cluster] = file[Cluster]
            /\ Write(file, n, "running")[Cluster] = file[Cluster]
            /\ Write(file, Cluster, Outcome(n))[Cluster] = file[Cluster] \cup {Outcome(n)}
        BY <3>3, <3>5, <1>1, <1>2
      <4> QED BY <4>1, <4>2, <3>5, <2>2, <1>4, SettleWrites
    <3>7. "bad" \notin seen[n] /\ "partly" \notin seen[n] /\ goal[n] = "done" /\ left[n] = {}
      BY <3>5, <3>6 DEF Outcome, Settle
    <3>8. Targets(n) = Shards
      BY <3>6 DEF Targets
    <3> QED BY <3>6, <3>7, <3>8, <2>0 DEF Looks, LooksOf, Waits
  <2> QED BY <2>1, <2>2
<1> QED BY <1>0, <1>3, <1>4 DEF ReportsDone

\* A final status is not written while all is well.
Clean == Statuses \ {"error", "partlyDone"}

\* An agent that looks around while all is well finds nothing but the status it waits for.
LEMMA WellGlance ==
  ASSUME AllWell, NEW n \in nodes, pc[n] \in Waits, NEW o \in Objects
  PROVE  Glance(n, o) \subseteq {"good"}
<1>1. "error" \notin file[o] /\ "partlyDone" \notin file[o]
  BY DEF AllWell
<1>2. o \notin stale
  BY DEF AllWell, Waits
<1>3. ~Bad(o) /\ file[o] \cap {"done", "partlyDone"} # {"partlyDone"}
  BY <1>1, <1>2 DEF Bad
<1>4. CASE goal[n] \in file[o]
  BY <1>3, <1>4 DEF Glance
<1>5. CASE goal[n] \notin file[o]
  BY <1>3, <1>5 DEF Glance
<1> QED BY <1>4, <1>5

\* A wait that ends while all is well ends with the status it was for.
LEMMA WellOutcome ==
  ASSUME AllWell, Looks, NEW n \in nodes, pc[n] \in Waits, left[n] = {}
  PROVE  Outcome(n) = goal[n] /\ \A o \in Targets(n) : goal[n] \in file[o]
<1>1. seen[n] \subseteq {"good"}
  BY DEF AllWell, WellOf
<1> QED BY <1>1 DEF Outcome, Looks, LooksOf

\* The agent that moves while all is well, and neither fails nor dies, leaves all well.
LEMMA OwnWell ==
  ASSUME TypeOK, Stage, Looks, AllWell, opts.kind # "exit",
         NEW n \in nodes, Step(n), ~Failed(n)'
  PROVE  WellOf(n)' /\ Adds(Clean) /\ UNCHANGED stale
<1>0. /\ UNCHANGED opts /\ StageOf(n) /\ WellOf(n) /\ file \in FileType
      /\ n \in Objects /\ RSOf[n] \in Objects /\ Cluster \in Objects
  BY StepKeeps, OwnObjects DEF Stage, AllWell, TypeOK, FileType, Objects
<1>1. \A step, status, objs :
        Await(n, step, status, objs) => pc'[n] = step /\ goal'[n] = status /\ seen'[n] = {}
  BY DEF Await, Go, TypeOK
<1>2. \A status : ToState(n, status) => pc'[n] \in {"peers", "cluster"} /\ seen'[n] = {}
  BY <1>1 DEF ToState
<1>3. \A step : Go(n, step) => pc'[n] = step
  BY DEF Go, TypeOK
<1>4. pc'[n] \in Waits /\ seen'[n] = {} => WellOf(n)'
  BY DEF WellOf, Waits
<1>5. pc'[n] \in {"shutdown", "move", "copy", "patch"} => WellOf(n)'
  BY DEF WellOf, Waits
<1>6. pc'[n] = "failing" => "done" \in progress'[n]
  BY DEF Failed
<1>7. {"starting", "running", "down", "copyReady", "copyDone", "extTS", "txn", "done"} \subseteq Clean
  BY DEF Clean, Statuses
<1>8. \A o \in Objects, st \in Clean : file' = file \/ file' = Write(file, o, st) => Adds(Clean)
  BY <1>0, WriteAdds DEF Clean
<1>9. UNCHANGED file => Adds(Clean)
  BY <1>0, <1>7, <1>8
<1>10. \A st \in Clean : ToState(n, st) => Adds(Clean)
  BY <1>0, <1>8 DEF ToState
<1>11. {"peers", "shards", "cluster", "down"} = Waits
  BY DEF Waits
<1>12. CASE Prepare(n)
  <2>1. "done" \notin progress'[n] /\ UNCHANGED stale
    BY <1>0, <1>12 DEF Prepare, StageOf
  <2>2. ToState(n, "starting") \/ (UNCHANGED file /\ pc'[n] = "failing")
    BY <1>3, <1>12 DEF Prepare, CheckMongodFails
  <2> QED BY <2>1, <2>2, <1>2, <1>4, <1>6, <1>7, <1>10, <1>11
<1>13. CASE Look(n)
  <2>1. PICK o \in left[n] :
          /\ seen' = [seen EXCEPT ![n] = @ \cup Glance(n, o)]
          /\ IF "bad" \in Glance(n, o) /\ goal[n] # "done"
             THEN file' = DeferredError(n) /\ Go(n, "failing")
             ELSE UNCHANGED <<file, pc>>
    BY <1>13 DEF Look
  <2>2. pc[n] \in Waits /\ o \in Objects /\ UNCHANGED stale
    BY <1>13 DEF Look, TypeOK, Objects
  <2>3. Glance(n, o) \subseteq {"good"} /\ UNCHANGED <<file, pc>>
    BY <2>1, <2>2, WellGlance
  <2>4. seen'[n] = seen[n] \cup Glance(n, o)
    BY <2>1 DEF TypeOK
  <2> QED BY <2>2, <2>3, <2>4, <1>0, <1>9 DEF WellOf, Waits
<1>14. CASE Settle(n)
  <2>1. /\ pc[n] \in Waits /\ left[n] = {} /\ UNCHANGED stale
        /\ Outcome(n) = goal[n] /\ \A o \in Targets(n) : goal[n] \in file[o]
    BY <1>14, WellOutcome DEF Settle
  <2>2. goal[n] \in Clean
    BY <2>1, <1>0, <1>7 DEF StageOf, Before, Between
  <2>3. Outcome(n) # "error"
    BY <2>1, <2>2 DEF Clean
  <2>4. CASE pc[n] = "peers"
    <3>1. /\ file' = Write(file, RSOf[n], goal[n])
          /\ \/ Await(n, "shards", goal[n], Shards)
             \/ Await(n, "cluster", goal[n], {Cluster})
      BY <2>1, <2>3, <2>4, <1>14 DEF Settle
    <3> QED BY <3>1, <2>1, <2>2, <1>0, <1>1, <1>4, <1>8, <1>11
  <2>5. CASE pc[n] = "shards"
    <3>1. file' = Write(file, Cluster, goal[n]) /\ Await(n, "cluster", goal[n], {Cluster})
      BY <2>1, <2>3, <2>5, <1>14 DEF Settle
    <3> QED BY <3>1, <2>1, <2>2, <1>0, <1>1, <1>4, <1>8, <1>11
  <2>6. CASE pc[n] = "down"
    <3>1. Go(n, "shutdown") /\ UNCHANGED file
      BY <2>1, <2>3, <2>6, <1>14 DEF Settle
    <3> QED BY <3>1, <2>1, <1>3, <1>5, <1>9
  <2>7. CASE pc[n] = "cluster"
    <3>1. Converged(n) /\ goal[n] \in {"starting", "running", "copyReady", "copyDone", "extTS", "done"}
      BY <2>1, <2>3, <2>7, <1>0, <1>14 DEF Settle, StageOf, Before, Between, Waits
    <3>2. CASE goal[n] = "starting"
      BY <3>1, <3>2, <2>1, <1>2, <1>4, <1>7, <1>10, <1>11 DEF Converged
    <3>3. CASE goal[n] \in {"running", "copyReady", "copyDone", "extTS"}
      <4>1. UNCHANGED file
        BY <3>1, <3>3 DEF Converged
      <4>2. \/ \E step \in {"shutdown", "copy", "patch"} : Go(n, step)
            \/ \E step \in {"down", "cluster"} : \E status, objs : Await(n, step, status, objs)
        BY <3>1, <3>3 DEF Converged
      <4> QED BY <4>1, <4>2, <2>1, <1>1, <1>3, <1>4, <1>5, <1>9, <1>11
    <3>4. CASE goal[n] = "done"
      <4>1. pc'[n] = "close" /\ UNCHANGED file
        BY <3>1, <3>4, <1>3 DEF Converged, Finishing
      <4>2. "done" \in file[Cluster]
        BY <3>4, <2>1, <2>7 DEF Targets
      <4> QED BY <4>1, <4>2, <2>1, <1>9 DEF WellOf, Waits
    <3> QED BY <3>1, <3>2, <3>3, <3>4
  <2> QED BY <2>1, <2>4, <2>5, <2>6, <2>7, <1>11
<1>15. CASE Shutdown(n)
  <2>1. "done" \notin progress'[n] /\ UNCHANGED stale
    BY <1>0, <1>15 DEF Shutdown, StageOf
  <2>2. pc'[n] = "move" /\ (file' = file \/ file' = Write(file, RSOf[n], "down"))
    BY <2>1, <1>3, <1>6, <1>15 DEF Shutdown, ShutdownFails
  <2> QED BY <2>1, <2>2, <1>0, <1>5, <1>7, <1>8
<1>16. CASE Flush(n)
  <2>1. progress[n] = {} /\ UNCHANGED stale
    BY <1>0, <1>16 DEF Flush, StageOf
  <2>2. "done" \notin progress'[n]
    BY <2>1, <1>16 DEF Flush, Note, TypeOK
  <2>3. ToState(n, "copyReady") \/ (Go(n, "copy") /\ UNCHANGED file)
    BY <2>2, <1>3, <1>6, <1>16 DEF Flush
  <2> QED BY <2>1, <2>3, <1>2, <1>3, <1>4, <1>5, <1>7, <1>9, <1>10, <1>11
<1>17. CASE PhysRestoreFinish(n)
  BY <1>0, <1>17 DEF PhysRestoreFinish, WellOf
<1>18. CASE CopyFiles(n)
  <2>1. "done" \notin progress'[n] /\ UNCHANGED stale
    BY <1>0, <1>18 DEF CopyFiles, StageOf
  <2>2. CASE AgreeCommonRestoreTS(n)
    <3>1. file' = Write(file, RSOf[n], "extTS")
      BY <2>2 DEF AgreeCommonRestoreTS
    <3>2. \E step \in {"shards", "cluster"} : \E status, objs : Await(n, step, status, objs)
      BY <2>2 DEF AgreeCommonRestoreTS
    <3> QED BY <3>1, <3>2, <2>1, <1>0, <1>1, <1>4, <1>7, <1>8, <1>11
  <2>3. CASE Go(n, "patch") /\ (file' = file \/ file' = Write(file, RSOf[n], "txn"))
    BY <2>1, <2>3, <1>0, <1>3, <1>5, <1>7, <1>8
  <2> QED BY <2>1, <2>2, <2>3, <1>3, <1>6, <1>18 DEF CopyFiles
<1>19. CASE PatchSysData(n)
  <2>1. progress[n] = {"started"} /\ UNCHANGED stale
    BY <1>0, <1>19 DEF PatchSysData, StageOf
  <2>2. ToState(n, "done")
    <3>1. StartMongoFails(n) /\ UNCHANGED progress => FALSE
      BY <2>1, <1>3, <1>6 DEF StartMongoFails
    <3> QED BY <3>1, <1>19 DEF PatchSysData
  <2> QED BY <2>1, <2>2, <1>2, <1>4, <1>7, <1>10, <1>11
<1>20. CASE MarkFailed(n)
  BY <1>0, <1>20 DEF MarkFailed, WellOf
<1>21. CASE WaitClusterStatus(n)
  <2>1. pc[n] = "close" /\ UNCHANGED <<file, stale>> /\ goal'[n] = ClusterStatus /\ pc'[n] = "cleanup"
    BY <1>3, <1>21 DEF WaitClusterStatus, TypeOK
  <2>2. "done" \in file[Cluster] /\ "error" \notin file[Cluster]
    BY <2>1, <1>0 DEF WellOf, AllWell
  <2>3. ClusterStatus = "done"
    BY <2>2, ClusterStatusFacts
  <2> QED BY <2>1, <2>2, <2>3, <1>9 DEF WellOf, Waits
<1>22. CASE Cleanup(n)
  <2>1. pc[n] = "cleanup" /\ UNCHANGED <<goal, stale>> /\ pc'[n] = "ended" /\ goal[n] = "done"
    BY <1>0, <1>3, <1>22 DEF Cleanup, WellOf
  <2>2. ResolveCleanupStrategy(n) = "skip"
    BY <2>1 DEF ResolveCleanupStrategy
  <2>3. UNCHANGED file
    BY <2>2, <1>22 DEF Cleanup
  <2> QED BY <2>1, <2>3, <1>0, <1>9 DEF WellOf, Waits
<1> QED BY <1>12, <1>13, <1>14, <1>15, <1>16, <1>17, <1>18, <1>19, <1>20, <1>21, <1>22 DEF Step

\* A heartbeat stops, while all is well, when everybody has come to the end: an agent that
\* has left knows the cluster to be done, and then nobody has anything to wait for.
LEMMA ExpireWell ==
  ASSUME TypeOK, Stage, Looks, FilesTell, ReportsDone, AllWell, Expire
  PROVE  \A m \in nodes : pc[m] = "ended"
<1> SUFFICES ASSUME NEW m \in nodes
             PROVE  pc[m] = "ended"
  OBVIOUS
<1>1. PICK o \in Objects : Beats(o) = {} /\ \A a \in nodes : ~Busy(a)
  BY DEF Expire, Objects
<1>2. PICK n \in nodes : ~Beating(n)
  <2>1. CASE o \in nodes
    BY <2>1, <1>1 DEF Beats
  <2>2. CASE o \in Shards
    <3>1. PICK a \in nodes : RSOf[a] = o
      BY <2>2 DEF Shards
    <3> QED BY <3>1, <1>1 DEF Beats
  <2>3. CASE o = Cluster
    BY <2>3, <1>1 DEF Beats
  <2> QED BY <2>1, <2>2, <2>3 DEF Objects
<1>3. "done" \in file[Cluster]
  BY <1>2 DEF AllWell, WellOf, Beating, Over
<1>4. \A r \in Shards : "done" \in file[r]
  BY <1>3 DEF ReportsDone
<1>5. \A a \in nodes : "done" \in progress[a] /\ "done" \in file[a]
  BY <1>3 DEF FilesTell, DoneMeansRestored, ReportsDone
<1>6. pc[m] \in {"ended", "cleanup", "close", "prepare"} \cup Waits
  <2>1. pc[m] \in PCs /\ WellOf(m) /\ StageOf(m)
    BY DEF TypeOK, AllWell, Stage
  <2> QED BY <2>1, <1>5 DEF PCs, Waits, Over, WellOf, StageOf
<1>7. pc[m] \notin {"prepare", "cleanup"}
  BY <1>1 DEF Busy
<1>8. pc[m] # "close"
  <2>1. "error" \notin file[Cluster]
    BY DEF AllWell, Objects
  <2>2. ClusterStatus = "done"
    BY <2>1, <1>3, ClusterStatusFacts
  <2> QED BY <2>2, <1>1 DEF Busy
<1>9. pc[m] \notin Waits
  <2> SUFFICES ASSUME pc[m] \in Waits
               PROVE  FALSE
    OBVIOUS
  <2>1. goal[m] = "done" /\ pc[m] # "down"
    BY <1>5 DEF Stage, StageOf, Before, Between
  <2>2. PICK x \in left[m] : Glance(m, x) = {}
    BY <1>1 DEF Busy
  <2>3. x \in Targets(m)
    BY <2>2 DEF Looks, LooksOf
  <2>4. "done" \in file[x]
    BY <2>1, <2>3, <1>3, <1>4, <1>5 DEF Targets, Waits, Peers
  <2>5. CASE Bad(x)
    BY <2>2, <2>5 DEF Glance
  <2>6. CASE ~Bad(x)
    BY <2>1, <2>2, <2>4, <2>6 DEF Glance
  <2> QED BY <2>5, <2>6
<1> QED BY <1>6, <1>7, <1>8, <1>9

\* Every step leaves all well, unless an agent fails before its data are done, or dies.
LEMMA StepVerdict ==
  ASSUME PromiseInv, ReportsDone, Verdict, [Next]_vars, ReportsDone'
  PROVE  Verdict'
<1> SUFFICES ASSUME opts.kind # "exit", ~LostWhenDone', ~Hopeless'
             PROVE  AllWell'
  BY StepKeeps DEF Verdict, Next, CopyDone, Expire, vars
<1>0. /\ TypeOK /\ Stage /\ Looks /\ FilesTell /\ UNCHANGED <<nodes, opts>>
      /\ Objects' = Objects /\ Shards' = Shards /\ file \in FileType
  BY StepKeeps DEF PromiseInv, Next, CopyDone, Expire, vars, Objects, Shards, TypeOK, FileType
<1>1. AllWell
  BY <1>0, FailuresStay DEF Verdict
<1>2. \A m \in nodes : ~Failed(m)' /\ pc'[m] # "dead"
  <2>1. \A m \in nodes : ~Failed(m)'
    BY <1>0 DEF Hopeless
  <2>2. \A m \in nodes : pc'[m] = "dead" => "done" \in progress'[m]
    BY <2>1 DEF Failed
  <2>3. \A m \in nodes : "done" \in progress'[m] => "done" \in file'[m]
    BY <1>0 DEF ReportsDone
  <2>4. \A m \in nodes : ~(pc'[m] = "dead" /\ "done" \in file'[m])
    BY <1>0 DEF LostWhenDone
  <2> QED BY <2>1, <2>2, <2>3, <2>4
<1>3. Adds(Clean) => \A o \in Objects : file'[o] \cap {"error", "partlyDone"} = {}
  BY <1>1 DEF Adds, Clean, AllWell
<1>4. "done" \in file[Cluster] => "done" \in file'[Cluster]
  BY <1>0, StepGrows DEF Adds, Objects
<1>5. \A m \in nodes :
        pc'[m] = pc[m] /\ goal'[m] = goal[m] /\ seen'[m] = seen[m] => WellOf(m)'
  BY <1>1, <1>4 DEF AllWell, WellOf
<1>6. ASSUME NEW n \in nodes, Step(n) \/ Crash(n)
      PROVE  AllWell'
  <2>1. Step(n)
    <3>1. Crash(n) => pc'[n] = "dead"
      BY <1>0 DEF Crash, Go, TypeOK
    <3> QED BY <3>1, <1>2, <1>6
  <2>2. WellOf(n)' /\ Adds(Clean) /\ UNCHANGED stale
    BY <2>1, <1>0, <1>1, <1>2, OwnWell
  <2>3. \A m \in nodes : m # n => WellOf(m)'
    BY <1>0, <1>5, <1>6, StepPlaces DEF Place
  <2>4. stale = {}
    <3>1. pc[n] # "ended"
      BY <2>1 DEF Step, Prepare, Look, Settle, Shutdown, Flush, PhysRestoreFinish, CopyFiles, PatchSysData,
                  MarkFailed, WaitClusterStatus, Cleanup, Waits
    <3> QED BY <3>1, <1>1 DEF AllWell
  <2> QED BY <2>2, <2>3, <2>4, <1>0, <1>3 DEF AllWell
<1>7. CASE CopyDone
  <2>1. Cluster \in Objects /\ "copyDone" \in Statuses /\ "copyDone" \in Clean
    BY DEF Objects, Statuses, Clean
  <2>2. Adds(Clean)
    BY <2>1, <1>0, <1>7, WriteAdds DEF CopyDone
  <2> QED BY <2>2, <1>0, <1>1, <1>3, <1>5, <1>7 DEF CopyDone, AllWell
<1>8. CASE Expire
  <2>1. \A m \in nodes : pc'[m] = "ended"
    BY <1>0, <1>1, <1>8, ExpireWell DEF Expire
  <2> QED BY <2>1, <1>0, <1>1, <1>5, <1>8 DEF Expire, AllWell
<1>9. CASE UNCHANGED vars
  BY <1>0, <1>1, <1>5, <1>9 DEF vars, AllWell
<1> QED BY <1>6, <1>7, <1>8, <1>9 DEF Next

\* Until the end the data are the new ones when the agent is done, and at the end they are
\* what the status that close found makes of them (resolveCleanupStrategy).
LEMMA OwnEnd ==
  ASSUME TypeOK, Stage, EndData, NEW n \in nodes, Step(n) \/ Crash(n)
  PROVE  EndDataOf(n)'
<1>0. /\ EndDataOf(n) /\ StageOf(n) /\ pc[n] # "ended" /\ UNCHANGED opts
      /\ progress[n] \in {{}, {"started"}, {"started", "done"}}
  <2>1. pc[n] # "ended"
    BY DEF Step, Prepare, Look, Settle, Shutdown, Flush, PhysRestoreFinish, CopyFiles, PatchSysData,
           MarkFailed, WaitClusterStatus, Cleanup, Crash, Over, Waits
  <2> QED BY <2>1, StepKeeps DEF EndData, Stage, TypeOK
<1>1. \A step : Go(n, step) => pc'[n] = step
  BY DEF Go, TypeOK
<1>2. \A step, status, objs : Await(n, step, status, objs) => pc'[n] = step
  BY <1>1 DEF Await
<1>3. \A status : ToState(n, status) => pc'[n] \in {"peers", "cluster"}
  BY <1>2 DEF ToState
<1>4. pc'[n] \notin {"cleanup", "ended"} /\ UNCHANGED <<db, progress>> => EndDataOf(n)'
  BY <1>0 DEF EndDataOf
<1>5. pc'[n] = "ended" /\ opts.kind = "exit" /\ UNCHANGED <<db, progress>> => EndDataOf(n)'
  BY <1>0 DEF EndDataOf
<1>6. CASE Flush(n)
  <2>1. progress[n] = {}
    BY <1>0, <1>6 DEF Flush, StageOf
  <2>2. "done" \notin progress'[n] /\ db'[n] # "new"
    BY <2>1, <1>6 DEF Flush, Note, TypeOK
  <2>3. pc'[n] \notin {"cleanup", "ended"}
    BY <1>1, <1>3, <1>6 DEF Flush
  <2> QED BY <2>2, <2>3 DEF EndDataOf
<1>7. CASE CopyFiles(n)
  <2>1. progress[n] = {"started"} /\ UNCHANGED progress /\ db'[n] = "copied"
    BY <1>0, <1>7 DEF CopyFiles, StageOf, TypeOK
  <2>2. pc'[n] \in {"shards", "cluster", "patch", "failing"}
    <3>1. AgreeCommonRestoreTS(n) => pc'[n] \in {"shards", "cluster"}
      BY <1>2 DEF AgreeCommonRestoreTS
    <3> QED BY <3>1, <1>1, <1>7 DEF CopyFiles
  <2> QED BY <2>1, <2>2 DEF EndDataOf
<1>8. CASE PatchSysData(n)
  <2>1. CASE StartMongoFails(n) /\ UNCHANGED <<db, progress>>
    BY <2>1, <1>1, <1>4 DEF StartMongoFails
  <2>2. CASE db' = [db EXCEPT ![n] = "new"] /\ progress' = Note(n, "done") /\ ToState(n, "done")
    <3>1. db'[n] = "new" /\ "done" \in progress'[n]
      BY <2>2 DEF TypeOK, Note
    <3> QED BY <3>1, <2>2, <1>3 DEF EndDataOf
  <2> QED BY <2>1, <2>2, <1>8 DEF PatchSysData
<1>9. CASE MarkFailed(n) /\ Finishing(n)
  BY <1>1, <1>5, <1>9 DEF MarkFailed, Finishing
<1>10. CASE MarkFailed(n) /\ ~Finishing(n)
  BY <1>1, <1>4, <1>10 DEF MarkFailed
<1>11. CASE Settle(n)
  <2>1. UNCHANGED <<db, progress>> /\ pc[n] \in Waits
    BY <1>11 DEF Settle
  <2>2. CASE pc[n] = "cluster" /\ Converged(n)
    <3>1. goal[n] \in {"starting", "running", "copyReady", "copyDone", "extTS", "done"}
      BY <2>1, <2>2, <1>0 DEF StageOf, Before, Between, Waits
    <3>2. CASE goal[n] = "done"
      BY <3>2, <2>1, <2>2, <1>1, <1>4, <1>5 DEF Converged, Finishing
    <3>3. CASE goal[n] # "done"
      <4>1. pc'[n] \in {"peers", "cluster", "down", "shutdown", "exited", "copy", "patch"}
        BY <3>1, <3>3, <2>2, <1>1, <1>2, <1>3 DEF Converged
      <4> QED BY <4>1, <2>1, <1>4
    <3> QED BY <3>2, <3>3
  <2>3. CASE pc'[n] \in {"failing", "shards", "cluster", "shutdown"}
    BY <2>1, <2>3, <1>4
  <2>4. pc[n] = "peers" \/ pc[n] = "shards" \/ pc[n] = "down" \/ pc[n] = "cluster"
    BY <2>1 DEF Waits
  <2> QED BY <2>2, <2>3, <2>4, <1>1, <1>2, <1>11 DEF Settle
<1>12. CASE WaitClusterStatus(n)
  <2>1. /\ pc[n] = "close" /\ pc'[n] = "cleanup" /\ UNCHANGED <<db, progress, file>>
        /\ goal'[n] = ClusterStatus /\ ClusterStatus # "none"
    BY <1>1, <1>12 DEF WaitClusterStatus, TypeOK
  <2>2. \/ goal'[n] \in {"error", "partlyDone", "copyReady"}
        \/ goal'[n] = "done" /\ "done" \in file'[Cluster]
    BY <2>1, ClusterStatusFacts
  <2> QED BY <2>1, <2>2, <1>0 DEF EndDataOf
<1>13. CASE Cleanup(n)
  <2>1. pc[n] = "cleanup" /\ pc'[n] = "ended" /\ UNCHANGED <<progress, goal>>
    BY <1>1, <1>13 DEF Cleanup
  <2>2. "done" \in file[Cluster] => "done" \in file'[Cluster]
    <3>1. file' = file \/ file' = Write(file, Cluster, "error")
      BY <1>13 DEF Cleanup, MarkAsFallback
    <3> QED BY <3>1 DEF Write, TypeOK
  <2>3. CASE ResolveCleanupStrategy(n) = "skip" /\ UNCHANGED db
    <3>1. "done" \in progress[n] => db[n] = "new"
      BY <2>1, <1>0 DEF EndDataOf
    <3>2. db[n] = "new" /\ opts.kind # "exit" /\ opts.fallback /\ ~opts.allowPartly => goal[n] \in {"done", "copyReady"}
      <4>1. db[n] = "new" => "started" \in progress[n]
        BY <1>0 DEF EndDataOf
      <4> QED BY <4>1, <2>1, <2>3, <1>0 DEF EndDataOf, ResolveCleanupStrategy
    <3> QED BY <3>1, <3>2, <2>1, <2>2, <2>3, <1>0 DEF EndDataOf
  <2>4. CASE ResolveCleanupStrategy(n) = "full" /\ db'[n] = "none"
    BY <2>1, <2>2, <2>4, <1>0 DEF EndDataOf
  <2>5. CASE ResolveCleanupStrategy(n) = "fallback" /\ db'[n] \in {"none", "part", "old"}
    <3>1. goal[n] \in {"error", "partlyDone"}
      BY <2>5 DEF ResolveCleanupStrategy, IsForCleanup
    <3> QED BY <3>1, <2>1, <2>2, <2>5, <1>0 DEF EndDataOf
  <2>6. ResolveCleanupStrategy(n) = "fallback" /\ MigrateFromFallbackDirToDBDir(n) => db'[n] \in {"none", "part", "old"}
    BY DEF MigrateFromFallbackDirToDBDir, TypeOK
  <2> QED BY <2>3, <2>4, <2>5, <2>6, <1>13 DEF Cleanup, TypeOK
<1>14. CASE Crash(n)
  BY <1>1, <1>4, <1>14 DEF Crash
<1>15. CASE Prepare(n)
  BY <1>1, <1>3, <1>4, <1>15 DEF Prepare, CheckMongodFails
<1>16. CASE Look(n)
  BY <1>0, <1>1, <1>4, <1>16 DEF Look, Waits
<1>17. CASE Shutdown(n)
  BY <1>1, <1>4, <1>17 DEF Shutdown, ShutdownFails
<1>18. CASE PhysRestoreFinish(n)
  BY <1>2, <1>4, <1>18 DEF PhysRestoreFinish
<1> QED BY <1>6, <1>7, <1>8, <1>9, <1>10, <1>11, <1>12, <1>13, <1>14, <1>15, <1>16, <1>17, <1>18 DEF Step

\* So it is for all.
LEMMA StepEnd ==
  ASSUME TypeOK, Stage, EndData, [Next]_vars
  PROVE  EndData'
<1>0. UNCHANGED <<nodes, opts>>
  BY StepKeeps DEF Next, CopyDone, Expire, vars
<1>1. "done" \in file[Cluster] => "done" \in file'[Cluster]
  BY StepGrows DEF Adds, Objects
<1>2. \A m \in nodes :
        pc'[m] = pc[m] /\ goal'[m] = goal[m] /\ progress'[m] = progress[m] /\ db'[m] = db[m]
          => EndDataOf(m)'
  BY <1>0, <1>1 DEF EndData, EndDataOf
<1>3. ASSUME NEW n \in nodes, Step(n) \/ Crash(n), NEW m \in nodes
      PROVE  EndDataOf(m)'
  <2>1. CASE m = n
    BY <2>1, <1>3, OwnEnd
  <2>2. CASE m # n
    <3>1. pc'[m] = pc[m] /\ goal'[m] = goal[m] /\ progress'[m] = progress[m]
      BY <2>2, <1>3, StepPlaces DEF Place
    <3> QED BY <3>1, <2>2, <1>2, <1>3, StepData
  <2> QED BY <2>1, <2>2
<1>4. CASE UNCHANGED <<pc, goal, progress, db>>
  BY <1>0, <1>2, <1>4 DEF EndData
<1> QED BY <1>0, <1>3, <1>4 DEF EndData, Next, CopyDone, Expire, vars

\* Where not all is well somebody has failed for good, and then the cluster is never done:
\* the ones who keep the new data do so because it is.
LEMMA EndsAlike ==
  ASSUME EndInv, opts.kind # "exit"
  PROVE  SameEnd
<1> SUFFICES ASSUME opts.fallback, ~opts.allowPartly, ~LostWhenDone,
                    NEW n \in nodes, NEW m \in nodes, pc[n] = "ended", pc[m] = "ended",
                    db[n] = "old", db[m] = "new", goal[m] # "copyReady"
             PROVE  FALSE
  BY DEF SameEnd
<1>1. EndDataOf(n) /\ EndDataOf(m) /\ DoneMeansRestored
  BY DEF EndInv, PromiseInv, EndData, FilesTell
<1>2. "done" \in file[Cluster]
  BY <1>1 DEF EndDataOf
<1>3. ~Hopeless
  BY <1>1, <1>2 DEF DoneMeansRestored, Hopeless, Failed
<1>4. goal[n] = "done"
  BY <1>3 DEF EndInv, Verdict, AllWell, WellOf
<1> QED BY <1>1, <1>2, <1>4 DEF EndDataOf, DoneMeansRestored

\* The invariant holds at first.
LEMMA InitEndInv == Init => EndInv
  BY InitType, InitStage, InitLooks, InitFiles, InitEnds DEF EndInv, PromiseInv

\* Every step keeps it.
LEMMA StepEndInv == EndInv /\ [Next]_vars => EndInv'
<1>1. PromiseInv /\ [Next]_vars => PromiseInv'
  BY StepType, StepStage, StepLooks, StepFiles DEF PromiseInv
<1> QED BY <1>1, StepReports, StepVerdict, StepEnd DEF EndInv, PromiseInv

----------------------------------------------------------------------------
(* What a client is told (RestoreView).                                    *)

\* The latest condition of an object is one of those written.
LEMMA LatestIsWritten ==
  ASSUME TypeOK, NEW o \in Objects, Latest(o) # "none"
  PROVE  Latest(o) \in file[o]
<1> DEFINE conditions == file[o] \ {"txn"}
           Last(s) == s \in conditions /\ \A t \in conditions : Order[t] <= Order[s]
<1>1. conditions # {} /\ Latest(o) = CHOOSE s \in conditions : \A t \in conditions : Order[t] <= Order[s]
  BY DEF Latest
<1>2. conditions \subseteq {"starting", "running", "down", "copyReady", "copyDone", "extTS", "partlyDone", "done", "error"}
  BY DEF TypeOK, Objects, Statuses
<1>3. "error" \in conditions => Last("error")
  BY <1>2 DEF Order
<1>4. "error" \notin conditions /\ "done" \in conditions => Last("done")
  BY <1>2 DEF Order
<1>5. conditions \cap {"error", "done"} = {} /\ "partlyDone" \in conditions => Last("partlyDone")
  BY <1>2 DEF Order
<1>6. conditions \cap {"error", "done", "partlyDone"} = {} /\ "extTS" \in conditions => Last("extTS")
  BY <1>2 DEF Order
<1>7. conditions \subseteq {"starting", "running", "down", "copyReady", "copyDone"} /\ "copyDone" \in conditions
        => Last("copyDone")
  BY DEF Order
<1>8. conditions \subseteq {"starting", "running", "down", "copyReady"} /\ "copyReady" \in conditions => Last("copyReady")
  BY DEF Order
<1>9. conditions \subseteq {"starting", "running", "down"} /\ "down" \in conditions => Last("down")
  BY DEF Order
<1>10. conditions \subseteq {"starting", "running"} /\ "running" \in conditions => Last("running")
  BY DEF Order
<1>11. conditions = {"starting"} => Last("starting")
  BY DEF Order
<1>12. \E s \in conditions : Last(s)
  <2> HIDE DEF Last
  <2>1. \A s : Last(s) => s \in conditions
    BY DEF Last
  <2> QED BY <2>1, <1>1, <1>2, <1>3, <1>4, <1>5, <1>6, <1>7, <1>8, <1>9, <1>10, <1>11
<1> QED BY <1>1, <1>12

\* Nothing is shown as failed without an error in somebody's files.
LEMMA ShownError ==
  ASSUME TypeOK, Meta.status = "error"
  PROVE  \E o \in Objects : "error" \in file[o]
<1>1. \A o \in Objects : Latest(o) = "error" => "error" \in file[o]
  BY LatestIsWritten
<1>2. CASE Latest(Cluster) = "error"
  BY <1>1, <1>2 DEF Objects
<1>3. CASE \E r \in Shards : RSFailed(r)
  <2>1. PICK n \in nodes : Latest(n) = "error"
    BY <1>3 DEF RSFailed, Shards
  <2> QED BY <2>1, <1>1 DEF Objects
<1>4. Shown(Cluster) = "error"
  BY DEF Meta
<1>5. Cluster \in Shards => \E r \in Shards : r = Cluster
  OBVIOUS
<1> QED BY <1>2, <1>3, <1>4, <1>5 DEF Shown

\* Who is told that the restore has failed is told so for a reason that stays.
ToldInv == client = "failed" => opts.kind = "exit" \/ LostWhenDone \/ Hopeless

\* The client's steps and the restore's keep it so.
LEMMA StepTold ==
  ASSUME EndInv, ToldInv, [ViewNext]_viewVars
  PROVE  ToldInv'
<1>0. TypeOK /\ Stage
  BY DEF EndInv, PromiseInv
<1>1. CASE RestoreStep \/ UNCHANGED viewVars
  <2>1. [Next]_vars /\ UNCHANGED client
    BY <1>1 DEF RestoreStep, viewVars
  <2>2. UNCHANGED opts
    BY <2>1, StepKeeps DEF Next, CopyDone, Expire, vars
  <2> QED BY <2>1, <2>2, <1>0, FailuresStay DEF ToldInv
<1>2. CASE CleanupHbStops \/ ClientStep
  <2>1. UNCHANGED vars
    BY <1>2 DEF CleanupHbStops, ClientStep, WaitForRestoreStatus, WaitRestore, CheckRestoreStale
  <2>2. client' = client \/ client' # "failed" \/ Meta.status = "error"
    BY <1>2 DEF CleanupHbStops, ClientStep, WaitForRestoreStatus, WaitRestore, CheckRestoreStale
  <2>3. Meta.status = "error" => opts.kind = "exit" \/ LostWhenDone \/ Hopeless
    BY <1>0, ShownError DEF EndInv, Verdict, AllWell
  <2>4. (LostWhenDone <=> LostWhenDone') /\ (Hopeless <=> Hopeless') /\ UNCHANGED opts
    BY <2>1 DEF vars, LostWhenDone, Hopeless, Failed
  <2> QED BY <2>2, <2>3, <2>4 DEF ToldInv
<1> QED BY <1>1, <1>2 DEF ViewNext

----------------------------------------------------------------------------

\* The agents of a physical restore, their waits, the files and the data stay what they
\* are typed to be; no node is done that has not put its old data aside (physical.go: flush,
\* copyFiles, toState).
THEOREM TypeCorrect == Spec => []TypeOK
<1>1. Init => TypeOK /\ Stage
  BY InitType, InitStage
<1>2. TypeOK /\ Stage /\ [Next]_vars => TypeOK' /\ Stage'
  BY StepType, StepStage
<1> QED BY <1>1, <1>2, PTL DEF Spec

\* "Done" in the cluster's file is a promise about every node, "partlyDone" about one of
\* every replica set, whichever of the agents wrote it (physical.go: toState, waitFiles).
THEOREM DoneIsAPromise == Spec => []DoneMeansRestored
<1>1. Init => PromiseInv
  BY InitType, InitStage, InitLooks, InitFiles DEF PromiseInv
<1>2. PromiseInv /\ [Next]_vars => PromiseInv'
  BY StepType, StepStage, StepLooks, StepFiles DEF PromiseInv
<1>3. PromiseInv => DoneMeansRestored
  BY DEF PromiseInv, FilesTell
<1> QED BY <1>1, <1>2, <1>3, PTL DEF Spec

\* A node that a restore from a backup has ended on has its old data or the new, if it was
\* to fall back and not to accept a part: the fallback directory is complete until the new
\* data are, and goes only when the cluster's end is known. It has half of them only
\* where moving files can fail and has, and no node does when the cluster's end is "done"
\* (physical.go: flush, close, resolveCleanupStrategy).  Restores from outside are left to TLC.
THEOREM NothingIsLost == Spec => [](~External => OldOrNew)
<1>1. Init => DataInv
  BY InitType, InitStage, InitLooks, InitFiles, InitData DEF DataInv, PromiseInv
<1>2. DataInv /\ [Next]_vars => DataInv'
  BY StepType, StepStage, StepLooks, StepFiles, StepCopies, StepDataKept, StepHalfMoved DEF DataInv, PromiseInv
<1>3. DataInv => (~External => OldOrNew)
  BY DEF DataInv, DataKept, EndOf, HalfMoved, OldOrNew, MoveFailed
<1> QED BY <1>1, <1>2, <1>3, PTL DEF Spec

\* With the fallback, and unless a part will do, no node keeps the restored data while another
\* goes back to the old, whoever fails or dies and when; but for a node that dies after it has
\* reported done, and for one that took copyReady for the end (physical.go: waitFiles,
\* MarkFailed, close, resolveCleanupStrategy).  Agents that exit and come back are left to TLC.
THEOREM AllEndAlike == Spec => [](opts.kind # "exit" => SameEnd)
<1>1. EndInv => (opts.kind # "exit" => SameEnd)
  BY EndsAlike
<1> QED BY <1>1, InitEndInv, StepEndInv, PTL DEF Spec

\* A client that is told of a failure finds no node that has ended with the restored data,
\* where the fallback is on (cmd/pbm/restore.go: waitRestore; physical.go: close).
THEOREM ToldFailedIsUndone == ViewSpec => []FailedIsUndone
<1> DEFINE Inv == EndInv /\ CopyIsExternal /\ ToldInv
<1>1. ViewInit => Inv
  BY InitType, InitStage, InitLooks, InitFiles, InitEnds, InitData DEF ViewInit, EndInv, PromiseInv, ToldInv
<1>2. Inv /\ [ViewNext]_viewVars => Inv'
  <2>1. [ViewNext]_viewVars => [Next]_vars
    BY DEF ViewNext, RestoreStep, CleanupHbStops, ClientStep, WaitForRestoreStatus, WaitRestore,
           CheckRestoreStale, viewVars
  <2> QED BY <2>1, StepEndInv, StepCopies, StepTold DEF EndInv, PromiseInv
<1>3. Inv => FailedIsUndone
  <2> SUFFICES ASSUME Inv, client = "failed", opts.fallback, ~opts.allowPartly, ~LostWhenDone, ~External,
                      NEW n \in nodes, pc[n] = "ended", db[n] = "new"
               PROVE  FALSE
    BY DEF FailedIsUndone
  <2>1. opts.kind # "exit" /\ goal[n] # "copyReady"
    BY DEF External, CopyIsExternal
  <2>2. "done" \in file[Cluster]
    BY <2>1 DEF EndInv, EndData, EndDataOf
  <2>3. Hopeless
    BY <2>1 DEF ToldInv
  <2> QED BY <2>2, <2>3 DEF EndInv, PromiseInv, FilesTell, DoneMeansRestored, Hopeless, Failed
<1> QED BY <1>1, <1>2, <1>3, PTL DEF ViewSpec
=============================================================================

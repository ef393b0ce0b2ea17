-------------------------- MODULE LogicalRestore --------------------------
(***************************************************************************)
(* A logical restore of a sharded cluster (src/pbm/restore/logical.go,     *)
(* restore.go, query.go; src/cmd/pbm-agent/restore.go).  The agent of      *)
(* every replica set's primary runs the same procedure; they meet only in  *)
(* one document, the restore's record, and in their locks.  The agent of   *)
(* the leader's replica set moves the record from one status to the next   *)
(* once every replica set of the backup has reported it.                   *)
(***************************************************************************)
EXTENDS TxnReplay, FiniteSets

CONSTANTS RSs,       \* replica sets of the cluster
          Leader,    \* the replica set of the cluster leader
          History,   \* each replica set's oplog, of which a restore replays a beginning
          Faults,    \* what may go wrong
          MaxFaults  \* and how often

ASSUME LeaderAssumption == Leader \in RSs
ASSUME FaultsAssumption == MaxFaults \in Nat

Saw(ops, t) == \E i \in DOMAIN ops : ops[i].txn = t
Ends(ops, t, end) == [txn |-> t, kind |-> end] \in Range(ops)

\* What the server writes of a transaction: its parts, the prepared statement
\* and one end, or its own operations at once.  An oplog begins early enough
\* to hold all of it (findTransactionStartTime, oplog/oplog.go).
Entry == [txn : Txns, kind : {"part", "prep", "apply", "commit", "abort"}]

WellFormed(entries) ==
  /\ entries \in Seq(Entry)
  /\ \A i, j \in DOMAIN entries : i < j /\ entries[i].txn = entries[j].txn =>
       \/ entries[i].kind = "part"
       \/ entries[i].kind = "prep" /\ entries[j].kind \in {"commit", "abort"}
  /\ \A j \in DOMAIN entries : entries[j].kind = "commit" =>
       \E i \in 1..(j - 1) : entries[i] = [txn |-> entries[j].txn, kind |-> "prep"]

\* A transaction that one replica set commits is distributed, and its
\* coordinator has all the others commit it.
ASSUME HistoryAssumption ==
  /\ \A r \in RSs : WellFormed(History[r])
  /\ \A r, s \in RSs, t \in Txns : Ends(History[s], t, "commit") =>
       ~Ends(History[r], t, "abort") /\ ~Ends(History[r], t, "apply")

VARIABLES kind,    \* snapshot, pitr (a snapshot and the oplog after it), replay (oplog only)
          backup,  \* the replica sets the backup (for replay, the oplog) holds
          oplog,   \* the entries each of them has replayed
          pc,      \* where each agent is in the procedure
          goal,    \* the status it is moving to
          meta,    \* the record of the restore, or None
          lock,    \* its lock: none, held, stale (its owner died)
          rep,     \* the transactions it has replayed
          data,    \* its databases: old, new (restored), lost (dropped after that)
          txnSet,  \* is its background write of the commits still to come?
          faults   \* faults so far

vars == <<kind, backup, oplog, pc, goal, meta, lock, rep, data, txnSet, faults>>

None == [status |-> "none"]
NoTxns == {"unset"}

Phases == {"cleanupCluster", "running", "dumpDone"}
Statuses == Phases \cup {"none", "starting", "done", "error"}
PCs == {"idle", "locked", "starting", "register", "check", "report", "converge",
        "announce", "wait", "drop", "load", "replay", "txns", "finish",
        "failing", "failed", "release", "ended", "dead"}

\* The replica sets the leader waits for (r.shards): those of the backup, or
\* all members of the cluster when only the oplog is replayed.
Shards == IF kind = "replay" THEN RSs ELSE backup

\* The record as a leader creates it: no replica set has registered.
NewMeta(status) ==
  [status |-> status, rss |-> [r \in RSs |-> "none"], txns |-> [r \in RSs |-> NoTxns]]

Alive(r) == pc[r] \notin {"idle", "ended", "dead"}

\* The leader writes a heartbeat from the record's creation to Close.
Beating == pc[Leader] \notin {"idle", "locked", "release", "ended", "dead"}

Go(r, step) == pc' = [pc EXCEPT ![r] = step]

\* MarkFailed comes next, then Close.
Fail(r) == Go(r, "failing")

Faulty(f) == f \in Faults /\ faults < MaxFaults /\ faults' = faults + 1

----------------------------------------------------------------------------
(* Writes to the record.  An update of a replica set's entry that is not   *)
(* there changes nothing; an update of a record that is not there neither. *)

\* Faulty variant: a failure changes the status of the replica set alone.
ChangeRestoreStateUnlessError(status) ==
  meta' = IF meta = None \/ status = "error" THEN meta ELSE [meta EXCEPT !.status = status]

ChangeRestoreState(status) ==
  meta' = IF meta = None THEN None ELSE [meta EXCEPT !.status = status]

ChangeRestoreRSState(r, status) ==
  meta' = IF meta # None /\ meta.rss[r] # "none"
          THEN [meta EXCEPT !.rss[r] = status] ELSE meta

AddRestoreRSMeta(m, r, status) == [m EXCEPT !.rss[r] = status]

\* A second document of the same name is never read: the first one is found.
SetRestoreMeta == meta' = IF meta = None THEN NewMeta("starting") ELSE meta

\* addRestoreMetaWithError: "if not exists" notwithstanding, the whole record
\* is set, and the replica sets that have registered are gone from it.
AddRestoreMetaWithError(r) ==
  meta' = AddRestoreRSMeta(NewMeta("error"), r, "error")

----------------------------------------------------------------------------
(* The procedure up to the first barrier. *)

\* The primary's agent takes the command and its lock, unless another
\* operation holds it or the slicer does not stop.
Start(r) ==
  /\ pc[r] = "idle"
  /\ \/ /\ Go(r, "locked")
        /\ lock' = [lock EXCEPT ![r] = "held"]
        /\ UNCHANGED faults
     \/ /\ Faulty("start")
        /\ Go(r, "ended")
        /\ UNCHANGED lock
  /\ UNCHANGED <<kind, backup, oplog, goal, meta, rep, data, txnSet>>

\* Every agent of every replica set looks the backup up, secondaries too,
\* and one that fails writes the record; a primary then gives up.
LookupBackupMeta(r) ==
  /\ pc[r] = "locked"
  /\ \/ Go(r, "starting") /\ UNCHANGED <<meta, faults>>
     \/ Faulty("lookup") /\ AddRestoreMetaWithError(r) /\ Go(r, "release")
  /\ UNCHANGED <<kind, backup, oplog, goal, lock, rep, data, txnSet>>

\* (It does so when the command arrives: no later than the first barrier.)
SecondaryLookupFails(r) ==
  /\ goal[Leader] \in {"starting", "cleanupCluster"}
  /\ Faulty("secondary")
  /\ AddRestoreMetaWithError(r)
  /\ UNCHANGED <<kind, backup, oplog, pc, goal, lock, rep, data, txnSet>>

\* init: the leader writes the record before it waits for it like the others.
InitRestore(r) ==
  /\ pc[r] = "starting"
  /\ IF r = Leader THEN SetRestoreMeta ELSE UNCHANGED meta
  /\ goal' = [goal EXCEPT ![r] = "starting"]
  /\ Go(r, "wait")
  /\ UNCHANGED <<kind, backup, oplog, lock, rep, data, txnSet, faults>>

Register(r) ==
  /\ pc[r] = "register"
  /\ meta' = IF meta = None THEN None ELSE AddRestoreRSMeta(meta, r, "starting")
  /\ Go(r, "check")
  /\ UNCHANGED <<kind, backup, oplog, goal, lock, rep, data, txnSet, faults>>

MoveTo(r, status) == Go(r, "report") /\ goal' = [goal EXCEPT ![r] = status]

\* checkSnapshot, setShards, snapshotObjects, checkForCompatibility.  A
\* replica set without data leaves a snapshot restore without a word, unless
\* it is the leader's; it is done at once with the other kinds.
Check(r) ==
  /\ pc[r] = "check"
  /\ IF r \in backup THEN MoveTo(r, IF kind = "replay" THEN "running" ELSE "cleanupCluster")
     ELSE IF kind # "snapshot" THEN MoveTo(r, "done")
     ELSE (IF r = Leader THEN Fail(r) ELSE Go(r, "release")) /\ UNCHANGED goal
  /\ UNCHANGED <<kind, backup, oplog, meta, lock, rep, data, txnSet, faults>>

----------------------------------------------------------------------------
(* toState: report, let the leader converge, wait for the cluster. *)

Report(r) ==
  /\ pc[r] = "report"
  /\ ChangeRestoreRSState(r, goal[r])
  /\ Go(r, IF r = Leader THEN "converge"
           ELSE IF goal[r] = "done" THEN "release" ELSE "wait")
  /\ UNCHANGED <<kind, backup, oplog, goal, lock, rep, data, txnSet, faults>>

\* Replica sets of the backup seen in the record whose lock is stale; on the
\* way to done, when locks are being released, nobody looks.
Lost == {s \in Shards : meta.rss[s] # "none" /\ lock[s] = "stale" /\ goal[Leader] # "done"}
Failed == {s \in Shards : meta.rss[s] = "error"}

Converged(status) == \A s \in Shards : meta.rss[s] = status

\* converged reads the record and the locks; the status is written later.
Converge ==
  /\ pc[Leader] = "converge"
  /\ meta # None
  /\ \/ Lost \cup Failed # {} /\ Fail(Leader)
     \/ Converged(goal[Leader]) /\ Failed = {} /\ Go(Leader, "announce")
  /\ UNCHANGED <<kind, backup, oplog, goal, meta, lock, rep, data, txnSet, faults>>

\* Only the first barrier has a time limit (WaitActionStart).
ConvergeTimeout ==
  /\ pc[Leader] = "converge"
  /\ goal[Leader] = IF kind = "replay" THEN "running" ELSE "cleanupCluster"
  /\ Fail(Leader)
  /\ UNCHANGED <<kind, backup, oplog, goal, meta, lock, rep, data, txnSet, faults>>

Announce ==
  /\ pc[Leader] = "announce"
  /\ ChangeRestoreState(goal[Leader])
  /\ Go(Leader, IF goal[Leader] = "done" THEN "release" ELSE "wait")
  /\ UNCHANGED <<kind, backup, oplog, goal, lock, rep, data, txnSet, faults>>

\* The step after a status: registration, cleanup, snapshot, oplog.
NextStep(status) ==
  CASE status = "starting" -> "register"
    [] status = "cleanupCluster" -> "drop"
    [] status = "running" -> IF kind = "replay" THEN "replay" ELSE "load"
    [] status = "dumpDone" -> "replay"

\* Faulty variant: the leader's heartbeat is not looked at.
WaitForStatusDeaf(r) ==
  /\ pc[r] = "wait"
  /\ meta # None
  /\ \/ meta.status = goal[r] /\ Go(r, NextStep(goal[r]))
     \/ meta.status = "error" /\ Fail(r)
  /\ UNCHANGED <<kind, backup, oplog, goal, meta, lock, rep, data, txnSet, faults>>

\* waitForStatus: no record yet is a reason to wait on; a late heartbeat or
\* a failed cluster is not.
WaitForStatus(r) ==
  /\ pc[r] = "wait"
  /\ meta # None
  /\ \/ meta.status = goal[r] /\ Go(r, NextStep(goal[r]))
     \/ meta.status = "error" /\ Fail(r)
     \/ ~Beating /\ Fail(r)
  /\ UNCHANGED <<kind, backup, oplog, goal, meta, lock, rep, data, txnSet, faults>>

----------------------------------------------------------------------------
(* The work between the barriers. *)

\* A shard drops the databases it is the primary of, on every replica set;
\* the config server's has none.
DBCleanup(r) ==
  /\ pc[r] = "drop"
  /\ data' = IF r = Leader THEN data
             ELSE [s \in RSs |-> IF data[s] = "new" THEN "lost" ELSE data[s]]
  /\ MoveTo(r, "running")
  /\ UNCHANGED <<kind, backup, oplog, meta, lock, rep, txnSet, faults>>

RunSnapshot(r) ==
  /\ pc[r] = "load"
  /\ data' = [data EXCEPT ![r] = "new"]
  /\ MoveTo(r, "dumpDone")
  /\ UNCHANGED <<kind, backup, oplog, meta, lock, rep, txnSet, faults>>

\* The chunks up to some entry; one of them begins with the last entry of
\* the chunk before.
Chunks(entries) ==
  {<<>>} \cup {SubSeq(entries, 1, x[1]) \o SubSeq(entries, x[1], x[2]) :
               x \in {y \in (1..Len(entries)) \X (1..Len(entries)) : y[1] <= y[2]}}

\* Replica sets that have replayed theirs.
Replayed == {s \in RSs : rep[s] # NotReplayed \/ txnSet[s] \/ pc[s] \in {"txns", "finish"}}

\* All oplogs end at one time: where one has the end of a transaction, the
\* others have at least its beginning.
Aligned(r, ops, s) ==
  \A t \in Txns : Saw(History[r], t) /\ Saw(History[s], t) =>
    /\ Ends(ops, t, "commit") => Saw(oplog[s], t)
    /\ Ends(oplog[s], t, "commit") => Saw(ops, t)

\* applyOplog: the commits are written in the background, and only a replica
\* set with transactions left over asks for those of the others.
ReplayOplog(r) ==
  /\ pc[r] = "replay"
  /\ \E ops \in Chunks(History[r]) :
       /\ \A s \in Replayed : Aligned(r, ops, s)
       /\ oplog' = [oplog EXCEPT ![r] = ops]
       /\ rep' = [rep EXCEPT ![r] = Replay(ops)]
       /\ Go(r, IF Leftovers(Replay(ops)) = {} THEN "finish" ELSE "txns")
  /\ txnSet' = [txnSet EXCEPT ![r] = TRUE]
  /\ UNCHANGED <<kind, backup, goal, meta, lock, data, faults>>

\* The background write; a failed one is logged and forgotten.
SetCommittedTxn(r) ==
  /\ txnSet[r]
  /\ txnSet' = [txnSet EXCEPT ![r] = FALSE]
  /\ \/ /\ meta' = IF meta.rss[r] = "none" THEN meta
                   ELSE [meta EXCEPT !.txns[r] = Range(rep[r].commits)]
        /\ UNCHANGED faults
     \/ Faulty("setTxn") /\ UNCHANGED meta
  /\ UNCHANGED <<kind, backup, oplog, pc, goal, lock, rep, data>>

Commits == UNION {meta.txns[s] : s \in Shards}

\* Faulty variant: whoever has written its commits by now is asked.
GetCommittedTxnEarly(r) ==
  /\ pc[r] = "txns"
  /\ LET known == UNION {meta.txns[s] : s \in {x \in Shards : meta.txns[x] # NoTxns}}
     IN  rep' = [rep EXCEPT ![r] = HandleUncommittedTxn(@, known)]
  /\ Go(r, "finish")
  /\ UNCHANGED <<kind, backup, oplog, goal, meta, lock, data, txnSet, faults>>

\* getcommittedTxn waits for every replica set of the backup, unless one of
\* them has failed or has lost its lock's heartbeat.
GetCommittedTxn(r) ==
  /\ pc[r] = "txns"
  /\ \/ /\ \A s \in Shards : meta.txns[s] # NoTxns
        /\ rep' = [rep EXCEPT ![r] = HandleUncommittedTxn(@, Commits)]
        /\ Go(r, "finish")
     \/ /\ \E s \in Shards : meta.rss[s] = "error" \/ (meta.rss[s] # "none" /\ lock[s] = "stale")
        /\ Fail(r)
        /\ UNCHANGED rep
  /\ UNCHANGED <<kind, backup, oplog, goal, meta, lock, data, txnSet, faults>>

\* Indexes, router tables, and Done: only the leader waits for the others.
Finish(r) ==
  /\ pc[r] = "finish"
  /\ MoveTo(r, "done")
  /\ UNCHANGED <<kind, backup, oplog, meta, lock, rep, data, txnSet, faults>>

----------------------------------------------------------------------------
(* Failure, the end, and death. *)

\* Any step of the restore may fail: a storage, a command, a query.
Breaks(r) ==
  /\ pc[r] \in {"starting", "register", "check", "report", "converge", "announce",
                "wait", "drop", "load", "replay", "txns", "finish"}
  /\ Faulty("fail")
  /\ Fail(r)
  /\ UNCHANGED <<kind, backup, oplog, goal, meta, lock, rep, data, txnSet>>

\* MarkFailed: the cluster's status first, the replica set's next.
MarkFailed(r) ==
  \/ /\ pc[r] = "failing"
     /\ ChangeRestoreState("error")
     /\ Go(r, "failed")
     /\ UNCHANGED <<kind, backup, oplog, goal, lock, rep, data, txnSet, faults>>
  \/ /\ pc[r] = "failed"
     /\ ChangeRestoreRSState(r, "error")
     /\ Go(r, "release")
     /\ UNCHANGED <<kind, backup, oplog, goal, lock, rep, data, txnSet, faults>>

Release(r) ==
  /\ pc[r] = "release"
  /\ lock' = [lock EXCEPT ![r] = "none"]
  /\ Go(r, "ended")
  /\ UNCHANGED <<kind, backup, oplog, goal, meta, rep, data, txnSet, faults>>

Crash(r) ==
  /\ Alive(r)
  /\ Faulty("crash")
  /\ Go(r, "dead")
  /\ lock' = [lock EXCEPT ![r] = "stale"]
  /\ txnSet' = [txnSet EXCEPT ![r] = FALSE]
  /\ UNCHANGED <<kind, backup, oplog, goal, meta, rep, data>>

----------------------------------------------------------------------------

Init ==
  /\ kind \in {"snapshot", "pitr", "replay"}
  /\ backup \in SUBSET RSs \ {{}}
  /\ oplog = [r \in RSs |-> <<>>]
  /\ pc = [r \in RSs |-> "idle"]
  /\ goal = [r \in RSs |-> "starting"]
  /\ meta = None
  /\ lock = [r \in RSs |-> "none"]
  /\ rep = [r \in RSs |-> NotReplayed]
  /\ data = [r \in RSs |-> "old"]
  /\ txnSet = [r \in RSs |-> FALSE]
  /\ faults = 0

Proceed(r) ==
  \/ Start(r) \/ LookupBackupMeta(r) \/ InitRestore(r) \/ Register(r) \/ Check(r)
  \/ Report(r) \/ WaitForStatus(r) \/ DBCleanup(r) \/ RunSnapshot(r)
  \/ ReplayOplog(r) \/ SetCommittedTxn(r) \/ GetCommittedTxn(r) \/ Finish(r)
  \/ MarkFailed(r) \/ Release(r)

Lead == Converge \/ ConvergeTimeout \/ Announce

Next ==
  \/ \E r \in RSs : Proceed(r) \/ Breaks(r) \/ Crash(r) \/ SecondaryLookupFails(r)
  \/ Lead

Spec == Init /\ [][Next]_vars /\ (\A r \in RSs : WF_vars(Proceed(r))) /\ WF_vars(Lead)

----------------------------------------------------------------------------
(* Properties. *)

\* Types of the variables, and a lock is held exactly while its agent is at
\* work (agent/restore.go:48-74, the deferred release).
TypeOK ==
  /\ kind \in {"snapshot", "pitr", "replay"}
  /\ backup \subseteq RSs
  /\ pc \in [RSs -> PCs]
  /\ goal \in [RSs -> {"starting", "done"} \cup Phases]
  /\ meta # None => /\ meta.status \in Statuses \ {"none"}
                    /\ meta.rss \in [RSs -> Statuses]
                    /\ \A r \in RSs : meta.txns[r] = NoTxns \/ meta.txns[r] \subseteq Txns
  /\ data \in [RSs -> {"old", "new", "lost"}]
  /\ faults \in 0..MaxFaults
  /\ \A r \in RSs : /\ lock[r] = "held" <=> Alive(r)
                    /\ lock[r] = "stale" <=> pc[r] = "dead"

\* Transactions whose commit is among the last Cap of a replica set's oplog.
LastCommits(r) ==
  LET at(t) == {i \in DOMAIN oplog[r] : oplog[r][i] = [txn |-> t, kind |-> "commit"]}
      later(t) == {u \in Txns : \E i \in at(u) : \A j \in at(t) : i > j}
  IN  {t \in Txns : at(t) # {} /\ Cardinality(later(t)) < Cap}

\* A distributed transaction one replica set has committed is on all those
\* of its replica sets that have any of it, in full, or is reported partial;
\* one nobody has committed is on none (restore.go:295-318, 379-413).
TxnAtomic ==
  meta.status = "done" => \A r \in backup, t \in Txns :
    /\ t \in UNION {LastCommits(s) : s \in backup} /\ Saw(oplog[r], t) =>
         \/ t \in rep[r].applied
         \/ t \in rep[r].partial /\ ~Ends(oplog[r], t, "prep")
    /\ t \in rep[r].applied =>
         \/ Ends(oplog[r], t, "apply")
         \/ \E s \in backup : Ends(oplog[s], t, "commit")

\* A failure of a replica set of the backup ends in a failed restore, even
\* when the leader, who had read the record before, writes the status of the
\* next phase over the error (logical.go:1782-1789, restore.go:142-203).
FailureReported ==
  /\ \A r \in RSs : pc[r] \in {"ended", "dead"}
  /\ pc[Leader] = "ended"
  /\ meta # None
  /\ \E r \in backup : meta.rss[r] = "error"
  => meta.status = "error"

\* What the code leaves without an end, each a state somebody waits in for ever:
\* a record its leader never wrote; a replica set lost after its dump, whose
\* lock nobody looks at any more; commits whose write failed or died; a
\* record set anew over those who had registered.
Abandoned ==
  \/ kind # "snapshot" /\ Leader \notin backup
  \/ meta = None /\ pc[Leader] \in {"ended", "dead"}
  \/ goal[Leader] = "done" /\ \E r \in Shards : pc[r] = "dead" /\ meta.rss[r] # "done"
  \/ \E r \in backup : /\ pc[r] \in {"txns", "finish"} \/ (goal[r] = "done" /\ pc[r] # "dead")
                       /\ ~txnSet[r] /\ meta.txns[r] = NoTxns
  \/ \E r \in RSs : goal[r] # "starting" /\ meta.rss[r] = "none"

\* Every agent that has taken the restore's lock lets go of it, but for the
\* cases above (the heartbeats in restore.go:165-179, 205-239).
RestoreEnds == <>((\A r \in RSs : pc[r] \in {"ended", "dead"}) \/ Abandoned)
=============================================================================

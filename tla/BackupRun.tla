----------------------------- MODULE BackupRun -----------------------------
(***************************************************************************)
(* One backup of a cluster: pbm/backup (Backup.Run, doLogical, doPhysical) *)
(* run by one nominated agent per replica set, and the part of             *)
(* pbm-agent's Agent.Backup around it.                                     *)
(*                                                                         *)
(* The agents share nothing but the metadata document of the backup, their *)
(* lock documents and the storage.  The agent of the Leader replica set    *)
(* (the config servers, or the only replica set) drives the cluster status *)
(* from step to step once all replica sets have reached the step; the      *)
(* others poll the cluster status.  Every database or storage round trip   *)
(* is one action, so that reads and the writes that rely on them           *)
(* interleave with the other agents, with cancellation, crashes, the       *)
(* takeover of stale locks by other commands (module PbmLock), and with    *)
(* the operator's backup-finish of an external backup.                     *)
(*                                                                         *)
(* A heartbeat is abstracted to what its readers compute from it: fresh,   *)
(* or older than defs.StaleFrameSec.                                       *)
(***************************************************************************)
EXTENDS Naturals

CONSTANTS
    Shard,      \* the replica sets that take part
    Leader,     \* the one whose agent leads
    Types,      \* backup types considered, a subset of Type
    Faults      \* what can go wrong, a subset of Fault

Type == {"logical", "physical", "external"}

(* failure: a local step of an agent fails;  cancel: pbm cancel-backup;          *)
(* crash: an agent dies;  stall: a living agent misses its heartbeats or polls   *)
(* for longer than the stale frame;  takeover: another command meets the lock.   *)
Fault == {"failure", "cancel", "crash", "stall", "takeover"}

ASSUME LeaderAssumption == Leader \in Shard
ASSUME TypesAssumption  == Types \subseteq Type
ASSUME FaultsAssumption == Faults \subseteq Fault

VARIABLES
    typ,        \* the backup's type
    status,     \* BackupMeta.Status ("none": no metadata yet)
    hb,         \* BackupMeta.Hb is fresh
    firstWrite, \* BackupMeta.FirstWriteTS is set
    lastWrite,  \* BackupMeta.LastWriteTS is set
    rsStatus,   \* BackupReplset.Status ("none": no entry)
    rsLastWrite,\* BackupReplset.LastWriteTS is set
    nominated,  \* replica sets with a nominee
    lock,       \* the backup's lock document of each replica set
    files,      \* the backup's data files of each replica set on the storage
    metaFile,   \* the metadata file on the storage
    balancer,   \* the balancer is on
    balancerWas,\* BackupMeta.BalancerStatus: it was on when the backup began
    bcpmNil,    \* the leader's Run has lost the metadata it had read
    pc,         \* where the agent of each replica set is
    err,        \* the error its Run returns, if any
    ctx,        \* replica sets whose agent's backup context is cancelled
    initiator,  \* where the agent of the cluster's primary is (Agent.Backup)
    taker,      \* where the command that takes over one stale lock is
    cli,        \* where `pbm backup-finish` is
    dumped,     \* history: replica sets whose dump or copy has finished
    sliced,     \* history: when each final oplog slice, or set of journals, was taken
    unbalanced  \* history: replica sets with a snapshot that ends with the balancer on:
                \*   at the end of the dump, or at the last write of a physical backup

meta  == <<status, hb, firstWrite, lastWrite, rsStatus, rsLastWrite, nominated>>
stg   == <<files, metaFile>>
env   == <<initiator, taker, cli>>
hist  == <<dumped, sliced, unbalanced>>
bcpm  == <<typ, balancerWas, bcpmNil>>
vars  == <<bcpm, meta, lock, stg, balancer, pc, err, ctx, env, hist>>

Final    == {"done", "error", "canceled"}
RSStatus == {"none", "running", "dumpDone", "copyReady"} \cup Final
Status   == RSStatus \cup {"starting", "copyDone"}
Lock     == {"none", "fresh", "stale"}

(* The agent's steps, in program order. *)
BeforeRun == {"nomination", "lock", "prologue"}
Waits     == {"waitStart", "waitRunning", "waitFirstLast", "waitDumpDone",
              "waitReady", "waitCopy", "waitDone"}
\* Steps after Run has registered the deferred DeleteBackupFiles.
Work      == {"addRS", "convRunning", "setRunning", "firstWrite", "lastWrite", "dump",
              "setRSDumpDone", "convDumpDone", "setDumpDone", "slice", "rsLastWrite",
              "size", "setRSReady", "convReady", "setReady", "setRSDone", "convDone",
              "readMeta", "writeMeta", "checkFiles", "setDone"}
                 \cup (Waits \ {"waitStart"})
Unwind    == {"deleteFiles", "markRS", "markBackup", "balancerOn", "release"}
Gone      == {"skipped", "end", "dead"}
PC == BeforeRun \cup {"storage", "balancerOff", "waitStart"} \cup Work \cup Unwind \cup Gone

\* Run has begun and not returned: CancelBackup finds a current backup to cancel.
Running(s) == pc[s] \notin BeforeRun \cup Gone \cup {"release"}
Alive(s)   == pc[s] \notin Gone

\* The leader's heartbeat goroutine: from the prologue until the deferred functions
\* close it, or until the backup context is cancelled.
LeaderBeats ==
    /\ Running(Leader)
    /\ pc[Leader] \notin {"markRS", "markBackup", "balancerOn"}
    /\ Leader \notin ctx

Init ==
    /\ typ \in Types
    /\ status = "none" /\ hb = FALSE
    /\ firstWrite = FALSE /\ lastWrite = FALSE
    /\ rsStatus = [s \in Shard |-> "none"]
    /\ rsLastWrite = [s \in Shard |-> FALSE]
    /\ nominated = {}
    /\ lock = [s \in Shard |-> "none"]
    /\ files = [s \in Shard |-> "none"] /\ metaFile = FALSE
    /\ balancer \in BOOLEAN /\ balancerWas = balancer /\ bcpmNil = FALSE
    /\ pc = [s \in Shard |-> "nomination"]
    /\ err = [s \in Shard |-> "none"]
    /\ ctx = {}
    /\ initiator = "init" /\ taker = "idle" /\ cli = "idle"
    /\ dumped = {} /\ sliced = [s \in Shard |-> "no"] /\ unbalanced = {}

Goto(s, label) == pc' = [pc EXCEPT ![s] = label]

\* Run returns an error: the deferred functions run, last registered first.
Fail(s, kind) ==
    /\ err' = [err EXCEPT ![s] = kind]
    /\ Goto(s, IF s = Leader /\ pc[s] \in Work THEN "deleteFiles" ELSE "markRS")

Pass(s, label) == Goto(s, label) /\ UNCHANGED err

\* A storage or database error.  The polls of waitForStatus and convergeCluster and the
\* writes of the deferred functions are taken to succeed.
LocalFailure(s) == "failure" \in Faults /\ Fail(s, "error")

\* A step that depends on the context fails once the context is cancelled.
StepFails(s) ==
    \/ LocalFailure(s)
    \/ s \in ctx /\ Fail(s, "canceled")

---------------------------------------------------------------------------
(* Agent.Backup on the cluster's primary *)

\* Backup.Init stores the metadata, with the balancer's mode.
InitMeta ==
    /\ initiator = "init"
    /\ initiator' = "topo"
    /\ status' = "starting" /\ hb' = TRUE
    /\ UNCHANGED <<bcpm, firstWrite, lastWrite, rsStatus, rsLastWrite, nominated, lock,
                   stg, balancer, pc, err, ctx, taker, cli, hist>>

\* CheckTopoForBackup: on failure the backup ends here, before any nomination.
CheckTopo ==
    /\ initiator = "topo"
    /\ \/ initiator' = "nominate" /\ UNCHANGED status
       \/ initiator' = "end" /\ status' = "error"
    /\ UNCHANGED <<bcpm, hb, firstWrite, lastWrite, rsStatus, rsLastWrite, nominated, lock,
                   stg, balancer, pc, err, ctx, taker, cli, hist>>

\* nominateRS, one goroutine per replica set; each round also refreshes the heartbeat.
Nominate(s) ==
    /\ initiator = "nominate" /\ s \notin nominated
    /\ nominated' = nominated \cup {s}
    /\ hb' = TRUE
    /\ initiator' = IF nominated' = Shard THEN "end" ELSE "nominate"
    /\ UNCHANGED <<bcpm, status, firstWrite, lastWrite, rsStatus, rsLastWrite, lock,
                   stg, balancer, pc, err, ctx, taker, cli, hist>>

---------------------------------------------------------------------------
(* Agent.Backup on the nominee of a replica set *)

\* waitNomination: nominated, or given up after defs.WaitActionStart.
WaitNomination(s) ==
    /\ pc[s] = "nomination"
    /\ \/ s \in nominated /\ Goto(s, "lock")
       \/ Goto(s, "skipped")
    /\ UNCHANGED <<bcpm, meta, lock, stg, balancer, err, ctx, env, hist>>

\* acquireLock: another command may hold the replica set's lock.
AcquireLock(s) ==
    /\ pc[s] = "lock"
    /\ \/ lock' = [lock EXCEPT ![s] = "fresh"] /\ Goto(s, "prologue")
       \/ Goto(s, "skipped") /\ UNCHANGED lock
    /\ UNCHANGED <<bcpm, meta, stg, balancer, err, ctx, env, hist>>

\* The first part of Run.  An error here (node info, oplog start, storage config,
\* metadata) returns before the deferred functions exist.  Then the leader sends its
\* first heartbeat and starts the heartbeat goroutine.
Prologue(s) ==
    /\ pc[s] = "prologue"
    /\ \/ /\ "failure" \in Faults
          /\ err' = [err EXCEPT ![s] = "error"]
          /\ Goto(s, "release")
          /\ UNCHANGED hb
       \/ /\ Pass(s, "storage")
          /\ hb' = IF s = Leader THEN TRUE ELSE hb
    /\ UNCHANGED <<bcpm, status, firstWrite, lastWrite, rsStatus, rsLastWrite, nominated,
                   lock, stg, balancer, ctx, env, hist>>

\* Faulty variant: does not stop the balancer.
CheckStorageOnly(s) ==
    /\ pc[s] = "storage"
    /\ Pass(s, "waitStart") \/ StepFails(s)
    /\ UNCHANGED <<bcpm, meta, lock, stg, balancer, ctx, env, hist>>

\* HasReadAccess, and Initialize by the leader.
CheckStorage(s) ==
    /\ pc[s] = "storage"
    /\ \/ Pass(s, IF s = Leader THEN "balancerOff" ELSE "waitStart")
       \/ StepFails(s)
    /\ UNCHANGED <<bcpm, meta, lock, stg, balancer, ctx, env, hist>>

\* The leader stops the balancer if it was on when the backup began.
BalancerOff(s) ==
    /\ pc[s] = "balancerOff"
    /\ \/ /\ s \notin ctx \/ ~ balancerWas
          /\ balancer' = FALSE
          /\ Pass(s, "waitStart")
       \/ /\ balancerWas
          /\ StepFails(s)
          /\ UNCHANGED balancer
    /\ UNCHANGED <<bcpm, meta, lock, stg, ctx, env, hist>>

---------------------------------------------------------------------------
(* waitForStatus, waitForFirstLastWrite, converged *)

\* One tick of waitForStatus: a stale heartbeat is noticed before the status is looked
\* at.  A cancelled context makes the metadata read fail, or ends the wait with no error.
PollStatus(s, want, next) ==
    \/ s \notin ctx /\ ~ hb /\ Fail(s, "error")
    \/ s \notin ctx /\ hb /\ status = want /\ Pass(s, next)
    \/ s \notin ctx /\ hb /\ status \in {"canceled", "error"} /\ Fail(s, status)
    \/ s \in ctx /\ (Fail(s, "canceled") \/ Pass(s, next))

WaitFor(s, at, want, next) ==
    /\ pc[s] = at
    /\ PollStatus(s, want, next)
    /\ UNCHANGED <<bcpm, meta, lock, stg, balancer, ctx, env, hist>>

\* Waiting for StatusStarting has the StartingStatus timeout.
WaitStart(s) ==
    \/ WaitFor(s, "waitStart", "starting", "addRS")
    \/ /\ pc[s] = "waitStart" /\ Fail(s, "error")
       /\ UNCHANGED <<bcpm, meta, lock, stg, balancer, ctx, env, hist>>

AfterRunning == IF typ = "logical" THEN "dump" ELSE "waitFirstLast"

WaitRunning(s)  == WaitFor(s, "waitRunning", "running", AfterRunning)
\* Faulty variant: waits for a status that was reached before.
WaitDumpDoneEarly(s) == WaitFor(s, "waitDumpDone", "running", "slice")

WaitDumpDone(s) == WaitFor(s, "waitDumpDone", "dumpDone", "slice")
WaitReady(s)    == WaitFor(s, "waitReady", "copyReady", "waitCopy")
WaitCopy(s)     == WaitFor(s, "waitCopy", "copyDone", "setRSDone")
WaitDone(s)     == WaitFor(s, "waitDone", "done", "balancerOn")

\* waitForFirstLastWrite (physical): does not look at the status.  What follows it is the
\* extension of the backup cursor by the journals up to the cluster's last write.
WaitFirstLast(s) ==
    /\ pc[s] = "waitFirstLast"
    /\ \/ /\ \/ s \notin ctx /\ hb /\ firstWrite /\ lastWrite
             \/ s \in ctx
          /\ Pass(s, "dump")
          /\ sliced' = [sliced EXCEPT ![s] = IF lastWrite THEN "complete" ELSE "early"]
       \/ /\ \/ s \notin ctx /\ ~ hb /\ Fail(s, "error")
             \/ s \in ctx /\ Fail(s, "canceled")
          /\ UNCHANGED sliced
    /\ UNCHANGED <<bcpm, meta, lock, stg, balancer, ctx, env, dumped, unbalanced>>

\* converged: the replica set's lock is read while its status is not final; a lock
\* that is gone is no evidence of a lost shard, one that is not refreshed is.
\* Faulty variant: takes a released lock, not a stale one, for a lost shard.
LostUnlocked(t) == rsStatus[t] \notin Final \cup {"none"} /\ lock[t] = "none"

Lost(t) == rsStatus[t] \notin Final \cup {"none"} /\ lock[t] = "stale"

\* Faulty variant: looks at its own replica set only.
ConvergedLeaderOnly(want) == rsStatus[Leader] = want

Converged(want) == \A t \in Shard : rsStatus[t] = want /\ ~ Lost(t)

\* One tick of convergeCluster on the leader.
Converge(s, at, want, next) ==
    /\ pc[s] = at
    /\ \/ s \in ctx /\ Fail(s, "canceled")
       \/ /\ s \notin ctx
          /\ \/ Converged(want) /\ Pass(s, next)
             \/ \E t \in Shard :
                   \/ Lost(t) /\ Fail(s, "error")
                   \/ rsStatus[t] = "error" /\ Fail(s, "error")
                   \/ rsStatus[t] = "canceled" /\ Fail(s, "canceled")
    /\ UNCHANGED <<bcpm, meta, lock, stg, balancer, ctx, env, hist>>

\* The convergence to StatusRunning has the StartingStatus timeout.
ConvRunning(s) ==
    \/ Converge(s, "convRunning", "running", "setRunning")
    \/ /\ pc[s] = "convRunning" /\ Fail(s, "error")
       /\ UNCHANGED <<bcpm, meta, lock, stg, balancer, ctx, env, hist>>

ConvDumpDone(s) == Converge(s, "convDumpDone", "dumpDone", "setDumpDone")
ConvReady(s)    == Converge(s, "convReady", "copyReady", "setReady")

\* Faulty variant: goes on without the metadata file.
ConvDoneUnwritten(s) == Converge(s, "convDone", "done", "setDone")

ConvDone(s) == Converge(s, "convDone", "done", "readMeta")

\* ChangeBackupState by the leader: an unconditional $set, in a write of its own.
SetStatus(s, at, new, next) ==
    /\ pc[s] = at
    /\ \/ status' = new /\ Pass(s, next)
       \/ LocalFailure(s) /\ UNCHANGED status
    /\ UNCHANGED <<bcpm, hb, firstWrite, lastWrite, rsStatus, rsLastWrite, nominated,
                   lock, stg, balancer, ctx, env, hist>>

SetRunning(s)  == SetStatus(s, "setRunning", "running", "firstWrite")
SetDumpDone(s) == SetStatus(s, "setDumpDone", "dumpDone", "slice")
SetReady(s)    == SetStatus(s, "setReady", "copyReady", "waitCopy")

\* ChangeRSState: matches nothing while the replica set has no entry.
SetRS(s, new) ==
    rsStatus' = [rsStatus EXCEPT ![s] = IF @ = "none" THEN @ ELSE new]

SetRSStatus(s, at, new, next) ==
    /\ pc[s] = at
    /\ \/ SetRS(s, new) /\ Pass(s, next)
       \/ LocalFailure(s) /\ UNCHANGED rsStatus
    /\ UNCHANGED <<bcpm, status, hb, firstWrite, lastWrite, rsLastWrite, nominated,
                   lock, stg, balancer, ctx, env, hist>>

Then(s, lead, follow) == IF s = Leader THEN lead ELSE follow

SetRSDumpDone(s) ==
    SetRSStatus(s, "setRSDumpDone", "dumpDone", Then(s, "convDumpDone", "waitDumpDone"))

SetRSReady(s) ==
    SetRSStatus(s, "setRSReady", "copyReady", Then(s, "convReady", "waitReady"))
SetRSDone(s) ==
    SetRSStatus(s, "setRSDone", "done", Then(s, "convDone", "waitDone"))

---------------------------------------------------------------------------
(* doLogical, doPhysical *)

\* AddRSMeta, after local preparations that may fail (a physical backup opens its
\* backup cursor here and knows its last write already).
AddRS(s) ==
    /\ pc[s] = "addRS"
    /\ \/ /\ s \notin ctx
          /\ rsStatus' = [rsStatus EXCEPT ![s] = "running"]
          /\ rsLastWrite' = [rsLastWrite EXCEPT ![s] = typ # "logical"]
          /\ Pass(s, Then(s, "convRunning", "waitRunning"))
       \/ /\ StepFails(s)
          /\ UNCHANGED <<rsStatus, rsLastWrite>>
    /\ UNCHANGED <<bcpm, status, hb, firstWrite, lastWrite, nominated, lock, stg,
                   balancer, ctx, env, hist>>

\* setClusterFirstWrite: every entry has a first write since AddRSMeta.
SetFirstWrite(s) ==
    /\ pc[s] = "firstWrite"
    /\ \/ /\ s \notin ctx
          /\ firstWrite' = TRUE
          /\ Pass(s, IF typ = "logical" THEN "dump" ELSE "lastWrite")
       \/ StepFails(s) /\ UNCHANGED firstWrite
    /\ UNCHANGED <<bcpm, status, hb, lastWrite, rsStatus, rsLastWrite, nominated, lock,
                   stg, balancer, ctx, env, hist>>

\* setClusterLastWriteImpl: waits for the last write of every entry.  It looks at the
\* heartbeats of the locks that exist, and at no status.
AllLastWrites == \A t \in Shard : rsLastWrite[t] \/ rsStatus[t] = "none"

SetLastWrite(s) ==
    /\ pc[s] = "lastWrite"
    /\ \/ /\ \/ s \in ctx /\ Fail(s, "canceled")
             \/ AllLastWrites /\ LocalFailure(s)
             \/ /\ s \notin ctx /\ ~ AllLastWrites
                /\ \E t \in Shard : rsStatus[t] # "none" /\ lock[t] = "stale"
                /\ Fail(s, "error")
          /\ UNCHANGED <<lastWrite, unbalanced>>
       \/ /\ s \notin ctx /\ AllLastWrites
          /\ lastWrite' = TRUE
          /\ Pass(s, IF typ = "logical" THEN "size" ELSE "waitFirstLast")
          /\ unbalanced' = IF balancer /\ typ # "logical" THEN Shard ELSE unbalanced
    /\ UNCHANGED <<bcpm, status, hb, firstWrite, rsStatus, rsLastWrite, nominated, lock,
                   stg, balancer, ctx, env, dumped, sliced>>

AfterDump == CASE typ = "logical"  -> "setRSDumpDone"
               [] typ = "physical" -> "setRSDone"
               [] typ = "external" -> "setRSReady"

\* The dump (logical), the upload of data and journals (physical), or the file list
\* (external, nothing on the storage and no use of the context).
Dump(s) ==
    /\ pc[s] = "dump"
    /\ \/ /\ s \notin ctx \/ typ = "external"
          /\ files' = [files EXCEPT ![s] = IF typ = "external" THEN @ ELSE "full"]
          /\ dumped' = dumped \cup {s}
          /\ unbalanced' = IF balancer /\ typ = "logical" THEN unbalanced \cup {s}
                           ELSE unbalanced
          /\ Pass(s, AfterDump)
       \/ /\ files' = [files EXCEPT ![s] = IF typ = "external" THEN @ ELSE "part"]
          /\ StepFails(s)
          /\ UNCHANGED <<dumped, unbalanced>>
    /\ UNCHANGED <<bcpm, meta, lock, metaFile, balancer, ctx, env, sliced>>

\* stopOplogSlicer takes the final slice.  With a cancelled context it returns the
\* context's error, or no error when the last-write read is what was interrupted.
FinalSlice(s) ==
    /\ pc[s] = "slice"
    /\ \/ /\ Pass(s, "rsLastWrite")
          /\ sliced' = [sliced EXCEPT ![s] = IF dumped = Shard THEN "complete" ELSE "early"]
       \/ /\ StepFails(s)
          /\ UNCHANGED sliced
    /\ UNCHANGED <<bcpm, meta, lock, stg, balancer, ctx, env, dumped, unbalanced>>

SetRSLastWrite(s) ==
    /\ pc[s] = "rsLastWrite"
    /\ \/ /\ rsLastWrite' = [rsLastWrite EXCEPT ![s] = TRUE]
          /\ Pass(s, Then(s, "lastWrite", "size"))
       \/ LocalFailure(s) /\ UNCHANGED rsLastWrite
    /\ UNCHANGED <<bcpm, status, hb, firstWrite, lastWrite, rsStatus, nominated, lock, stg,
                   balancer, ctx, env, hist>>

\* IncBackupSize
IncSize(s) ==
    /\ pc[s] = "size"
    /\ \/ s \notin ctx /\ Pass(s, "setRSDone")
       \/ StepFails(s)
    /\ UNCHANGED <<bcpm, meta, lock, stg, balancer, ctx, env, hist>>

---------------------------------------------------------------------------
(* The end of Run *)

\* The leader reads the metadata again, into the variable the deferred function looks at:
\* after an error it holds nothing.
ReadMeta(s) ==
    /\ pc[s] = "readMeta"
    /\ \/ s \notin ctx /\ Pass(s, "writeMeta") /\ UNCHANGED bcpmNil
       \/ StepFails(s) /\ bcpmNil' = TRUE
    /\ UNCHANGED <<typ, balancerWas, meta, lock, stg, balancer, ctx, env, hist>>

\* It writes the metadata file with the done status,
WriteMeta(s) ==
    /\ pc[s] = "writeMeta"
    /\ \/ s \notin ctx /\ metaFile' = TRUE /\ Pass(s, "checkFiles")
       \/ StepFails(s) /\ UNCHANGED metaFile
    /\ UNCHANGED <<bcpm, meta, lock, files, balancer, ctx, env, hist>>

\* checks the files on the storage,
Complete == metaFile /\ (typ # "external" => \A t \in Shard : files[t] = "full")

CheckFiles(s) ==
    /\ pc[s] = "checkFiles"
    /\ \/ Complete /\ Pass(s, "setDone")
       \/ ~ Complete /\ Fail(s, "error")
       \/ LocalFailure(s)
    /\ UNCHANGED <<bcpm, meta, lock, stg, balancer, ctx, env, hist>>

\* and only then sets the done status, and the finish time.
SetDone(s) ==
    /\ pc[s] = "setDone"
    /\ \/ s \notin ctx /\ status' = "done" /\ Pass(s, "balancerOn")
       \/ StepFails(s) /\ UNCHANGED status
    /\ UNCHANGED <<bcpm, hb, firstWrite, lastWrite, rsStatus, rsLastWrite, nominated, lock,
                   stg, balancer, ctx, env, hist>>

\* DeleteBackupFiles by the leader: what is there now.  A file that could not be deleted
\* stays, and that is only logged.
DeleteFiles(s) ==
    /\ pc[s] = "deleteFiles"
    /\ \E T \in SUBSET Shard :
          files' = [t \in Shard |-> IF t \in T THEN "none" ELSE files[t]]
    /\ metaFile' \in {FALSE, metaFile}
    /\ Goto(s, "markRS")
    /\ UNCHANGED <<bcpm, meta, lock, balancer, err, ctx, env, hist>>

\* Faulty variant: every agent marks the backup.
MarkRSAndBackup(s) ==
    /\ pc[s] = "markRS"
    /\ SetRS(s, err[s])
    /\ Goto(s, "markBackup")
    /\ UNCHANGED <<bcpm, status, hb, firstWrite, lastWrite, rsLastWrite, nominated,
                   lock, stg, balancer, err, ctx, env, hist>>

\* The agent marks its replica set as failed or cancelled, the leader the backup too.
MarkRS(s) ==
    /\ pc[s] = "markRS"
    /\ SetRS(s, err[s])
    /\ Goto(s, Then(s, "markBackup", "balancerOn"))
    /\ UNCHANGED <<bcpm, status, hb, firstWrite, lastWrite, rsLastWrite, nominated,
                   lock, stg, balancer, err, ctx, env, hist>>

MarkBackup(s) ==
    /\ pc[s] = "markBackup"
    /\ status' = err[s]
    /\ Goto(s, "balancerOn")
    /\ UNCHANGED <<bcpm, hb, firstWrite, lastWrite, rsStatus, rsLastWrite, nominated,
                   lock, stg, balancer, err, ctx, env, hist>>

\* Faulty variant: leaves the balancer as it is.
BalancerOnNever(s) ==
    /\ pc[s] = "balancerOn"
    /\ Goto(s, "release")
    /\ UNCHANGED <<bcpm, meta, lock, stg, balancer, err, ctx, env, hist>>

\* Every agent turns the balancer on if it was on before the backup.  The leader that has
\* lost the metadata dereferences nil here: the panic runs the deferred release of the
\* lock and then ends the process.
BalancerOn(s) ==
    /\ pc[s] = "balancerOn"
    /\ balancer' = IF s = Leader /\ bcpmNil THEN balancer ELSE balancerWas \/ balancer
    /\ Goto(s, "release")
    /\ UNCHANGED <<bcpm, meta, lock, stg, err, ctx, env, hist>>

Release(s) ==
    /\ pc[s] = "release"
    /\ lock' = [lock EXCEPT ![s] = "none"]
    /\ Goto(s, "end")
    /\ UNCHANGED <<bcpm, meta, stg, balancer, err, ctx, env, hist>>

---------------------------------------------------------------------------
(* Cancellation, crashes, time, other commands *)

\* CancelBackup reaches each agent on its own.
Cancel(s) ==
    /\ "cancel" \in Faults /\ Running(s) /\ s \notin ctx
    /\ ctx' = ctx \cup {s}
    /\ UNCHANGED <<bcpm, meta, lock, stg, balancer, pc, err, env, hist>>

Crash(s) ==
    /\ "crash" \in Faults /\ Alive(s)
    /\ Goto(s, "dead")
    /\ UNCHANGED <<bcpm, meta, lock, stg, balancer, err, ctx, env, hist>>

CrashInitiator ==
    /\ "crash" \in Faults /\ initiator # "end"
    /\ initiator' = "end"
    /\ UNCHANGED <<bcpm, meta, lock, stg, balancer, pc, err, ctx, taker, cli, hist>>

\* The heartbeats in the metadata grow older than the stale frame.  Unless
\* agents stall that takes an agent that does not beat: not the leader while it runs, not
\* the start of the backup (15 seconds at most), and an agent polling the metadata
\* reads a final status before it.
HbExpires ==
    /\ hb
    /\ "stall" \notin Faults =>
          /\ ~ LeaderBeats
          /\ initiator = "end" /\ pc[Leader] \notin BeforeRun
          /\ status \in Final => \A s \in Shard : pc[s] \notin Waits
    /\ hb' = FALSE
    /\ UNCHANGED <<bcpm, status, firstWrite, lastWrite, rsStatus, rsLastWrite, nominated,
                   lock, stg, balancer, pc, err, ctx, env, hist>>

BackupHB ==
    /\ ~ hb /\ LeaderBeats
    /\ hb' = TRUE
    /\ UNCHANGED <<bcpm, status, firstWrite, lastWrite, rsStatus, rsLastWrite, nominated,
                   lock, stg, balancer, pc, err, ctx, env, hist>>

LockExpires(s) ==
    /\ lock[s] = "fresh"
    /\ pc[s] = "dead" \/ "stall" \in Faults
    /\ lock' = [lock EXCEPT ![s] = "stale"]
    /\ UNCHANGED <<bcpm, meta, stg, balancer, pc, err, ctx, env, hist>>

LockHB(s) ==
    /\ lock[s] = "stale" /\ Alive(s)
    /\ lock' = [lock EXCEPT ![s] = "fresh"]
    /\ UNCHANGED <<bcpm, meta, stg, balancer, pc, err, ctx, env, hist>>

\* Another command finds the stale lock and deletes it (PbmLock!Steal),
TakeOver(s) ==
    /\ "takeover" \in Faults /\ taker = "idle" /\ lock[s] = "stale"
    /\ lock' = [lock EXCEPT ![s] = "none"]
    /\ taker' = "read"
    /\ UNCHANGED <<bcpm, meta, stg, balancer, pc, err, ctx, initiator, cli, hist>>

\* then markBcpStale reads the status, and writes in another round trip.
TakerReads ==
    /\ taker = "read"
    /\ taker' = IF status \in {"error", "done"} THEN "end" ELSE "write"
    /\ UNCHANGED <<bcpm, meta, lock, stg, balancer, pc, err, ctx, initiator, cli, hist>>

TakerWrites ==
    /\ taker = "write"
    /\ status' = "error"
    /\ taker' = "end"
    /\ UNCHANGED <<bcpm, hb, firstWrite, lastWrite, rsStatus, rsLastWrite, nominated, lock,
                   stg, balancer, pc, err, ctx, initiator, cli, hist>>

\* pbm backup-finish: reads copyReady, then writes copyDone.
FinishReads ==
    /\ cli = "idle" /\ status = "copyReady"
    /\ cli' = "write"
    /\ UNCHANGED <<bcpm, meta, lock, stg, balancer, pc, err, ctx, initiator, taker, hist>>

FinishWrites ==
    /\ cli = "write"
    /\ status' = "copyDone"
    /\ cli' = "end"
    /\ UNCHANGED <<bcpm, hb, firstWrite, lastWrite, rsStatus, rsLastWrite, nominated, lock,
                   stg, balancer, pc, err, ctx, initiator, taker, hist>>

---------------------------------------------------------------------------

\* The steps an agent takes by itself.
Agent(s) ==
    \/ WaitNomination(s) \/ AcquireLock(s) \/ Prologue(s) \/ CheckStorage(s)
    \/ BalancerOff(s) \/ WaitStart(s) \/ AddRS(s)
    \/ ConvRunning(s) \/ SetRunning(s) \/ SetFirstWrite(s) \/ WaitRunning(s)
    \/ SetLastWrite(s) \/ WaitFirstLast(s) \/ Dump(s)
    \/ SetRSDumpDone(s) \/ ConvDumpDone(s) \/ SetDumpDone(s) \/ WaitDumpDone(s)
    \/ FinalSlice(s) \/ SetRSLastWrite(s) \/ IncSize(s)
    \/ SetRSReady(s) \/ ConvReady(s) \/ SetReady(s) \/ WaitReady(s) \/ WaitCopy(s)
    \/ SetRSDone(s) \/ ConvDone(s) \/ ReadMeta(s) \/ WriteMeta(s) \/ CheckFiles(s) \/ SetDone(s)
    \/ WaitDone(s)
    \/ DeleteFiles(s) \/ MarkRS(s) \/ MarkBackup(s) \/ BalancerOn(s) \/ Release(s)

Initiator == InitMeta \/ CheckTopo \/ \E s \in Shard : Nominate(s)
Finish    == FinishReads \/ FinishWrites
Taker     == TakerReads \/ TakerWrites

Next ==
    \/ Initiator \/ CrashInitiator
    \/ \E s \in Shard :
          \/ Agent(s) \/ Cancel(s) \/ Crash(s)
          \/ LockExpires(s) \/ LockHB(s) \/ TakeOver(s)
    \/ HbExpires \/ BackupHB
    \/ Taker \/ Finish

\* Live agents take their steps, time passes, heartbeats are sent, and the operator
\* finishes an external backup that is ready.
Fairness ==
    /\ WF_vars(Initiator) /\ WF_vars(Taker) /\ WF_vars(Finish)
    /\ WF_vars(HbExpires) /\ WF_vars(BackupHB)
    /\ \A s \in Shard : WF_vars(Agent(s)) /\ WF_vars(LockExpires(s)) /\ WF_vars(LockHB(s))

Spec == Init /\ [][Next]_vars
FairSpec == Spec /\ Fairness

---------------------------------------------------------------------------
(* Properties *)

TypeOK ==
    /\ typ \in Types
    /\ status \in Status
    /\ hb \in BOOLEAN /\ firstWrite \in BOOLEAN /\ lastWrite \in BOOLEAN
    /\ metaFile \in BOOLEAN /\ balancer \in BOOLEAN /\ balancerWas \in BOOLEAN /\ bcpmNil \in BOOLEAN
    /\ rsStatus \in [Shard -> RSStatus] /\ rsLastWrite \in [Shard -> BOOLEAN]
    /\ nominated \subseteq Shard /\ ctx \subseteq Shard
    /\ lock \in [Shard -> Lock]
    /\ files \in [Shard -> {"none", "part", "full"}]
    /\ pc \in [Shard -> PC]
    /\ err \in [Shard -> {"none", "error", "canceled"}]
    /\ initiator \in {"init", "topo", "nominate", "end"}
    /\ taker \in {"idle", "read", "write", "end"} /\ cli \in {"idle", "write", "end"}
    /\ dumped \subseteq Shard /\ unbalanced \subseteq Shard
    /\ sliced \in [Shard -> {"no", "early", "complete"}]

\* A metadata file on the storage, which resync takes for a finished backup, belongs to
\* a backup every replica set of which has finished its dump and whose cluster first and
\* last write are set: Run writes it after the convergence to done, and no interleaving
\* of cancellations, crashes and takeovers gets past that.
MetaFileIsLast == metaFile => dumped = Shard /\ firstWrite /\ lastWrite

\* A backup with status done has its metadata file, and every data file, on the storage;
\* the leader never deletes files of it (Run: writeMeta, CheckBackupFiles, then done).
DoneIsComplete ==
    status = "done" => Complete

\* The replica sets of a backup that is done agree on a point in time: in a logical one
\* each took its final oplog slice after every dump was finished, in a physical one each
\* extended its cursor up to the cluster's last write.  A follower whose wait is cancelled
\* goes on too early, but then its next step fails and the backup is not done.  (In an
\* external backup no step after the wait depends on the context.)
SnapshotsMeet ==
    status = "done" /\ typ # "external" => \A s \in Shard : sliced[s] = "complete"

\* No snapshot of a backup that is done ended with the balancer on, although every agent
\* that leaves early turns the balancer on.
SnapshotsWithoutBalancer == status = "done" => unbalanced = {}

\* When every agent has left without a crash the balancer is as it was.
BalancerRestored ==
    (\A s \in Shard : pc[s] \in {"end", "skipped"}) => balancer = balancerWas

\* The contract of a backup, as seen on the storage and in the metadata.
Contract == INSTANCE BackupContract WITH
    copied    <- dumped,
    published <- metaFile,
    verdict   <- IF status \in Final THEN status ELSE "open",
    meddled   <- taker # "idle" \/ cli = "write"

\* The agents implement the contract: the metadata file appears after every replica set
\* has copied its data, done is announced while the file is there, the file of a backup
\* that is done is not deleted, and the agents do not overwrite each other's verdict.
\* (markBcpStale and backup-finish write what they decided on an earlier read.)
ContractSpec == Contract!Spec

\* Situations in which nobody tells the leader that a replica set is not going to make
\* the next step: it waits for a last write that a failed agent will not set; the lock
\* of a dead agent was taken over before the leader saw it stale; backup-finish was
\* quicker than a follower's poll for copyReady.
Unnoticed ==
    \/ pc[Leader] = "lastWrite" /\ \E s \in Shard : ~ rsLastWrite[s] /\ err[s] # "none"
    \/ taker # "idle"
    \/ status = "copyDone" /\ \E s \in Shard : pc[s] = "waitReady"

\* Otherwise every agent of a backup leaves eventually, whoever fails, crashes or is
\* cancelled.
BackupEnds ==
    []~ Unnoticed => <>[](\A s \in Shard : pc[s] \in Gone)

=============================================================================

------------------------------ MODULE PitrAgent ------------------------------
(***************************************************************************)
(* The goroutines that do point-in-time recovery in one agent              *)
(* (cmd/pbm-agent/pitr.go, Slicer.Stream) around the mutex slicerMx: the   *)
(* main loop, the jobs it starts, the watcher and the status goroutine of  *)
(* each job, the wake-up calls of backup commands, and the command loop,   *)
(* which runs a restore synchronously.                                     *)
(*                                                                         *)
(* The rest of the cluster is the environment: what the agent reads of the *)
(* cluster's PITR status, of a running backup and of the other agents of   *)
(* the replica set may be anything at any time.                            *)
(***************************************************************************)
EXTENDS FiniteSets, Naturals

CONSTANTS
  Job,      \* slots for jobs; a slot is used again when its job is gone
  Caller,   \* slots for the goroutines "go a.sliceNow(opid)"
  NoJob,    \* no job: a.pitrjob = nil, no PITR lock
  MainLoop  \* the main loop as a caller of sliceNow

ASSUME Names ==
  /\ Cardinality(Job \cup Caller \cup {NoJob, MainLoop})
       = Cardinality(Job) + Cardinality(Caller) + 2
  /\ IsFiniteSet(Job) /\ IsFiniteSet(Caller)

VARIABLES
  enabled,   \* pitr.enabled in the configuration
  lock,      \* the job that holds the replica set's PITR lock
  main,      \* where the main loop is
  pitrjob,   \* a.pitrjob
  job,       \* where each job's goroutine is
  ctxDone,   \* stopSlicing was called
  watcher,   \* the goroutine that waits for ctxDone
  wakeSent,  \* bcpWakeSent of each job
  caller,    \* where each sliceNow goroutine is
  sender,    \* who sends on pitrjob.w: it holds slicerMx meanwhile
  restore,   \* the command loop: listening, or at a step of Restore
  restLock,  \* the restore's own lock, pbmLock, is held
  late       \* the jobs that got their lock under the restore that runs

jobs == <<job, ctxDone, watcher, wakeSent>>
restoring == <<restore, restLock, late>>
vars == <<enabled, lock, main, pitrjob, jobs, caller, sender, restoring>>

-----------------------------------------------------------------------------
MainStep == {"config", "remove", "can", "get", "wake", "send", "check", "acquire",
             "catchup"}

\* Between setPitr and the return of Stream.
Streaming == {"start", "select", "backup", "slice", "lastSlice"}
Closing == {"release", "cancel"}
JobStep == {"none", "new", "set", "done"} \cup Streaming \cup Closing

\* The job has its lock and no reason to end.
Slicing(j) == job[j] \in {"new", "set"} \cup Streaming

MutexFree == sender = NoJob

\* A slot whose goroutines are all gone.
Unused(j) == job[j] \in {"none", "done"} /\ watcher[j] \in {"off", "gone"} /\ pitrjob # j

\* setPitr: cancels the job there is and replaces it.
SetPitr(p) ==
  /\ MutexFree
  /\ ctxDone' = [j \in Job |-> ctxDone[j] \/ j = pitrjob]
  /\ pitrjob' = p

RemovePitr == SetPitr(NoJob)

Init ==
  /\ enabled \in BOOLEAN
  /\ lock = NoJob
  /\ main = "config"
  /\ pitrjob = NoJob
  /\ job = [j \in Job |-> "none"]
  /\ ctxDone = [j \in Job |-> FALSE]
  /\ watcher = [j \in Job |-> "off"]
  /\ wakeSent = [j \in Job |-> FALSE]
  /\ caller = [k \in Caller |-> "idle"]
  /\ sender = NoJob
  /\ restore = "listen"
  /\ restLock = FALSE
  /\ late = 0

-----------------------------------------------------------------------------
(* The main loop: PITR calls pitr again and again. Any of its round trips    *)
(* may fail, and then the pass is over.                                      *)

MainAt(from, to) == main = from /\ main' = to

MainOnly == UNCHANGED <<enabled, lock, pitrjob, jobs, caller, sender, restoring>>

\* Faulty variant: a disabled PITR is only not started.
ReadConfigOnly == main = "config" /\ enabled /\ main' = "can" /\ MainOnly

ReadConfig == MainAt("config", IF enabled THEN "can" ELSE "remove") /\ MainOnly

\* PITR is disabled: removePitr.
MainRemove ==
  /\ MainAt("remove", "config")
  /\ RemovePitr
  /\ UNCHANGED <<enabled, lock, job, watcher, wakeSent, caller, sender, restoring>>

\* A restore's lock is in the way; a backup's may be, or that of a restore of
\* another agent (GiveUp).
CanSlicingNow == ~restLock /\ MainAt("can", "get") /\ MainOnly

\* getPitr: the span of a job that is there is set, and if it has become
\* smaller the job is woken up.
GetPitr ==
  /\ MutexFree
  /\ \/ pitrjob = NoJob /\ MainAt("get", "check")
     \/ pitrjob # NoJob /\ (MainAt("get", "config") \/ MainAt("get", "wake"))
  /\ MainOnly

MainSliceNow ==
  /\ MutexFree
  /\ MainAt("wake", IF pitrjob = NoJob THEN "config" ELSE "send")
  /\ sender' = IF pitrjob = NoJob THEN NoJob ELSE MainLoop
  /\ UNCHANGED <<enabled, lock, pitrjob, jobs, caller, restoring>>

PitrLockCheck == MainAt("check", IF lock = NoJob THEN "acquire" ELSE "config") /\ MainOnly

\* The agent was nominated. The slot of the job that gets the lock is a fresh one.
AcquireLock(j) ==
  /\ lock = NoJob /\ lock' = j
  /\ Unused(j)
  /\ MainAt("acquire", "catchup")
  /\ job' = [job EXCEPT ![j] = "new"]
  /\ ctxDone' = [ctxDone EXCEPT ![j] = FALSE]
  /\ watcher' = [watcher EXCEPT ![j] = "off"]
  /\ wakeSent' = [wakeSent EXCEPT ![j] = FALSE]
  /\ late' = IF restore = "run" THEN late + 1 ELSE late
  /\ UNCHANGED <<enabled, pitrjob, caller, sender, restore, restLock>>

\* Faulty variant: goes on after the error.
CatchupAnyway(j) ==
  /\ MainAt("catchup", "config")
  /\ job[j] = "new"
  /\ job' = [job EXCEPT ![j] = "set"] /\ lock' \in {lock, NoJob}
  /\ UNCHANGED <<enabled, pitrjob, ctxDone, watcher, wakeSent, caller, sender, restoring>>

\* The slicer has caught up and the job's goroutine is started; on an error
\* the lock is released.
Catchup(j) ==
  /\ MainAt("catchup", "config")
  /\ job[j] = "new"
  /\ \/ job' = [job EXCEPT ![j] = "set"] /\ UNCHANGED lock
     \/ job' = [job EXCEPT ![j] = "done"] /\ lock' = NoJob
  /\ UNCHANGED <<enabled, pitrjob, ctxDone, watcher, wakeSent, caller, sender, restoring>>

\* An error, a backup, a node that does not suit, another node nominated, or
\* a lock somebody else has.
GiveUp == main \in {"config", "can", "check", "acquire"} /\ main' = "config" /\ MainOnly

-----------------------------------------------------------------------------
(* A job's goroutine: setPitr, Stream, the release of the lock, and the      *)
(* deferred stopSlicing. The report of an error is in PitrCluster.           *)

JobAt(j, from, to) == job[j] = from /\ job' = [job EXCEPT ![j] = to]

JobOnly ==
  UNCHANGED <<enabled, lock, main, pitrjob, ctxDone, watcher, wakeSent, caller, sender, restoring>>

JobSet(j) ==
  /\ JobAt(j, "set", "start")
  /\ SetPitr(j)
  /\ watcher' = [watcher EXCEPT ![j] = "wait"]
  /\ UNCHANGED <<enabled, lock, main, wakeSent, caller, sender, restoring>>

\* The checks Stream begins with: a starting point, a sufficient oplog.
StreamStart(j) == (JobAt(j, "start", "select") \/ JobAt(j, "start", "release")) /\ JobOnly

\* The watcher closes stopC before it removes the job.
StopClosed(j) == watcher[j] \in {"remove", "gone"}

\* <-stopC: the last slice, or none if the cluster is in error.
OnStop(j) ==
  /\ StopClosed(j)
  /\ JobAt(j, "select", "lastSlice") \/ JobAt(j, "select", "release")
  /\ JobOnly

\* <-tk.C
OnTick(j) == JobAt(j, "select", "slice") /\ JobOnly

\* <-backupSig: the sender goes on and unlocks the mutex. The main loop sends
\* no opid, and its wake-up is like a tick.
OnWake(j) ==
  /\ sender # NoJob /\ sender' = NoJob
  /\ pitrjob = j
  /\ JobAt(j, "select", IF sender = MainLoop THEN "slice" ELSE "backup")
  /\ main' = IF sender = MainLoop THEN "config" ELSE main
  /\ caller' = [k \in Caller |-> IF k = sender THEN "idle" ELSE caller[k]]
  /\ UNCHANGED <<enabled, lock, pitrjob, ctxDone, watcher, wakeSent, restoring>>

\* backupRSStartTS: the last slice ends at the backup's first write, or now if
\* the backup is unsuitable; or it is not needed; or there is an error.
BackupStart(j) == (JobAt(j, "backup", "lastSlice") \/ JobAt(j, "backup", "release")) /\ JobOnly

\* A chunk is uploaded if the node suits and the lock, looked up by replica set
\* and type, is this agent's. An error at any of this ends Stream, as the last
\* slice does.
Slice(j) ==
  /\ \/ lock # NoJob /\ JobAt(j, "slice", "select")
     \/ JobAt(j, "slice", "release") \/ JobAt(j, "lastSlice", "release")
  /\ JobOnly

\* Release deletes by the lock's header, which all jobs of the agent share.
Release(j) ==
  /\ JobAt(j, "release", "cancel")
  /\ lock' = NoJob
  /\ UNCHANGED <<enabled, main, pitrjob, ctxDone, watcher, wakeSent, caller, sender, restoring>>

Cancel(j) ==
  /\ JobAt(j, "cancel", "done")
  /\ ctxDone' = [ctxDone EXCEPT ![j] = TRUE]
  /\ UNCHANGED <<enabled, lock, main, pitrjob, watcher, wakeSent, caller, sender, restoring>>

-----------------------------------------------------------------------------
(* The goroutines beside a job.                                              *)

BesideJob == UNCHANGED <<enabled, lock, main, job, wakeSent, caller, sender, restoring>>

WatchDone(j) ==
  /\ watcher[j] = "wait" /\ ctxDone[j]
  /\ watcher' = [watcher EXCEPT ![j] = "remove"]
  /\ UNCHANGED <<pitrjob, ctxDone>> /\ BesideJob

\* removePitr takes away whatever job is there by now.
WatchRemove(j) ==
  /\ watcher[j] = "remove"
  /\ RemovePitr
  /\ watcher' = [watcher EXCEPT ![j] = "gone"]
  /\ BesideJob

\* The status goroutine finds reconfig, error, or a stale heartbeat.
StatusStop(j) ==
  /\ job[j] \in Streaming \cup Closing /\ ~ctxDone[j]
  /\ ctxDone' = [ctxDone EXCEPT ![j] = TRUE]
  /\ UNCHANGED <<pitrjob, watcher>> /\ BesideJob

\* The topology or the activity monitor, on the leader.
MonitorRemove == RemovePitr /\ UNCHANGED watcher /\ BesideJob

\* The command loop got a backup command: it starts sliceNow in a goroutine.
BackupCommand(k) ==
  /\ restore = "listen"
  /\ caller[k] = "idle"
  /\ caller' = [caller EXCEPT ![k] = "lock"]
  /\ UNCHANGED <<enabled, lock, main, pitrjob, jobs, sender, restoring>>

\* sliceNow: a job is woken up for a backup only once.
SliceNow(k) ==
  /\ MutexFree
  /\ caller[k] = "lock"
  /\ LET wake == pitrjob # NoJob /\ \E j \in Job : pitrjob = j /\ ~wakeSent[j] IN
       /\ wakeSent' = [j \in Job |-> wakeSent[j] \/ j = pitrjob]
       /\ caller' = [caller EXCEPT ![k] = IF wake THEN "send" ELSE "idle"]
       /\ sender' = IF wake THEN k ELSE NoJob
  /\ UNCHANGED <<enabled, lock, main, pitrjob, job, ctxDone, watcher, restoring>>

-----------------------------------------------------------------------------
(* Agent.Restore, in the command loop.                                       *)

RestoreAt(from, to) == restore = from /\ restore' = to

\* The primary's agent acquires pbmLock, that of a secondary does not. The
\* leader's agent then disables PITR; this one goes on when it is not the
\* leader's, or when it fails.
RestoreStart ==
  /\ RestoreAt("listen", "remove")
  /\ restLock' \in BOOLEAN
  /\ enabled' \in {enabled, FALSE}
  /\ UNCHANGED <<lock, main, pitrjob, jobs, caller, sender, late>>

RestoreRemove ==
  /\ RestoreAt("remove", "wait")
  /\ RemovePitr
  /\ UNCHANGED <<enabled, lock, main, job, watcher, wakeSent, caller, sender, restLock, late>>

\* Faulty variant: looks at the configuration only.
RestoreWaitConfig ==
  /\ RestoreAt("wait", "run")
  /\ ~enabled
  /\ UNCHANGED <<enabled, lock, main, pitrjob, jobs, caller, sender, restLock, late>>

\* waitForPITRSlicerStop: PITR is disabled and nobody holds the lock.
RestoreWait ==
  /\ RestoreAt("wait", "run")
  /\ ~enabled /\ lock = NoJob
  /\ UNCHANGED <<enabled, lock, main, pitrjob, jobs, caller, sender, restLock, late>>

\* A physical restore gives its lock up before Snapshot takes the node down.
RestoreUnlock ==
  /\ RestoreAt("run", "run")
  /\ restLock /\ restLock' = FALSE
  /\ UNCHANGED <<enabled, lock, main, pitrjob, jobs, caller, sender, late>>

\* The restore is over, or the wait has timed out.
RestoreEnd ==
  /\ restore \in {"wait", "run"} /\ restore' = "listen"
  /\ restLock' = FALSE
  /\ late' = 0
  /\ UNCHANGED <<enabled, lock, main, pitrjob, jobs, caller, sender>>

\* The user turns PITR on and off. Nothing in the code keeps it from being
\* turned on in the middle of a restore; that the user does not is assumed.
Configure ==
  /\ enabled' = ~enabled
  /\ enabled' => restore = "listen"
  /\ UNCHANGED <<lock, main, pitrjob, jobs, caller, sender, restoring>>

-----------------------------------------------------------------------------
MainLoopStep ==
  \/ ReadConfig \/ MainRemove \/ CanSlicingNow \/ GetPitr \/ MainSliceNow \/ PitrLockCheck
  \/ GiveUp \/ \E j \in Job : AcquireLock(j) \/ Catchup(j)

Stream(j) ==
  \/ JobSet(j) \/ StreamStart(j) \/ OnStop(j) \/ OnTick(j) \/ OnWake(j) \/ BackupStart(j)
  \/ Slice(j) \/ Release(j) \/ Cancel(j)

Watch(j) == WatchDone(j) \/ WatchRemove(j)

CommandLoop == RestoreStart \/ RestoreRemove \/ RestoreWait \/ RestoreUnlock \/ RestoreEnd

Next ==
  \/ MainLoopStep \/ CommandLoop \/ Configure \/ MonitorRemove
  \/ \E j \in Job : Stream(j) \/ Watch(j) \/ StatusStop(j)
  \/ \E k \in Caller : BackupCommand(k) \/ SliceNow(k)

Spec == Init /\ [][Next]_vars

(***************************************************************************)
(* Goroutines are scheduled. Go picks at random among the ready cases of a *)
(* select, so a signal that stays ready is received in the end.            *)
(***************************************************************************)
Fairness ==
  /\ WF_vars(MainLoopStep)
  /\ \A j \in Job : WF_vars(Stream(j)) /\ WF_vars(Watch(j)) /\ SF_vars(OnStop(j)) /\ SF_vars(OnWake(j))

FairSpec == Spec /\ Fairness

-----------------------------------------------------------------------------
TypeOK ==
  /\ enabled \in BOOLEAN
  /\ lock \in Job \cup {NoJob}
  /\ main \in MainStep
  /\ pitrjob \in Job \cup {NoJob}
  /\ job \in [Job -> JobStep]
  /\ ctxDone \in [Job -> BOOLEAN]
  /\ watcher \in [Job -> {"off", "wait", "remove", "gone"}]
  /\ wakeSent \in [Job -> BOOLEAN]
  /\ caller \in [Caller -> {"idle", "lock", "send"}]
  /\ sender \in Caller \cup {NoJob, MainLoop}
  /\ restore \in {"listen", "remove", "wait", "run"}
  /\ restLock \in BOOLEAN
  /\ late \in Nat

\* One job at a time reads the oplog, and it does so under the replica set's
\* lock: the lock is released last and acquired before the job is started.
OneStream ==
  \A j \in Job : job[j] \in {"new", "set", "release"} \cup Streaming => lock = j

\* "Wait for the slicer to stop on every node" (restore.go:95) does not make a restore
\* run alone. But what is sliced while a restore runs is sliced by one job at most, and that
\* one got its lock after waitForPITRSlicerStop had returned: the wait overlooks
\* no job, and of the passes of the main loop only the one that had read the
\* configuration before PITR was disabled can still start one, whether or not
\* the restore has a lock that such a pass would see.
OneLateJob ==
  restore = "run" => /\ late <= 1
                     /\ late = 0 => \A j \in Job : ~Slicing(j)

\* The job reads no signal any more, and somebody who holds the mutex sends it one.
Wedged == sender # NoJob /\ \E j \in Job : pitrjob = j /\ job[j] \in Closing \cup {"done"}

\* When PITR is disabled for good, the agent stops slicing.
DisabledStops ==
  <>[]~enabled /\ []~Wedged => <>[](\A j \in Job : job[j] \notin Streaming)

=============================================================================

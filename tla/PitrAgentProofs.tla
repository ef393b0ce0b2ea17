-------------------------- MODULE PitrAgentProofs --------------------------
(***************************************************************************)
(* Theorems about PitrAgent, for any number of job slots and callers.      *)
(***************************************************************************)
EXTENDS PitrAgent, FiniteSetTheorems, TLAPS

\* NoJob is the name of no job: Names counts it beside the jobs.
LEMMA NoJobIsNone == NoJob \notin Job
<1> SUFFICES ASSUME NoJob \in Job PROVE FALSE
  OBVIOUS
<1>1. Job \cup Caller \cup {NoJob, MainLoop} = (Job \cup Caller) \cup {MainLoop}
  OBVIOUS
<1>2. IsFiniteSet(Job) /\ IsFiniteSet(Caller) /\ IsFiniteSet(Job \cup Caller)
  BY Names, FS_Union
<1>3. Cardinality(Job \cup Caller) <= Cardinality(Job) + Cardinality(Caller)
  <2>1. /\ Cardinality(Job \cup Caller)
             = Cardinality(Job) + Cardinality(Caller) - Cardinality(Job \cap Caller)
        /\ IsFiniteSet(Job \cap Caller)
    BY <1>2, FS_Union, FS_Intersection
  <2> QED
    BY <1>2, <2>1, FS_CardinalityType
<1>4. /\ Cardinality(Job) \in Nat
      /\ Cardinality(Caller) \in Nat
      /\ Cardinality(Job \cup Caller) \in Nat
  BY <1>2, FS_CardinalityType
<1>5. Cardinality((Job \cup Caller) \cup {MainLoop})
        \in {Cardinality(Job \cup Caller), Cardinality(Job \cup Caller) + 1}
  <2> DEFINE S == Job \cup Caller
  <2>1. IsFiniteSet(S)
    BY <1>2
  <2>2. Cardinality(S \cup {MainLoop})
          = IF MainLoop \in S THEN Cardinality(S) ELSE Cardinality(S) + 1
    <3> HIDE DEF S
    <3> QED
      BY <2>1, FS_AddElement, Zenon
  <2> QED
    BY <2>2
<1> QED
  BY <1>1, <1>3, <1>4, <1>5, Names

---------------------------------------------------------------------------
LEMMA InitType == Init => TypeOK
<1> SUFFICES ASSUME Init PROVE TypeOK
  OBVIOUS
<1>1. late \in Nat
  BY DEF Init
<1>2. job \in [Job -> JobStep] /\ main \in MainStep
  BY Zenon DEF Init, JobStep, MainStep
<1> QED
  BY <1>1, <1>2 DEF Init, TypeOK

LEMMA StepType == TypeOK /\ [Next]_vars => TypeOK'
<1> SUFFICES ASSUME TypeOK, [Next]_vars PROVE TypeOK'
  OBVIOUS
<1> USE DEF TypeOK, MainStep, JobStep, Streaming, Closing, jobs, restoring
<1>1. CASE MainLoopStep
  <2> USE DEF MainAt, MainOnly
  <2>1. CASE ReadConfig
    <3>1. main' \in {"can", "remove"}
      BY <2>1 DEF ReadConfig
    <3> QED
      BY <2>1, <3>1 DEF ReadConfig
  <2>2. CASE MainRemove BY <2>2 DEF MainRemove, RemovePitr, SetPitr
  <2>3. CASE CanSlicingNow
    <3>1. main' \in {"get", "config"}
      BY <2>3 DEF CanSlicingNow
    <3> QED
      BY <2>3, <3>1 DEF CanSlicingNow
  <2>4. CASE GetPitr BY <2>4 DEF GetPitr
  <2>5. CASE MainSliceNow
    <3>1. main' \in {"config", "send"} /\ sender' \in {NoJob, MainLoop}
      BY <2>5 DEF MainSliceNow
    <3> QED
      BY <2>5, <3>1 DEF MainSliceNow
  <2>6. CASE PitrLockCheck
    <3>1. main' \in {"config", "acquire"}
      BY <2>6 DEF PitrLockCheck
    <3> QED
      BY <2>6, <3>1 DEF PitrLockCheck
  <2>7. CASE GiveUp BY <2>7 DEF GiveUp
  <2>8. ASSUME NEW j \in Job, AcquireLock(j) PROVE TypeOK'
    BY <2>8 DEF AcquireLock
  <2>9. ASSUME NEW j \in Job, Catchup(j) PROVE TypeOK'
    BY <2>9 DEF Catchup
  <2> QED
    BY <1>1, <2>1, <2>2, <2>3, <2>4, <2>5, <2>6, <2>7, <2>8, <2>9 DEF MainLoopStep
<1>2. CASE CommandLoop
  <2> USE DEF RestoreAt
  <2>1. CASE RestoreStart BY <2>1 DEF RestoreStart
  <2>2. CASE RestoreRemove BY <2>2 DEF RestoreRemove, RemovePitr, SetPitr
  <2>3. CASE RestoreWait BY <2>3 DEF RestoreWait
  <2>4. CASE RestoreUnlock BY <2>4 DEF RestoreUnlock
  <2>5. CASE RestoreEnd BY <2>5 DEF RestoreEnd
  <2> QED
    BY <1>2, <2>1, <2>2, <2>3, <2>4, <2>5 DEF CommandLoop
<1>3. CASE Configure
  BY <1>3 DEF Configure
<1>4. CASE MonitorRemove
  BY <1>4 DEF MonitorRemove, RemovePitr, SetPitr, BesideJob
<1>5. ASSUME NEW j \in Job, Stream(j) PROVE TypeOK'
  <2> USE DEF JobAt, JobOnly
  <2>1. CASE JobSet(j) BY <2>1 DEF JobSet, SetPitr
  <2>2. CASE StreamStart(j) BY <2>2 DEF StreamStart
  <2>3. CASE OnStop(j) BY <2>3 DEF OnStop
  <2>4. CASE OnTick(j) BY <2>4 DEF OnTick
  <2>5. CASE OnWake(j) BY <2>5 DEF OnWake
  <2>6. CASE BackupStart(j) BY <2>6 DEF BackupStart
  <2>7. CASE Slice(j) BY <2>7 DEF Slice
  <2>8. CASE Release(j) BY <2>8 DEF Release
  <2>9. CASE Cancel(j) BY <2>9 DEF Cancel
  <2> QED
    BY <1>5, <2>1, <2>2, <2>3, <2>4, <2>5, <2>6, <2>7, <2>8, <2>9 DEF Stream
<1>6. ASSUME NEW j \in Job, Watch(j) \/ StatusStop(j) PROVE TypeOK'
  <2> USE DEF BesideJob
  <2>1. CASE WatchDone(j) BY <2>1 DEF WatchDone
  <2>2. CASE WatchRemove(j) BY <2>2 DEF WatchRemove, RemovePitr, SetPitr
  <2>3. CASE StatusStop(j) BY <2>3 DEF StatusStop
  <2> QED
    BY <1>6, <2>1, <2>2, <2>3 DEF Watch
<1>7. ASSUME NEW k \in Caller, BackupCommand(k) \/ SliceNow(k) PROVE TypeOK'
  <2>1. CASE BackupCommand(k)
    BY <2>1 DEF BackupCommand
  <2>2. CASE SliceNow(k)
    <3>1. wakeSent' \in [Job -> BOOLEAN]
      BY <2>2 DEF SliceNow
    <3>2. sender' \in {k, NoJob} /\ \E to \in {"send", "idle"} : caller' = [caller EXCEPT ![k] = to]
      BY <2>2 DEF SliceNow
    <3>3. UNCHANGED <<enabled, lock, main, pitrjob, job, ctxDone, watcher, restoring>>
      BY <2>2 DEF SliceNow
    <3> QED
      BY <3>1, <3>2, <3>3
  <2> QED
    BY <1>7, <2>1, <2>2
<1>8. CASE UNCHANGED vars
  BY <1>8 DEF vars
<1> QED
  BY <1>1, <1>2, <1>3, <1>4, <1>5, <1>6, <1>7, <1>8 DEF Next

\* The variables stay in their types.
THEOREM TypeCorrect == Spec => []TypeOK
  BY InitType, StepType, PTL DEF Spec

---------------------------------------------------------------------------
(* Who holds the replica set's lock. A job's goroutine gives it up last, by  *)
(* a header that names no job: that another job's lock goes with it is what  *)
(* OneStream denies.                                                         *)

UnderLock == {"new", "set", "release"} \cup Streaming

LEMMA InitStream == Init => OneStream
  BY DEF Init, OneStream, Streaming

\* A step that lets no job enter the section and leaves the lock keeps OneStream.
LEMMA StreamKept ==
  ASSUME OneStream, UNCHANGED lock,
         \A j \in Job : job'[j] \in UnderLock => job[j] \in UnderLock
  PROVE  OneStream'
  BY DEF OneStream, UnderLock

LEMMA StepStream == TypeOK /\ OneStream /\ [Next]_vars => OneStream'
<1> SUFFICES ASSUME TypeOK, OneStream, [Next]_vars PROVE OneStream'
  OBVIOUS
<1> USE DEF TypeOK, jobs, restoring
<1>1. CASE UNCHANGED <<job, lock>>
  BY <1>1 DEF OneStream
<1>2. ASSUME NEW j \in Job, AcquireLock(j) PROVE OneStream'
  <2>1. \A i \in Job : job[i] \notin UnderLock
    BY <1>2, NoJobIsNone DEF AcquireLock, OneStream, UnderLock
  <2> QED
    BY <1>2, <2>1 DEF AcquireLock, OneStream, UnderLock, Streaming
<1>3. ASSUME NEW j \in Job, Catchup(j) PROVE OneStream'
  <2>1. lock = j
    BY <1>3 DEF Catchup, OneStream
  <2> QED
    BY <1>3, <2>1 DEF Catchup, OneStream, Streaming
<1>4. ASSUME NEW j \in Job, Stream(j) PROVE OneStream'
  <2>1. CASE Release(j)
    <3>1. lock = j
      BY <2>1 DEF Release, JobAt, OneStream
    <3> QED
      BY <2>1, <3>1 DEF Release, JobAt, OneStream, Streaming
  <2>2. CASE ~Release(j)
    <3>1. UNCHANGED lock
      BY <1>4, <2>2 DEF Stream, JobSet, StreamStart, OnStop, OnTick, OnWake, BackupStart, Slice,
                        Cancel, JobOnly
    <3>2. \A i \in Job : job'[i] \in UnderLock => job[i] \in UnderLock
      <4>1. job' = [job EXCEPT ![j] = job'[j]]
        BY <1>4 DEF Stream, JobSet, StreamStart, OnStop, OnTick, OnWake, BackupStart, Slice,
                    Release, Cancel, JobAt
      <4>2. job[j] \in UnderLock \/ job'[j] = "done"
        BY <1>4 DEF Stream, JobSet, StreamStart, OnStop, OnTick, OnWake, BackupStart, Slice,
                    Release, Cancel, JobAt, UnderLock, Streaming
      <4> QED
        BY <4>1, <4>2 DEF UnderLock, Streaming
    <3> QED
      BY <3>1, <3>2, StreamKept
  <2> QED
    BY <2>1, <2>2
<1>5. CASE MainLoopStep
  BY <1>1, <1>2, <1>3, <1>5 DEF MainLoopStep, ReadConfig, MainRemove, CanSlicingNow, GetPitr,
                                MainSliceNow, PitrLockCheck, GiveUp, MainOnly
<1>6. CASE CommandLoop \/ Configure \/ MonitorRemove
  BY <1>1, <1>6 DEF CommandLoop, RestoreStart, RestoreRemove, RestoreWait, RestoreUnlock,
                    RestoreEnd, Configure, MonitorRemove, BesideJob
<1>7. ASSUME NEW j \in Job, Watch(j) \/ StatusStop(j) PROVE OneStream'
  BY <1>1, <1>7 DEF Watch, WatchDone, WatchRemove, StatusStop, BesideJob
<1>8. ASSUME NEW k \in Caller, BackupCommand(k) \/ SliceNow(k) PROVE OneStream'
  BY <1>1, <1>8 DEF BackupCommand, SliceNow
<1>9. CASE UNCHANGED vars
  BY <1>1, <1>9 DEF vars
<1> QED
  BY <1>4, <1>5, <1>6, <1>7, <1>8, <1>9 DEF Next

\* One job at a time reads the oplog of a replica set, and the lock is its own:
\* PITR, Stream and the deferred release and stopSlicing, whatever stops a job.
THEOREM OneStreamAlways == Spec => []OneStream
<1>1. Init => TypeOK /\ OneStream
  BY InitType, InitStream
<1>2. TypeOK /\ OneStream /\ [Next]_vars => (TypeOK /\ OneStream)'
  BY StepType, StepStream
<1> QED
  BY <1>1, <1>2, PTL DEF Spec

---------------------------------------------------------------------------
(* A restore and the slicer. When the wait ends nobody holds the lock, so by *)
(* OneStream no job is there. PITR stays disabled while the restore runs, so *)
(* a pass of the main loop that comes from the configuration goes to remove: *)
(* once one has got the lock, no other is past that point.                   *)

Spent == main \in {"catchup", "config", "remove"}

Sealed ==
  /\ restore # "run" => late = 0
  /\ restore = "run" => /\ ~enabled
                        /\ late = 0 \/ (late = 1 /\ Spent)
                        /\ late = 0 => \A j \in Job : ~Slicing(j)

\* A step that starts no job and takes a spent pass not past the configuration
\* keeps Sealed.
LEMMA SealedKept ==
  ASSUME Sealed, UNCHANGED <<enabled, restore, late>>,
         ~enabled /\ Spent => Spent',
         \A j \in Job : Slicing(j)' => Slicing(j)
  PROVE  Sealed'
  BY DEF Sealed

LEMMA StepSealed == TypeOK /\ OneStream /\ Sealed /\ [Next]_vars => Sealed'
<1> SUFFICES ASSUME TypeOK, OneStream, Sealed, [Next]_vars PROVE Sealed'
  OBVIOUS
<1> USE DEF TypeOK, jobs, restoring
<1>1. CASE CommandLoop
  <2>1. CASE RestoreWait
    <3>1. \A j \in Job : ~Slicing(j)'
      BY <2>1, NoJobIsNone DEF RestoreWait, OneStream, Slicing
    <3>2. late' = 0 /\ restore' = "run" /\ ~enabled'
      BY <2>1 DEF RestoreWait, RestoreAt, Sealed
    <3> QED
      BY <3>1, <3>2 DEF Sealed, Slicing
  <2>2. CASE RestoreUnlock
    BY <2>2 DEF RestoreUnlock, RestoreAt, Sealed, Slicing, Spent
  <2>3. CASE RestoreStart \/ RestoreRemove \/ RestoreEnd
    BY <2>3 DEF RestoreStart, RestoreRemove, RestoreEnd, RestoreAt, Sealed
  <2> QED
    BY <1>1, <2>1, <2>2, <2>3 DEF CommandLoop
<1>2. CASE Configure
  BY <1>2 DEF Configure, Sealed, Slicing, Spent
<1>3. ASSUME NEW j \in Job, AcquireLock(j) PROVE Sealed'
  <2>1. main = "acquire" /\ main' = "catchup" /\ UNCHANGED <<enabled, restore>>
    BY <1>3 DEF AcquireLock, MainAt
  <2>2. late' = IF restore = "run" THEN late + 1 ELSE late
    BY <1>3 DEF AcquireLock
  <2>3. restore = "run" => late = 0 /\ ~enabled
    BY <2>1 DEF Sealed, Spent
  <2> QED
    BY <2>1, <2>2, <2>3 DEF Sealed, Spent
<1>4. CASE MainLoopStep /\ ~\E j \in Job : AcquireLock(j)
  <2>1. UNCHANGED <<enabled, restore, late>>
    BY <1>4 DEF MainLoopStep, ReadConfig, MainRemove, CanSlicingNow, GetPitr, MainSliceNow,
         PitrLockCheck, GiveUp, MainOnly, Catchup
  <2>2. ~enabled /\ Spent => Spent'
    BY <1>4 DEF MainLoopStep, ReadConfig, MainRemove, CanSlicingNow, GetPitr, MainSliceNow,
         PitrLockCheck, GiveUp, MainAt, Catchup, Spent
  <2>3. \A j \in Job : Slicing(j)' => Slicing(j)
    BY <1>4 DEF MainLoopStep, ReadConfig, MainRemove, CanSlicingNow, GetPitr, MainSliceNow,
         PitrLockCheck, GiveUp, MainOnly, Catchup, Slicing
  <2> QED
    BY <2>1, <2>2, <2>3, SealedKept
<1>5. ASSUME NEW j \in Job, Stream(j) PROVE Sealed'
  <2>1. UNCHANGED <<enabled, restore, late>> /\ (Spent => Spent')
    BY <1>5 DEF Stream, JobSet, StreamStart, OnStop, OnTick, OnWake, BackupStart, Slice, Release,
         Cancel, JobOnly, Spent
  <2>2. \A i \in Job : Slicing(i)' => Slicing(i)
    <3>1. job' = [job EXCEPT ![j] = job'[j]]
      BY <1>5 DEF Stream, JobSet, StreamStart, OnStop, OnTick, OnWake, BackupStart, Slice,
           Release, Cancel, JobAt
    <3>2. Slicing(j)' => Slicing(j)
      BY <1>5 DEF Stream, JobSet, StreamStart, OnStop, OnTick, OnWake, BackupStart, Slice,
           Release, Cancel, JobAt, Slicing, Streaming
    <3> QED
      BY <3>1, <3>2 DEF Slicing
  <2> QED
    BY <2>1, <2>2, SealedKept
<1>6. CASE MonitorRemove \/ UNCHANGED vars
  <2>1. UNCHANGED <<enabled, restore, late, main, job>>
    BY <1>6 DEF MonitorRemove, BesideJob, vars
  <2> QED
    BY <2>1, SealedKept DEF Slicing, Spent
<1>7. ASSUME NEW j \in Job, Watch(j) \/ StatusStop(j) PROVE Sealed'
  BY <1>7, SealedKept DEF Watch, WatchDone, WatchRemove, StatusStop, BesideJob, Slicing, Spent
<1>8. ASSUME NEW k \in Caller, BackupCommand(k) \/ SliceNow(k) PROVE Sealed'
  BY <1>8, SealedKept DEF BackupCommand, SliceNow, Slicing, Spent
<1> QED
  BY <1>1, <1>2, <1>3, <1>4, <1>5, <1>6, <1>7, <1>8 DEF Next

\* What is sliced under a restore is sliced by one job, begun after the wait:
\* waitForPITRSlicerStop overlooks no job, and after it only the pass of the
\* main loop that had seen PITR enabled can start one. No pass needs to see the
\* restore's lock for it.
THEOREM OneLateJobAtMost == Spec => []OneLateJob
<1>1. Init => TypeOK /\ OneStream /\ Sealed
  BY InitType, InitStream DEF Init, Sealed
<1>2. TypeOK /\ OneStream /\ Sealed /\ [Next]_vars => (TypeOK /\ OneStream /\ Sealed)'
  BY StepType, StepStream, StepSealed
<1>3. Sealed => OneLateJob
  BY DEF Sealed, OneLateJob
<1> QED
  BY <1>1, <1>2, <1>3, PTL DEF Spec

===========================================================================

-------------------------- MODULE BackupRunProofs --------------------------
(***************************************************************************)
(* Theorems about BackupRun, for any replica sets and any of the faults.   *)
(***************************************************************************)
EXTENDS BackupRun, TLAPS

---------------------------------------------------------------------------
(* Types *)

LEMMA InitType == Init => TypeOK
<1>1. "none" \in Status /\ "none" \in RSStatus /\ "none" \in Lock
  BY DEF Status, RSStatus, Lock
<1>2. "nomination" \in PC
  BY DEF PC, BeforeRun
<1> SUFFICES ASSUME Init PROVE TypeOK
  OBVIOUS
<1>3. /\ hb \in BOOLEAN /\ firstWrite \in BOOLEAN /\ lastWrite \in BOOLEAN
      /\ metaFile \in BOOLEAN /\ balancer \in BOOLEAN /\ balancerWas \in BOOLEAN
  BY Zenon DEF Init
<1>4. rsStatus \in [Shard -> RSStatus] /\ lock \in [Shard -> Lock] /\ pc \in [Shard -> PC]
  BY <1>1, <1>2 DEF Init
<1>5. rsLastWrite \in [Shard -> BOOLEAN]
  BY DEF Init
<1> QED
  BY <1>1, <1>3, <1>4, <1>5 DEF Init, TypeOK

LEMMA GotoType ==
  ASSUME TypeOK, NEW s \in Shard, NEW label \in PC, Goto(s, label)
  PROVE  pc' \in [Shard -> PC]
  BY DEF TypeOK, Goto

LEMMA PassType ==
  ASSUME TypeOK, NEW s \in Shard, NEW label \in PC, Pass(s, label)
  PROVE  pc' \in [Shard -> PC] /\ err' = err
  BY GotoType DEF Pass

LEMMA FailType ==
  ASSUME TypeOK, NEW s \in Shard, NEW kind \in {"error", "canceled"}, Fail(s, kind)
  PROVE  pc' \in [Shard -> PC] /\ err' \in [Shard -> {"none", "error", "canceled"}]
<1>1. "deleteFiles" \in PC /\ "markRS" \in PC
  BY DEF PC, Unwind
<1> QED
  BY <1>1 DEF TypeOK, Fail, Goto

LEMMA StepFailsType ==
  ASSUME TypeOK, NEW s \in Shard, StepFails(s)
  PROVE  pc' \in [Shard -> PC] /\ err' \in [Shard -> {"none", "error", "canceled"}]
  BY FailType DEF StepFails, LocalFailure

\* The labels the agents go to.
Labels == {"end", "dead", "skipped", "lock", "prologue", "release", "storage", "balancerOff"}
             \cup {"waitStart", "balancerOn", "markBackup", "markRS"} \cup Work

LEMMA LabelsArePlaces == Labels \subseteq PC
  BY DEF Labels, PC, BeforeRun, Work, Waits, Unwind, Gone

LEMMA WaitForType ==
  ASSUME TypeOK, NEW s \in Shard, NEW at, NEW want, NEW next \in PC,
         WaitFor(s, at, want, next)
  PROVE  TypeOK'
<1>1. pc' \in [Shard -> PC] /\ err' \in [Shard -> {"none", "error", "canceled"}]
  BY FailType, PassType DEF WaitFor, PollStatus, TypeOK
<1> QED
  BY <1>1 DEF WaitFor, TypeOK, bcpm, meta, stg, env, hist

LEMMA ConvergeType ==
  ASSUME TypeOK, NEW s \in Shard, NEW at, NEW want, NEW next \in PC,
         Converge(s, at, want, next)
  PROVE  TypeOK'
<1>1. pc' \in [Shard -> PC] /\ err' \in [Shard -> {"none", "error", "canceled"}]
  BY FailType, PassType DEF Converge, TypeOK
<1> QED
  BY <1>1 DEF Converge, TypeOK, bcpm, meta, stg, env, hist

LEMMA SetStatusType ==
  ASSUME TypeOK, NEW s \in Shard, NEW at, NEW new \in Status, NEW next \in PC,
         SetStatus(s, at, new, next)
  PROVE  TypeOK'
<1>1. pc' \in [Shard -> PC] /\ err' \in [Shard -> {"none", "error", "canceled"}]
  BY FailType, PassType DEF SetStatus, LocalFailure, TypeOK
<1> QED
  BY <1>1 DEF SetStatus, TypeOK, bcpm, meta, stg, env, hist

LEMMA SetRSStatusType ==
  ASSUME TypeOK, NEW s \in Shard, NEW at, NEW new \in RSStatus, NEW next \in PC,
         SetRSStatus(s, at, new, next)
  PROVE  TypeOK'
<1>1. pc' \in [Shard -> PC] /\ err' \in [Shard -> {"none", "error", "canceled"}]
  BY FailType, PassType DEF SetRSStatus, LocalFailure, TypeOK
<1>2. rsStatus' \in [Shard -> RSStatus]
  BY DEF SetRSStatus, SetRS, TypeOK
<1> QED
  BY <1>1, <1>2 DEF SetRSStatus, TypeOK, bcpm, meta, stg, env, hist

\* Every step of an agent but the waits, the convergences and the plain status writes.
LEMMA AgentType ==
  ASSUME TypeOK, NEW s \in Shard, Agent(s)
  PROVE  TypeOK'
<1> USE LabelsArePlaces, PassType, GotoType, FailType, StepFailsType
<1> USE DEF Labels, Work, Waits, Then, meta, stg, env, hist, bcpm
<1>1. CASE WaitNomination(s)
  BY <1>1 DEF WaitNomination, TypeOK
<1>2. CASE AcquireLock(s)
  BY <1>2 DEF AcquireLock, TypeOK, Lock
<1>3. CASE Prologue(s)
  <2>1. hb' \in BOOLEAN
    BY <1>3 DEF Prologue, TypeOK
  <2>2. pc' \in [Shard -> PC] /\ err' \in [Shard -> {"none", "error", "canceled"}]
    BY <1>3 DEF Prologue, TypeOK
  <2> QED
    BY <1>3, <2>1, <2>2 DEF Prologue, TypeOK
<1>4. CASE CheckStorage(s)
  <2>1. pc' \in [Shard -> PC] /\ err' \in [Shard -> {"none", "error", "canceled"}]
    BY <1>4 DEF CheckStorage, TypeOK
  <2> QED
    BY <1>4, <2>1 DEF CheckStorage, TypeOK
<1>5. CASE BalancerOff(s)
  <2>1. pc' \in [Shard -> PC] /\ err' \in [Shard -> {"none", "error", "canceled"}]
    BY <1>5 DEF BalancerOff, TypeOK
  <2>2. balancer' \in BOOLEAN
    BY <1>5 DEF BalancerOff, TypeOK
  <2> QED
    BY <1>5, <2>1, <2>2 DEF BalancerOff, TypeOK
<1>6. CASE WaitStart(s)
  <2>1. ASSUME WaitFor(s, "waitStart", "starting", "addRS") PROVE TypeOK'
    BY <2>1, WaitForType
  <2>2. CASE pc[s] = "waitStart" /\ Fail(s, "error")
                /\ UNCHANGED <<bcpm, meta, lock, stg, balancer, ctx, env, hist>>
    <3>1. pc' \in [Shard -> PC] /\ err' \in [Shard -> {"none", "error", "canceled"}]
      BY <2>2
    <3> QED
      BY <2>2, <3>1 DEF TypeOK
  <2> QED
    BY <1>6, <2>1, <2>2 DEF WaitStart
<1>7. CASE AddRS(s)
  <2>1. pc' \in [Shard -> PC] /\ err' \in [Shard -> {"none", "error", "canceled"}]
    BY <1>7 DEF AddRS, TypeOK
  <2>2. rsStatus' \in [Shard -> RSStatus] /\ rsLastWrite' \in [Shard -> BOOLEAN]
    BY <1>7 DEF AddRS, TypeOK, RSStatus
  <2> QED
    BY <1>7, <2>1, <2>2 DEF AddRS, TypeOK
<1>8. CASE ConvRunning(s)
  <2>1. ASSUME Converge(s, "convRunning", "running", "setRunning") PROVE TypeOK'
    BY <2>1, ConvergeType
  <2>2. CASE pc[s] = "convRunning" /\ Fail(s, "error")
                /\ UNCHANGED <<bcpm, meta, lock, stg, balancer, ctx, env, hist>>
    <3>1. pc' \in [Shard -> PC] /\ err' \in [Shard -> {"none", "error", "canceled"}]
      BY <2>2
    <3> QED
      BY <2>2, <3>1 DEF TypeOK
  <2> QED
    BY <1>8, <2>1, <2>2 DEF ConvRunning
<1>9. CASE SetFirstWrite(s)
  <2>1. pc' \in [Shard -> PC] /\ err' \in [Shard -> {"none", "error", "canceled"}]
    BY <1>9 DEF SetFirstWrite, TypeOK
  <2>2. firstWrite' \in BOOLEAN
    BY <1>9, Zenon DEF SetFirstWrite, TypeOK
  <2> QED
    BY <1>9, <2>1, <2>2 DEF SetFirstWrite, TypeOK
<1>10. CASE SetLastWrite(s)
  <2>1. pc' \in [Shard -> PC] /\ err' \in [Shard -> {"none", "error", "canceled"}]
    BY <1>10 DEF SetLastWrite, LocalFailure, TypeOK
  <2>2. lastWrite' \in BOOLEAN
    BY <1>10, Zenon DEF SetLastWrite, TypeOK
  <2>3. unbalanced' \subseteq Shard
    BY <1>10 DEF SetLastWrite, TypeOK
  <2> QED
    BY <1>10, <2>1, <2>2, <2>3 DEF SetLastWrite, TypeOK
<1>11. CASE WaitFirstLast(s)
  <2>1. pc' \in [Shard -> PC] /\ err' \in [Shard -> {"none", "error", "canceled"}]
    BY <1>11 DEF WaitFirstLast, TypeOK
  <2>2. sliced' \in [Shard -> {"no", "early", "complete"}]
    BY <1>11 DEF WaitFirstLast, TypeOK
  <2> QED
    BY <1>11, <2>1, <2>2 DEF WaitFirstLast, TypeOK
<1>12. CASE Dump(s)
  <2>1. AfterDump \in Labels
    BY TypesAssumption DEF AfterDump, TypeOK, Type
  <2>2. pc' \in [Shard -> PC] /\ err' \in [Shard -> {"none", "error", "canceled"}]
    BY <1>12, <2>1 DEF Dump, TypeOK
  <2>3. files' \in [Shard -> {"none", "part", "full"}]
    BY <1>12 DEF Dump, TypeOK
  <2> QED
    BY <1>12, <2>2, <2>3 DEF Dump, TypeOK
<1>13. CASE SetRunning(s) \/ SetDumpDone(s) \/ SetReady(s)
  <2>1. {"running", "dumpDone", "copyReady"} \subseteq Status
    BY DEF Status, RSStatus
  <2> QED
    BY <1>13, <2>1, SetStatusType DEF SetRunning, SetDumpDone, SetReady
<1>14. CASE SetRSDumpDone(s) \/ SetRSReady(s) \/ SetRSDone(s)
  <2>1. {"dumpDone", "copyReady", "done"} \subseteq RSStatus
    BY DEF RSStatus, Final
  <2> QED
    BY <1>14, <2>1, SetRSStatusType DEF SetRSDumpDone, SetRSReady, SetRSDone
<1>15. CASE ConvDumpDone(s) \/ ConvReady(s) \/ ConvDone(s)
  BY <1>15, ConvergeType DEF ConvDumpDone, ConvReady, ConvDone
<1>16. CASE WaitRunning(s) \/ WaitDumpDone(s) \/ WaitReady(s) \/ WaitCopy(s) \/ WaitDone(s)
  BY <1>16, WaitForType
     DEF WaitRunning, WaitDumpDone, WaitReady, WaitCopy, WaitDone, AfterRunning
<1>17. CASE FinalSlice(s)
  <2>1. pc' \in [Shard -> PC] /\ err' \in [Shard -> {"none", "error", "canceled"}]
    BY <1>17 DEF FinalSlice, TypeOK
  <2>2. sliced' \in [Shard -> {"no", "early", "complete"}]
    BY <1>17 DEF FinalSlice, TypeOK
  <2> QED
    BY <1>17, <2>1, <2>2 DEF FinalSlice, TypeOK
<1>18. CASE SetRSLastWrite(s)
  <2>1. pc' \in [Shard -> PC] /\ err' \in [Shard -> {"none", "error", "canceled"}]
    BY <1>18 DEF SetRSLastWrite, LocalFailure, TypeOK
  <2>2. rsLastWrite' \in [Shard -> BOOLEAN]
    BY <1>18 DEF SetRSLastWrite, TypeOK
  <2> QED
    BY <1>18, <2>1, <2>2 DEF SetRSLastWrite, TypeOK
<1>19. CASE IncSize(s)
  <2>1. pc' \in [Shard -> PC] /\ err' \in [Shard -> {"none", "error", "canceled"}]
    BY <1>19 DEF IncSize, TypeOK
  <2> QED
    BY <1>19, <2>1 DEF IncSize, TypeOK
<1>30. CASE ReadMeta(s)
  <2>1. pc' \in [Shard -> PC] /\ err' \in [Shard -> {"none", "error", "canceled"}]
    BY <1>30 DEF ReadMeta, TypeOK
  <2>2. bcpmNil' \in BOOLEAN
    BY <1>30, Zenon DEF ReadMeta, TypeOK
  <2> QED
    BY <1>30, <2>1, <2>2 DEF ReadMeta, TypeOK
<1>20. CASE WriteMeta(s)
  <2>1. pc' \in [Shard -> PC] /\ err' \in [Shard -> {"none", "error", "canceled"}]
    BY <1>20 DEF WriteMeta, TypeOK
  <2>2. metaFile' \in BOOLEAN
    BY <1>20, Zenon DEF WriteMeta, TypeOK
  <2> QED
    BY <1>20, <2>1, <2>2 DEF WriteMeta, TypeOK
<1>21. CASE CheckFiles(s)
  <2>1. pc' \in [Shard -> PC] /\ err' \in [Shard -> {"none", "error", "canceled"}]
    BY <1>21 DEF CheckFiles, LocalFailure, TypeOK
  <2> QED
    BY <1>21, <2>1 DEF CheckFiles, TypeOK
<1>22. CASE SetDone(s)
  <2>1. pc' \in [Shard -> PC] /\ err' \in [Shard -> {"none", "error", "canceled"}]
    BY <1>22 DEF SetDone, TypeOK
  <2> QED
    BY <1>22, <2>1 DEF SetDone, TypeOK, Status, Final, RSStatus
<1>23. CASE DeleteFiles(s)
  <2>1. files' \in [Shard -> {"none", "part", "full"}]
    BY <1>23 DEF DeleteFiles, TypeOK
  <2>2. metaFile' \in BOOLEAN
    BY <1>23, Zenon DEF DeleteFiles, TypeOK
  <2> QED
    BY <1>23, <2>1, <2>2 DEF DeleteFiles, TypeOK
<1>24. CASE MarkRS(s)
  <2>1. err[s] \in RSStatus
    BY DEF TypeOK, RSStatus, Final
  <2>2. rsStatus' \in [Shard -> RSStatus]
    BY <1>24, <2>1 DEF MarkRS, SetRS, TypeOK
  <2> QED
    BY <1>24, <2>2 DEF MarkRS, TypeOK
<1>25. CASE MarkBackup(s)
  <2>1. err[s] \in Status
    BY DEF TypeOK, Status, RSStatus, Final
  <2> QED
    BY <1>25, <2>1 DEF MarkBackup, TypeOK
<1>26. CASE BalancerOn(s)
  <2>1. balancer' \in BOOLEAN
    BY <1>26 DEF BalancerOn, TypeOK
  <2> QED
    BY <1>26, <2>1 DEF BalancerOn, TypeOK
<1>27. CASE Release(s)
  <2>1. lock' \in [Shard -> Lock]
    BY <1>27 DEF Release, TypeOK, Lock
  <2> QED
    BY <1>27, <2>1 DEF Release, TypeOK
<1> QED
  BY <1>1, <1>2, <1>3, <1>4, <1>5, <1>6, <1>7, <1>8, <1>9, <1>10, <1>11, <1>12, <1>13,
     <1>14, <1>30, <1>15, <1>16, <1>17, <1>18, <1>19, <1>20, <1>21, <1>22, <1>23, <1>24, <1>25,
     <1>26, <1>27 DEF Agent

LEMMA StepType == TypeOK /\ [Next]_vars => TypeOK'
<1> SUFFICES ASSUME TypeOK, [Next]_vars PROVE TypeOK'
  OBVIOUS
<1> USE DEF meta, stg, env, hist, bcpm
<1>1. ASSUME NEW s \in Shard, Agent(s) PROVE TypeOK'
  BY <1>1, AgentType
<1>2. CASE InitMeta \/ CheckTopo
  <2>1. hb' \in BOOLEAN
    BY <1>2, Zenon DEF InitMeta, CheckTopo, TypeOK
  <2>2. status' \in Status /\ initiator' \in {"init", "topo", "nominate", "end"}
    BY <1>2 DEF InitMeta, CheckTopo, TypeOK, Status, RSStatus, Final
  <2> QED
    BY <1>2, <2>1, <2>2 DEF InitMeta, CheckTopo, TypeOK
<1>3. ASSUME NEW s \in Shard, Nominate(s) PROVE TypeOK'
  BY <1>3 DEF Nominate, TypeOK
<1>4. CASE CrashInitiator
  BY <1>4 DEF CrashInitiator, TypeOK
<1>5. ASSUME NEW s \in Shard, Cancel(s) PROVE TypeOK'
  BY <1>5 DEF Cancel, TypeOK
<1>6. ASSUME NEW s \in Shard, Crash(s) PROVE TypeOK'
  <2>1. "dead" \in PC
    BY DEF PC, Gone
  <2> QED
    BY <1>6, <2>1, GotoType DEF Crash, TypeOK
<1>7. ASSUME NEW s \in Shard, LockExpires(s) \/ LockHB(s) PROVE TypeOK'
  <2>1. lock' \in [Shard -> Lock]
    BY <1>7 DEF LockExpires, LockHB, TypeOK, Lock
  <2> QED
    BY <1>7, <2>1 DEF LockExpires, LockHB, TypeOK
<1>8. ASSUME NEW s \in Shard, TakeOver(s) PROVE TypeOK'
  <2>1. lock' \in [Shard -> Lock]
    BY <1>8 DEF TakeOver, TypeOK, Lock
  <2> QED
    BY <1>8, <2>1 DEF TakeOver, TypeOK
<1>9. CASE HbExpires \/ BackupHB
  <2>1. hb' \in BOOLEAN
    BY <1>9, Zenon DEF HbExpires, BackupHB
  <2> QED
    BY <1>9, <2>1 DEF HbExpires, BackupHB, TypeOK
<1>10. CASE Taker \/ Finish
  BY <1>10 DEF Taker, TakerReads, TakerWrites, Finish, FinishReads, FinishWrites, TypeOK,
               Status, RSStatus, Final
<1>11. CASE UNCHANGED vars
  BY <1>11 DEF vars, TypeOK
<1> QED
  BY <1>1, <1>2, <1>3, <1>4, <1>5, <1>6, <1>7, <1>8, <1>9, <1>10, <1>11
     DEF Next, Initiator

\* The variables stay in their types.
THEOREM TypeCorrect == Spec => []TypeOK
  BY InitType, StepType, PTL DEF Spec

---------------------------------------------------------------------------
(* The inductive invariant, by parts *)

LeaderOnly == {"balancerOff", "convRunning", "setRunning", "firstWrite", "lastWrite",
               "convDumpDone", "setDumpDone", "convReady", "setReady", "convDone",
               "readMeta", "writeMeta", "checkFiles", "setDone", "deleteFiles", "markBackup"}
FollowerOnly == {"waitRunning", "waitDumpDone", "waitReady", "waitDone"}
LogicalOnly  == {"setRSDumpDone", "convDumpDone", "setDumpDone", "waitDumpDone", "slice",
                 "rsLastWrite", "size"}
ExternalOnly == {"setRSReady", "convReady", "setReady", "waitReady", "waitCopy"}

\* Who can be where, in a backup of which type.
Places ==
    \A s \in Shard :
       /\ pc[s] \in LeaderOnly => s = Leader
       /\ pc[s] \in FollowerOnly => s # Leader
       /\ pc[s] \in LogicalOnly => typ = "logical"
       /\ pc[s] \in ExternalOnly => typ = "external"
       /\ pc[s] = "waitFirstLast" => typ # "logical"

BeforeDump == BeforeRun \cup {"storage", "balancerOff", "waitStart", "addRS", "convRunning",
                 "setRunning", "firstWrite", "waitRunning", "waitFirstLast", "dump"}
Closing    == {"readMeta", "writeMeta", "checkFiles", "setDone"}
AfterDone  == {"convDone", "waitDone", "end", "dead"} \cup Closing \cup Unwind

\* A replica set is known to have copied its data only once it has.
Copies ==
    \A s \in Shard :
       /\ pc[s] \in LogicalOnly \cup ExternalOnly \cup {"setRSDone", "convDone", "waitDone"}
             \cup Closing => s \in dumped
       /\ pc[s] = "lastWrite" /\ typ = "logical" => s \in dumped
       /\ s \in dumped => pc[s] \notin BeforeDump /\ (pc[s] = "lastWrite" => typ = "logical")
       /\ rsStatus[s] \in {"dumpDone", "copyReady", "done"} => s \in dumped

\* The cluster's first and last write are set before the leader goes on.
Writes ==
    /\ pc[Leader] \in {"lastWrite", "waitFirstLast", "dump", "setRSDone"} \cup LogicalOnly
          \cup ExternalOnly \cup {"convDone"} \cup Closing => firstWrite
    /\ pc[Leader] \in {"size", "setRSDone", "convDone"} \cup Closing => lastWrite
    /\ typ # "logical" /\ pc[Leader] \in {"waitFirstLast", "dump"} \cup ExternalOnly
          => lastWrite

\* The order in which the leader ends a backup.
Ends ==
    /\ pc[Leader] \in Closing \/ metaFile \/ status = "done" =>
          dumped = Shard /\ firstWrite /\ lastWrite
    /\ pc[Leader] = "setDone" \/ status = "done" => Complete
    /\ status = "done" => pc[Leader] \in {"balancerOn", "release", "end", "dead"}

\* Who goes on too early has been cancelled, and its entry never says done.
Slices ==
    typ # "external" =>
       /\ \A s \in Shard :
             /\ sliced[s] = "early" => s \in ctx
             /\ typ = "logical" /\ pc[s] \in {"rsLastWrite", "lastWrite", "size"}
                   => sliced[s] # "no"
             /\ typ = "physical" /\ pc[s] = "dump" => sliced[s] # "no"
             /\ pc[s] \in {"setRSDone", "convDone", "waitDone"} => sliced[s] = "complete"
             /\ pc[s] = "slice" /\ s \notin ctx => dumped = Shard
             /\ rsStatus[s] = "done" => sliced[s] = "complete" /\ pc[s] \in AfterDone
       /\ status = "dumpDone" \/ pc[Leader] \in {"setDumpDone"} => dumped = Shard
       /\ pc[Leader] \in Closing \/ status = "done" =>
             \A s \in Shard : sliced[s] = "complete" /\ pc[s] \in AfterDone

\* The agents do not write over a verdict.
Verdicts ==
    /\ initiator \in {"init", "topo"} => nominated = {}
    /\ initiator = "init" => status = "none"
    /\ initiator = "topo" => status = "starting"
    /\ \A s \in Shard : pc[s] \notin {"nomination", "skipped", "dead"} => s \in nominated
    /\ nominated # {} => initiator \in {"nominate", "end"}
    /\ taker = "idle" /\ status \in Final =>
          \/ nominated = {} /\ initiator = "end"
          \/ pc[Leader] \in {"balancerOn", "release"} \cup Gone
    /\ initiator \in {"init", "topo"} =>
          taker = "idle" /\ cli = "idle" /\ \A s \in Shard : lock[s] = "none"
    /\ \A s \in Shard : pc[s] \in {"deleteFiles", "markRS", "markBackup"} => err[s] # "none"

Inv == Places /\ Copies /\ Writes /\ Ends /\ Slices /\ Verdicts

---------------------------------------------------------------------------
(* Places *)

LEMMA PrologueMoves ==
  ASSUME TypeOK, NEW s \in Shard, Prologue(s)
  PROVE  /\ pc[s] = "prologue"
         /\ Goto(s, "release") \/ Goto(s, "storage")
         /\ UNCHANGED <<typ, rsStatus, dumped, ctx, sliced, status, firstWrite, lastWrite>>
         /\ UNCHANGED <<initiator, nominated, taker, cli, lock, files, metaFile>>
         /\ \A t \in Shard \ {s} : err'[t] = err[t]
  BY DEF Prologue, Pass, bcpm, stg, env, hist, TypeOK

LEMMA PlacesAgent ==
  ASSUME TypeOK, Places, NEW s \in Shard, Agent(s)
  PROVE  Places'
<1> USE DEF TypeOK, Places, Pass, Goto, Fail, LocalFailure, StepFails, Then, PollStatus,
            LeaderOnly, FollowerOnly, LogicalOnly, ExternalOnly, bcpm, Work, Waits
<1>1. CASE WaitNomination(s) \/ AcquireLock(s)
  BY <1>1 DEF WaitNomination, AcquireLock
<1>2. CASE Prologue(s)
  BY <1>2, PrologueMoves
<1>3. CASE CheckStorage(s) \/ AddRS(s)
  BY <1>3 DEF CheckStorage, AddRS
<1>4. CASE BalancerOff(s)
  BY <1>4 DEF BalancerOff
<1>5. CASE ConvRunning(s) \/ ConvDumpDone(s) \/ ConvReady(s) \/ ConvDone(s)
  <2>1. CASE ConvRunning(s) BY <2>1 DEF ConvRunning, Converge
  <2>2. CASE ConvDumpDone(s) BY <2>2 DEF ConvDumpDone, Converge
  <2>3. CASE ConvReady(s) BY <2>3 DEF ConvReady, Converge
  <2>4. CASE ConvDone(s) BY <2>4 DEF ConvDone, Converge
  <2> QED BY <1>5, <2>1, <2>2, <2>3, <2>4
<1>6. CASE WaitStart(s) \/ WaitRunning(s) \/ WaitDumpDone(s)
  BY <1>6 DEF WaitStart, WaitRunning, WaitDumpDone, WaitFor, AfterRunning
<1>7. CASE WaitReady(s) \/ WaitCopy(s) \/ WaitDone(s)
  BY <1>7 DEF WaitReady, WaitCopy, WaitDone, WaitFor
<1>8. CASE WaitFirstLast(s)
  BY <1>8 DEF WaitFirstLast
<1>9. CASE SetRunning(s) \/ SetDumpDone(s) \/ SetReady(s)
  BY <1>9 DEF SetRunning, SetDumpDone, SetReady, SetStatus
<1>10. CASE SetRSDumpDone(s) \/ SetRSReady(s) \/ SetRSDone(s)
  BY <1>10 DEF SetRSDumpDone, SetRSReady, SetRSDone, SetRSStatus
<1>11. CASE SetFirstWrite(s) \/ SetLastWrite(s)
  BY <1>11 DEF SetFirstWrite, SetLastWrite
<1>12. CASE FinalSlice(s) \/ SetRSLastWrite(s) \/ IncSize(s)
  BY <1>12 DEF FinalSlice, SetRSLastWrite, IncSize
<1>13. CASE Dump(s)
  BY <1>13, TypesAssumption DEF Dump, AfterDump, Type
<1>14. CASE WriteMeta(s) \/ SetDone(s)
  BY <1>14 DEF WriteMeta, SetDone
<1>30. CASE ReadMeta(s)
  BY <1>30 DEF ReadMeta
<1>15. CASE CheckFiles(s)
  BY <1>15 DEF CheckFiles
<1>16. CASE DeleteFiles(s)
  BY <1>16 DEF DeleteFiles
<1>19. CASE MarkRS(s)
  BY <1>19 DEF MarkRS
<1>17. CASE MarkBackup(s) \/ Release(s)
  BY <1>17 DEF MarkBackup, Release
<1>18. CASE BalancerOn(s)
  BY <1>18 DEF BalancerOn
<1> QED
  BY <1>1, <1>2, <1>3, <1>4, <1>5, <1>6, <1>7, <1>8, <1>9, <1>10, <1>11, <1>12, <1>13,
     <1>14, <1>30, <1>15, <1>16, <1>17, <1>18, <1>19
     DEF Agent

LEMMA CopiesAgent ==
  ASSUME TypeOK, Places, Copies, NEW s \in Shard, Agent(s)
  PROVE  Copies'
<1> USE DEF TypeOK, Places, Copies, Pass, Goto, Fail, LocalFailure, StepFails, Then,
            PollStatus, LeaderOnly, FollowerOnly, LogicalOnly, ExternalOnly, BeforeDump,
            BeforeRun, AfterDone, Closing, Unwind, bcpm, meta, hist, Work, Waits, SetRS
<1>1. CASE WaitNomination(s) \/ AcquireLock(s)
  BY <1>1 DEF WaitNomination, AcquireLock
<1>2. CASE Prologue(s)
  BY <1>2, PrologueMoves
<1>3. CASE CheckStorage(s) \/ AddRS(s)
  BY <1>3 DEF CheckStorage, AddRS
<1>4. CASE BalancerOff(s)
  BY <1>4 DEF BalancerOff
<1>5. CASE ConvRunning(s) \/ ConvDumpDone(s) \/ ConvReady(s) \/ ConvDone(s)
  <2>1. CASE ConvRunning(s) BY <2>1 DEF ConvRunning, Converge
  <2>2. CASE ConvDumpDone(s) BY <2>2 DEF ConvDumpDone, Converge
  <2>3. CASE ConvReady(s) BY <2>3 DEF ConvReady, Converge
  <2>4. CASE ConvDone(s) BY <2>4 DEF ConvDone, Converge
  <2> QED BY <1>5, <2>1, <2>2, <2>3, <2>4
<1>6. CASE WaitStart(s) \/ WaitRunning(s) \/ WaitDumpDone(s)
  BY <1>6 DEF WaitStart, WaitRunning, WaitDumpDone, WaitFor, AfterRunning
<1>7. CASE WaitReady(s) \/ WaitCopy(s) \/ WaitDone(s)
  BY <1>7 DEF WaitReady, WaitCopy, WaitDone, WaitFor
<1>8. CASE WaitFirstLast(s)
  BY <1>8 DEF WaitFirstLast
<1>9. CASE SetRunning(s) \/ SetDumpDone(s) \/ SetReady(s)
  BY <1>9 DEF SetRunning, SetDumpDone, SetReady, SetStatus
<1>10. CASE SetRSDumpDone(s) \/ SetRSReady(s) \/ SetRSDone(s)
  BY <1>10 DEF SetRSDumpDone, SetRSReady, SetRSDone, SetRSStatus
<1>11. CASE SetFirstWrite(s) \/ SetLastWrite(s)
  BY <1>11 DEF SetFirstWrite, SetLastWrite
<1>12. CASE FinalSlice(s) \/ SetRSLastWrite(s) \/ IncSize(s)
  BY <1>12 DEF FinalSlice, SetRSLastWrite, IncSize
<1>13. CASE Dump(s)
  BY <1>13, TypesAssumption DEF Dump, AfterDump, Type
<1>14. CASE WriteMeta(s) \/ SetDone(s)
  BY <1>14 DEF WriteMeta, SetDone
<1>30. CASE ReadMeta(s)
  BY <1>30 DEF ReadMeta
<1>15. CASE CheckFiles(s)
  BY <1>15 DEF CheckFiles
<1>16. CASE DeleteFiles(s)
  BY <1>16 DEF DeleteFiles
<1>19. CASE MarkRS(s)
  BY <1>19 DEF MarkRS
<1>17. CASE MarkBackup(s) \/ Release(s)
  BY <1>17 DEF MarkBackup, Release
<1>18. CASE BalancerOn(s)
  BY <1>18 DEF BalancerOn
<1> QED
  BY <1>1, <1>2, <1>3, <1>4, <1>5, <1>6, <1>7, <1>8, <1>9, <1>10, <1>11, <1>12, <1>13,
     <1>14, <1>30, <1>15, <1>16, <1>17, <1>18, <1>19
     DEF Agent

LEMMA WritesAgent ==
  ASSUME TypeOK, Places, Writes, NEW s \in Shard, Agent(s)
  PROVE  Writes'
<1> USE LeaderAssumption
<1> USE DEF TypeOK, Places, Writes, Pass, Goto, Fail, LocalFailure, StepFails, Then,
            PollStatus, LeaderOnly, FollowerOnly, LogicalOnly, ExternalOnly, Closing,
            bcpm, meta, hist, Work, Waits
<1>1. CASE WaitNomination(s) \/ AcquireLock(s)
  BY <1>1 DEF WaitNomination, AcquireLock
<1>2. CASE Prologue(s)
  BY <1>2, PrologueMoves
<1>3. CASE CheckStorage(s) \/ AddRS(s)
  BY <1>3 DEF CheckStorage, AddRS
<1>4. CASE BalancerOff(s)
  BY <1>4 DEF BalancerOff
<1>5. CASE ConvRunning(s) \/ ConvDumpDone(s) \/ ConvReady(s) \/ ConvDone(s)
  <2>1. CASE ConvRunning(s) BY <2>1 DEF ConvRunning, Converge
  <2>2. CASE ConvDumpDone(s) BY <2>2 DEF ConvDumpDone, Converge
  <2>3. CASE ConvReady(s) BY <2>3 DEF ConvReady, Converge
  <2>4. CASE ConvDone(s) BY <2>4 DEF ConvDone, Converge
  <2> QED BY <1>5, <2>1, <2>2, <2>3, <2>4
<1>6. CASE WaitStart(s) \/ WaitRunning(s) \/ WaitDumpDone(s)
  BY <1>6 DEF WaitStart, WaitRunning, WaitDumpDone, WaitFor, AfterRunning
<1>7. CASE WaitReady(s) \/ WaitCopy(s) \/ WaitDone(s)
  BY <1>7 DEF WaitReady, WaitCopy, WaitDone, WaitFor
<1>8. CASE WaitFirstLast(s)
  BY <1>8 DEF WaitFirstLast
<1>9. CASE SetRunning(s) \/ SetDumpDone(s) \/ SetReady(s)
  BY <1>9 DEF SetRunning, SetDumpDone, SetReady, SetStatus
<1>10. CASE SetRSDumpDone(s) \/ SetRSReady(s) \/ SetRSDone(s)
  BY <1>10 DEF SetRSDumpDone, SetRSReady, SetRSDone, SetRSStatus
<1>11. CASE SetFirstWrite(s) \/ SetLastWrite(s)
  BY <1>11 DEF SetFirstWrite, SetLastWrite
<1>12. CASE FinalSlice(s) \/ SetRSLastWrite(s) \/ IncSize(s)
  BY <1>12 DEF FinalSlice, SetRSLastWrite, IncSize
<1>13. CASE Dump(s)
  BY <1>13, TypesAssumption DEF Dump, AfterDump, Type
<1>14. CASE WriteMeta(s) \/ SetDone(s)
  BY <1>14 DEF WriteMeta, SetDone
<1>30. CASE ReadMeta(s)
  BY <1>30 DEF ReadMeta
<1>15. CASE CheckFiles(s)
  BY <1>15 DEF CheckFiles
<1>16. CASE MarkBackup(s) \/ Release(s)
  BY <1>16 DEF MarkBackup, Release
<1>17. CASE BalancerOn(s)
  BY <1>17 DEF BalancerOn
<1>18. CASE DeleteFiles(s)
  BY <1>18 DEF DeleteFiles
<1>19. CASE MarkRS(s)
  BY <1>19 DEF MarkRS
<1> QED
  BY <1>1, <1>2, <1>3, <1>4, <1>5, <1>6, <1>7, <1>8, <1>9, <1>10, <1>11, <1>12, <1>13,
     <1>14, <1>30, <1>15, <1>16, <1>17, <1>18, <1>19 DEF Agent

\* The leader goes on when every replica set has reported its copy.
LEMMA ConvergedCopies ==
  ASSUME TypeOK, Copies, NEW want \in {"dumpDone", "copyReady", "done"}, Converged(want)
  PROVE  dumped = Shard
  BY DEF TypeOK, Copies, Converged

LEMMA EndsAgent ==
  ASSUME TypeOK, Places, Copies, Writes, Ends, NEW s \in Shard, Agent(s)
  PROVE  Ends'
<1> USE LeaderAssumption
<1> USE DEF TypeOK, Places, Copies, Writes, Ends, Pass, Goto, Fail, LocalFailure, StepFails,
            Then, PollStatus, LeaderOnly, FollowerOnly, LogicalOnly, ExternalOnly,
            BeforeDump, Closing, Complete, bcpm, meta, stg, hist, Work, Waits
<1>1. CASE WaitNomination(s) \/ AcquireLock(s)
  BY <1>1 DEF WaitNomination, AcquireLock
<1>2. CASE Prologue(s)
  BY <1>2, PrologueMoves
<1>3. CASE CheckStorage(s) \/ AddRS(s)
  BY <1>3 DEF CheckStorage, AddRS
<1>4. CASE BalancerOff(s)
  BY <1>4 DEF BalancerOff
<1>5. CASE ConvRunning(s) \/ ConvDumpDone(s) \/ ConvReady(s) \/ ConvDone(s)
  <2>1. CASE ConvRunning(s) BY <2>1, ConvergedCopies DEF ConvRunning, Converge
  <2>2. CASE ConvDumpDone(s) BY <2>2, ConvergedCopies DEF ConvDumpDone, Converge
  <2>3. CASE ConvReady(s) BY <2>3, ConvergedCopies DEF ConvReady, Converge
  <2>4. CASE ConvDone(s) BY <2>4, ConvergedCopies DEF ConvDone, Converge
  <2> QED BY <1>5, <2>1, <2>2, <2>3, <2>4
<1>6. CASE WaitStart(s) \/ WaitRunning(s) \/ WaitDumpDone(s)
  BY <1>6 DEF WaitStart, WaitRunning, WaitDumpDone, WaitFor, AfterRunning
<1>7. CASE WaitReady(s) \/ WaitCopy(s) \/ WaitDone(s)
  BY <1>7 DEF WaitReady, WaitCopy, WaitDone, WaitFor
<1>8. CASE WaitFirstLast(s)
  BY <1>8 DEF WaitFirstLast
<1>9. CASE SetRunning(s) \/ SetDumpDone(s) \/ SetReady(s)
  BY <1>9 DEF SetRunning, SetDumpDone, SetReady, SetStatus
<1>10. CASE SetRSDumpDone(s) \/ SetRSReady(s) \/ SetRSDone(s)
  BY <1>10 DEF SetRSDumpDone, SetRSReady, SetRSDone, SetRSStatus
<1>11. CASE SetFirstWrite(s) \/ SetLastWrite(s)
  BY <1>11 DEF SetFirstWrite, SetLastWrite
<1>12. CASE FinalSlice(s) \/ SetRSLastWrite(s) \/ IncSize(s)
  BY <1>12 DEF FinalSlice, SetRSLastWrite, IncSize
<1>13. CASE Dump(s)
  BY <1>13, TypesAssumption DEF Dump, AfterDump, Type
<1>14. CASE WriteMeta(s) \/ SetDone(s)
  BY <1>14 DEF WriteMeta, SetDone
<1>30. CASE ReadMeta(s)
  BY <1>30 DEF ReadMeta
<1>15. CASE CheckFiles(s)
  BY <1>15 DEF CheckFiles
<1>16. CASE MarkBackup(s) \/ Release(s)
  BY <1>16 DEF MarkBackup, Release
<1>17. CASE BalancerOn(s)
  BY <1>17 DEF BalancerOn
<1>18. CASE DeleteFiles(s)
  <2>1. metaFile' => metaFile
    BY <1>18, Zenon DEF DeleteFiles
  <2>2. /\ pc[s] = "deleteFiles" /\ Goto(s, "markRS")
        /\ UNCHANGED <<status, dumped, firstWrite, lastWrite>>
    BY <1>18 DEF DeleteFiles
  <2> QED
    BY <2>1, <2>2
<1>19. CASE MarkRS(s)
  BY <1>19 DEF MarkRS
<1> QED
  BY <1>1, <1>2, <1>3, <1>4, <1>5, <1>6, <1>7, <1>8, <1>9, <1>10, <1>11, <1>12, <1>13,
     <1>14, <1>30, <1>15, <1>16, <1>17, <1>18, <1>19 DEF Agent

LEMMA SlicesAgent ==
  ASSUME TypeOK, Places, Copies, Writes, Ends, Slices, NEW s \in Shard, Agent(s)
  PROVE  Slices'
<1> USE LeaderAssumption
<1> USE DEF TypeOK, Places, Copies, Writes, Ends, Slices, Pass, Goto, Fail, LocalFailure,
            StepFails, Then, PollStatus, LeaderOnly, FollowerOnly, LogicalOnly,
            ExternalOnly, BeforeDump, AfterDone, Closing, Unwind, bcpm, meta, hist, Work,
            Waits, SetRS
<1>1. CASE WaitNomination(s) \/ AcquireLock(s)
  BY <1>1 DEF WaitNomination, AcquireLock
<1>2. CASE Prologue(s)
  BY <1>2, PrologueMoves
<1>3. CASE CheckStorage(s) \/ AddRS(s)
  BY <1>3 DEF CheckStorage, AddRS
<1>4. CASE BalancerOff(s)
  BY <1>4 DEF BalancerOff
<1>5. CASE ConvRunning(s) \/ ConvDumpDone(s) \/ ConvReady(s)
  <2>1. CASE ConvRunning(s) BY <2>1, ConvergedCopies DEF ConvRunning, Converge
  <2>2. CASE ConvDumpDone(s) BY <2>2, ConvergedCopies DEF ConvDumpDone, Converge
  <2>3. CASE ConvReady(s) BY <2>3, ConvergedCopies DEF ConvReady, Converge
  <2> QED BY <1>5, <2>1, <2>2, <2>3
<1>20. CASE ConvDone(s)
  <2>1. Converged("done") => \A t \in Shard : rsStatus[t] = "done"
    BY DEF Converged
  <2> QED
    BY <1>20, <2>1 DEF ConvDone, Converge
<1>6. CASE WaitStart(s) \/ WaitRunning(s) \/ WaitDumpDone(s)
  BY <1>6 DEF WaitStart, WaitRunning, WaitDumpDone, WaitFor, AfterRunning
<1>7. CASE WaitReady(s) \/ WaitCopy(s) \/ WaitDone(s)
  BY <1>7 DEF WaitReady, WaitCopy, WaitDone, WaitFor
<1>8. CASE WaitFirstLast(s)
  BY <1>8 DEF WaitFirstLast
<1>9. CASE SetRunning(s) \/ SetDumpDone(s) \/ SetReady(s)
  BY <1>9 DEF SetRunning, SetDumpDone, SetReady, SetStatus
<1>10. CASE SetRSDumpDone(s) \/ SetRSReady(s) \/ SetRSDone(s)
  BY <1>10 DEF SetRSDumpDone, SetRSReady, SetRSDone, SetRSStatus
<1>11. CASE SetFirstWrite(s) \/ SetLastWrite(s)
  BY <1>11 DEF SetFirstWrite, SetLastWrite
<1>12. CASE FinalSlice(s) \/ SetRSLastWrite(s) \/ IncSize(s)
  BY <1>12 DEF FinalSlice, SetRSLastWrite, IncSize
<1>13. CASE Dump(s)
  BY <1>13, TypesAssumption DEF Dump, AfterDump, Type
<1>14. CASE WriteMeta(s) \/ SetDone(s)
  BY <1>14 DEF WriteMeta, SetDone
<1>30. CASE ReadMeta(s)
  BY <1>30 DEF ReadMeta
<1>15. CASE CheckFiles(s)
  BY <1>15 DEF CheckFiles
<1>16. CASE MarkBackup(s) \/ Release(s)
  BY <1>16 DEF MarkBackup, Release
<1>17. CASE BalancerOn(s)
  BY <1>17 DEF BalancerOn
<1>18. CASE DeleteFiles(s)
  BY <1>18 DEF DeleteFiles
<1>19. CASE MarkRS(s)
  BY <1>19 DEF MarkRS
<1> QED
  BY <1>1, <1>2, <1>3, <1>4, <1>5, <1>6, <1>7, <1>8, <1>9, <1>10, <1>11, <1>12, <1>13,
     <1>14, <1>30, <1>15, <1>16, <1>17, <1>18, <1>19, <1>20 DEF Agent

LEMMA VerdictsAgent ==
  ASSUME TypeOK, Places, Ends, Verdicts, NEW s \in Shard, Agent(s)
  PROVE  Verdicts'
<1> USE LeaderAssumption
<1> USE DEF TypeOK, Places, Ends, Verdicts, Pass, Goto, Fail, LocalFailure, StepFails, Then,
            PollStatus, LeaderOnly, FollowerOnly, BeforeRun, Gone, Closing, Unwind, Final,
            bcpm, meta, env, Work, Waits
<1>1. CASE WaitNomination(s) \/ AcquireLock(s)
  BY <1>1 DEF WaitNomination, AcquireLock
<1>2. CASE Prologue(s)
  BY <1>2, PrologueMoves
<1>3. CASE CheckStorage(s) \/ AddRS(s)
  BY <1>3 DEF CheckStorage, AddRS
<1>4. CASE BalancerOff(s)
  BY <1>4 DEF BalancerOff
<1>5. CASE ConvRunning(s) \/ ConvDumpDone(s) \/ ConvReady(s) \/ ConvDone(s)
  <2>1. CASE ConvRunning(s) BY <2>1 DEF ConvRunning, Converge
  <2>2. CASE ConvDumpDone(s) BY <2>2 DEF ConvDumpDone, Converge
  <2>3. CASE ConvReady(s) BY <2>3 DEF ConvReady, Converge
  <2>4. CASE ConvDone(s) BY <2>4 DEF ConvDone, Converge
  <2> QED BY <1>5, <2>1, <2>2, <2>3, <2>4
<1>6. CASE WaitStart(s) \/ WaitRunning(s) \/ WaitDumpDone(s)
  BY <1>6 DEF WaitStart, WaitRunning, WaitDumpDone, WaitFor, AfterRunning
<1>7. CASE WaitReady(s) \/ WaitCopy(s) \/ WaitDone(s)
  BY <1>7 DEF WaitReady, WaitCopy, WaitDone, WaitFor
<1>8. CASE WaitFirstLast(s)
  BY <1>8 DEF WaitFirstLast
<1>9. CASE SetRunning(s) \/ SetDumpDone(s) \/ SetReady(s)
  BY <1>9 DEF SetRunning, SetDumpDone, SetReady, SetStatus
<1>10. CASE SetRSDumpDone(s) \/ SetRSReady(s) \/ SetRSDone(s)
  BY <1>10 DEF SetRSDumpDone, SetRSReady, SetRSDone, SetRSStatus
<1>11. CASE SetFirstWrite(s) \/ SetLastWrite(s)
  BY <1>11 DEF SetFirstWrite, SetLastWrite
<1>12. CASE FinalSlice(s) \/ SetRSLastWrite(s) \/ IncSize(s)
  BY <1>12 DEF FinalSlice, SetRSLastWrite, IncSize
<1>13. CASE Dump(s)
  BY <1>13, TypesAssumption DEF Dump, AfterDump, Type
<1>14. CASE WriteMeta(s) \/ SetDone(s)
  BY <1>14 DEF WriteMeta, SetDone
<1>30. CASE ReadMeta(s)
  BY <1>30 DEF ReadMeta
<1>15. CASE CheckFiles(s)
  BY <1>15 DEF CheckFiles
<1>16. CASE MarkBackup(s) \/ Release(s)
  BY <1>16 DEF MarkBackup, Release
<1>17. CASE BalancerOn(s)
  BY <1>17 DEF BalancerOn
<1>18. CASE DeleteFiles(s)
  BY <1>18 DEF DeleteFiles
<1>19. CASE MarkRS(s)
  BY <1>19 DEF MarkRS
<1> QED
  BY <1>1, <1>2, <1>3, <1>4, <1>5, <1>6, <1>7, <1>8, <1>9, <1>10, <1>11, <1>12, <1>13,
     <1>14, <1>30, <1>15, <1>16, <1>17, <1>18, <1>19 DEF Agent

---------------------------------------------------------------------------
(* The invariant is inductive *)

LEMMA InitInv == Init => Inv
<1> SUFFICES ASSUME Init PROVE Inv
  OBVIOUS
<1> USE LeaderAssumption DEF Init
<1>1. Places
  BY DEF Places, LeaderOnly, FollowerOnly, LogicalOnly, ExternalOnly
<1>2. Copies
  BY DEF Copies, LogicalOnly, ExternalOnly, Closing
<1>3. Writes
  BY DEF Writes, LogicalOnly, ExternalOnly, Closing
<1>4. Ends
  BY DEF Ends, Closing
<1>5. Slices
  BY DEF Slices, Closing
<1>6. Verdicts
  BY DEF Verdicts, Final
<1> QED
  BY <1>1, <1>2, <1>3, <1>4, <1>5, <1>6 DEF Inv

\* The steps that are not an agent's.
LEMMA OthersInv ==
  ASSUME TypeOK, Inv, [Next]_vars, \A s \in Shard : ~ Agent(s)
  PROVE  Inv'
<1> USE LeaderAssumption
<1> USE DEF Inv, Places, Copies, Writes, Ends, Complete, Slices, Verdicts, TypeOK, bcpm,
            meta, stg, env, hist
<1>1. CASE InitMeta \/ CheckTopo
  BY <1>1 DEF InitMeta, CheckTopo, Final
<1>2. ASSUME NEW s \in Shard, Nominate(s) PROVE Inv'
  BY <1>2 DEF Nominate
<1>3. CASE CrashInitiator
  BY <1>3 DEF CrashInitiator
<1>4. ASSUME NEW s \in Shard, Cancel(s) PROVE Inv'
  BY <1>4 DEF Cancel
<1>5. ASSUME NEW s \in Shard, Crash(s) PROVE Inv'
  BY <1>5 DEF Crash, Goto, Alive, Gone, LeaderOnly, FollowerOnly, LogicalOnly,
              ExternalOnly, BeforeDump, BeforeRun, Closing, AfterDone
<1>6. ASSUME NEW s \in Shard, LockExpires(s) \/ LockHB(s) \/ TakeOver(s) PROVE Inv'
  BY <1>6 DEF LockExpires, LockHB, TakeOver
<1>7. CASE HbExpires \/ BackupHB
  BY <1>7 DEF HbExpires, BackupHB
<1>8. CASE TakerReads
  BY <1>8 DEF TakerReads
<1>9. CASE TakerWrites
  BY <1>9 DEF TakerWrites
<1>10. CASE Finish
  BY <1>10 DEF Finish, FinishReads, FinishWrites, Final
<1>11. CASE UNCHANGED vars
  BY <1>11 DEF vars
<1> QED
  BY <1>1, <1>2, <1>3, <1>4, <1>5, <1>6, <1>7, <1>8, <1>9, <1>10, <1>11
     DEF Next, Initiator, Taker

LEMMA StepInv == TypeOK /\ Inv /\ [Next]_vars => Inv'
<1> SUFFICES ASSUME TypeOK, Inv, [Next]_vars PROVE Inv'
  OBVIOUS
<1>1. ASSUME NEW s \in Shard, Agent(s) PROVE Inv'
  BY <1>1, PlacesAgent, CopiesAgent, WritesAgent, EndsAgent, SlicesAgent, VerdictsAgent
     DEF Inv
<1> QED
  BY <1>1, OthersInv

LEMMA Invariance == Spec => [](TypeOK /\ Inv)
  BY InitType, InitInv, StepType, StepInv, PTL DEF Spec

---------------------------------------------------------------------------
(* What follows *)

\* The metadata file is on the storage only when every replica set has copied its data
\* and the cluster's first and last write are set (Run, writeMeta).
THEOREM MetaFileComesLast == Spec => []MetaFileIsLast
<1>1. Inv => MetaFileIsLast
  BY DEF Inv, Ends, MetaFileIsLast
<1> QED
  BY <1>1, Invariance, PTL

\* A backup with status done has its metadata file and every data file on the storage.
THEOREM DoneMeansComplete == Spec => []DoneIsComplete
<1>1. Inv => DoneIsComplete
  BY DEF Inv, Ends, DoneIsComplete
<1> QED
  BY <1>1, Invariance, PTL

\* The snapshots of a backup that is done agree on a point in time: a follower that goes
\* on too early because its wait was cancelled cannot be part of it.
THEOREM SnapshotsAgree == Spec => []SnapshotsMeet
<1>1. Inv => SnapshotsMeet
  BY DEF Inv, Slices, SnapshotsMeet
<1> QED
  BY <1>1, Invariance, PTL

---------------------------------------------------------------------------
(* The agents implement the contract *)

LEMMA ContractInit == Init => Contract!Init
  BY DEF Init, Contract!Init, Final

\* Steps that the contract does not see.
LEMMA Unseen ==
  ASSUME UNCHANGED <<dumped, metaFile, status, taker, cli>>
  PROVE  UNCHANGED Contract!vars
  BY DEF Contract!vars

LEMMA AgentContract ==
  ASSUME TypeOK, Inv, NEW s \in Shard, Agent(s)
  PROVE  [Contract!Next]_(Contract!vars)
<1> USE DEF bcpm, meta, stg, env, hist
<1>1. CASE Dump(s)
  <2>1. UNCHANGED <<metaFile, status, taker, cli>>
    BY <1>1 DEF Dump
  <2>2. dumped' = dumped \/ dumped' = dumped \cup {s}
    BY <1>1 DEF Dump
  <2>3. pc[s] = "dump"
    BY <1>1 DEF Dump
  <2>4. s \notin dumped
    BY <2>3 DEF Inv, Copies, BeforeDump
  <2>5. CASE dumped' = dumped
    BY <2>1, <2>5, Unseen
  <2>6. CASE dumped' = dumped \cup {s}
    <3>1. Contract!Copy(s)
      BY <2>1, <2>4, <2>6 DEF Contract!Copy
    <3> QED
      BY <3>1 DEF Contract!Next
  <2> QED
    BY <2>2, <2>5, <2>6
<1>2. CASE WriteMeta(s)
  <2>1. UNCHANGED <<dumped, status, taker, cli>> /\ pc[s] = "writeMeta"
    BY <1>2 DEF WriteMeta
  <2>2. metaFile' = metaFile \/ metaFile' = TRUE
    BY <1>2, Zenon DEF WriteMeta
  <2>3. dumped = Shard
    BY <2>1 DEF Inv, Places, LeaderOnly, Ends, Closing
  <2>4. CASE metaFile' = metaFile
    BY <2>1, <2>4, Unseen
  <2>5. CASE metaFile' = TRUE
    <3>1. Contract!Publish
      BY <2>1, <2>3, <2>5 DEF Contract!Publish
    <3> QED
      BY <3>1 DEF Contract!Next
  <2> QED
    BY <2>2, <2>4, <2>5
<1>3. CASE DeleteFiles(s)
  <2>1. UNCHANGED <<dumped, status, taker, cli>> /\ pc[s] = "deleteFiles"
    BY <1>3 DEF DeleteFiles
  <2>2. metaFile' = metaFile \/ metaFile' = FALSE
    BY <1>3, Zenon DEF DeleteFiles
  <2>3. status # "done"
    BY <2>1 DEF Inv, Places, LeaderOnly, Ends
  <2>4. CASE metaFile' = metaFile
    BY <2>1, <2>4, Unseen
  <2>5. CASE metaFile' = FALSE
    <3>1. Contract!Retract
      BY <2>1, <2>3, <2>5 DEF Contract!Retract
    <3> QED
      BY <3>1 DEF Contract!Next
  <2> QED
    BY <2>2, <2>4, <2>5
<1>4. CASE SetRunning(s) \/ SetDumpDone(s) \/ SetReady(s)
  <2>1. UNCHANGED <<dumped, metaFile, taker, cli>>
    BY <1>4 DEF SetRunning, SetDumpDone, SetReady, SetStatus
  <2>2. status' = status \/ status' \in {"running", "dumpDone", "copyReady"}
    BY <1>4 DEF SetRunning, SetDumpDone, SetReady, SetStatus
  <2>3. s = Leader /\ pc[s] \in {"setRunning", "setDumpDone", "setReady"}
    BY <1>4 DEF SetRunning, SetDumpDone, SetReady, SetStatus, Inv, Places, LeaderOnly
  <2>4. taker = "idle" => status \notin Final
    BY <2>3 DEF Inv, Verdicts, Gone
  <2>5. CASE status' = status
    BY <2>1, <2>5, Unseen
  <2>6. CASE status' \in {"running", "dumpDone", "copyReady"}
    <3>1. status' \notin Final
      BY <2>6 DEF Final
    <3>2. CASE taker = "idle"
      BY <2>1, <2>4, <3>1, <3>2 DEF Contract!vars
    <3>3. CASE taker # "idle"
      <4>1. Contract!Meddle
        BY <2>1, <3>1, <3>3 DEF Contract!Meddle
      <4> QED
        BY <4>1 DEF Contract!Next
    <3> QED
      BY <3>2, <3>3
  <2> QED
    BY <2>2, <2>5, <2>6
<1>5. CASE SetDone(s)
  <2>1. UNCHANGED <<dumped, metaFile, taker, cli>> /\ pc[s] = "setDone"
    BY <1>5 DEF SetDone
  <2>2. status' = status \/ status' = "done"
    BY <1>5 DEF SetDone
  <2>3. s = Leader
    BY <2>1 DEF Inv, Places, LeaderOnly
  <2>4. metaFile /\ (taker = "idle" => status \notin Final)
    BY <2>1, <2>3 DEF Inv, Ends, Complete, Verdicts, Gone
  <2>5. CASE status' = status
    BY <2>1, <2>5, Unseen
  <2>6. CASE status' = "done"
    <3>1. Contract!Announce
      BY <2>1, <2>4, <2>6 DEF Contract!Announce, Contract!Undecided, Final
    <3> QED
      BY <3>1 DEF Contract!Next
  <2> QED
    BY <2>2, <2>5, <2>6
<1>6. CASE MarkBackup(s)
  <2>1. UNCHANGED <<dumped, metaFile, taker, cli>> /\ pc[s] = "markBackup" /\ status' = err[s]
    BY <1>6 DEF MarkBackup
  <2>2. s = Leader
    BY <2>1 DEF Inv, Places, LeaderOnly
  <2>3. err[s] \in {"error", "canceled"}
    BY <2>1 DEF Inv, Verdicts, TypeOK
  <2>4. taker = "idle" => status \notin Final
    BY <2>1, <2>2 DEF Inv, Verdicts, Gone
  <2>5. Contract!GiveUp
    BY <2>1, <2>3, <2>4 DEF Contract!GiveUp, Contract!Undecided, Final
  <2> QED
    BY <2>5 DEF Contract!Next
<1>7. ASSUME ~ Dump(s), ~ WriteMeta(s), ~ DeleteFiles(s), ~ SetRunning(s), ~ SetDumpDone(s),
             ~ SetReady(s), ~ SetDone(s), ~ MarkBackup(s)
      PROVE  UNCHANGED <<dumped, metaFile, status, taker, cli>>
  <2>1. CASE WaitNomination(s) \/ AcquireLock(s) \/ Prologue(s) \/ CheckStorage(s)
               \/ BalancerOff(s) \/ WaitStart(s) \/ AddRS(s) \/ WaitFirstLast(s)
    BY <2>1 DEF WaitNomination, AcquireLock, Prologue, CheckStorage, BalancerOff, WaitStart,
                WaitFor, AddRS, WaitFirstLast
  <2>2. CASE ConvRunning(s) \/ ConvDumpDone(s) \/ ConvReady(s) \/ ConvDone(s)
               \/ SetFirstWrite(s) \/ SetLastWrite(s) \/ FinalSlice(s) \/ SetRSLastWrite(s)
               \/ IncSize(s)
    BY <2>2 DEF ConvRunning, ConvDumpDone, ConvReady, ConvDone, Converge, SetFirstWrite,
                SetLastWrite, FinalSlice, SetRSLastWrite, IncSize
  <2>3. CASE WaitRunning(s) \/ WaitDumpDone(s) \/ WaitReady(s) \/ WaitCopy(s) \/ WaitDone(s)
               \/ SetRSDumpDone(s) \/ SetRSReady(s) \/ SetRSDone(s)
    BY <2>3 DEF WaitRunning, WaitDumpDone, WaitReady, WaitCopy, WaitDone, WaitFor,
                SetRSDumpDone, SetRSReady, SetRSDone, SetRSStatus
  <2>4. CASE ReadMeta(s) \/ CheckFiles(s) \/ MarkRS(s) \/ BalancerOn(s) \/ Release(s)
    BY <2>4 DEF ReadMeta, CheckFiles, MarkRS, BalancerOn, Release
  <2> QED
    BY <1>7, <2>1, <2>2, <2>3, <2>4 DEF Agent
<1> QED
  BY <1>1, <1>2, <1>3, <1>4, <1>5, <1>6, <1>7, Unseen

LEMMA StepContract ==
  ASSUME TypeOK, Inv, [Next]_vars
  PROVE  [Contract!Next]_(Contract!vars)
<1> USE DEF bcpm, meta, stg, env, hist
<1>1. ASSUME NEW s \in Shard, Agent(s) PROVE [Contract!Next]_(Contract!vars)
  BY <1>1, AgentContract
<1>2. CASE InitMeta
  <2>1. status = "none" /\ status' = "starting" /\ UNCHANGED <<dumped, metaFile, taker, cli>>
    BY <1>2 DEF InitMeta, Inv, Verdicts
  <2> QED
    BY <2>1 DEF Contract!vars, Final
<1>3. CASE CheckTopo
  <2>1. status = "starting" /\ UNCHANGED <<dumped, metaFile, taker, cli>>
    BY <1>3 DEF CheckTopo, Inv, Verdicts
  <2>2. CASE status' = status
    BY <2>1, <2>2, Unseen
  <2>3. CASE status' = "error"
    <3>1. Contract!GiveUp
      BY <2>1, <2>3 DEF Contract!GiveUp, Contract!Undecided, Final
    <3> QED
      BY <3>1 DEF Contract!Next
  <2> QED
    BY <1>3, <2>2, <2>3 DEF CheckTopo
<1>4. ASSUME NEW s \in Shard,
             \/ Nominate(s) \/ Cancel(s) \/ Crash(s) \/ LockExpires(s) \/ LockHB(s)
      PROVE  [Contract!Next]_(Contract!vars)
  BY <1>4, Unseen DEF Nominate, Cancel, Crash, LockExpires, LockHB
<1>5. CASE CrashInitiator \/ HbExpires \/ BackupHB \/ UNCHANGED vars
  BY <1>5, Unseen DEF CrashInitiator, HbExpires, BackupHB, vars
<1>6. ASSUME NEW s \in Shard, TakeOver(s) PROVE [Contract!Next]_(Contract!vars)
  <2>1. taker' = "read" /\ UNCHANGED <<dumped, metaFile, status>>
    BY <1>6 DEF TakeOver
  <2>2. Contract!Meddle
    BY <2>1 DEF Contract!Meddle
  <2> QED
    BY <2>2 DEF Contract!Next
<1>7. CASE TakerReads
  <2>1. taker # "idle" /\ taker' # "idle" /\ UNCHANGED <<dumped, metaFile, status, cli>>
    BY <1>7 DEF TakerReads
  <2> QED
    BY <2>1 DEF Contract!vars
<1>8. CASE TakerWrites
  <2>1. /\ taker # "idle" /\ taker' # "idle" /\ status' = "error"
        /\ UNCHANGED <<dumped, metaFile, cli>>
    BY <1>8 DEF TakerWrites
  <2>2. Contract!Meddle
    BY <2>1 DEF Contract!Meddle, Final
  <2> QED
    BY <2>2 DEF Contract!Next
<1>9. CASE FinishReads
  <2>1. cli' = "write" /\ UNCHANGED <<dumped, metaFile, status, taker>>
    BY <1>9 DEF FinishReads
  <2>2. Contract!Meddle
    BY <2>1 DEF Contract!Meddle
  <2> QED
    BY <2>2 DEF Contract!Next
<1>10. CASE FinishWrites
  <2>1. /\ cli = "write" /\ status' = "copyDone" /\ UNCHANGED <<dumped, metaFile, taker>>
    BY <1>10 DEF FinishWrites
  <2>2. Contract!Meddle
    BY <2>1 DEF Contract!Meddle, Final
  <2> QED
    BY <2>2 DEF Contract!Next
<1> QED
  BY <1>1, <1>2, <1>3, <1>4, <1>5, <1>6, <1>7, <1>8, <1>9, <1>10
     DEF Next, Initiator, Taker, Finish

\* The agents of a backup implement its contract: published when copied, announced while
\* published, never retracted once announced, and a verdict stands among the agents.
THEOREM ImplementsContract == Spec => ContractSpec
<1>1. TypeOK /\ Inv /\ [Next]_vars => [Contract!Next]_(Contract!vars)
  BY StepContract
<1> QED
  BY <1>1, ContractInit, Invariance, PTL DEF Spec, ContractSpec, Contract!Spec

---------------------------------------------------------------------------
(* The balancer is given back as it was, and no snapshot of a backup that  *)
(* is done ended with the balancer on.                                     *)

\* An agent that is to turn the balancer on again, unless it dies.
Owes == PC \ (BeforeRun \cup {"release", "end", "skipped"})

\* The leader has seen every replica set running.
PastRunning == Work \ {"addRS", "convRunning"}

\* Run has turned the balancer off, and the debt is the leader's. If its Run
\* panics (bcpmNil) it is the followers', none of which has paid before.
Debt ==
    /\ balancer => balancerWas
    /\ bcpmNil => pc[Leader] \in Unwind \cup {"end", "dead"}
    /\ balancerWas /\ ~ balancer =>
          /\ pc[Leader] \in Owes \/ bcpmNil
          /\ pc[Leader] \in PastRunning \/ bcpmNil => \A t \in Shard \ {Leader} : pc[t] \in Owes

\* What the entry of a follower that is at work, that waits for the end, or that is
\* about to turn the balancer on says.
AtWork == {"running", "dumpDone", "copyReady"}

Entries ==
    \A t \in Shard \ {Leader} :
       /\ rsStatus[t] \in AtWork => pc[t] \in Owes
       /\ pc[t] = "waitDone" => rsStatus[t] \in {"none", "done"}
       /\ pc[t] = "balancerOn" => rsStatus[t] \notin AtWork

\* Before the leader has reported running.
Early == BeforeRun \cup {"storage", "balancerOff", "waitStart", "addRS", "convRunning",
                         "setRunning"}

\* Who goes on before the leader has set the status, or the last write, is cancelled.
Timing ==
    /\ status = "running" => pc[Leader] \notin Early
    /\ \A s \in Shard : pc[s] = "dump" /\ s \notin ctx /\ typ = "logical" => pc[Leader] \notin Early
    /\ typ # "logical" /\ lastWrite => pc[Leader] \notin Early \cup {"firstWrite", "lastWrite"}
    /\ typ = "physical" => \A s \in Shard : sliced[s] = "complete" => lastWrite
    /\ typ = "logical" => \A s \in Shard : sliced[s] = "complete" => dumped = Shard

Left == {"release", "end", "dead"}

\* An agent that has left, and the leader cannot converge any more on what it said last.
Quit(t) == t # Leader /\ pc[t] \in Left /\ rsStatus[t] \notin AtWork

\* The balancer is on under a running backup only by an agent that has quit, and then the
\* backup does not end well: the leader waits for an entry that never says done, or, in an
\* external backup, that never says copyReady.
ToReady == {"firstWrite", "lastWrite", "waitFirstLast", "dump", "setRSReady", "convReady"}

Spoilt ==
    /\ balancer /\ pc[Leader] \in {"waitStart"} \cup Work => \E t \in Shard : Quit(t)
    /\ unbalanced # {} => pc[Leader] \notin Early
    /\ unbalanced # {} /\ pc[Leader] \in Work =>
          \E t \in Shard : /\ Quit(t)
                           /\ rsStatus[t] = "done" => typ = "external" /\ pc[Leader] \in ToReady
    /\ pc[Leader] \in Closing \/ status = "done" => unbalanced = {}

BalancerInv == Debt /\ Entries /\ Timing /\ Spoilt

---------------------------------------------------------------------------
LEMMA PrologueKeeps ==
  ASSUME NEW s \in Shard, Prologue(s)
  PROVE  UNCHANGED <<balancer, balancerWas, bcpmNil, unbalanced, lastWrite>>
  BY DEF Prologue, bcpm, hist

LEMMA EntriesAgent ==
  ASSUME TypeOK, Places, Verdicts, Entries, NEW s \in Shard, Agent(s)
  PROVE  Entries'
<1> USE LeaderAssumption
<1> USE DEF TypeOK, Pass, Goto, Fail, LocalFailure, StepFails, Then, PollStatus,
            Places, Entries, AtWork, Owes, LeaderOnly, FollowerOnly, PC, BeforeRun, Gone, Unwind,
            Work, Waits, SetRS, bcpm, meta
<1>1. CASE WaitNomination(s) \/ AcquireLock(s)
  BY <1>1 DEF WaitNomination, AcquireLock
<1>2. CASE Prologue(s)
  BY <1>2, PrologueMoves, PrologueKeeps
<1>3. CASE CheckStorage(s) \/ AddRS(s)
  BY <1>3 DEF CheckStorage, AddRS
<1>4. CASE BalancerOff(s)
  BY <1>4 DEF BalancerOff
<1>5. CASE ConvRunning(s)
  BY <1>5 DEF ConvRunning, Converge, Converged
<1>6. CASE ConvDumpDone(s) \/ ConvReady(s) \/ ConvDone(s)
  BY <1>6 DEF ConvDumpDone, ConvReady, ConvDone, Converge
<1>7. CASE WaitStart(s) \/ WaitRunning(s) \/ WaitDumpDone(s)
  BY <1>7 DEF WaitStart, WaitRunning, WaitDumpDone, WaitFor, AfterRunning
<1>8. CASE WaitReady(s) \/ WaitCopy(s) \/ WaitDone(s)
  BY <1>8 DEF WaitReady, WaitCopy, WaitDone, WaitFor
<1>9. CASE WaitFirstLast(s)
  BY <1>9 DEF WaitFirstLast
<1>10. CASE SetRunning(s) \/ SetDumpDone(s) \/ SetReady(s)
  BY <1>10 DEF SetRunning, SetDumpDone, SetReady, SetStatus
<1>11. CASE SetRSDumpDone(s) \/ SetRSReady(s) \/ SetRSDone(s)
  BY <1>11 DEF SetRSDumpDone, SetRSReady, SetRSDone, SetRSStatus
<1>12. CASE SetFirstWrite(s) \/ SetLastWrite(s)
  BY <1>12 DEF SetFirstWrite, SetLastWrite
<1>13. CASE FinalSlice(s) \/ SetRSLastWrite(s) \/ IncSize(s)
  BY <1>13 DEF FinalSlice, SetRSLastWrite, IncSize
<1>14. CASE Dump(s)
  BY <1>14, TypesAssumption DEF Dump, AfterDump, Type
<1>15. CASE ReadMeta(s) \/ WriteMeta(s)
  BY <1>15 DEF ReadMeta, WriteMeta
<1>16. CASE CheckFiles(s) \/ SetDone(s)
  BY <1>16 DEF CheckFiles, SetDone
<1>17. CASE DeleteFiles(s)
  BY <1>17 DEF DeleteFiles
<1>18. CASE MarkRS(s) \/ MarkBackup(s)
  BY <1>18 DEF MarkRS, MarkBackup, Verdicts
<1>19. CASE BalancerOn(s)
  BY <1>19 DEF BalancerOn
<1>20. CASE Release(s)
  BY <1>20 DEF Release
<1> QED
  BY <1>1, <1>2, <1>3, <1>4, <1>5, <1>6, <1>7, <1>8, <1>9, <1>10, <1>11, <1>12, <1>13,
     <1>14, <1>15, <1>16, <1>17, <1>18, <1>19, <1>20 DEF Agent

LEMMA DebtAgent ==
  ASSUME TypeOK, Places, Entries, Debt, NEW s \in Shard, Agent(s)
  PROVE  Debt'
<1> USE LeaderAssumption
<1> USE DEF TypeOK, Pass, Goto, Fail, LocalFailure, StepFails, Then, PollStatus,
            Places, Debt, PastRunning, Owes, LeaderOnly, FollowerOnly, PC, BeforeRun, Gone, Unwind,
            Work, Waits, bcpm, meta
<1>1. CASE WaitNomination(s) \/ AcquireLock(s)
  BY <1>1 DEF WaitNomination, AcquireLock
<1>2. CASE Prologue(s)
  BY <1>2, PrologueMoves, PrologueKeeps
<1>3. CASE CheckStorage(s) \/ AddRS(s)
  BY <1>3 DEF CheckStorage, AddRS
<1>4. CASE BalancerOff(s)
  BY <1>4 DEF BalancerOff
<1>5. CASE ConvRunning(s)
  BY <1>5 DEF ConvRunning, Converge, Converged, Entries, AtWork
<1>6. CASE ConvDumpDone(s) \/ ConvReady(s) \/ ConvDone(s)
  BY <1>6 DEF ConvDumpDone, ConvReady, ConvDone, Converge
<1>7. CASE WaitStart(s) \/ WaitRunning(s) \/ WaitDumpDone(s)
  BY <1>7 DEF WaitStart, WaitRunning, WaitDumpDone, WaitFor, AfterRunning
<1>8. CASE WaitReady(s) \/ WaitCopy(s) \/ WaitDone(s)
  BY <1>8 DEF WaitReady, WaitCopy, WaitDone, WaitFor
<1>9. CASE WaitFirstLast(s)
  BY <1>9 DEF WaitFirstLast
<1>10. CASE SetRunning(s) \/ SetDumpDone(s) \/ SetReady(s)
  BY <1>10 DEF SetRunning, SetDumpDone, SetReady, SetStatus
<1>11. CASE SetRSDumpDone(s) \/ SetRSReady(s) \/ SetRSDone(s)
  BY <1>11 DEF SetRSDumpDone, SetRSReady, SetRSDone, SetRSStatus
<1>12. CASE SetFirstWrite(s) \/ SetLastWrite(s)
  BY <1>12 DEF SetFirstWrite, SetLastWrite
<1>13. CASE FinalSlice(s) \/ SetRSLastWrite(s) \/ IncSize(s)
  BY <1>13 DEF FinalSlice, SetRSLastWrite, IncSize
<1>14. CASE Dump(s)
  BY <1>14, TypesAssumption DEF Dump, AfterDump, Type
<1>15. CASE ReadMeta(s) \/ WriteMeta(s)
  BY <1>15 DEF ReadMeta, WriteMeta
<1>16. CASE CheckFiles(s) \/ SetDone(s)
  BY <1>16 DEF CheckFiles, SetDone
<1>17. CASE DeleteFiles(s)
  BY <1>17 DEF DeleteFiles
<1>18. CASE MarkRS(s) \/ MarkBackup(s)
  BY <1>18 DEF MarkRS, MarkBackup
<1>19. CASE BalancerOn(s)
  BY <1>19 DEF BalancerOn
<1>20. CASE Release(s)
  BY <1>20 DEF Release
<1> QED
  BY <1>1, <1>2, <1>3, <1>4, <1>5, <1>6, <1>7, <1>8, <1>9, <1>10, <1>11, <1>12, <1>13,
     <1>14, <1>15, <1>16, <1>17, <1>18, <1>19, <1>20 DEF Agent

LEMMA TimingAgent ==
  ASSUME TypeOK, Places, Writes, Timing, NEW s \in Shard, Agent(s)
  PROVE  Timing'
<1> USE LeaderAssumption
<1> USE DEF TypeOK, Pass, Goto, Fail, LocalFailure, StepFails, Then, PollStatus,
            Places, Timing, Early, LeaderOnly, FollowerOnly, BeforeRun, LogicalOnly, ExternalOnly,
            Work, Waits, bcpm, meta, hist
<1>1. CASE WaitNomination(s) \/ AcquireLock(s)
  BY <1>1 DEF WaitNomination, AcquireLock
<1>2. CASE Prologue(s)
  BY <1>2, PrologueMoves, PrologueKeeps
<1>3. CASE CheckStorage(s) \/ AddRS(s)
  BY <1>3 DEF CheckStorage, AddRS
<1>4. CASE BalancerOff(s)
  BY <1>4 DEF BalancerOff
<1>5. CASE ConvRunning(s)
  BY <1>5 DEF ConvRunning, Converge, Converged
<1>6. CASE ConvDumpDone(s) \/ ConvReady(s) \/ ConvDone(s)
  BY <1>6 DEF ConvDumpDone, ConvReady, ConvDone, Converge
<1>7. CASE WaitStart(s) \/ WaitRunning(s) \/ WaitDumpDone(s)
  BY <1>7 DEF WaitStart, WaitRunning, WaitDumpDone, WaitFor, AfterRunning
<1>8. CASE WaitReady(s) \/ WaitCopy(s) \/ WaitDone(s)
  BY <1>8 DEF WaitReady, WaitCopy, WaitDone, WaitFor
<1>9. CASE WaitFirstLast(s)
  BY <1>9 DEF WaitFirstLast
<1>10. CASE SetRunning(s) \/ SetDumpDone(s) \/ SetReady(s)
  BY <1>10 DEF SetRunning, SetDumpDone, SetReady, SetStatus
<1>11. CASE SetRSDumpDone(s) \/ SetRSReady(s) \/ SetRSDone(s)
  BY <1>11 DEF SetRSDumpDone, SetRSReady, SetRSDone, SetRSStatus
<1>12. CASE SetFirstWrite(s) \/ SetLastWrite(s)
  BY <1>12 DEF SetFirstWrite, SetLastWrite
<1>13. CASE FinalSlice(s) \/ SetRSLastWrite(s) \/ IncSize(s)
  BY <1>13 DEF FinalSlice, SetRSLastWrite, IncSize
<1>14. CASE Dump(s)
  BY <1>14, TypesAssumption DEF Dump, AfterDump, Type
<1>15. CASE ReadMeta(s) \/ WriteMeta(s)
  BY <1>15 DEF ReadMeta, WriteMeta
<1>16. CASE CheckFiles(s) \/ SetDone(s)
  BY <1>16 DEF CheckFiles, SetDone
<1>17. CASE DeleteFiles(s)
  BY <1>17 DEF DeleteFiles
<1>18. CASE MarkRS(s) \/ MarkBackup(s)
  BY <1>18 DEF MarkRS, MarkBackup
<1>19. CASE BalancerOn(s)
  BY <1>19 DEF BalancerOn
<1>20. CASE Release(s)
  BY <1>20 DEF Release
<1> QED
  BY <1>1, <1>2, <1>3, <1>4, <1>5, <1>6, <1>7, <1>8, <1>9, <1>10, <1>11, <1>12, <1>13,
     <1>14, <1>15, <1>16, <1>17, <1>18, <1>19, <1>20 DEF Agent

LEMMA SpoiltAgent ==
  ASSUME TypeOK, Inv, Entries, Timing, Spoilt, NEW s \in Shard, Agent(s)
  PROVE  Spoilt'
<1> USE LeaderAssumption
<1> USE DEF TypeOK, Pass, Goto, Fail, LocalFailure, StepFails, Then, PollStatus,
            Places, Entries, Timing, Spoilt, Quit, Left, AtWork, Early, ToReady, LeaderOnly,
            FollowerOnly, LogicalOnly, ExternalOnly, PC, BeforeRun, Gone, Unwind, Work, Waits,
            Closing, SetRS, Inv, bcpm, meta, hist
<1>1. CASE WaitNomination(s) \/ AcquireLock(s)
  BY <1>1 DEF WaitNomination, AcquireLock
<1>2. CASE Prologue(s)
  BY <1>2, PrologueMoves, PrologueKeeps
<1>3. CASE CheckStorage(s) \/ AddRS(s)
  BY <1>3 DEF CheckStorage, AddRS
<1>4. CASE BalancerOff(s)
  BY <1>4 DEF BalancerOff
<1>5. CASE ConvRunning(s)
  BY <1>5 DEF ConvRunning, Converge, Converged
<1>6. CASE ConvDumpDone(s) \/ ConvReady(s) \/ ConvDone(s)
  BY <1>6 DEF ConvDumpDone, ConvReady, ConvDone, Converge, Converged
<1>7. CASE WaitStart(s) \/ WaitRunning(s) \/ WaitDumpDone(s)
  BY <1>7 DEF WaitStart, WaitRunning, WaitDumpDone, WaitFor, AfterRunning
<1>8. CASE WaitReady(s) \/ WaitCopy(s) \/ WaitDone(s)
  BY <1>8 DEF WaitReady, WaitCopy, WaitDone, WaitFor
<1>9. CASE WaitFirstLast(s)
  BY <1>9 DEF WaitFirstLast
<1>10. CASE SetRunning(s) \/ SetDumpDone(s) \/ SetReady(s)
  BY <1>10 DEF SetRunning, SetDumpDone, SetReady, SetStatus
<1>11. CASE SetRSDumpDone(s) \/ SetRSReady(s) \/ SetRSDone(s)
  BY <1>11 DEF SetRSDumpDone, SetRSReady, SetRSDone, SetRSStatus
<1>12. CASE SetFirstWrite(s)
  BY <1>12 DEF SetFirstWrite
<1>21. CASE SetLastWrite(s)
  <2>1. CASE unbalanced' = unbalanced
    BY <1>21, <2>1 DEF SetLastWrite
  <2>2. CASE unbalanced' # unbalanced
    <3>1. /\ s = Leader /\ pc[s] = "lastWrite" /\ balancer /\ typ # "logical"
          /\ pc' = [pc EXCEPT ![s] = "waitFirstLast"]
          /\ UNCHANGED <<typ, rsStatus, status, balancer>>
      BY <1>21, <2>2 DEF SetLastWrite
    <3>2. PICK t \in Shard : Quit(t)
      BY <3>1
    <3>3. rsStatus[t] = "done" => typ = "external"
      BY <3>1, TypesAssumption DEF Slices, Type
    <3>4. status # "done"
      BY <3>1 DEF Ends
    <3> QED
      BY <3>1, <3>2, <3>3, <3>4
  <2> QED
    BY <2>1, <2>2
<1>13. CASE FinalSlice(s) \/ SetRSLastWrite(s) \/ IncSize(s)
  BY <1>13 DEF FinalSlice, SetRSLastWrite, IncSize
<1>14. CASE Dump(s)
  <2>1. CASE unbalanced' = unbalanced
    BY <1>14, <2>1, TypesAssumption DEF Dump, AfterDump, Type
  <2>2. CASE unbalanced' # unbalanced
    <3>1. /\ pc[s] = "dump" /\ s \notin ctx /\ balancer /\ typ = "logical"
          /\ pc' = [pc EXCEPT ![s] = "setRSDumpDone"]
          /\ UNCHANGED <<typ, rsStatus, status, balancer>>
      BY <1>14, <2>2 DEF Dump, AfterDump
    <3>2. pc[Leader] \notin Early
      BY <3>1
    <3>3. dumped # Shard
      BY <3>1 DEF Copies, BeforeDump
    <3>4. pc[Leader] \notin Closing /\ status # "done"
      BY <3>3 DEF Ends
    <3>5. \A t \in Shard : rsStatus[t] # "done"
      BY <3>1, <3>3 DEF Slices
    <3> QED
      BY <3>1, <3>2, <3>4, <3>5
  <2> QED
    BY <2>1, <2>2
<1>15. CASE ReadMeta(s) \/ WriteMeta(s)
  BY <1>15 DEF ReadMeta, WriteMeta
<1>16. CASE CheckFiles(s) \/ SetDone(s)
  BY <1>16 DEF CheckFiles, SetDone
<1>17. CASE DeleteFiles(s)
  BY <1>17 DEF DeleteFiles
<1>18. CASE MarkRS(s) \/ MarkBackup(s)
  BY <1>18 DEF MarkRS, MarkBackup
<1>19. CASE BalancerOn(s)
  BY <1>19 DEF BalancerOn
<1>20. CASE Release(s)
  BY <1>20 DEF Release
<1> QED
  BY <1>1, <1>2, <1>3, <1>4, <1>5, <1>6, <1>7, <1>8, <1>9, <1>10, <1>11, <1>12, <1>21, <1>13,
     <1>14, <1>15, <1>16, <1>17, <1>18, <1>19, <1>20 DEF Agent

---------------------------------------------------------------------------
(* The invariant is inductive *)

LEMMA BalancerInit == Init => BalancerInv
<1> SUFFICES ASSUME Init PROVE BalancerInv
  OBVIOUS
<1> USE LeaderAssumption DEF Init
<1>1. Debt
  BY DEF Debt, PastRunning, Owes, Work, Waits
<1>2. Entries
  BY DEF Entries, AtWork
<1>3. Timing
  BY DEF Timing
<1>4. Spoilt
  BY DEF Spoilt, Closing, Work, Waits
<1> QED
  BY <1>1, <1>2, <1>3, <1>4 DEF BalancerInv

\* The steps that are not an agent's.
LEMMA BalancerOthers ==
  ASSUME TypeOK, Inv, BalancerInv, [Next]_vars, \A s \in Shard : ~ Agent(s)
  PROVE  BalancerInv'
<1> USE LeaderAssumption
<1> USE DEF BalancerInv, Debt, Entries, Timing, Spoilt, Quit, TypeOK, bcpm, meta, stg, env, hist
<1>1. CASE InitMeta \/ CheckTopo
  BY <1>1 DEF InitMeta, CheckTopo, Inv, Verdicts
<1>2. ASSUME NEW s \in Shard, Nominate(s) PROVE BalancerInv'
  BY <1>2 DEF Nominate
<1>3. CASE CrashInitiator
  BY <1>3 DEF CrashInitiator
<1>4. ASSUME NEW s \in Shard, Cancel(s) PROVE BalancerInv'
  BY <1>4 DEF Cancel
<1>5. ASSUME NEW s \in Shard, Crash(s) PROVE BalancerInv'
  BY <1>5 DEF Crash, Goto, Alive, Gone, Owes, PC, Unwind, PastRunning, Work, Waits, BeforeRun,
              Early, Left, ToReady, Closing
<1>6. ASSUME NEW s \in Shard, LockExpires(s) \/ LockHB(s) \/ TakeOver(s) PROVE BalancerInv'
  BY <1>6 DEF LockExpires, LockHB, TakeOver
<1>7. CASE HbExpires \/ BackupHB
  BY <1>7 DEF HbExpires, BackupHB
<1>8. CASE TakerReads
  BY <1>8 DEF TakerReads
<1>9. CASE TakerWrites
  BY <1>9 DEF TakerWrites
<1>10. CASE Finish
  BY <1>10 DEF Finish, FinishReads, FinishWrites
<1>11. CASE UNCHANGED vars
  BY <1>11 DEF vars
<1> QED
  BY <1>1, <1>2, <1>3, <1>4, <1>5, <1>6, <1>7, <1>8, <1>9, <1>10, <1>11
     DEF Next, Initiator, Taker

LEMMA BalancerStep == TypeOK /\ Inv /\ BalancerInv /\ [Next]_vars => BalancerInv'
<1> SUFFICES ASSUME TypeOK, Inv, BalancerInv, [Next]_vars PROVE BalancerInv'
  OBVIOUS
<1>1. ASSUME NEW s \in Shard, Agent(s) PROVE BalancerInv'
  BY <1>1, EntriesAgent, DebtAgent, TimingAgent, SpoiltAgent DEF BalancerInv, Inv
<1> QED
  BY <1>1, BalancerOthers

LEMMA BalancerInvariance == Spec => [](TypeOK /\ Inv /\ BalancerInv)
  BY InitType, InitInv, BalancerInit, StepType, StepInv, BalancerStep, PTL DEF Spec

\* When every agent has left without a crash the balancer is as it was before the
\* backup (Run, "Turn the balancer back on if needed").  The one exception is a cluster
\* of one replica set (a config shard) whose agent has lost the metadata: it panics in
\* that function, and there is no other agent to do it.
THEOREM BalancerIsRestored ==
  Spec => [](BalancerRestored \/ (Shard = {Leader} /\ bcpmNil))
<1>1. TypeOK /\ BalancerInv => BalancerRestored \/ (Shard = {Leader} /\ bcpmNil)
  <2> SUFFICES ASSUME TypeOK, BalancerInv, \A s \in Shard : pc[s] \in {"end", "skipped"},
                      balancer # balancerWas
               PROVE  Shard = {Leader} /\ bcpmNil
    BY DEF BalancerRestored
  <2>1. balancerWas /\ ~ balancer
    BY DEF BalancerInv, Debt, TypeOK
  <2>2. bcpmNil
    BY <2>1, LeaderAssumption DEF BalancerInv, Debt, Owes
  <2>3. \A t \in Shard \ {Leader} : FALSE
    BY <2>1, <2>2 DEF BalancerInv, Debt, Owes
  <2> QED
    BY <2>2, <2>3, LeaderAssumption
<1> QED
  BY <1>1, BalancerInvariance, PTL

\* No snapshot of a backup that is done ended with the balancer on, although every agent
\* that leaves early turns it on under those that are still at work.
THEOREM SnapshotsEndWithoutBalancer == Spec => []SnapshotsWithoutBalancer
<1>1. BalancerInv => SnapshotsWithoutBalancer
  BY DEF BalancerInv, Spoilt, SnapshotsWithoutBalancer
<1> QED
  BY <1>1, BalancerInvariance, PTL

=============================================================================

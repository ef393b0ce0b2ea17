----------------------- MODULE LogicalRestoreProofs -----------------------
(***************************************************************************)
(* Two results on the logical restore (LogicalRestore), for any number of  *)
(* replica sets, faults and transactions, and any oplogs.                  *)
(*                                                                         *)
(* A failed restore is reported.  The leader writes statuses from what it  *)
(* has read before, over the errors of others; what saves the report is    *)
(* that it looks again before every further status, and that no replica    *)
(* set of the backup can fail any more once all of them are done.          *)
(*                                                                         *)
(* A restore that is done has distributed transactions on all replica sets *)
(* or on none.  What the replay of one oplog comes to is shown entry by    *)
(* entry (ReplayInv); what the replica sets tell each other in the record  *)
(* is what their replays have come to (TxnsInv).                           *)
(***************************************************************************)
EXTENDS LogicalRestore, FiniteSetTheorems, TLAPS


\* What is read and written of the record.
IsMeta(m) ==
  /\ DOMAIN m = {"status", "rss", "txns"}
  /\ m.status \in Statuses
  /\ m.rss \in [RSs -> Statuses]

Shape ==
  /\ backup \subseteq RSs
  /\ pc \in [RSs -> PCs]
  /\ goal \in [RSs -> {"starting", "done"} \cup Phases]
  /\ txnSet \in [RSs -> BOOLEAN]
  /\ \A r \in RSs : pc[r] = "wait" => goal[r] # "done"
  /\ meta = None \/ IsMeta(meta)

Left(s) == pc[s] \in {"release", "ended", "dead"}

\* A replica set has reported to be done before it left; the leader waits.
DoneHaveLeft == meta # None => \A s \in RSs \ {Leader} : meta.rss[s] = "done" => Left(s)

\* A record from before the leader's is one of an error, and stays so until it leads.
Early == meta # None /\ pc[Leader] \in {"idle", "locked", "starting"} => meta.status = "error"

\* A leader that has left has reported the error, or all were done.
Late ==
  meta # None /\ pc[Leader] \in {"failed", "release", "ended"} =>
    meta.status = "error" \/ (goal[Leader] = "done" /\ pc[Leader] # "failed")

AllDone == \A s \in Shards : meta.rss[s] # "error" /\ (s # Leader => Left(s))

\* The leader says so only when nobody can fail any more.
LastWord ==
  /\ meta # None /\ goal[Leader] = "done"
  /\ pc[Leader] = "announce" \/ (pc[Leader] \in {"release", "ended"} /\ meta.status # "error")
  => AllDone

\* Nobody does anything in the cluster before there is a record.
NothingBefore ==
  meta = None => \A r \in RSs :
    /\ ~txnSet[r]
    /\ pc[r] \in {"idle", "locked", "starting", "wait", "failing", "failed", "release", "ended", "dead"}

ReportInv == Shape /\ NothingBefore /\ DoneHaveLeft /\ Early /\ Late /\ LastWord
----------------------------------------------------------------------------
(* Writes to the record.                                                   *)

\* There is a record when it has the fields of one.
LEMMA NotNone == \A m : IsMeta(m) => m # None
<1> SUFFICES ASSUME NEW m, IsMeta(m)
             PROVE  m # None
  OBVIOUS
<1>1. "rss" \in DOMAIN m
  BY DEF IsMeta
<1>2. "rss" \notin DOMAIN None
  BY DEF None
<1> QED BY <1>1, <1>2

\* ChangeRestoreState sets the status of the record that is there.
LEMMA StateChange ==
  ASSUME meta = None \/ IsMeta(meta), NEW st \in Statuses, ChangeRestoreState(st)
  PROVE  /\ meta = None => meta' = None
         /\ meta # None => IsMeta(meta') /\ meta'.status = st /\ meta'.rss = meta.rss
  BY DEF ChangeRestoreState, IsMeta

\* ChangeRestoreRSState sets the status of a replica set that has registered.
LEMMA RSStateChange ==
  ASSUME meta = None \/ IsMeta(meta), NEW r \in RSs, NEW st \in Statuses, ChangeRestoreRSState(r, st)
  PROVE  \/ meta' = meta
         \/ meta # None /\ IsMeta(meta') /\ meta'.status = meta.status /\ meta'.rss = [meta.rss EXCEPT ![r] = st]
  BY DEF ChangeRestoreRSState, IsMeta

\* A record of an error has no other replica set in it (addRestoreMetaWithError).
LEMMA ErrorMeta ==
  ASSUME NEW r \in RSs, AddRestoreMetaWithError(r)
  PROVE  /\ IsMeta(meta') /\ meta'.status = "error"
         /\ meta'.rss = [s \in RSs |-> IF s = r THEN "error" ELSE "none"]
  BY DEF AddRestoreMetaWithError, AddRestoreRSMeta, NewMeta, IsMeta, Statuses

\* A registration (Register) and the record a leader creates (SetRestoreMeta).
LEMMA RegisterMeta ==
  ASSUME IsMeta(meta), NEW r \in RSs, meta' = AddRestoreRSMeta(meta, r, "starting")
  PROVE  IsMeta(meta') /\ meta'.status = meta.status /\ meta'.rss = [meta.rss EXCEPT ![r] = "starting"]
  BY DEF AddRestoreRSMeta, IsMeta, Statuses

\* The record as a leader writes it has all its fields (SetRestoreMeta).
LEMMA FirstMeta ==
  IsMeta(NewMeta("starting")) /\ NewMeta("starting").status = "starting" /\ NewMeta("starting").rss = [s \in RSs |-> "none"]
  BY DEF NewMeta, IsMeta, Statuses, Phases

\* The commits of a replica set are a field of their own (RestoreSetRSTxn).
LEMMA TxnsMeta ==
  ASSUME IsMeta(meta), NEW r, NEW v, meta' = [meta EXCEPT !.txns[r] = v]
  PROVE  IsMeta(meta') /\ meta'.status = meta.status /\ meta'.rss = meta.rss
  BY DEF IsMeta

----------------------------------------------------------------------------
(* The steps. *)

\* It holds at the start.
LEMMA InitReport == Init => ReportInv
  BY DEF Init, ReportInv, Shape, NothingBefore, DoneHaveLeft, Early, Late, LastWord, PCs, None

\* Every step keeps the shape of the state.
LEMMA StepShape ==
  ASSUME Shape, NothingBefore, [Next]_vars
  PROVE  Shape' /\ NothingBefore'
<1> USE DEF Shape, PCs, Phases, Go, Fail, MoveTo
<1>1. ASSUME NEW r \in RSs, Proceed(r)
      PROVE  Shape' /\ NothingBefore'
  <2>1. CASE Start(r)
    BY <2>1 DEF Start, NothingBefore
  <2>2. CASE LookupBackupMeta(r)
    <3>1. IsMeta(meta') \/ UNCHANGED meta
      BY <2>2, ErrorMeta DEF LookupBackupMeta
    <3> QED BY <2>2, <3>1, NotNone DEF LookupBackupMeta, NothingBefore
  <2>3. CASE InitRestore(r)
    <3>1. IsMeta(meta') \/ UNCHANGED meta
      BY <2>3, FirstMeta DEF InitRestore, SetRestoreMeta
    <3> QED BY <2>3, <3>1, NotNone DEF InitRestore, NothingBefore
  <2>4. CASE Register(r)
    <3>1. meta # None
      BY <2>4 DEF Register, NothingBefore
    <3>2. IsMeta(meta')
      BY <2>4, <3>1, RegisterMeta DEF Register
    <3> QED BY <2>4, <3>2, NotNone DEF Register, NothingBefore
  <2>5. CASE Check(r)
    <3>1. meta # None
      BY <2>5 DEF Check, NothingBefore
    <3> QED BY <2>5, <3>1 DEF Check, NothingBefore
  <2>6. CASE Report(r)
    <3>1. meta # None
      BY <2>6 DEF Report, NothingBefore
    <3>2. goal[r] \in Statuses
      BY DEF Statuses
    <3>3. IsMeta(meta')
      BY <2>6, <3>1, <3>2, RSStateChange DEF Report
    <3> QED BY <2>6, <3>3, NotNone DEF Report, NothingBefore
  <2>7. CASE WaitForStatus(r)
    <3>1. NextStep(goal[r]) \in PCs \ {"wait"}
      BY <2>7 DEF WaitForStatus, NextStep
    <3>2. pc' = [pc EXCEPT ![r] = NextStep(goal[r])] \/ pc' = [pc EXCEPT ![r] = "failing"]
      BY <2>7 DEF WaitForStatus
    <3> QED BY <2>7, <3>1, <3>2 DEF WaitForStatus, NothingBefore
  <2>8. CASE DBCleanup(r)
    BY <2>8 DEF DBCleanup, NothingBefore
  <2>9. CASE RunSnapshot(r)
    BY <2>9 DEF RunSnapshot, NothingBefore
  <2>10. CASE ReplayOplog(r)
    <3>1. meta # None
      BY <2>10 DEF ReplayOplog, NothingBefore
    <3>2. pc' = [pc EXCEPT ![r] = "finish"] \/ pc' = [pc EXCEPT ![r] = "txns"]
      BY <2>10 DEF ReplayOplog
    <3> QED BY <2>10, <3>1, <3>2 DEF ReplayOplog, NothingBefore
  <2>11. CASE SetCommittedTxn(r)
    <3>1. meta # None
      BY <2>11 DEF SetCommittedTxn, NothingBefore
    <3>2. meta' = meta \/ \E v : meta' = [meta EXCEPT !.txns[r] = v]
      BY <2>11 DEF SetCommittedTxn
    <3>3. IsMeta(meta')
      BY <3>1, <3>2, TxnsMeta
    <3> QED BY <2>11, <3>3, NotNone DEF SetCommittedTxn, NothingBefore
  <2>12. CASE GetCommittedTxn(r)
    BY <2>12 DEF GetCommittedTxn, NothingBefore
  <2>13. CASE Finish(r)
    BY <2>13 DEF Finish, NothingBefore
  <2>14. CASE MarkFailed(r)
    <3>1. "error" \in Statuses
      BY DEF Statuses
    <3>2. CASE ChangeRestoreState("error")
      BY <2>14, <3>1, <3>2, StateChange, NotNone DEF MarkFailed, NothingBefore
    <3>3. CASE ChangeRestoreRSState(r, "error")
      BY <2>14, <3>1, <3>3, RSStateChange, NotNone DEF MarkFailed, NothingBefore
    <3> QED BY <2>14, <3>2, <3>3 DEF MarkFailed
  <2>15. CASE Release(r)
    BY <2>15 DEF Release, NothingBefore
  <2> QED BY <1>1, <2>1, <2>2, <2>3, <2>4, <2>5, <2>6, <2>7, <2>8, <2>9, <2>10, <2>11, <2>12, <2>13, <2>14, <2>15
          DEF Proceed
<1>2. ASSUME NEW r \in RSs, Breaks(r) \/ Crash(r)
      PROVE  Shape' /\ NothingBefore'
  <2>1. \E step \in {"failing", "dead"} : pc' = [pc EXCEPT ![r] = step]
    BY <1>2 DEF Breaks, Crash
  <2>2. UNCHANGED <<backup, goal, meta>> /\ (txnSet' = txnSet \/ txnSet' = [txnSet EXCEPT ![r] = FALSE])
    BY <1>2 DEF Breaks, Crash
  <2> QED BY <2>1, <2>2 DEF NothingBefore
<1>3. ASSUME NEW r \in RSs, SecondaryLookupFails(r)
      PROVE  Shape' /\ NothingBefore'
  BY <1>3, ErrorMeta, NotNone DEF SecondaryLookupFails, NothingBefore
<1>4. CASE Converge \/ ConvergeTimeout
  BY <1>4, LeaderAssumption DEF Converge, ConvergeTimeout, NothingBefore
<1>5. CASE Announce
  <2>1. meta # None
    BY <1>5, LeaderAssumption DEF Announce, NothingBefore
  <2>2. goal[Leader] \in Statuses
    BY LeaderAssumption DEF Statuses
  <2>3. IsMeta(meta')
    BY <1>5, <2>1, <2>2, StateChange DEF Announce
  <2>4. /\ pc' = [pc EXCEPT ![Leader] = IF goal[Leader] = "done" THEN "release" ELSE "wait"]
        /\ UNCHANGED <<backup, goal>>
    BY <1>5 DEF Announce
  <2>5. txnSet' = txnSet
    BY <1>5 DEF Announce
  <2>6. meta' # None
    BY <2>3, NotNone
  <2>7. (pc \in [RSs -> PCs])' /\ (\A r \in RSs : pc[r] = "wait" => goal[r] # "done")'
    BY <2>4, LeaderAssumption
  <2> QED BY <2>3, <2>4, <2>5, <2>6, <2>7 DEF NothingBefore
<1>6. CASE UNCHANGED vars
  BY <1>6 DEF vars, NothingBefore
<1> QED BY <1>1, <1>2, <1>3, <1>4, <1>5, <1>6 DEF Next, Lead

\* What must hold of a step for the report to be right after it.
Reported == DoneHaveLeft /\ Early /\ Late /\ LastWord

\* The places in which the report says something of the leader.
Telling == {"idle", "locked", "starting", "announce", "failed", "release", "ended"}

\* A step that leaves the record alone: an agent moves, and stays away if it has left;
\* the leader comes to no place where something is said of it but from another one.
LEMMA QuietMove ==
  ASSUME Shape, Reported, UNCHANGED <<kind, backup, meta>>, NEW r \in RSs, NEW step \in PCs,
         pc' = [pc EXCEPT ![r] = step],
         Left(r) => step \in {"release", "ended", "dead"},
         \/ UNCHANGED goal
         \/ step \notin Telling /\ \E g : goal' = [goal EXCEPT ![r] = g],
         r = Leader => \/ step \notin Telling
                       \/ <<pc[r], step>> \in {<<"idle", "locked">>, <<"idle", "ended">>,
                                               <<"locked", "starting">>, <<"release", "ended">>}
  PROVE  Reported'
<1>1. Shards' = Shards /\ Shards \subseteq RSs
  BY DEF Shards, Shape
<1> USE DEF Shape, Telling
<1>2. \A s \in RSs : pc'[s] = IF s = r THEN step ELSE pc[s]
  OBVIOUS
<1>3. \A s \in RSs : Left(s) => Left(s)'
  BY <1>2 DEF Left
<1>4. DoneHaveLeft'
  BY <1>3 DEF Reported, DoneHaveLeft
<1>5. Early'
  BY <1>2, LeaderAssumption DEF Reported, Early
<1>6. Late'
  BY <1>2, LeaderAssumption DEF Reported, Late, Early
<1>7. LastWord'
  BY <1>1, <1>2, <1>3, LeaderAssumption DEF Reported, LastWord, AllDone, Early
<1> QED BY <1>4, <1>5, <1>6, <1>7 DEF Reported

\* Every step keeps the report right.
LEMMA StepReported ==
  ASSUME Shape, NothingBefore, Reported, [Next]_vars
  PROVE  Reported'
<1>0. Shards \subseteq RSs /\ (UNCHANGED <<kind, backup>> => Shards' = Shards)
  BY DEF Shards, Shape
<1> USE LeaderAssumption
<1>1. ASSUME NEW r \in RSs, Proceed(r)
      PROVE  Reported'
  <2>0. pc[r] \in PCs /\ {"locked", "ended", "starting", "wait", "report", "failing", "release", "register", "drop", "replay",
           "load", "txns", "finish", "dead", "check"} \subseteq PCs
    BY DEF Shape, PCs
  <2>1. CASE Start(r)
    <3>1. UNCHANGED <<kind, backup, meta, goal>> /\ pc[r] = "idle"
      BY <2>1 DEF Start
    <3>2. pc' = [pc EXCEPT ![r] = "locked"] \/ pc' = [pc EXCEPT ![r] = "ended"]
      BY <2>1 DEF Start, Go
    <3> QED BY <2>0, <3>1, <3>2, QuietMove DEF Left
  <2>2. CASE LookupBackupMeta(r)
    <3>1. CASE Go(r, "starting") /\ UNCHANGED meta
      <4>1. UNCHANGED <<kind, backup, meta, goal>> /\ pc[r] = "locked"
        BY <2>2, <3>1 DEF LookupBackupMeta
      <4> QED BY <2>0, <3>1, <4>1, QuietMove DEF Go, Left
    <3>2. CASE AddRestoreMetaWithError(r) /\ Go(r, "release")
      <4>1. /\ meta'.status = "error"
            /\ meta'.rss = [s \in RSs |-> IF s = r THEN "error" ELSE "none"]
        BY <3>2, ErrorMeta
      <4>2. /\ UNCHANGED <<kind, backup, goal>> /\ pc[r] = "locked"
            /\ pc' = [pc EXCEPT ![r] = "release"]
        BY <2>2, <3>2 DEF LookupBackupMeta, Go
      <4>3. pc'[Leader] = "announce" /\ goal[Leader] = "done" => r \notin Shards
        <5>1. pc'[Leader] = "announce" => r # Leader /\ pc[Leader] = "announce"
          BY <4>2 DEF Shape
        <5>2. pc[Leader] = "announce" => meta # None
          BY DEF NothingBefore
        <5> QED BY <4>2, <5>1, <5>2 DEF Reported, LastWord, AllDone, Left
      <4>4. pc'[Leader] = "announce" /\ goal[Leader] = "done" => AllDone'
        <5>1. pc'[Leader] = "announce" => r # Leader /\ pc[Leader] = "announce"
          BY <4>2 DEF Shape
        <5>2. pc[Leader] = "announce" => meta # None
          BY DEF NothingBefore
        <5>3. \A s \in RSs : Left(s) => Left(s)'
          BY <4>2 DEF Left, Shape
        <5> QED BY <4>1, <4>2, <4>3, <5>1, <5>2, <5>3, <1>0 DEF Reported, LastWord, AllDone
      <4> QED BY <4>1, <4>2, <4>4 DEF Reported, DoneHaveLeft, Early, Late, LastWord
    <3> QED BY <2>2, <3>1, <3>2 DEF LookupBackupMeta
  <2>3. CASE InitRestore(r)
    <3>1. /\ UNCHANGED <<kind, backup>> /\ pc[r] = "starting"
          /\ pc' = [pc EXCEPT ![r] = "wait"] /\ goal' = [goal EXCEPT ![r] = "starting"]
      BY <2>3 DEF InitRestore, Go
    <3>2. CASE UNCHANGED meta
      BY <2>0, <3>1, <3>2, QuietMove DEF Left, Telling
    <3>3. CASE r = Leader /\ meta' = NewMeta("starting")
      <4>1. meta'.rss = [s \in RSs |-> "none"] /\ pc'[Leader] = "wait"
        BY <3>1, <3>3, FirstMeta DEF Shape
      <4> QED BY <4>1 DEF Reported, DoneHaveLeft, Early, Late, LastWord
    <3> QED BY <2>3, <3>2, <3>3 DEF InitRestore, SetRestoreMeta
  <2>4. CASE Register(r)
    <3>1. meta # None
      BY <2>4 DEF Register, NothingBefore
    <3>2. meta'.status = meta.status /\ meta'.rss = [meta.rss EXCEPT ![r] = "starting"] /\ IsMeta(meta)
      BY <2>4, <3>1, RegisterMeta DEF Register, Shape
    <3>3. UNCHANGED <<kind, backup, goal>> /\ pc[r] = "register" /\ pc' = [pc EXCEPT ![r] = "check"]
      BY <2>4 DEF Register, Go
    <3>4. \A s \in RSs : meta'.rss[s] = IF s = r THEN "starting" ELSE meta.rss[s]
      BY <3>2 DEF IsMeta
    <3>5. \A s \in RSs : /\ pc'[s] = IF s = r THEN "check" ELSE pc[s]
                         /\ Left(s) <=> Left(s)'
      BY <3>3 DEF Left, Shape
    <3> QED BY <1>0, <3>1, <3>2, <3>3, <3>4, <3>5
            DEF Reported, DoneHaveLeft, Early, Late, LastWord, AllDone, Left
  <2>5. CASE Check(r)
    <3>1. UNCHANGED <<kind, backup, meta>> /\ pc[r] = "check"
      BY <2>5 DEF Check
    <3>2. CASE \E status : MoveTo(r, status)
      <4>1. pc' = [pc EXCEPT ![r] = "report"] /\ \E g : goal' = [goal EXCEPT ![r] = g]
        BY <3>2 DEF MoveTo, Go
      <4> QED BY <2>0, <3>1, <4>1, QuietMove DEF Left, Telling
    <3>3. CASE Fail(r) /\ UNCHANGED goal
      BY <2>0, <3>1, <3>3, QuietMove DEF Left, Telling, Fail, Go
    <3>4. CASE r # Leader /\ Go(r, "release") /\ UNCHANGED goal
      BY <2>0, <3>1, <3>4, QuietMove DEF Left, Go
    <3> QED BY <2>5, <3>2, <3>3, <3>4 DEF Check
  <2>6. CASE Report(r)
    <3>1. meta # None /\ IsMeta(meta) /\ goal[r] \in Statuses
      BY <2>6 DEF Report, NothingBefore, Shape, Statuses
    <3>2. meta' = meta \/ (meta'.status = meta.status /\ meta'.rss = [meta.rss EXCEPT ![r] = goal[r]])
      BY <2>6, <3>1, RSStateChange DEF Report
    <3>3. \A s \in RSs : meta'.rss[s] = meta.rss[s] \/ (s = r /\ meta'.rss[s] = goal[r])
      BY <3>1, <3>2 DEF IsMeta
    <3>4. /\ UNCHANGED <<kind, backup, goal>> /\ pc[r] = "report" /\ meta'.status = meta.status
          /\ pc' = [pc EXCEPT ![r] = IF r = Leader THEN "converge"
                                     ELSE IF goal[r] = "done" THEN "release" ELSE "wait"]
      BY <2>6, <3>2 DEF Report, Go
    <3>5. /\ \A s \in RSs \ {r} : pc'[s] = pc[s]
          /\ r = Leader => pc'[r] = "converge"
          /\ r # Leader /\ goal[r] = "done" => pc'[r] = "release"
      BY <3>4 DEF Shape
    <3>6. \A s \in RSs : Left(s) => Left(s)'
      BY <3>4, <3>5 DEF Left
    <3>7. DoneHaveLeft'
      BY <3>1, <3>3, <3>4, <3>5, <3>6 DEF Reported, DoneHaveLeft, Left
    <3>8. Early' /\ Late'
      BY <3>1, <3>4, <3>5 DEF Reported, Early, Late
    <3>9. LastWord'
      BY <1>0, <3>1, <3>3, <3>4, <3>5, <3>6 DEF Reported, LastWord, AllDone, Left
    <3> QED BY <3>7, <3>8, <3>9 DEF Reported
  <2>7. CASE WaitForStatus(r)
    <3>1. NextStep(goal[r]) \in {"register", "drop", "replay", "load"} \/ meta.status # goal[r]
      BY <2>7 DEF WaitForStatus, NextStep, Shape, Phases
    <3>2. UNCHANGED <<kind, backup, meta, goal>> /\ pc[r] = "wait"
      BY <2>7 DEF WaitForStatus
    <3>3. \E step \in {"register", "drop", "replay", "load", "failing"} : pc' = [pc EXCEPT ![r] = step]
      BY <2>7, <3>1 DEF WaitForStatus, Go, Fail
    <3> QED BY <2>0, <3>2, <3>3, QuietMove DEF Left, Telling
  <2>8. CASE DBCleanup(r) \/ RunSnapshot(r) \/ Finish(r)
    <3>1. /\ UNCHANGED <<kind, backup, meta>> /\ pc[r] \in {"drop", "load", "finish"}
          /\ pc' = [pc EXCEPT ![r] = "report"] /\ \E g : goal' = [goal EXCEPT ![r] = g]
      BY <2>8 DEF DBCleanup, RunSnapshot, Finish, MoveTo, Go
    <3> QED BY <2>0, <3>1, QuietMove DEF Left, Telling
  <2>9. CASE ReplayOplog(r) \/ GetCommittedTxn(r)
    <3>1. /\ UNCHANGED <<kind, backup, meta, goal>> /\ pc[r] \in {"replay", "txns"}
          /\ \E step \in {"finish", "txns", "failing"} : pc' = [pc EXCEPT ![r] = step]
      BY <2>9 DEF ReplayOplog, GetCommittedTxn, Go, Fail
    <3> QED BY <2>0, <3>1, QuietMove DEF Left, Telling
  <2>10. CASE SetCommittedTxn(r)
    <3>1. meta # None
      BY <2>10 DEF SetCommittedTxn, NothingBefore
    <3>2. meta' = meta \/ \E v : meta' = [meta EXCEPT !.txns[r] = v]
      BY <2>10 DEF SetCommittedTxn
    <3>3. meta'.status = meta.status /\ meta'.rss = meta.rss
      BY <3>1, <3>2, TxnsMeta DEF Shape
    <3>4. UNCHANGED <<kind, backup, goal, pc>>
      BY <2>10 DEF SetCommittedTxn
    <3> QED BY <1>0, <3>1, <3>3, <3>4 DEF Reported, DoneHaveLeft, Early, Late, LastWord, AllDone, Left
  <2>11. CASE pc[r] = "failing" /\ MarkFailed(r)
    <3>1. /\ UNCHANGED <<kind, backup, goal>> /\ pc' = [pc EXCEPT ![r] = "failed"]
          /\ ChangeRestoreState("error")
      BY <2>11 DEF MarkFailed, Go
    <3>2. /\ meta = None => meta' = None
          /\ meta # None => meta'.status = "error" /\ meta'.rss = meta.rss
      <4>1. "error" \in Statuses
        BY DEF Statuses
      <4> QED BY <3>1, <4>1, StateChange DEF Shape
    <3>3. \A s \in RSs : (Left(s) <=> Left(s)') /\ (s # r => pc'[s] = pc[s])
      BY <2>11, <3>1 DEF Left, Shape
    <3>4. pc'[r] = "failed"
      BY <3>1 DEF Shape
    <3> QED BY <1>0, <3>1, <3>2, <3>3, <3>4 DEF Reported, DoneHaveLeft, Early, Late, LastWord, AllDone
  <2>12. CASE pc[r] = "failed" /\ MarkFailed(r)
    <3>1. /\ UNCHANGED <<kind, backup, goal>> /\ pc' = [pc EXCEPT ![r] = "release"]
          /\ ChangeRestoreRSState(r, "error")
      BY <2>12 DEF MarkFailed, Go
    <3>2. \/ meta' = meta
          \/ /\ meta # None /\ meta'.status = meta.status
             /\ \A s \in RSs : meta'.rss[s] = IF s = r THEN "error" ELSE meta.rss[s]
      <4>1. "error" \in Statuses
        BY DEF Statuses
      <4>2. \/ meta' = meta
            \/ meta # None /\ meta'.status = meta.status /\ meta'.rss = [meta.rss EXCEPT ![r] = "error"]
        BY <3>1, <4>1, RSStateChange DEF Shape
      <4>3. meta # None => DOMAIN meta.rss = RSs
        BY DEF Shape, IsMeta
      <4> QED BY <4>2, <4>3
    <3>3. \A s \in RSs : (Left(s) => Left(s)') /\ (s # r => pc'[s] = pc[s])
      BY <2>12, <3>1 DEF Left, Shape
    <3>4. pc'[r] = "release"
      BY <3>1 DEF Shape
    <3>5. DoneHaveLeft'
      BY <3>2, <3>3 DEF Reported, DoneHaveLeft
    <3>6. Early' /\ Late'
      BY <2>12, <3>1, <3>2, <3>3, <3>4 DEF Reported, Early, Late
    <3>7. LastWord'
      <4>1. CASE r = Leader
        BY <2>12, <4>1, <3>1, <3>2, <3>4 DEF Reported, LastWord, Late
      <4>2. CASE r # Leader
        BY <2>12, <4>2, <1>0, <3>1, <3>2, <3>3 DEF Reported, LastWord, AllDone, Left
      <4> QED BY <4>1, <4>2
    <3> QED BY <3>5, <3>6, <3>7 DEF Reported
  <2>13. CASE Release(r)
    <3>1. UNCHANGED <<kind, backup, meta, goal>> /\ pc[r] = "release" /\ pc' = [pc EXCEPT ![r] = "ended"]
      BY <2>13 DEF Release, Go
    <3> QED BY <2>0, <3>1, QuietMove
  <2> QED BY <1>1, <2>1, <2>2, <2>3, <2>4, <2>5, <2>6, <2>7, <2>8, <2>9, <2>10, <2>11, <2>12, <2>13
          DEF Proceed, MarkFailed
<1>2. ASSUME NEW r \in RSs, Breaks(r) \/ Crash(r)
      PROVE  Reported'
  <2>1. UNCHANGED <<kind, backup, meta, goal>> /\ \E step \in {"failing", "dead"} : pc' = [pc EXCEPT ![r] = step]
    BY <1>2 DEF Breaks, Crash, Fail, Go
  <2>2. Left(r) => pc' = [pc EXCEPT ![r] = "dead"]
    BY <1>2 DEF Breaks, Crash, Fail, Go, Left
  <2>3. {"failing", "dead"} \subseteq PCs \ Telling
    BY DEF PCs, Telling
  <2> QED BY <2>1, <2>2, <2>3, QuietMove
<1>3. ASSUME NEW r \in RSs, SecondaryLookupFails(r)
      PROVE  Reported'
  <2>1. /\ meta'.status = "error"
        /\ meta'.rss = [s \in RSs |-> IF s = r THEN "error" ELSE "none"]
    BY <1>3, ErrorMeta DEF SecondaryLookupFails
  <2>2. UNCHANGED <<goal, pc>> /\ goal[Leader] # "done"
    BY <1>3 DEF SecondaryLookupFails
  <2> QED BY <2>1, <2>2 DEF Reported, DoneHaveLeft, Early, Late, LastWord
<1>4. CASE (Converge \/ ConvergeTimeout) /\ Fail(Leader)
  <2>1. UNCHANGED <<kind, backup, meta, goal>> /\ pc[Leader] = "converge" /\ pc' = [pc EXCEPT ![Leader] = "failing"]
    BY <1>4 DEF Converge, ConvergeTimeout, Fail, Go
  <2>2. "failing" \in PCs \ Telling
    BY DEF PCs, Telling
  <2> QED BY <2>1, <2>2, QuietMove DEF Left
<1>5. CASE Converge /\ ~Fail(Leader)
  <2>1. /\ UNCHANGED <<kind, backup, meta, goal>> /\ pc[Leader] = "converge" /\ meta # None
        /\ pc' = [pc EXCEPT ![Leader] = "announce"]
        /\ \A s \in Shards : meta.rss[s] = goal[Leader]
    BY <1>5 DEF Converge, Converged, Go
  <2>2. \A s \in RSs : (Left(s) => Left(s)') /\ (s # Leader => pc'[s] = pc[s])
    BY <2>1 DEF Left, Shape
  <2>3. pc'[Leader] = "announce"
    BY <2>1 DEF Shape
  <2>4. goal[Leader] = "done" => AllDone'
    BY <1>0, <2>1, <2>2 DEF Reported, DoneHaveLeft, AllDone
  <2> QED BY <2>1, <2>2, <2>3, <2>4 DEF Reported, DoneHaveLeft, Early, Late, LastWord
<1>6. CASE Announce
  <2>1. meta # None /\ IsMeta(meta) /\ goal[Leader] \in Statuses
    BY <1>6 DEF Announce, NothingBefore, Shape, Statuses
  <2>2. meta'.rss = meta.rss
    BY <1>6, <2>1, StateChange DEF Announce
  <2>3. /\ UNCHANGED <<kind, backup, goal>> /\ pc[Leader] = "announce"
        /\ pc' = [pc EXCEPT ![Leader] = IF goal[Leader] = "done" THEN "release" ELSE "wait"]
    BY <1>6 DEF Announce, Go
  <2>4. \A s \in RSs : (Left(s) => Left(s)') /\ (s # Leader => pc'[s] = pc[s])
    BY <2>3 DEF Left, Shape
  <2>5. pc'[Leader] = IF goal[Leader] = "done" THEN "release" ELSE "wait"
    BY <2>3 DEF Shape
  <2>6. goal[Leader] = "done" => AllDone'
    BY <1>0, <2>1, <2>2, <2>3, <2>4 DEF Reported, LastWord, AllDone
  <2> QED BY <2>1, <2>2, <2>3, <2>4, <2>5, <2>6 DEF Reported, DoneHaveLeft, Early, Late, LastWord
<1>7. CASE UNCHANGED vars
  BY <1>0, <1>7 DEF vars, Reported, DoneHaveLeft, Early, Late, LastWord, AllDone, Left
<1> QED BY <1>1, <1>2, <1>3, <1>4, <1>5, <1>6, <1>7 DEF Next, Lead, ConvergeTimeout

----------------------------------------------------------------------------

\* When every agent has ended and a replica set of the backup has failed, the restore is
\* marked as failed, although the leader writes its statuses over the errors of others
\* (logical.go:1782-1789, restore.go:142-203).
THEOREM FailuresAreReported == Spec => []FailureReported
<1>1. Init => ReportInv
  BY InitReport
<1>2. ReportInv /\ [Next]_vars => ReportInv'
  BY StepShape, StepReported DEF ReportInv, Reported
<1>3. ReportInv => FailureReported
  <2> SUFFICES ASSUME ReportInv, pc[Leader] = "ended", meta # None, NEW r \in backup, meta.rss[r] = "error"
               PROVE  meta.status = "error"
    BY DEF FailureReported
  <2>1. r \in Shards
    BY DEF ReportInv, Shape, Shards
  <2> QED BY <2>1 DEF ReportInv, Late, LastWord, AllDone
<1> QED BY <1>1, <1>2, <1>3, PTL DEF Spec

----------------------------------------------------------------------------
(* The replay of one oplog.                                                *)

\* Every non-empty set of numbers has a smallest.
LEMMA Smallest ==
  ASSUME NEW T, T \subseteq Nat, T # {} PROVE \E n \in T : \A m \in T : n <= m
<1>1. PICK n \in T : \A m \in T : ~(<<m, n>> \in OpToRel(<, Nat))
  BY NatLessThanWellFounded, WFMin
<1>2. \A m \in T : ~(m < n)
  BY <1>1 DEF OpToRel
<1> QED BY <1>2

\* The states of a replay, from before the first entry to after the last one.
IsReplay(f, n, ops) ==
  f = [i \in 0..n |-> IF i = 0 THEN NotReplayed ELSE HandleTxnOp(f[i - 1], ops[i])]

After(ops) == CHOOSE f : IsReplay(f, Len(ops), ops)

\* There are such states: a replay has a state after each entry.
LEMMA ReplayExists ==
  ASSUME NEW n \in Nat, NEW ops PROVE \E f : IsReplay(f, n, ops)
<1> DEFINE T == {m \in Nat : ~\E f : IsReplay(f, m, ops)}
<1>1. SUFFICES ASSUME T # {} PROVE FALSE
  OBVIOUS
<1>2. PICK m \in T : \A k \in T : m <= k
  <2> HIDE DEF T
  <2>1. T \subseteq Nat
    BY DEF T
  <2> QED BY <1>1, <2>1, Smallest
<1>3. m # 0
  <2> DEFINE f == [i \in 0..0 |-> NotReplayed]
  <2>1. [i \in 0..0 |-> IF i = 0 THEN NotReplayed ELSE HandleTxnOp(f[i - 1], ops[i])] = f
    OBVIOUS
  <2>2. IsReplay(f, 0, ops)
    BY <2>1 DEF IsReplay
  <2> QED BY <2>2
<1>4. PICK g : IsReplay(g, m - 1, ops)
  <2>1. m - 1 \in Nat /\ ~(m <= m - 1)
    BY <1>3
  <2> QED BY <1>2, <2>1
<1> DEFINE f == [i \in 0..m |-> IF i = m THEN HandleTxnOp(g[m - 1], ops[m]) ELSE g[i]]
<1>5. \A i \in 0..m : f[i] = IF i = 0 THEN NotReplayed ELSE HandleTxnOp(f[i - 1], ops[i])
  <2> TAKE i \in 0..m
  <2>1. \A k \in 0..(m - 1) : g[k] = IF k = 0 THEN NotReplayed ELSE HandleTxnOp(g[k - 1], ops[k])
    BY <1>4 DEF IsReplay
  <2>2. \A k \in 0..(m - 1) : k \in 0..m /\ k # m /\ f[k] = g[k]
    OBVIOUS
  <2>3. f[m] = HandleTxnOp(g[m - 1], ops[m])
    OBVIOUS
  <2> HIDE DEF f
  <2>4. CASE i = m
    <3>1. m - 1 \in 0..(m - 1)
      BY <1>3
    <3> QED BY <1>3, <2>2, <2>3, <2>4, <3>1
  <2>5. CASE i # m
    <3>1. i \in 0..(m - 1) /\ (i # 0 => i - 1 \in 0..(m - 1))
      BY <2>5
    <3> QED BY <2>1, <2>2, <3>1
  <2> QED BY <2>4, <2>5
<1>6. IsReplay(f, m, ops)
  BY <1>5 DEF IsReplay
<1> QED BY <1>6

\* The replay goes one entry at a time (applyOplog, Apply).
LEMMA ReplaySteps ==
  ASSUME NEW ops \in Seq(Entry)
  PROVE  /\ Replay(ops) = After(ops)[Len(ops)]
         /\ After(ops)[0] = NotReplayed
         /\ \A i \in 1..Len(ops) : After(ops)[i] = HandleTxnOp(After(ops)[i - 1], ops[i])
<1>1. IsReplay(After(ops), Len(ops), ops)
  BY ReplayExists DEF After
<1>2. \A i \in 0..Len(ops) : After(ops)[i] = IF i = 0 THEN NotReplayed ELSE HandleTxnOp(After(ops)[i - 1], ops[i])
  BY <1>1 DEF IsReplay
<1>3. Replay(ops) = After(ops)[Len(ops)]
  BY DEF Replay, After, IsReplay
<1>4. 0 \in 0..Len(ops) /\ \A i \in 1..Len(ops) : i \in 0..Len(ops) /\ i # 0
  OBVIOUS
<1> QED BY <1>2, <1>3, <1>4

\* What a replica set replays: an entry may come twice in a row.
InOrder(ops) ==
  /\ ops \in Seq(Entry)
  /\ \A i, j \in DOMAIN ops : i < j /\ ops[i].txn = ops[j].txn =>
       \/ ops[i].kind = "part"
       \/ ops[i].kind = "prep" /\ ops[j].kind \in {"commit", "abort"}
       \/ j = i + 1 /\ ops[i] = ops[j]
  /\ \A j \in DOMAIN ops : ops[j].kind = "commit" =>
       \E i \in 1..(j - 1) : ops[i] = [txn |-> ops[j].txn, kind |-> "prep"]

\* The chunks hold the entries of the oplog's beginning, one of them twice.
LEMMA ChunksInOrder ==
  ASSUME NEW h, WellFormed(h), NEW ops \in Chunks(h)
  PROVE  InOrder(ops) /\ Range(ops) \subseteq Range(h)
<1>0. h \in Seq(Entry)
  BY DEF WellFormed
<1>1. CASE ops = <<>>
  <2>1. DOMAIN ops = {}
    BY <1>1
  <2> QED BY <1>1, <2>1 DEF InOrder, Range
<1>2. CASE ops # <<>>
  <2>1. PICK a \in 1..Len(h), b \in 1..Len(h) : a <= b /\ ops = SubSeq(h, 1, a) \o SubSeq(h, a, b)
    BY <1>2 DEF Chunks
  <2>2. /\ SubSeq(h, 1, a) \in Seq(Entry) /\ Len(SubSeq(h, 1, a)) = a
        /\ \A i \in 1..a : SubSeq(h, 1, a)[i] = h[i]
    BY <1>0
  <2>3. /\ SubSeq(h, a, b) \in Seq(Entry) /\ Len(SubSeq(h, a, b)) = b - a + 1
        /\ \A i \in 1..(b - a + 1) : SubSeq(h, a, b)[i] = h[a + i - 1]
    BY <1>0, <2>1
  <2>4. ops \in Seq(Entry) /\ Len(ops) = b + 1
    BY <2>1, <2>2, <2>3
  <2>5. \A i \in 1..(b + 1) : ops[i] = IF i <= a THEN h[i] ELSE h[i - 1]
    <3> TAKE i \in 1..(b + 1)
    <3>1. CASE i <= a
      BY <2>1, <2>2, <2>3, <3>1
    <3>2. CASE i > a
      <4>1. ops[i] = SubSeq(h, a, b)[i - a] /\ i - a \in 1..(b - a + 1)
        BY <2>1, <2>2, <2>3, <3>2
      <4>2. a + (i - a) - 1 = i - 1
        OBVIOUS
      <4> QED BY <2>3, <3>2, <4>1, <4>2
    <3> QED BY <3>1, <3>2
  <2> DEFINE at(i) == IF i <= a THEN i ELSE i - 1
  <2>6. \A i \in 1..(b + 1) : at(i) \in DOMAIN h /\ ops[i] = h[at(i)]
    BY <1>0, <2>1, <2>5
  <2>7. Range(ops) \subseteq Range(h)
    BY <2>4, <2>6 DEF Range
  <2>8. ASSUME NEW i \in DOMAIN ops, NEW j \in DOMAIN ops, i < j, ops[i].txn = ops[j].txn
        PROVE  \/ ops[i].kind = "part"
               \/ ops[i].kind = "prep" /\ ops[j].kind \in {"commit", "abort"}
               \/ j = i + 1 /\ ops[i] = ops[j]
    <3>1. at(i) < at(j) \/ (j = i + 1 /\ at(i) = at(j))
      BY <2>1, <2>4, <2>8
    <3>2. ops[i] = h[at(i)] /\ ops[j] = h[at(j)] /\ at(i) \in DOMAIN h /\ at(j) \in DOMAIN h
      BY <2>4, <2>6, <2>8
    <3> HIDE DEF at
    <3> QED BY <2>8, <3>1, <3>2 DEF WellFormed
  <2>9. ASSUME NEW j \in DOMAIN ops, ops[j].kind = "commit"
        PROVE  \E i \in 1..(j - 1) : ops[i] = [txn |-> ops[j].txn, kind |-> "prep"]
    <3>1. j \in 1..(b + 1) /\ ops[j] = h[at(j)] /\ at(j) \in DOMAIN h
      BY <2>4, <2>6, <2>9
    <3>2. PICK k \in 1..(at(j) - 1) : h[k] = [txn |-> ops[j].txn, kind |-> "prep"]
      <4> HIDE DEF at
      <4> QED BY <2>9, <3>1 DEF WellFormed
    <3>3. CASE k <= a
      <4>1. k \in 1..(j - 1) /\ k \in 1..(b + 1) /\ at(k) = k
        BY <1>0, <2>1, <3>1, <3>2, <3>3
      <4> QED BY <2>6, <3>2, <4>1
    <3>4. CASE k > a
      <4>1. k + 1 \in 1..(j - 1) /\ k + 1 \in 1..(b + 1) /\ at(k + 1) = k
        BY <1>0, <2>1, <3>1, <3>2, <3>4
      <4> QED BY <2>6, <3>2, <4>1
    <3> QED BY <3>2, <3>3, <3>4
  <2> QED BY <2>4, <2>7, <2>8, <2>9 DEF InOrder
<1> QED BY <1>1, <1>2

Buffers == Seq({"part", "prep", "apply"})
TxnState == [buf : [Txns -> Buffers], commits : Seq(Txns),
             applied : SUBSET Txns, partial : SUBSET Txns]

\* The entry's transaction is the newest commit of the queue.
IsNewest(s, t) == s.commits # <<>> /\ s.commits[Len(s.commits)] = t

\* Only the entry's transaction changes from one state of a replay to the next.
ElseSame(s, h, t) == \A u \in Txns \ {t} : h.buf[u] = s.buf[u] /\ (u \in h.applied <=> u \in s.applied)

\* The state after an entry of one kind, field by field.
Handled(s, t, kd, h) ==
  /\ h \in TxnState /\ ElseSame(s, h, t)
  /\ h.commits = IF kd = "commit" /\ ~IsNewest(s, t) THEN Push(s.commits, t) ELSE s.commits
  /\ kd \in {"part", "prep"} => h.buf[t] = Append(s.buf[t], kd) /\ h.applied = s.applied
  /\ kd = "commit" /\ IsNewest(s, t) => h = s
  /\ kd = "commit" /\ ~IsNewest(s, t) =>
       h.buf[t] = <<>> /\ (t \in h.applied <=> t \in s.applied \/ s.buf[t] # <<>>)
  /\ kd = "abort" => h.applied = s.applied

\* Applying a transaction changes nothing of another one (applyTxn).
LEMMA ApplyFields ==
  ASSUME NEW x \in TxnState, NEW t \in Txns, NEW y, y = ApplyTxn(x, t)
  PROVE  /\ y \in TxnState /\ ElseSame(x, y, t) /\ y.commits = x.commits
         /\ y.buf[t] = <<>> /\ (t \in y.applied <=> t \in x.applied \/ x.buf[t] # <<>>)
<1> DEFINE app == IF x.buf[t] = <<>> THEN x.applied ELSE x.applied \cup {t}
           bf == [x.buf EXCEPT ![t] = <<>>]
<1>1. y = [x EXCEPT !.applied = app, !.buf = bf]
  BY DEF ApplyTxn
<1>2. <<>> \in Buffers
  BY DEF Buffers
<1>3. app \in SUBSET Txns /\ bf \in [Txns -> Buffers]
  BY <1>2 DEF TxnState
<1>4. x.commits \in Seq(Txns) /\ x.partial \in SUBSET Txns /\ DOMAIN x = {"buf", "commits", "applied", "partial"}
  BY DEF TxnState
<1>5. bf[t] = <<>> /\ \A u \in Txns \ {t} : bf[u] = x.buf[u]
  BY DEF TxnState
<1>6. /\ t \in app <=> t \in x.applied \/ x.buf[t] # <<>>
      /\ \A u \in Txns \ {t} : u \in app <=> u \in x.applied
  OBVIOUS
<1> HIDE DEF app, bf
<1>7. y = [buf |-> bf, commits |-> x.commits, applied |-> app, partial |-> x.partial]
  BY <1>1 DEF TxnState
<1>8. y \in TxnState
  BY <1>3, <1>4, <1>7 DEF TxnState
<1> QED BY <1>5, <1>6, <1>7, <1>8 DEF ElseSame

\* The buffer takes what belongs to a transaction (handleTxnOp, isTxnOps).
LEMMA BufferFields ==
  ASSUME NEW s \in TxnState, NEW op \in Entry, NEW b, b = Buffered(s, op)
  PROVE  /\ b \in TxnState /\ b.commits = s.commits /\ b.applied = s.applied
         /\ \A u \in Txns \ {op.txn} : b.buf[u] = s.buf[u]
         /\ op.kind \in {"part", "prep", "apply"} => b.buf[op.txn] = Append(s.buf[op.txn], op.kind)
         /\ op.kind \in {"commit", "abort"} => b = s
<1>1. CASE IsTxnOps(op)
  <2> DEFINE more == Append(s.buf[op.txn], op.kind)
             bf == [s.buf EXCEPT ![op.txn] = more]
  <2>1. more \in Buffers
    <3>1. s.buf[op.txn] \in Seq({"part", "prep", "apply"})
      BY DEF Entry, TxnState, Buffers
    <3>2. op.kind \in {"part", "prep", "apply"}
      BY <1>1 DEF IsTxnOps
    <3> QED BY <3>1, <3>2 DEF Buffers
  <2>2. b = [s EXCEPT !.buf = bf]
    BY <1>1 DEF Buffered
  <2> HIDE DEF more
  <2>3. bf \in [Txns -> Buffers] /\ bf[op.txn] = more /\ \A u \in Txns \ {op.txn} : bf[u] = s.buf[u]
    BY <2>1 DEF TxnState, Entry
  <2> HIDE DEF bf
  <2>4. b = [buf |-> bf, commits |-> s.commits, applied |-> s.applied, partial |-> s.partial]
    BY <2>2 DEF TxnState
  <2>5. b \in TxnState
    BY <2>3, <2>4 DEF TxnState
  <2>6. op.kind \notin {"commit", "abort"}
    BY <1>1 DEF IsTxnOps
  <2> QED BY <2>3, <2>4, <2>5, <2>6 DEF more
<1>2. CASE ~IsTxnOps(op)
  BY <1>2 DEF Buffered, IsTxnOps
<1> QED BY <1>1, <1>2

\* One entry (handleTxnOp).
LEMMA EntryHandled ==
  ASSUME NEW s \in TxnState, NEW op \in Entry, NEW h, h = HandleTxnOp(s, op)
  PROVE  Handled(s, op.txn, op.kind, h)
<1>1. op.txn \in Txns /\ op.kind \in {"part", "prep", "apply", "commit", "abort"}
  BY DEF Entry
<1>2. PICK b : b = Buffered(s, op)
  OBVIOUS
<1>3. /\ b \in TxnState /\ b.commits = s.commits /\ b.applied = s.applied
      /\ \A u \in Txns \ {op.txn} : b.buf[u] = s.buf[u]
      /\ op.kind \in {"part", "prep", "apply"} => b.buf[op.txn] = Append(s.buf[op.txn], op.kind)
      /\ op.kind \in {"commit", "abort"} => b = s
  BY <1>2, BufferFields
<1>4. CASE op.kind = "abort"
  <2> DEFINE bf == [s.buf EXCEPT ![op.txn] = <<>>]
  <2>1. h = [s EXCEPT !.buf = bf]
    BY <1>2, <1>3, <1>4 DEF HandleTxnOp
  <2>2. bf \in [Txns -> Buffers] /\ \A u \in Txns \ {op.txn} : bf[u] = s.buf[u]
    <3>1. <<>> \in Buffers
      BY DEF Buffers
    <3> QED BY <1>1, <3>1 DEF TxnState
  <2> HIDE DEF bf
  <2>3. h = [buf |-> bf, commits |-> s.commits, applied |-> s.applied, partial |-> s.partial]
    BY <2>1 DEF TxnState
  <2>4. h \in TxnState
    BY <2>2, <2>3 DEF TxnState
  <2> QED BY <1>4, <2>2, <2>3, <2>4 DEF Handled, ElseSame
<1>5. CASE op.kind = "commit" /\ ~IsNewest(s, op.txn)
  <2>1. PICK x : x = [s EXCEPT !.commits = Push(s.commits, op.txn)]
    OBVIOUS
  <2>2. h = ApplyTxn(x, op.txn)
    BY <1>2, <1>3, <1>5, <2>1 DEF HandleTxnOp, IsNewest
  <2>3. Push(s.commits, op.txn) \in Seq(Txns)
    <3>1. s.commits \in Seq(Txns)
      BY DEF TxnState
    <3>2. CASE s.commits = <<>>
      <4>1. Len(s.commits) # Cap
        BY <3>2, CapAssumption
      <4> QED BY <1>1, <3>1, <4>1 DEF Push
    <3>3. CASE s.commits # <<>>
      <4>1. Tail(s.commits) \in Seq(Txns)
        BY <3>1, <3>3
      <4> QED BY <1>1, <3>1, <4>1 DEF Push
    <3> QED BY <3>2, <3>3
  <2>4. x = [buf |-> s.buf, commits |-> Push(s.commits, op.txn), applied |-> s.applied, partial |-> s.partial]
    BY <2>1 DEF TxnState
  <2>5. x \in TxnState
    BY <2>3, <2>4 DEF TxnState
  <2>6. /\ h \in TxnState /\ ElseSame(x, h, op.txn) /\ h.commits = x.commits
        /\ h.buf[op.txn] = <<>> /\ (op.txn \in h.applied <=> op.txn \in x.applied \/ x.buf[op.txn] # <<>>)
    BY <1>1, <2>2, <2>5, ApplyFields
  <2> QED BY <1>5, <2>4, <2>6 DEF Handled, ElseSame
<1>6. CASE op.kind = "apply"
  <2>1. h = ApplyTxn(b, op.txn) \/ h = b
    BY <1>2, <1>6 DEF HandleTxnOp
  <2>2. h \in TxnState /\ ElseSame(b, h, op.txn) /\ h.commits = b.commits
    BY <1>1, <1>3, <2>1, ApplyFields DEF ElseSame
  <2> QED BY <1>3, <1>6, <2>2 DEF Handled, ElseSame
<1>7. CASE op.kind \in {"part", "prep"}
  <2>1. h = b
    BY <1>2, <1>7 DEF HandleTxnOp
  <2> QED BY <1>3, <1>7, <2>1 DEF Handled, ElseSame
<1>8. CASE op.kind = "commit" /\ IsNewest(s, op.txn)
  <2>1. h = s
    BY <1>2, <1>3, <1>8 DEF HandleTxnOp, IsNewest
  <2> QED BY <1>8, <2>1 DEF Handled, ElseSame
<1> QED BY <1>1, <1>4, <1>5, <1>6, <1>7, <1>8

IsCommit(ops, i, t) == ops[i] = [txn |-> t, kind |-> "commit"]
Committed(ops, n, t) == \E i \in 1..n : IsCommit(ops, i, t)

\* The commit of u follows that of t.
Follows(ops, n, u, t) ==
  \E i \in 1..n : IsCommit(ops, i, u) /\ \A j \in 1..n : IsCommit(ops, j, t) => j < i

\* The queue holds the newest commits, the oldest first.
QueueInv(ops, n, q) ==
  /\ q \in Seq(Txns) /\ Len(q) <= Cap
  /\ \A a \in DOMAIN q : Committed(ops, n, q[a])
  /\ \A a, b \in DOMAIN q : a < b => Follows(ops, n, q[b], q[a])
  /\ n > 0 /\ ops[n].kind = "commit" => q # <<>> /\ q[Len(q)] = ops[n].txn
  /\ \A t \in Txns : Committed(ops, n, t) /\ (\A a \in DOMAIN q : q[a] # t) =>
       Len(q) = Cap /\ \A a \in DOMAIN q : Follows(ops, n, q[a], t)

\* The server neither aborts the transaction nor writes it at once.
IsDistributed(ops, t) ==
  \A i \in DOMAIN ops : ops[i].txn = t => ops[i].kind \notin {"abort", "apply"}

\* A transaction is applied once its commit is read; before that its statements are there.
TxnInv(ops, n, s) ==
  /\ \A t \in s.applied : \E i \in 1..n : ops[i].txn = t /\ ops[i].kind \in {"apply", "commit"}
  /\ \A t \in Txns : IsDistributed(ops, t) =>
       /\ Committed(ops, n, t) => t \in s.applied /\ s.buf[t] = <<>>
       /\ ~Committed(ops, n, t) => \A i \in 1..n : ops[i].txn = t =>
            s.buf[t] # <<>> /\ (ops[i].kind = "prep" => s.buf[t][Len(s.buf[t])] # "part")

\* One more commit in the queue (cqueue.push).
LEMMA PushCommit ==
  ASSUME NEW ops, InOrder(ops), NEW n \in Nat, n + 1 \in DOMAIN ops, NEW q, QueueInv(ops, n, q),
         NEW u \in Txns, IsCommit(ops, n + 1, u), ~(q # <<>> /\ q[Len(q)] = u)
  PROVE  QueueInv(ops, n + 1, Push(q, u))
<1> DEFINE p == Push(q, u)
<1>0. q \in Seq(Txns) /\ Len(q) \in Nat /\ Len(q) <= Cap /\ Cap \in Nat /\ Cap > 0 /\ DOMAIN q = 1..Len(q)
  BY CapAssumption DEF QueueInv
<1>1. ~Committed(ops, n, u)
  <2> SUFFICES ASSUME NEW i \in 1..n, IsCommit(ops, i, u)
               PROVE  FALSE
    BY DEF Committed
  <2>1. i \in DOMAIN ops /\ i < n + 1 /\ ops[i].txn = ops[n + 1].txn /\ ops[i].kind = "commit"
    BY DEF InOrder, IsCommit
  <2>2. n + 1 = i + 1
    BY <2>1 DEF InOrder
  <2>3. n > 0 /\ ops[n].kind = "commit" /\ ops[n].txn = u
    BY <2>1, <2>2 DEF IsCommit
  <2> QED BY <2>3 DEF QueueInv
<1>2. \A a \in DOMAIN q : q[a] # u
  BY <1>1 DEF QueueInv
<1>3. ASSUME NEW t, t # u, NEW v, Follows(ops, n, v, t)
      PROVE  Follows(ops, n + 1, v, t)
  <2>1. PICK i \in 1..n : IsCommit(ops, i, v) /\ \A j \in 1..n : IsCommit(ops, j, t) => j < i
    BY <1>3 DEF Follows
  <2>2. ~IsCommit(ops, n + 1, t)
    BY <1>3 DEF IsCommit
  <2>3. i \in 1..(n + 1) /\ \A j \in 1..(n + 1) : IsCommit(ops, j, t) => j < i
    BY <2>1, <2>2
  <2> QED BY <2>1, <2>3 DEF Follows
<1>4. ASSUME NEW t, t # u
      PROVE  Follows(ops, n + 1, u, t)
  <2>1. \A j \in 1..(n + 1) : IsCommit(ops, j, t) => j < n + 1
    BY <1>4 DEF IsCommit
  <2> QED BY <2>1 DEF Follows
<1>5. \A t : Committed(ops, n + 1, t) <=> Committed(ops, n, t) \/ t = u
  BY DEF Committed, IsCommit
<1>6. CASE Len(q) # Cap
  <2>1. p = Append(q, u)
    BY <1>6 DEF Push
  <2>2. /\ p \in Seq(Txns) /\ Len(p) = Len(q) + 1 /\ DOMAIN p = 1..(Len(q) + 1)
        /\ p[Len(q) + 1] = u /\ \A a \in DOMAIN q : p[a] = q[a]
    BY <1>0, <2>1
  <2> HIDE DEF p
  <2>3. Len(p) <= Cap
    <3>1. \A x, y \in Nat : x <= y /\ x # y => x + 1 <= y
      OBVIOUS
    <3>2. Len(q) \in Nat /\ Cap \in Nat /\ Len(q) <= Cap
      BY <1>0
    <3>3. Len(q) + 1 <= Cap
      BY <1>6, <3>1, <3>2
    <3> QED BY <2>2, <3>3
  <2>4. \A a \in DOMAIN p : Committed(ops, n + 1, p[a])
    <3>1. \A a \in DOMAIN p : a \in DOMAIN q \/ a = Len(q) + 1
      BY <1>0, <2>2
    <3>2. \A a \in DOMAIN q : Committed(ops, n, q[a])
      BY DEF QueueInv
    <3> QED BY <1>5, <2>2, <3>1, <3>2
  <2>5. ASSUME NEW a \in DOMAIN p, NEW b \in DOMAIN p, a < b
        PROVE  Follows(ops, n + 1, p[b], p[a])
    <3>1. a \in DOMAIN q /\ p[a] = q[a] /\ q[a] # u
      BY <1>0, <1>2, <2>2, <2>5
    <3>2. CASE b \in DOMAIN q
      BY <1>3, <2>2, <2>5, <3>1, <3>2 DEF QueueInv
    <3>3. CASE b \notin DOMAIN q
      <4>1. p[b] = u
        BY <1>0, <2>2, <3>3
      <4> QED BY <1>4, <3>1, <4>1
    <3> QED BY <3>2, <3>3
  <2>6. ops[n + 1].kind = "commit" => p # <<>> /\ p[Len(p)] = ops[n + 1].txn
    BY <1>0, <2>2 DEF IsCommit
  <2>7. \A t \in Txns : Committed(ops, n + 1, t) => \E a \in DOMAIN p : p[a] = t
    <3>1. \A t \in Txns : Committed(ops, n, t) => \E a \in DOMAIN q : q[a] = t
      BY <1>6 DEF QueueInv
    <3>2. DOMAIN q \subseteq DOMAIN p /\ Len(q) + 1 \in DOMAIN p
      BY <1>0, <2>2
    <3> QED BY <1>5, <2>2, <3>1, <3>2
  <2>8. \A t \in Txns : ~(Committed(ops, n + 1, t) /\ \A a \in DOMAIN p : p[a] # t)
    BY <2>7
  <2>9. \A a, b \in DOMAIN p : a < b => Follows(ops, n + 1, p[b], p[a])
    BY <2>5
  <2> QED BY <2>2, <2>3, <2>4, <2>6, <2>8, <2>9 DEF QueueInv, p
<1>7. CASE Len(q) = Cap
  <2>1. p = Append(Tail(q), u)
    BY <1>7 DEF Push
  <2>2. /\ Tail(q) \in Seq(Txns) /\ Len(Tail(q)) = Len(q) - 1
        /\ \A a \in 1..(Len(q) - 1) : Tail(q)[a] = q[a + 1]
    BY <1>0, <1>7
  <2>3. /\ p \in Seq(Txns) /\ Len(p) = Len(q) /\ DOMAIN p = 1..Len(q)
        /\ p[Len(q)] = u /\ \A a \in 1..(Len(q) - 1) : p[a] = q[a + 1]
    BY <1>0, <1>7, <2>1, <2>2
  <2> HIDE DEF p
  <2>4. \A a \in DOMAIN p : Committed(ops, n + 1, p[a])
    <3>1. \A a \in 1..(Len(q) - 1) : a + 1 \in DOMAIN q
      BY <1>0
    <3>2. \A a \in DOMAIN p : a = Len(q) \/ a \in 1..(Len(q) - 1)
      BY <1>0, <2>3
    <3> QED BY <1>5, <2>3, <3>1, <3>2 DEF QueueInv
  <2>5. ASSUME NEW a \in DOMAIN p, NEW b \in DOMAIN p, a < b
        PROVE  Follows(ops, n + 1, p[b], p[a])
    <3>1. a + 1 \in DOMAIN q /\ p[a] = q[a + 1] /\ q[a + 1] # u
      BY <1>0, <1>2, <2>3, <2>5
    <3>2. CASE b \in 1..(Len(q) - 1)
      <4>1. b + 1 \in DOMAIN q /\ p[b] = q[b + 1] /\ a + 1 < b + 1
        BY <1>0, <2>3, <2>5, <3>2
      <4>2. Follows(ops, n, q[b + 1], q[a + 1])
        BY <3>1, <4>1 DEF QueueInv
      <4> QED BY <1>3, <3>1, <4>1, <4>2
    <3>3. CASE b = Len(q)
      BY <1>4, <2>3, <3>1, <3>3
    <3> QED BY <1>0, <2>3, <3>2, <3>3
  <2>6. ops[n + 1].kind = "commit" => p # <<>> /\ p[Len(p)] = ops[n + 1].txn
    BY <1>0, <1>7, <2>3 DEF IsCommit
  <2>7. ASSUME NEW t \in Txns, Committed(ops, n + 1, t), \A a \in DOMAIN p : p[a] # t, NEW a \in DOMAIN p
        PROVE  Follows(ops, n + 1, p[a], t)
    <3>1. t # u
      BY <1>0, <1>7, <2>3, <2>7
    <3>2. CASE a = Len(q)
      BY <1>4, <2>3, <3>1, <3>2
    <3>3. CASE a \in 1..(Len(q) - 1)
      <4>1. a + 1 \in DOMAIN q /\ p[a] = q[a + 1] /\ 1 < a + 1 /\ 1 \in DOMAIN q
        BY <1>0, <2>3, <3>3
      <4>2. CASE t = q[1]
        <5>1. Follows(ops, n, q[a + 1], q[1])
          BY <4>1 DEF QueueInv
        <5> QED BY <1>3, <3>1, <4>1, <4>2, <5>1
      <4>3. CASE t # q[1]
        <5>1. \A k \in DOMAIN q : q[k] # t
          <6>1. \A k \in DOMAIN q : k = 1 \/ (k - 1 \in 1..(Len(q) - 1) /\ k - 1 \in DOMAIN p /\ (k - 1) + 1 = k)
            BY <1>0, <2>3
          <6> QED BY <2>3, <2>7, <4>3, <6>1
        <5>2. Committed(ops, n, t)
          BY <1>5, <2>7, <3>1
        <5>3. Follows(ops, n, q[a + 1], t)
          BY <4>1, <5>1, <5>2 DEF QueueInv
        <5> QED BY <1>3, <3>1, <4>1, <5>3
      <4> QED BY <4>2, <4>3
    <3> QED BY <1>0, <2>3, <3>2, <3>3
  <2>8. Len(p) = Cap /\ Len(p) <= Cap
    BY <1>0, <1>7, <2>3
  <2>9. \A a, b \in DOMAIN p : a < b => Follows(ops, n + 1, p[b], p[a])
    BY <2>5
  <2>10. \A t \in Txns : Committed(ops, n + 1, t) /\ (\A a \in DOMAIN p : p[a] # t) =>
           Len(p) = Cap /\ \A a \in DOMAIN p : Follows(ops, n + 1, p[a], t)
    BY <2>7, <2>8
  <2> QED BY <2>3, <2>4, <2>6, <2>8, <2>9, <2>10 DEF QueueInv, p
<1> QED BY <1>6, <1>7

\* An entry that puts no commit in the queue: it is none, or that of the newest again.
LEMMA KeepQueue ==
  ASSUME NEW ops, InOrder(ops), NEW n \in Nat, n + 1 \in DOMAIN ops, NEW q, QueueInv(ops, n, q),
         ops[n + 1].kind = "commit" => q # <<>> /\ q[Len(q)] = ops[n + 1].txn
  PROVE  QueueInv(ops, n + 1, q)
<1>0. q \in Seq(Txns) /\ DOMAIN q = 1..Len(q) /\ Len(q) \in Nat
  BY DEF QueueInv
<1>1. \A t : IsCommit(ops, n + 1, t) => q # <<>> /\ q[Len(q)] = t
  BY DEF IsCommit
<1>2. \A t : Committed(ops, n, t) => Committed(ops, n + 1, t)
  BY DEF Committed
<1>3. ASSUME NEW t, ~IsCommit(ops, n + 1, t), NEW v, Follows(ops, n, v, t)
      PROVE  Follows(ops, n + 1, v, t)
  <2>1. PICK i \in 1..n : IsCommit(ops, i, v) /\ \A j \in 1..n : IsCommit(ops, j, t) => j < i
    BY <1>3 DEF Follows
  <2>2. i \in 1..(n + 1) /\ \A j \in 1..(n + 1) : IsCommit(ops, j, t) => j < i
    BY <1>3, <2>1
  <2> QED BY <2>1, <2>2 DEF Follows
<1>4. ASSUME NEW a \in DOMAIN q, NEW b \in DOMAIN q, a < b
      PROVE  Follows(ops, n + 1, q[b], q[a])
  <2>1. Follows(ops, n, q[b], q[a])
    BY <1>4 DEF QueueInv
  <2>2. ~IsCommit(ops, n + 1, q[a])
    <3> SUFFICES ASSUME q[Len(q)] = q[a] PROVE FALSE
      BY <1>1
    <3>1. Len(q) \in DOMAIN q /\ a < Len(q)
      BY <1>0, <1>4
    <3>2. Follows(ops, n, q[a], q[a])
      BY <3>1 DEF QueueInv
    <3> QED BY <3>2 DEF Follows
  <2> QED BY <1>3, <2>1, <2>2
<1>5. ASSUME NEW t \in Txns, Committed(ops, n + 1, t), \A a \in DOMAIN q : q[a] # t
      PROVE  Len(q) = Cap /\ \A a \in DOMAIN q : Follows(ops, n + 1, q[a], t)
  <2>1. ~IsCommit(ops, n + 1, t)
    <3>1. q # <<>> => Len(q) \in DOMAIN q
      BY <1>0
    <3> QED BY <1>1, <1>5, <3>1
  <2>2. Committed(ops, n, t)
    BY <1>5, <2>1 DEF Committed
  <2> QED BY <1>3, <1>5, <2>1, <2>2 DEF QueueInv
<1>6. q \in Seq(Txns) /\ Len(q) <= Cap /\ \A a \in DOMAIN q : Committed(ops, n + 1, q[a])
  BY <1>2 DEF QueueInv
<1> QED BY <1>4, <1>5, <1>6 DEF QueueInv

ReplayInv(ops, n, s) == s \in TxnState /\ QueueInv(ops, n, s.commits) /\ TxnInv(ops, n, s)

\* One entry more (handleTxnOp).
LEMMA StepTxns ==
  ASSUME NEW ops, InOrder(ops), NEW n \in Nat, n + 1 \in DOMAIN ops, NEW s, ReplayInv(ops, n, s),
         NEW h, Handled(s, ops[n + 1].txn, ops[n + 1].kind, h)
  PROVE  TxnInv(ops, n + 1, h)
<1> DEFINE op == ops[n + 1]
<1>0. op \in Entry /\ op.txn \in Txns /\ op.kind \in {"part", "prep", "apply", "commit", "abort"}
  <2>1. op \in Entry
    BY DEF InOrder
  <2> QED BY <2>1 DEF Entry
<1> HIDE DEF op
<1>1. \A i \in 1..(n + 1) : i \in 1..n \/ i = n + 1
  OBVIOUS
<1>2. 1..n \subseteq 1..(n + 1) /\ n + 1 \in 1..(n + 1) /\ 1..(n + 1) \subseteq DOMAIN ops
  <2>1. DOMAIN ops = 1..Len(ops) /\ Len(ops) \in Nat
    BY DEF InOrder
  <2> QED BY <2>1
<1>3. ASSUME NEW t \in h.applied
      PROVE  \E i \in 1..(n + 1) : ops[i].txn = t /\ ops[i].kind \in {"apply", "commit"}
  <2>1. CASE t \in s.applied
    BY <1>2, <2>1 DEF ReplayInv, TxnInv
  <2>2. CASE t \notin s.applied
    <3>1. t \in Txns
      BY <1>3 DEF Handled, TxnState
    <3>2. t = op.txn
      BY <1>3, <2>2, <3>1 DEF Handled, ElseSame, op
    <3>3. op.kind \in {"apply", "commit"}
      BY <1>0, <1>3, <2>2 DEF Handled, op
    <3> QED BY <1>2, <3>2, <3>3 DEF op
  <2> QED BY <2>1, <2>2
<1>4. ASSUME NEW t \in Txns, IsDistributed(ops, t)
      PROVE  /\ Committed(ops, n + 1, t) => t \in h.applied /\ h.buf[t] = <<>>
             /\ ~Committed(ops, n + 1, t) => \A i \in 1..(n + 1) : ops[i].txn = t =>
                  h.buf[t] # <<>> /\ (ops[i].kind = "prep" => h.buf[t][Len(h.buf[t])] # "part")
  <2>0. /\ Committed(ops, n, t) => t \in s.applied /\ s.buf[t] = <<>>
        /\ ~Committed(ops, n, t) => \A i \in 1..n : ops[i].txn = t =>
             s.buf[t] # <<>> /\ (ops[i].kind = "prep" => s.buf[t][Len(s.buf[t])] # "part")
    BY <1>4 DEF ReplayInv, TxnInv
  <2>1. CASE t # op.txn
    <3>1. h.buf[t] = s.buf[t] /\ (t \in h.applied <=> t \in s.applied)
      BY <2>1 DEF Handled, ElseSame, op
    <3>2. Committed(ops, n + 1, t) <=> Committed(ops, n, t)
      BY <1>1, <1>2, <2>1 DEF Committed, IsCommit, op
    <3>3. \A i \in 1..(n + 1) : ops[i].txn = t => i \in 1..n
      BY <1>1, <2>1 DEF op
    <3> QED BY <2>0, <3>1, <3>2, <3>3
  <2>2. CASE t = op.txn /\ op.kind \in {"part", "prep"}
    <3>1. h.buf[t] = Append(s.buf[t], op.kind)
      BY <2>2 DEF Handled, op
    <3>2. s.buf[t] \in Buffers
      BY DEF ReplayInv, TxnState
    <3>3. h.buf[t] # <<>> /\ h.buf[t][Len(h.buf[t])] = op.kind
      BY <2>2, <3>1, <3>2 DEF Buffers
    <3>4. ASSUME NEW i \in 1..n, ops[i].txn = t
          PROVE  ops[i].kind = "part" \/ (op.kind = "prep" /\ ops[i].kind = "prep")
      <4>1. i \in DOMAIN ops /\ i < n + 1 /\ ops[i].txn = ops[n + 1].txn
        BY <1>2, <2>2, <3>4 DEF op
      <4>2. \/ ops[i].kind = "part"
            \/ ops[i].kind = "prep" /\ ops[n + 1].kind \in {"commit", "abort"}
            \/ n + 1 = i + 1 /\ ops[i] = ops[n + 1]
        BY <4>1 DEF InOrder
      <4> QED BY <2>2, <4>2 DEF op
    <3>5. ~Committed(ops, n + 1, t)
      <4> SUFFICES ASSUME NEW i \in 1..(n + 1), IsCommit(ops, i, t) PROVE FALSE
        BY DEF Committed
      <4>1. ops[i].txn = t /\ ops[i].kind = "commit"
        BY DEF IsCommit
      <4> QED BY <1>1, <2>2, <3>4, <4>1 DEF op
    <3>6. \A i \in 1..(n + 1) : ops[i].txn = t /\ ops[i].kind = "prep" => op.kind = "prep"
      BY <1>1, <3>4 DEF op
    <3> QED BY <3>3, <3>5, <3>6
  <2>3. CASE t = op.txn /\ op.kind = "commit"
    <3>1. Committed(ops, n + 1, t)
      <4>1. IsCommit(ops, n + 1, t)
        BY <1>0, <2>3 DEF IsCommit, Entry, op
      <4> QED BY <1>2, <4>1 DEF Committed
    <3>2. CASE IsNewest(s, t)
      <4>1. h = s
        BY <2>3, <3>2 DEF Handled, op
      <4>2. Len(s.commits) \in DOMAIN s.commits
        BY <3>2 DEF ReplayInv, TxnState, IsNewest
      <4>3. Committed(ops, n, t)
        BY <3>2, <4>2 DEF ReplayInv, QueueInv, IsNewest
      <4> QED BY <2>0, <3>1, <4>1, <4>3
    <3>3. CASE ~IsNewest(s, t)
      <4>1. h.buf[t] = <<>> /\ (t \in h.applied <=> t \in s.applied \/ s.buf[t] # <<>>)
        BY <2>3, <3>3 DEF Handled, op
      <4>2. PICK i \in 1..n : ops[i].txn = t
        <5>1. n + 1 \in DOMAIN ops /\ ops[n + 1].kind = "commit"
          BY <2>3 DEF op
        <5>2. \E i \in 1..((n + 1) - 1) : ops[i] = [txn |-> ops[n + 1].txn, kind |-> "prep"]
          BY <5>1 DEF InOrder
        <5>3. (n + 1) - 1 = n
          OBVIOUS
        <5> QED BY <2>3, <5>2, <5>3 DEF op
      <4>3. t \in s.applied \/ s.buf[t] # <<>>
        BY <2>0, <4>2
      <4> QED BY <3>1, <4>1, <4>3
    <3> QED BY <3>2, <3>3
  <2>4. CASE t = op.txn /\ op.kind \in {"apply", "abort"}
    <3>1. n + 1 \in DOMAIN ops
      OBVIOUS
    <3> QED BY <1>4, <2>4, <3>1 DEF IsDistributed, op
  <2> QED BY <1>0, <2>1, <2>2, <2>3, <2>4
<1> QED BY <1>3, <1>4 DEF TxnInv

\* One entry more leaves the state of a replay right (handleTxnOp).
LEMMA StepReplay ==
  ASSUME NEW ops, InOrder(ops), NEW n \in Nat, n + 1 \in DOMAIN ops, NEW s, ReplayInv(ops, n, s)
  PROVE  ReplayInv(ops, n + 1, HandleTxnOp(s, ops[n + 1]))
<1>0. ops[n + 1] \in Entry /\ ops[n + 1].txn \in Txns
  <2>1. ops[n + 1] \in Entry
    BY DEF InOrder
  <2> QED BY <2>1 DEF Entry
<1>1. PICK h : h = HandleTxnOp(s, ops[n + 1])
  OBVIOUS
<1>2. s \in TxnState /\ QueueInv(ops, n, s.commits)
  BY DEF ReplayInv
<1>3. Handled(s, ops[n + 1].txn, ops[n + 1].kind, h)
  BY <1>0, <1>1, <1>2, EntryHandled
<1>4. TxnInv(ops, n + 1, h)
  BY <1>3, StepTxns
<1>5. QueueInv(ops, n + 1, h.commits)
  <2>1. CASE ops[n + 1].kind = "commit" /\ ~IsNewest(s, ops[n + 1].txn)
    <3>1. h.commits = Push(s.commits, ops[n + 1].txn)
      BY <1>3, <2>1 DEF Handled
    <3>2. IsCommit(ops, n + 1, ops[n + 1].txn)
      BY <1>0, <2>1 DEF IsCommit, Entry
    <3> QED BY <1>0, <1>2, <2>1, <3>1, <3>2, PushCommit DEF IsNewest
  <2>2. CASE ~(ops[n + 1].kind = "commit" /\ ~IsNewest(s, ops[n + 1].txn))
    <3>1. h.commits = s.commits
      BY <1>3, <2>2 DEF Handled
    <3> QED BY <1>2, <2>2, <3>1, KeepQueue DEF IsNewest
  <2> QED BY <2>1, <2>2
<1>6. h \in TxnState
  BY <1>3 DEF Handled
<1> QED BY <1>1, <1>4, <1>5, <1>6 DEF ReplayInv

\* What holds of a replay holds after the last entry (applyOplog).
LEMMA ReplayKeepsInv ==
  ASSUME NEW ops, InOrder(ops) PROVE ReplayInv(ops, Len(ops), Replay(ops))
<1>0. ops \in Seq(Entry) /\ Len(ops) \in Nat /\ DOMAIN ops = 1..Len(ops)
  BY DEF InOrder
<1>1. /\ Replay(ops) = After(ops)[Len(ops)] /\ After(ops)[0] = NotReplayed
      /\ \A i \in 1..Len(ops) : After(ops)[i] = HandleTxnOp(After(ops)[i - 1], ops[i])
  BY <1>0, ReplaySteps
<1> DEFINE T == {m \in 0..Len(ops) : ~ReplayInv(ops, m, After(ops)[m])}
<1>2. SUFFICES ASSUME T # {} PROVE FALSE
  BY <1>0, <1>1
<1>3. PICK m \in T : \A k \in T : m <= k
  <2> HIDE DEF T
  <2>1. T \subseteq Nat
    BY <1>0 DEF T
  <2> QED BY <1>2, <2>1, Smallest
<1>4. CASE m = 0
  <2>1. NotReplayed \in TxnState
    <3>1. <<>> \in Buffers /\ <<>> \in Seq(Txns)
      BY DEF Buffers
    <3> QED BY <3>1 DEF NotReplayed, TxnState
  <2>2. NotReplayed.commits = <<>> /\ NotReplayed.applied = {}
    BY DEF NotReplayed
  <2>3. \A t : ~Committed(ops, 0, t)
    BY DEF Committed
  <2>4. QueueInv(ops, 0, NotReplayed.commits)
    <3>1. Len(<<>>) = 0 /\ DOMAIN <<>> = {} /\ <<>> \in Seq(Txns) /\ 0 <= Cap
      BY CapAssumption
    <3> QED BY <2>2, <2>3, <3>1 DEF QueueInv
  <2>5. TxnInv(ops, 0, NotReplayed)
    BY <2>2, <2>3 DEF TxnInv
  <2> QED BY <1>1, <1>4, <2>1, <2>4, <2>5 DEF ReplayInv
<1>5. CASE m # 0
  <2>1. m \in 1..Len(ops) /\ m - 1 \in Nat /\ m - 1 \in 0..Len(ops) /\ ~(m <= m - 1) /\ (m - 1) + 1 = m
    BY <1>0, <1>5
  <2>2. ReplayInv(ops, m - 1, After(ops)[m - 1])
    BY <1>3, <2>1
  <2>3. ReplayInv(ops, (m - 1) + 1, HandleTxnOp(After(ops)[m - 1], ops[(m - 1) + 1]))
    <3>1. (m - 1) + 1 \in DOMAIN ops
      BY <1>0, <2>1
    <3> QED BY <2>1, <2>2, <3>1, StepReplay
  <2>4. After(ops)[m] = HandleTxnOp(After(ops)[m - 1], ops[m])
    BY <1>1, <2>1
  <2>5. ReplayInv(ops, m, After(ops)[m])
    BY <2>1, <2>3, <2>4
  <2> QED BY <1>3, <2>5
<1> QED BY <1>4, <1>5

\* A transaction that some replica set commits is distributed everywhere.
LEMMA CommitIsDistributed ==
  ASSUME NEW r \in RSs, NEW s \in RSs, NEW t \in Txns, Ends(History[s], t, "commit"),
         NEW ops, InOrder(ops), Range(ops) \subseteq Range(History[r])
  PROVE  IsDistributed(ops, t)
<1>1. ~Ends(History[r], t, "abort") /\ ~Ends(History[r], t, "apply")
  BY HistoryAssumption
<1> SUFFICES ASSUME NEW i \in DOMAIN ops, ops[i].txn = t, ops[i].kind \in {"abort", "apply"}
             PROVE  FALSE
  BY DEF IsDistributed
<1>2. ops[i] \in Entry /\ ops[i] \in Range(History[r])
  <2>1. ops \in Seq(Entry)
    BY DEF InOrder
  <2>2. ops[i] \in Range(ops)
    BY DEF Range
  <2> QED BY <2>1, <2>2
<1>3. ops[i] = [txn |-> t, kind |-> ops[i].kind]
  BY <1>2 DEF Entry
<1> QED BY <1>1, <1>2, <1>3 DEF Ends

\* The queue has every transaction fewer than Cap others were committed after
\* (cqueue.push, saveLastDistTxns).
LEMMA QueueHasLast ==
  ASSUME NEW ops, InOrder(ops), NEW q, QueueInv(ops, Len(ops), q), NEW t \in Txns,
         NEW later, later = {u \in Txns : \E i \in DOMAIN ops : IsCommit(ops, i, u) /\
                                            \A j \in DOMAIN ops : IsCommit(ops, j, t) => i > j},
         Committed(ops, Len(ops), t), Cardinality(later) < Cap
  PROVE  \E a \in DOMAIN q : q[a] = t
<1> SUFFICES ASSUME \A a \in DOMAIN q : q[a] # t
             PROVE  FALSE
  OBVIOUS
<1>0. DOMAIN ops = 1..Len(ops) /\ Len(ops) \in Nat /\ q \in Seq(Txns) /\ DOMAIN q = 1..Len(q) /\ Cap \in Nat
  BY CapAssumption DEF InOrder, QueueInv
<1>1. Len(q) = Cap /\ \A a \in DOMAIN q : Follows(ops, Len(ops), q[a], t)
  BY DEF QueueInv
<1>2. \A a \in DOMAIN q : q[a] \in later
  <2> TAKE a \in DOMAIN q
  <2>1. PICK i \in 1..Len(ops) : IsCommit(ops, i, q[a]) /\ \A j \in 1..Len(ops) : IsCommit(ops, j, t) => j < i
    BY <1>1 DEF Follows
  <2>2. \A j \in DOMAIN ops : IsCommit(ops, j, t) => i > j
    BY <1>0, <2>1
  <2>3. q[a] \in Txns
    BY <1>0
  <2> QED BY <1>0, <2>1, <2>2, <2>3
<1>3. q \in [1..Cap -> later]
  BY <1>0, <1>1, <1>2
<1>4. IsFiniteSet(later)
  <2> DEFINE all == {ops[i].txn : i \in 1..Len(ops)}
             f == [i \in 1..Len(ops) |-> ops[i].txn]
  <2>1. f \in Surjection(1..Len(ops), all)
    BY DEF Surjection
  <2>2. IsFiniteSet(1..Len(ops))
    BY <1>0, FS_Interval
  <2>3. IsFiniteSet(all)
    <3> HIDE DEF f, all
    <3> QED BY <2>1, <2>2, FS_Surjection
  <2>4. later \in SUBSET all
    BY <1>0 DEF IsCommit
  <2> HIDE DEF all
  <2> QED BY <2>3, <2>4, FS_Subset
<1>5. IsFiniteSet(1..Cap) /\ Cardinality(1..Cap) = Cap
  <2>1. 1 \in Int /\ Cap \in Int /\ Cap > 0
    BY CapAssumption
  <2>2. IsFiniteSet(1..Cap) /\ Cardinality(1..Cap) = IF 1 > Cap THEN 0 ELSE Cap - 1 + 1
    BY <2>1, FS_Interval
  <2> QED BY <2>1, <2>2
<1>6. PICK x \in 1..Cap, y \in 1..Cap : x # y /\ q[x] = q[y]
  BY <1>3, <1>4, <1>5, FS_PigeonHole
<1>7. \E u : Follows(ops, Len(ops), u, u)
  <2>1. x \in DOMAIN q /\ y \in DOMAIN q /\ (x < y \/ y < x)
    BY <1>0, <1>1, <1>6
  <2> QED BY <1>6, <2>1 DEF QueueInv
<1> QED BY <1>7 DEF Follows

\* What the replay of a replica set's oplog comes to (restore.go:361-386).
LEMMA ReplayResult ==
  ASSUME NEW r \in RSs, NEW ops \in Chunks(History[r])
  PROVE  /\ Replay(ops) \in TxnState
         /\ \A t \in Replay(ops).applied : Ends(ops, t, "apply") \/ Ends(ops, t, "commit")
         /\ \A t \in Range(Replay(ops).commits) : t \in Txns /\ Ends(ops, t, "commit")
         /\ \A s \in RSs, t \in Txns : Ends(History[s], t, "commit") /\ Saw(ops, t) =>
              \/ t \in Replay(ops).applied
              \/ t \in Leftovers(Replay(ops)) /\ (Ends(ops, t, "prep") => AllOps(Replay(ops), t))
         /\ \A t, later :
              /\ t \in Txns /\ Ends(ops, t, "commit") /\ Cardinality(later) < Cap
              /\ later = {u \in Txns : \E i \in DOMAIN ops : IsCommit(ops, i, u) /\
                                         \A j \in DOMAIN ops : IsCommit(ops, j, t) => i > j}
              => t \in Range(Replay(ops).commits)
<1> DEFINE R == Replay(ops)
           n == Len(ops)
<1>1. InOrder(ops) /\ Range(ops) \subseteq Range(History[r])
  BY HistoryAssumption, ChunksInOrder
<1>2. ReplayInv(ops, n, R)
  BY <1>1, ReplayKeepsInv
<1>3. ops \in Seq(Entry) /\ DOMAIN ops = 1..n /\ n = Len(ops)
  BY <1>1 DEF InOrder
<1> HIDE DEF R, n
<1>4. \A t : Committed(ops, n, t) <=> Ends(ops, t, "commit")
  BY <1>3 DEF Committed, IsCommit, Ends, Range
<1>5. \A i \in DOMAIN ops : ops[i] = [txn |-> ops[i].txn, kind |-> ops[i].kind]
  <2>1. \A i \in DOMAIN ops : ops[i] \in Entry
    BY <1>3
  <2>2. \A e \in Entry : e = [txn |-> e.txn, kind |-> e.kind]
    BY DEF Entry
  <2> QED BY <2>1, <2>2
<1>6. R \in TxnState
  BY <1>2 DEF ReplayInv
<1>7. \A t \in R.applied : Ends(ops, t, "apply") \/ Ends(ops, t, "commit")
  <2> TAKE t \in R.applied
  <2>1. PICK i \in 1..n : ops[i].txn = t /\ ops[i].kind \in {"apply", "commit"}
    BY <1>2 DEF ReplayInv, TxnInv
  <2>2. ops[i] = [txn |-> t, kind |-> ops[i].kind] /\ ops[i] \in Range(ops)
    BY <1>3, <1>5, <2>1 DEF Range
  <2> QED BY <2>1, <2>2 DEF Ends
<1>8. \A t \in Range(R.commits) : t \in Txns /\ Ends(ops, t, "commit")
  <2>1. QueueInv(ops, n, R.commits)
    BY <1>2 DEF ReplayInv
  <2>2. \A a \in DOMAIN R.commits : R.commits[a] \in Txns /\ Committed(ops, n, R.commits[a])
    BY <2>1 DEF QueueInv
  <2> QED BY <1>4, <2>2 DEF Range
<1>9. ASSUME NEW s \in RSs, NEW t \in Txns, Ends(History[s], t, "commit"), Saw(ops, t)
      PROVE  t \in R.applied \/ (t \in Leftovers(R) /\ (Ends(ops, t, "prep") => AllOps(R, t)))
  <2>1. IsDistributed(ops, t)
    BY <1>1, <1>9, CommitIsDistributed
  <2>2. /\ Committed(ops, n, t) => t \in R.applied
        /\ ~Committed(ops, n, t) => \A i \in 1..n : ops[i].txn = t =>
             R.buf[t] # <<>> /\ (ops[i].kind = "prep" => R.buf[t][Len(R.buf[t])] # "part")
    BY <1>2, <2>1 DEF ReplayInv, TxnInv
  <2>3. CASE Committed(ops, n, t)
    BY <2>2, <2>3
  <2>4. CASE ~Committed(ops, n, t)
    <3>1. R.buf[t] # <<>>
      BY <1>3, <1>9, <2>2, <2>4 DEF Saw
    <3>2. Ends(ops, t, "prep") => \E i \in 1..n : ops[i].txn = t /\ ops[i].kind = "prep"
      BY <1>3 DEF Ends, Range
    <3> QED BY <2>2, <2>4, <3>1, <3>2 DEF Leftovers, AllOps
  <2> QED BY <2>3, <2>4
<1>10. ASSUME NEW t \in Txns, Ends(ops, t, "commit"), NEW later, Cardinality(later) < Cap,
              later = {u \in Txns : \E i \in DOMAIN ops : IsCommit(ops, i, u) /\
                                      \A j \in DOMAIN ops : IsCommit(ops, j, t) => i > j}
       PROVE  t \in Range(R.commits)
  <2>1. QueueInv(ops, Len(ops), R.commits)
    BY <1>2 DEF ReplayInv, n
  <2>2. Committed(ops, Len(ops), t)
    BY <1>4, <1>10 DEF n
  <2>3. \E a \in DOMAIN R.commits : R.commits[a] = t
    BY <1>1, <1>10, <2>1, <2>2, QueueHasLast
  <2> QED BY <2>3 DEF Range
<1> QED BY <1>6, <1>7, <1>8, <1>9, <1>10 DEF R

----------------------------------------------------------------------------
(* The replica sets together.                                              *)

\* Has the replica set replayed, or will it never?
Past(r) ==
  goal[r] = "done" \/ pc[r] \in {"txns", "finish", "failing", "failed", "release", "ended", "dead"}

AllCommits == UNION {Range(Replay(oplog[s]).commits) : s \in Shards}

\* The transactions left over have been asked for, of everybody.
Settled(r) ==
  \/ rep[r] = Replay(oplog[r]) /\ Leftovers(rep[r]) = {}
  \/ rep[r] = HandleUncommittedTxn(Replay(oplog[r]), AllCommits) /\ \A s \in Shards : Past(s)

Work == {"drop", "load", "replay", "txns", "finish"}
DoneSteps == {"report", "converge", "announce", "failing", "failed", "release", "ended", "dead"}

\* What a replica set has replayed, and how far it has come with it.
Replays(r) ==
  /\ oplog[r] \in Chunks(History[r])
  /\ rep[r].commits = Replay(oplog[r]).commits
  /\ ~Past(r) => oplog[r] = <<>> /\ ~txnSet[r]
  /\ r \notin backup => /\ oplog[r] = <<>> /\ ~txnSet[r]
                        /\ pc[r] \notin Work /\ goal[r] \in {"starting", "done"}
  /\ goal[r] = "done" => pc[r] \in DoneSteps
  /\ pc[r] = "txns" => rep[r] = Replay(oplog[r])
  /\ pc[r] = "finish" \/ (goal[r] = "done" /\ r \in backup) => Settled(r)

\* What the record has of a replica set.
Written(r) ==
  meta # None =>
    /\ DOMAIN meta.txns = RSs
    /\ meta.txns[r] # NoTxns => Past(r) /\ meta.txns[r] = Range(Replay(oplog[r]).commits)
    /\ meta.rss[r] = "done" => goal[r] = "done"

\* All are done when the leader says so.
DoneIsDone ==
  \/ pc[Leader] = "announce" /\ goal[Leader] = "done"
  \/ meta # None /\ meta.status = "done"
  => \A s \in Shards : goal[s] = "done"

TxnsInv ==
  /\ DOMAIN oplog = RSs /\ DOMAIN rep = RSs
  /\ \A r \in RSs : Replays(r) /\ Written(r)
  /\ DoneIsDone

\* Nothing replayed yet is a beginning of the oplog.
LEMMA EmptyChunk ==
  ASSUME NEW h PROVE <<>> \in Chunks(h)
  BY DEF Chunks

\* Nothing replayed comes to nothing.
LEMMA EmptyReplay == Replay(<<>>) = NotReplayed
<1>1. <<>> \in Seq(Entry) /\ Len(<<>>) = 0
  OBVIOUS
<1> QED BY <1>1, ReplaySteps

\* It holds at the start.
LEMMA InitTxns == Init => TxnsInv
<1> SUFFICES ASSUME Init PROVE TxnsInv
  OBVIOUS
<1>1. /\ \A r \in RSs : oplog[r] = <<>> /\ pc[r] = "idle" /\ goal[r] = "starting" /\ rep[r] = NotReplayed /\ ~txnSet[r]
      /\ meta = None /\ DOMAIN oplog = RSs /\ DOMAIN rep = RSs
  BY DEF Init
<1>2. \A r \in RSs : Replays(r)
  BY <1>1, EmptyChunk, EmptyReplay DEF Replays, Past, Work
<1> QED BY <1>1, <1>2, LeaderAssumption DEF TxnsInv, Written, DoneIsDone

\* A step in which nobody replays: one agent moves on.
LEMMA MoveReplays ==
  ASSUME Shape, \A s \in RSs : Replays(s), UNCHANGED <<kind, backup, oplog, rep>>,
         NEW r \in RSs, pc'[r] \in PCs, goal'[r] \in {"starting", "done"} \cup Phases,
         \A s \in RSs \ {r} : pc'[s] = pc[s] /\ goal'[s] = goal[s],
         \A s \in RSs : txnSet'[s] => txnSet[s],
         Past(r) => Past(r)',
         r \notin backup => pc'[r] \notin Work /\ goal'[r] \in {"starting", "done"},
         goal'[r] = "done" => pc'[r] \in DoneSteps,
         pc'[r] = "txns" => pc[r] = "txns",
         pc'[r] = "finish" \/ (goal'[r] = "done" /\ r \in backup) =>
           pc[r] = "finish" \/ (goal[r] = "done" /\ r \in backup)
  PROVE  \A s \in RSs : Replays(s)' /\ (Past(s) => Past(s)')
<1>0. Shards' = Shards /\ Shards \subseteq RSs
  BY DEF Shards, Shape
<1>1. \A s \in RSs : Past(s) => Past(s)'
  BY DEF Past
<1>2. AllCommits' = AllCommits
  BY <1>0 DEF AllCommits
<1>3. \A s \in RSs : Settled(s) => Settled(s)'
  BY <1>0, <1>1, <1>2 DEF Settled
<1>4. ASSUME NEW s \in RSs PROVE Replays(s)'
  <2>1. CASE s = r
    BY <1>1, <1>3, <2>1 DEF Replays
  <2>2. CASE s # r
    BY <1>1, <1>3, <2>2 DEF Replays
  <2> QED BY <2>1, <2>2
<1> QED BY <1>1, <1>4

\* One agent moves on, and does not replay.
Quiet(r) ==
  /\ UNCHANGED <<kind, backup, oplog, rep>>
  /\ \A s \in RSs \ {r} : pc'[s] = pc[s] /\ goal'[s] = goal[s]
  /\ \A s \in RSs : txnSet'[s] => txnSet[s]
  /\ goal[r] = "done" => goal'[r] = "done"
  /\ Past(r) => Past(r)'
  /\ r \notin backup => pc'[r] \notin Work /\ goal'[r] \in {"starting", "done"}
  /\ goal'[r] = "done" => pc'[r] \in DoneSteps
  /\ pc'[r] = "txns" => pc[r] = "txns"
  /\ pc'[r] = "finish" \/ (goal'[r] = "done" /\ r \in backup) =>
       pc[r] = "finish" \/ (goal[r] = "done" /\ r \in backup)
  /\ r = Leader /\ pc'[r] = "announce" /\ goal'[r] = "done" =>
       (pc[r] = "announce" /\ goal[r] = "done") \/ \A s \in Shards : goal[s] = "done"

\* The record takes from nobody more than what it has done.
KeptMeta ==
  meta' # None =>
    /\ DOMAIN meta'.txns = RSs
    /\ \A s \in RSs : meta'.txns[s] # NoTxns =>
         \/ meta # None /\ meta'.txns[s] = meta.txns[s]
         \/ txnSet[s] /\ meta'.txns[s] = Range(rep[s].commits)
    /\ \A s \in RSs : meta'.rss[s] = "done" => (meta # None /\ meta.rss[s] = "done") \/ goal[s] = "done"
    /\ meta'.status = "done" => (meta # None /\ meta.status = "done") \/ \A s \in Shards : goal[s] = "done"

\* Such a step keeps what is known of the transactions.
LEMMA QuietKeeps ==
  ASSUME Shape, Shape', TxnsInv, NEW r \in RSs, Quiet(r), KeptMeta
  PROVE  TxnsInv'
<1>0. Shards' = Shards /\ Shards \subseteq RSs /\ oplog' = oplog
  BY DEF Shards, Shape, Quiet
<1>1. \A s \in RSs : Replays(s)' /\ (Past(s) => Past(s)')
  <2>1. pc'[r] \in PCs /\ goal'[r] \in {"starting", "done"} \cup Phases
    BY DEF Shape
  <2>2. \A s \in RSs : Replays(s)
    BY DEF TxnsInv
  <2> QED BY <2>1, <2>2, MoveReplays DEF Quiet
<1>2. \A s \in RSs : goal[s] = "done" => goal'[s] = "done"
  BY DEF Quiet
<1>3. ASSUME NEW s \in RSs PROVE Written(s)'
  <2>1. txnSet[s] => Past(s) /\ rep[s].commits = Replay(oplog[s]).commits
    BY DEF TxnsInv, Replays
  <2> QED BY <1>0, <1>1, <1>2, <2>1 DEF TxnsInv, Written, KeptMeta
<1>4. DoneIsDone'
  <2>1. (meta # None /\ meta.status = "done") \/ (pc[Leader] = "announce" /\ goal[Leader] = "done")
        => \A s \in Shards : goal[s] = "done"
    BY DEF TxnsInv, DoneIsDone
  <2>2. pc'[Leader] = "announce" /\ goal'[Leader] = "done" => \A s \in Shards : goal[s] = "done"
    BY <2>1, LeaderAssumption DEF Quiet
  <2>3. meta' # None /\ meta'.status = "done" => \A s \in Shards : goal[s] = "done"
    BY <2>1 DEF KeptMeta
  <2> QED BY <1>0, <1>2, <2>2, <2>3 DEF DoneIsDone
<1> QED BY <1>1, <1>3, <1>4 DEF TxnsInv, Quiet

\* Writes to the record (query.go).
LEMMA NewMetaKept ==
  ASSUME meta' = NewMeta("starting") PROVE KeptMeta
  BY DEF NewMeta, KeptMeta

\* A record of an error says nothing of anybody's transactions (addRestoreMetaWithError).
LEMMA ErrorMetaKept ==
  ASSUME NEW r \in RSs, AddRestoreMetaWithError(r) PROVE KeptMeta
  BY DEF AddRestoreMetaWithError, AddRestoreRSMeta, NewMeta, KeptMeta

\* The status is another field (ChangeRestoreState).
LEMMA StateKept ==
  ASSUME meta = None \/ IsMeta(meta), \A s \in RSs : Written(s), NEW st \in Statuses, ChangeRestoreState(st),
         st = "done" => \A s \in Shards : goal[s] = "done"
  PROVE  KeptMeta
<1>1. meta # None => /\ meta' = [meta EXCEPT !.status = st]
                     /\ meta'.txns = meta.txns /\ meta'.rss = meta.rss /\ meta'.status = st
  BY DEF ChangeRestoreState, IsMeta
<1>2. meta # None => DOMAIN meta.txns = RSs
  BY LeaderAssumption DEF Written
<1> QED BY <1>1, <1>2 DEF KeptMeta, ChangeRestoreState

\* A replica set writes its status once it has got there (ChangeRestoreRSState).
LEMMA RSStateKept ==
  ASSUME meta = None \/ IsMeta(meta), \A s \in RSs : Written(s), NEW r \in RSs, NEW st \in Statuses,
         ChangeRestoreRSState(r, st) \/ (meta # None /\ meta' = AddRestoreRSMeta(meta, r, st)),
         st = "done" => goal[r] = "done"
  PROVE  KeptMeta
<1>1. meta # None => \/ meta' = meta
                     \/ /\ meta'.txns = meta.txns /\ meta'.status = meta.status
                        /\ meta'.rss = [meta.rss EXCEPT ![r] = st]
  BY DEF ChangeRestoreRSState, AddRestoreRSMeta, IsMeta
<1>2. meta # None => DOMAIN meta.txns = RSs /\ DOMAIN meta.rss = RSs
  BY LeaderAssumption DEF Written, IsMeta
<1>3. meta = None => meta' = None
  BY DEF ChangeRestoreRSState
<1> QED BY <1>1, <1>2, <1>3 DEF KeptMeta

\* Nothing is written.
LEMMA SameMetaKept ==
  ASSUME \A s \in RSs : Written(s), UNCHANGED meta PROVE KeptMeta
<1>1. meta # None => DOMAIN meta.txns = RSs
  BY LeaderAssumption DEF Written
<1> QED BY <1>1 DEF KeptMeta

\* A replica set writes the commits it has replayed (RestoreSetRSTxn).
LEMMA CommitsKept ==
  ASSUME meta # None, IsMeta(meta), \A s \in RSs : Written(s), NEW r \in RSs, txnSet[r],
         meta' = [meta EXCEPT !.txns[r] = Range(rep[r].commits)]
  PROVE  KeptMeta
<1>1. DOMAIN meta.txns = RSs
  BY LeaderAssumption DEF Written
<1>2. /\ meta'.rss = meta.rss /\ meta'.status = meta.status
      /\ meta'.txns = [meta.txns EXCEPT ![r] = Range(rep[r].commits)]
  BY DEF IsMeta
<1>3. DOMAIN meta'.txns = RSs /\ meta'.txns[r] = Range(rep[r].commits)
      /\ \A s \in RSs \ {r} : meta'.txns[s] = meta.txns[s]
  BY <1>1, <1>2
<1> QED BY <1>2, <1>3 DEF KeptMeta

\* A replica set replays (applyOplog).
LEMMA ReplayTxns ==
  ASSUME Shape, Shape', NothingBefore, TxnsInv, NEW r \in RSs, ReplayOplog(r)
  PROVE  TxnsInv'
<1>0. pc[r] = "replay" /\ UNCHANGED <<kind, backup, goal, meta>> /\ Shards' = Shards /\ Shards \subseteq RSs
  BY DEF ReplayOplog, Shards, Shape
<1>1. PICK ops \in Chunks(History[r]) :
        /\ oplog' = [oplog EXCEPT ![r] = ops]
        /\ rep' = [rep EXCEPT ![r] = Replay(ops)]
        /\ pc' = [pc EXCEPT ![r] = IF Leftovers(Replay(ops)) = {} THEN "finish" ELSE "txns"]
  BY DEF ReplayOplog, Go
<1>2. goal[r] # "done" /\ ~Past(r) /\ r \in backup /\ r \in Shards
  <2>1. Replays(r)
    BY DEF TxnsInv
  <2>2. "replay" \in Work /\ "replay" \notin DoneSteps
    BY DEF Work, DoneSteps
  <2>3. goal[r] # "done" /\ r \in backup
    BY <1>0, <2>1, <2>2 DEF Replays
  <2> QED BY <1>0, <2>3 DEF Past, Shards
<1>3. /\ \A s \in RSs \ {r} : oplog'[s] = oplog[s] /\ rep'[s] = rep[s] /\ pc'[s] = pc[s] /\ txnSet'[s] = txnSet[s]
      /\ oplog'[r] = ops /\ rep'[r] = Replay(ops)
      /\ pc'[r] = IF Leftovers(Replay(ops)) = {} THEN "finish" ELSE "txns"
  <2>1. DOMAIN pc = RSs /\ DOMAIN txnSet = RSs /\ DOMAIN oplog = RSs /\ DOMAIN rep = RSs
    BY DEF Shape, TxnsInv
  <2>2. txnSet' = [txnSet EXCEPT ![r] = TRUE]
    BY DEF ReplayOplog
  <2> QED BY <1>1, <2>1, <2>2
<1>4. \A s \in RSs : Past(s) => Past(s)'
  BY <1>0, <1>2, <1>3 DEF Past
<1>5. ASSUME NEW s \in RSs \ {r}, Settled(s)
      PROVE  Settled(s)'
  <2>1. CASE rep[s] = Replay(oplog[s]) /\ Leftovers(rep[s]) = {}
    BY <1>3, <2>1 DEF Settled
  <2>2. CASE \A x \in Shards : Past(x)
    BY <1>2, <2>2
  <2> QED BY <1>5, <2>1, <2>2 DEF Settled
<1>6. ASSUME NEW s \in RSs
      PROVE  Replays(s)'
  <2>1. CASE s = r
    <3>1. Past(r)'
      BY <1>3 DEF Past
    <3>2. pc'[r] = "finish" => Settled(r)'
      BY <1>3 DEF Settled
    <3> QED BY <1>0, <1>2, <1>3, <2>1, <3>1, <3>2 DEF Replays
  <2>2. CASE s # r
    <3>1. Replays(s)
      BY DEF TxnsInv
    <3> QED BY <1>0, <1>3, <1>4, <1>5, <2>2, <3>1 DEF Replays
  <2> QED BY <2>1, <2>2
<1>7. ASSUME NEW s \in RSs
      PROVE  Written(s)'
  <2>1. Written(s)
    BY DEF TxnsInv
  <2>2. CASE s = r
    BY <1>0, <1>2, <2>1, <2>2 DEF Written
  <2>3. CASE s # r
    BY <1>0, <1>3, <1>4, <2>1, <2>3 DEF Written
  <2> QED BY <2>2, <2>3
<1>8. DoneIsDone'
  <2>1. pc'[Leader] = "announce" => pc[Leader] = "announce"
    BY <1>3, LeaderAssumption
  <2> QED BY <1>0, <2>1 DEF TxnsInv, DoneIsDone
<1>9. DOMAIN oplog' = RSs /\ DOMAIN rep' = RSs
  BY <1>1 DEF TxnsInv
<1> QED BY <1>6, <1>7, <1>8, <1>9 DEF TxnsInv

\* A replica set asks for the commits of the others (getcommittedTxn, HandleUncommittedTxn).
LEMMA AskTxns ==
  ASSUME Shape, Shape', NothingBefore, TxnsInv, NEW r \in RSs, GetCommittedTxn(r), ~Fail(r)
  PROVE  TxnsInv'
<1>0. /\ pc[r] = "txns" /\ UNCHANGED <<kind, backup, goal, meta, oplog, txnSet>>
      /\ Shards' = Shards /\ Shards \subseteq RSs /\ pc' = [pc EXCEPT ![r] = "finish"]
  BY DEF GetCommittedTxn, Shards, Shape, Go
<1>1. /\ \A s \in Shards : meta.txns[s] # NoTxns
      /\ rep' = [rep EXCEPT ![r] = HandleUncommittedTxn(rep[r], Commits)]
  BY DEF GetCommittedTxn
<1>2. /\ \A s \in RSs \ {r} : rep'[s] = rep[s] /\ pc'[s] = pc[s]
      /\ rep'[r] = HandleUncommittedTxn(rep[r], Commits) /\ pc'[r] = "finish"
  <2>1. DOMAIN pc = RSs /\ DOMAIN rep = RSs
    BY DEF Shape, TxnsInv
  <2> QED BY <1>0, <1>1, <2>1
<1>3. \A s \in RSs : Past(s) => Past(s)'
  BY <1>0, <1>2 DEF Past
<1>4. AllCommits' = AllCommits
  BY <1>0 DEF AllCommits
<1>5. meta # None
  BY <1>0 DEF NothingBefore
<1>6. Commits = AllCommits /\ \A s \in Shards : Past(s)
  <2>1. \A s \in Shards : Past(s) /\ meta.txns[s] = Range(Replay(oplog[s]).commits)
    BY <1>0, <1>1, <1>5 DEF TxnsInv, Written
  <2>2. {meta.txns[s] : s \in Shards} = {Range(Replay(oplog[s]).commits) : s \in Shards}
    BY <2>1
  <2> QED BY <2>1, <2>2 DEF Commits, AllCommits
<1>7. rep[r] = Replay(oplog[r])
  BY <1>0 DEF TxnsInv, Replays
<1>8. ASSUME NEW s \in RSs \ {r}, Settled(s)
      PROVE  Settled(s)'
  BY <1>0, <1>2, <1>3, <1>4, <1>8 DEF Settled
<1>9. Settled(r)'
  BY <1>0, <1>2, <1>3, <1>4, <1>6, <1>7 DEF Settled
<1>10. ASSUME NEW s \in RSs
       PROVE  Replays(s)'
  <2>0. Replays(s)
    BY DEF TxnsInv
  <2>1. CASE s = r
    <3>1. rep'[r].commits = rep[r].commits
      <4>1. rep[r] \in TxnState
        BY <1>7, <2>0, <2>1, ReplayResult DEF Replays
      <4> QED BY <1>2, <4>1 DEF HandleUncommittedTxn, TxnState
    <3>2. goal[r] # "done" /\ r \in backup
      BY <1>0, <2>0, <2>1 DEF Replays, DoneSteps, Work
    <3> QED BY <1>0, <1>2, <1>3, <1>9, <2>0, <2>1, <3>1, <3>2 DEF Replays
  <2>2. CASE s # r
    BY <1>0, <1>2, <1>3, <1>8, <2>0, <2>2 DEF Replays
  <2> QED BY <2>1, <2>2
<1>11. ASSUME NEW s \in RSs
       PROVE  Written(s)'
  BY <1>0, <1>3 DEF TxnsInv, Written
<1>12. DoneIsDone'
  <2>1. pc'[Leader] = "announce" => pc[Leader] = "announce"
    BY <1>2, LeaderAssumption
  <2> QED BY <1>0, <2>1 DEF TxnsInv, DoneIsDone
<1>13. DOMAIN oplog' = RSs /\ DOMAIN rep' = RSs
  BY <1>0, <1>1 DEF TxnsInv
<1> QED BY <1>10, <1>11, <1>12, <1>13 DEF TxnsInv

\* Every step keeps what is known of the transactions.
LEMMA StepTxnsInv ==
  ASSUME Shape, Shape', NothingBefore, TxnsInv, [Next]_vars
  PROVE  TxnsInv'
<1>0. /\ \A s \in RSs : Replays(s) /\ Written(s)
      /\ meta = None \/ IsMeta(meta)
      /\ DOMAIN pc = RSs /\ DOMAIN goal = RSs
      /\ {"starting", "error"} \subseteq Statuses
      /\ \A s \in RSs : goal[s] \in Statuses
  BY DEF Shape, TxnsInv, Statuses
<1>1. ASSUME NEW r \in RSs, Proceed(r)
      PROVE  TxnsInv'
  <2>0. /\ goal[r] = "done" => pc[r] \in DoneSteps
        /\ r \notin backup => pc[r] \notin Work /\ goal[r] \in {"starting", "done"}
        /\ pc[r] = "wait" => goal[r] # "done"
    BY <1>0 DEF Replays, Shape
  <2> USE DEF DoneSteps, Work, Past
  <2>1. CASE Start(r)
    <3>1. Quiet(r)
      BY <1>0, <2>0, <2>1 DEF Start, Go, Quiet
    <3>2. KeptMeta
      BY <1>0, <2>1, SameMetaKept DEF Start
    <3> QED BY <3>1, <3>2, QuietKeeps
  <2>2. CASE LookupBackupMeta(r)
    <3>1. Quiet(r)
      BY <1>0, <2>0, <2>2 DEF LookupBackupMeta, Go, Quiet
    <3>2. KeptMeta
      BY <1>0, <2>2, SameMetaKept, ErrorMetaKept DEF LookupBackupMeta
    <3> QED BY <3>1, <3>2, QuietKeeps
  <2>3. CASE InitRestore(r)
    <3>1. Quiet(r)
      BY <1>0, <2>0, <2>3 DEF InitRestore, Go, Quiet
    <3>2. KeptMeta
      BY <1>0, <2>3, SameMetaKept, NewMetaKept DEF InitRestore, SetRestoreMeta
    <3> QED BY <3>1, <3>2, QuietKeeps
  <2>4. CASE Register(r)
    <3>1. Quiet(r)
      BY <1>0, <2>0, <2>4 DEF Register, Go, Quiet
    <3>2. KeptMeta
      <4>1. meta # None
        BY <2>4 DEF Register, NothingBefore
      <4> QED BY <1>0, <2>4, <4>1, RSStateKept DEF Register
    <3> QED BY <3>1, <3>2, QuietKeeps
  <2>5. CASE Check(r)
    <3>1. pc[r] = "check" /\ UNCHANGED <<kind, backup, oplog, rep, txnSet>>
      BY <2>5 DEF Check
    <3>2. \/ /\ pc' = [pc EXCEPT ![r] = "report"]
             /\ \E g \in {"running", "cleanupCluster"} : goal' = [goal EXCEPT ![r] = g]
             /\ r \in backup
          \/ /\ pc' = [pc EXCEPT ![r] = "report"] /\ goal' = [goal EXCEPT ![r] = "done"]
             /\ r \notin backup
          \/ goal' = goal /\ \E step \in {"failing", "release"} : pc' = [pc EXCEPT ![r] = step]
      BY <2>5 DEF Check, MoveTo, Go, Fail
    <3>3. Quiet(r)
      BY <1>0, <2>0, <3>1, <3>2 DEF Quiet
    <3>4. KeptMeta
      BY <1>0, <2>5, SameMetaKept DEF Check
    <3> QED BY <3>3, <3>4, QuietKeeps
  <2>6. CASE Report(r)
    <3>1. Quiet(r)
      BY <1>0, <2>0, <2>6 DEF Report, Go, Quiet
    <3>2. KeptMeta
      BY <1>0, <2>6, RSStateKept DEF Report
    <3> QED BY <3>1, <3>2, QuietKeeps
  <2>7. CASE WaitForStatus(r)
    <3>1. \E step \in {"register", "drop", "replay", "load", "failing"} :
            /\ pc' = [pc EXCEPT ![r] = step]
            /\ step \in {"drop", "replay", "load"} => goal[r] # "starting"
      <4>1. meta.status = goal[r] => /\ NextStep(goal[r]) \in {"register", "drop", "replay", "load"}
                                     /\ goal[r] = "starting" => NextStep(goal[r]) = "register"
        BY <2>7 DEF WaitForStatus, NextStep, Shape, Phases
      <4> QED BY <2>7, <4>1 DEF WaitForStatus, Go, Fail
    <3>2. pc[r] = "wait" /\ UNCHANGED <<kind, backup, oplog, goal, rep, txnSet, meta>>
      BY <2>7 DEF WaitForStatus
    <3>3. Quiet(r)
      BY <1>0, <2>0, <3>1, <3>2 DEF Quiet
    <3>4. KeptMeta
      BY <1>0, <3>2, SameMetaKept
    <3> QED BY <3>3, <3>4, QuietKeeps
  <2>8. CASE DBCleanup(r) \/ RunSnapshot(r)
    <3>1. /\ pc[r] \in {"drop", "load"} /\ UNCHANGED <<kind, backup, oplog, rep, txnSet, meta>>
          /\ pc' = [pc EXCEPT ![r] = "report"]
          /\ \E g \in {"running", "dumpDone"} : goal' = [goal EXCEPT ![r] = g]
      BY <2>8 DEF DBCleanup, RunSnapshot, MoveTo, Go
    <3>2. Quiet(r)
      BY <1>0, <2>0, <3>1 DEF Quiet
    <3>3. KeptMeta
      BY <1>0, <3>1, SameMetaKept
    <3> QED BY <3>2, <3>3, QuietKeeps
  <2>9. CASE ReplayOplog(r)
    BY <2>9, ReplayTxns
  <2>10. CASE SetCommittedTxn(r)
    <3>1. Quiet(r)
      BY <1>0, <2>0, <2>10 DEF SetCommittedTxn, Quiet, Shape
    <3>2. meta # None /\ txnSet[r]
      BY <2>10 DEF SetCommittedTxn, NothingBefore
    <3>3. KeptMeta
      BY <1>0, <2>10, <3>2, SameMetaKept, CommitsKept DEF SetCommittedTxn
    <3> QED BY <3>1, <3>3, QuietKeeps
  <2>11. CASE GetCommittedTxn(r) /\ ~Fail(r)
    BY <2>11, AskTxns
  <2>12. CASE GetCommittedTxn(r) /\ Fail(r)
    <3>1. /\ pc[r] = "txns" /\ UNCHANGED <<kind, backup, oplog, goal, meta, txnSet>>
          /\ pc' = [pc EXCEPT ![r] = "failing"]
      BY <2>12 DEF GetCommittedTxn, Fail, Go
    <3>2. rep' = rep
      <4>1. pc' # [pc EXCEPT ![r] = "finish"]
        BY <1>0, <3>1
      <4> QED BY <2>12, <4>1 DEF GetCommittedTxn, Go
    <3>3. Quiet(r)
      BY <1>0, <2>0, <3>1, <3>2 DEF Quiet
    <3>4. KeptMeta
      BY <1>0, <3>1, SameMetaKept
    <3> QED BY <3>3, <3>4, QuietKeeps
  <2>13. CASE Finish(r)
    <3>1. Quiet(r)
      BY <1>0, <2>0, <2>13 DEF Finish, MoveTo, Go, Quiet
    <3>2. KeptMeta
      BY <1>0, <2>13, SameMetaKept DEF Finish
    <3> QED BY <3>1, <3>2, QuietKeeps
  <2>14. CASE MarkFailed(r)
    <3>1. Quiet(r)
      BY <1>0, <2>0, <2>14 DEF MarkFailed, Go, Quiet
    <3>2. CASE ChangeRestoreState("error")
      <4>1. KeptMeta
        BY <1>0, <3>2, StateKept
      <4> QED BY <3>1, <4>1, QuietKeeps
    <3>3. CASE ChangeRestoreRSState(r, "error")
      <4>1. KeptMeta
        BY <1>0, <3>3, RSStateKept
      <4> QED BY <3>1, <4>1, QuietKeeps
    <3> QED BY <2>14, <3>2, <3>3 DEF MarkFailed
  <2>15. CASE Release(r)
    <3>1. Quiet(r)
      BY <1>0, <2>0, <2>15 DEF Release, Go, Quiet
    <3>2. KeptMeta
      BY <1>0, <2>15, SameMetaKept DEF Release
    <3> QED BY <3>1, <3>2, QuietKeeps
  <2> QED BY <1>1, <2>1, <2>2, <2>3, <2>4, <2>5, <2>6, <2>7, <2>8, <2>9, <2>10, <2>11, <2>12, <2>13, <2>14, <2>15
          DEF Proceed
<1>2. ASSUME NEW r \in RSs, Breaks(r) \/ Crash(r)
      PROVE  TxnsInv'
  <2>1. /\ \E step \in {"failing", "dead"} : pc' = [pc EXCEPT ![r] = step]
        /\ UNCHANGED <<kind, backup, oplog, rep, goal, meta>>
        /\ \A s \in RSs : txnSet'[s] => txnSet[s]
    BY <1>2 DEF Breaks, Crash, Fail, Go, Shape
  <2>2. Quiet(r)
    BY <1>0, <2>1 DEF Quiet, Replays, Past, DoneSteps, Work
  <2>3. KeptMeta
    BY <1>0, <2>1, SameMetaKept
  <2> QED BY <2>2, <2>3, QuietKeeps
<1>3. ASSUME NEW r \in RSs, SecondaryLookupFails(r)
      PROVE  TxnsInv'
  <2>1. UNCHANGED <<kind, backup, oplog, rep, goal, pc, txnSet>>
    BY <1>3 DEF SecondaryLookupFails
  <2>2. Quiet(r)
    BY <1>0, <2>1 DEF Quiet, Replays, Past
  <2>3. KeptMeta
    BY <1>3, ErrorMetaKept DEF SecondaryLookupFails
  <2> QED BY <2>2, <2>3, QuietKeeps
<1>4. CASE Converge \/ ConvergeTimeout
  <2>1. /\ UNCHANGED <<kind, backup, oplog, rep, goal, meta, txnSet>> /\ pc[Leader] = "converge"
        /\ \/ pc' = [pc EXCEPT ![Leader] = "failing"]
           \/ pc' = [pc EXCEPT ![Leader] = "announce"] /\ meta # None /\ \A s \in Shards : meta.rss[s] = goal[Leader]
    BY <1>4 DEF Converge, ConvergeTimeout, Fail, Go, Converged
  <2>2. goal[Leader] = "done" /\ pc'[Leader] = "announce" => \A s \in Shards : goal[s] = "done"
    <3>1. Shards \subseteq RSs /\ Leader \in RSs
      BY LeaderAssumption DEF Shards, Shape
    <3> QED BY <1>0, <2>1, <3>1 DEF Written
  <2>3. Quiet(Leader)
    BY <1>0, <2>1, <2>2, LeaderAssumption DEF Quiet, Replays, Past, DoneSteps, Work
  <2>4. KeptMeta
    BY <1>0, <2>1, SameMetaKept
  <2> QED BY <2>3, <2>4, LeaderAssumption, QuietKeeps
<1>5. CASE Announce
  <2>1. /\ UNCHANGED <<kind, backup, oplog, rep, goal, txnSet>> /\ pc[Leader] = "announce"
        /\ pc' = [pc EXCEPT ![Leader] = IF goal[Leader] = "done" THEN "release" ELSE "wait"]
        /\ ChangeRestoreState(goal[Leader])
    BY <1>5 DEF Announce, Go
  <2>2. Quiet(Leader)
    BY <1>0, <2>1, LeaderAssumption DEF Quiet, Replays, Past, DoneSteps, Work
  <2>3. goal[Leader] = "done" => \A s \in Shards : goal[s] = "done"
    BY <2>1 DEF TxnsInv, DoneIsDone
  <2>4. KeptMeta
    BY <1>0, <2>1, <2>3, LeaderAssumption, StateKept
  <2> QED BY <2>2, <2>4, LeaderAssumption, QuietKeeps
<1>6. CASE UNCHANGED vars
  <2>1. UNCHANGED <<kind, backup, oplog, rep, goal, pc, txnSet, meta>>
    BY <1>6 DEF vars
  <2>2. Quiet(Leader)
    BY <1>0, <2>1, LeaderAssumption DEF Quiet, Replays, Past
  <2>3. KeptMeta
    BY <1>0, <2>1, SameMetaKept
  <2> QED BY <2>2, <2>3, LeaderAssumption, QuietKeeps
<1> QED BY <1>1, <1>2, <1>3, <1>4, <1>5, <1>6 DEF Next, Lead

\* A restore that is done has all of a transaction or nothing of it.
LEMMA DoneIsAtomic ==
  ASSUME Shape, TxnsInv PROVE TxnAtomic
<1> SUFFICES ASSUME meta.status = "done", NEW r \in backup, NEW t \in Txns
             PROVE  /\ t \in UNION {LastCommits(s) : s \in backup} /\ Saw(oplog[r], t) =>
                         \/ t \in rep[r].applied
                         \/ t \in rep[r].partial /\ ~Ends(oplog[r], t, "prep")
                    /\ t \in rep[r].applied =>
                         \/ Ends(oplog[r], t, "apply")
                         \/ \E s \in backup : Ends(oplog[s], t, "commit")
  BY DEF TxnAtomic
<1>0. backup \subseteq RSs /\ Shards \subseteq RSs /\ backup \subseteq Shards
  BY DEF Shards, Shape
<1>1. goal[r] = "done"
  <2>1. meta # None
    BY DEF None
  <2> QED BY <1>0, <2>1 DEF TxnsInv, DoneIsDone
<1>2. /\ Settled(r)
      /\ \A s \in RSs : oplog[s] \in Chunks(History[s]) /\ (s \notin backup => oplog[s] = <<>>)
  <2>1. \A s \in RSs : Replays(s)
    BY DEF TxnsInv
  <2>2. r \in RSs
    BY <1>0
  <2>3. Settled(r)
    BY <1>1, <2>1, <2>2 DEF Replays
  <2> QED BY <2>1, <2>3 DEF Replays
<1> DEFINE R == Replay(oplog[r])
<1>3. /\ R \in TxnState /\ DOMAIN R = {"buf", "commits", "applied", "partial"}
      /\ t \in R.applied => Ends(oplog[r], t, "apply") \/ Ends(oplog[r], t, "commit")
      /\ \A s \in RSs : Ends(History[s], t, "commit") /\ Saw(oplog[r], t) =>
           \/ t \in R.applied
           \/ t \in Leftovers(R) /\ (Ends(oplog[r], t, "prep") => AllOps(R, t))
  <2>1. r \in RSs /\ oplog[r] \in Chunks(History[r])
    BY <1>0, <1>2
  <2>2. /\ R \in TxnState
        /\ \A u \in R.applied : Ends(oplog[r], u, "apply") \/ Ends(oplog[r], u, "commit")
        /\ \A s \in RSs, u \in Txns : Ends(History[s], u, "commit") /\ Saw(oplog[r], u) =>
             \/ u \in R.applied
             \/ u \in Leftovers(R) /\ (Ends(oplog[r], u, "prep") => AllOps(R, u))
    BY <2>1, ReplayResult
  <2>3. DOMAIN R = {"buf", "commits", "applied", "partial"}
    BY <2>2 DEF TxnState
  <2> HIDE DEF R
  <2> QED BY <2>2, <2>3
<1>4. ASSUME t \in AllCommits
      PROVE  \E s \in backup : Ends(oplog[s], t, "commit")
  <2>1. PICK s \in Shards : t \in Range(Replay(oplog[s]).commits)
    BY <1>4 DEF AllCommits
  <2>2. Ends(oplog[s], t, "commit")
    <3>1. s \in RSs /\ oplog[s] \in Chunks(History[s])
      BY <1>0, <1>2
    <3>2. \A u \in Range(Replay(oplog[s]).commits) : Ends(oplog[s], u, "commit")
      BY <3>1, ReplayResult
    <3> QED BY <2>1, <3>2
  <2>3. oplog[s] # <<>>
    <3>1. DOMAIN <<>> = {}
      OBVIOUS
    <3> QED BY <2>2, <3>1 DEF Ends, Range
  <2> QED BY <1>0, <1>2, <2>2, <2>3
<1>5. ASSUME NEW s \in backup, t \in LastCommits(s)
      PROVE  t \in AllCommits /\ Ends(History[s], t, "commit")
  <2> DEFINE at(x) == {i \in DOMAIN oplog[s] : oplog[s][i] = [txn |-> x, kind |-> "commit"]}
             later == {u \in Txns : \E i \in at(u) : \A j \in at(t) : i > j}
  <2>1. at(t) # {} /\ Cardinality(later) < Cap
    BY <1>5 DEF LastCommits
  <2>2. later = {u \in Txns : \E i \in DOMAIN oplog[s] : IsCommit(oplog[s], i, u) /\
                                \A j \in DOMAIN oplog[s] : IsCommit(oplog[s], j, t) => i > j}
    BY DEF IsCommit
  <2>3. Ends(oplog[s], t, "commit")
    BY <2>1 DEF Ends, Range
  <2> HIDE DEF later
  <2>4. s \in RSs /\ oplog[s] \in Chunks(History[s])
    BY <1>0, <1>2
  <2>5. t \in Range(Replay(oplog[s]).commits)
    <3>1. \A u, x :
            /\ u \in Txns /\ Ends(oplog[s], u, "commit") /\ Cardinality(x) < Cap
            /\ x = {v \in Txns : \E i \in DOMAIN oplog[s] : IsCommit(oplog[s], i, v) /\
                                    \A j \in DOMAIN oplog[s] : IsCommit(oplog[s], j, u) => i > j}
            => u \in Range(Replay(oplog[s]).commits)
      BY <2>4, ReplayResult
    <3> QED BY <2>1, <2>2, <2>3, <3>1
  <2>6. Range(oplog[s]) \subseteq Range(History[s])
    BY <2>4, HistoryAssumption, ChunksInOrder
  <2> QED BY <1>0, <2>3, <2>5, <2>6 DEF AllCommits, Ends
<1> HIDE DEF R
<1>6. CASE rep[r] = R /\ Leftovers(R) = {}
  <2>1. t \in UNION {LastCommits(s) : s \in backup} /\ Saw(oplog[r], t) => t \in rep[r].applied
    BY <1>0, <1>3, <1>5, <1>6
  <2> QED BY <1>3, <1>6, <2>1
<1>7. CASE rep[r] = HandleUncommittedTxn(R, AllCommits)
  <2>1. rep[r].applied = R.applied \cup Committable(R, AllCommits) /\ rep[r].partial = Partial(R, AllCommits)
    BY <1>3, <1>7 DEF HandleUncommittedTxn, TxnState
  <2>2. ASSUME t \in UNION {LastCommits(s) : s \in backup}, Saw(oplog[r], t)
        PROVE  t \in rep[r].applied \/ (t \in rep[r].partial /\ ~Ends(oplog[r], t, "prep"))
    <3>1. t \in AllCommits
      BY <1>5, <2>2
    <3>2. t \in R.applied \/ (t \in Leftovers(R) /\ (Ends(oplog[r], t, "prep") => AllOps(R, t)))
      BY <1>0, <1>3, <1>5, <2>2
    <3> QED BY <2>1, <3>1, <3>2 DEF Committable, Partial
  <2>3. t \in Committable(R, AllCommits) => t \in AllCommits
    BY DEF Committable
  <2> QED BY <1>3, <1>4, <2>1, <2>2, <2>3
<1> QED BY <1>2, <1>6, <1>7 DEF Settled, R

\* A distributed transaction that is among the last commits of a replica set of the backup
\* is applied by every replica set that has any of it, unless it is incomplete there; what
\* is applied some replica set has committed.  The commits may be written late, the record
\* set anew and the leader's status late: who asks has those of all (restore.go:295-318,
\* 379-413).
THEOREM TransactionsAreAtomic == Spec => []TxnAtomic
<1> DEFINE Inv == Shape /\ NothingBefore /\ TxnsInv
<1>1. Init => Inv
  BY InitReport, InitTxns DEF ReportInv
<1>2. Inv /\ [Next]_vars => Inv'
  BY StepShape, StepTxnsInv
<1>3. Inv => TxnAtomic
  BY DoneIsAtomic
<1> QED BY <1>1, <1>2, <1>3, PTL DEF Spec
=============================================================================

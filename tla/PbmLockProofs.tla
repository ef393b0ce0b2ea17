--------------------------- MODULE PbmLockProofs ---------------------------
(***************************************************************************)
(* Theorems about PbmLock, for any agents, commands, clock bound and stale *)
(* frame.                                                                  *)
(***************************************************************************)
EXTENDS PbmLock, TLAPS

LEMMA InitType == Init => TypeOK
  BY CollsAssumption, TimeAssumption DEF Init, TypeOK, Doc, PC, Final

LEMMA InsertType ==
  ASSUME TypeOK, NEW a \in Attempt, Insert(a) PROVE TypeOK'
<1> USE DEF TypeOK
<1>1. Hdr(a) \in Header
  BY DEF Hdr, Opid, Header, Attempt
<1>2. [hdr |-> Hdr(a), hb |-> now] \in Doc
  BY <1>1 DEF Doc
<1>3. locks' \subseteq Doc /\ \A d \in locks' : d.hb <= now'
  BY <1>2, TimeAssumption DEF Insert
<1>4. pc' \in [Attempt -> PC]
  BY DEF Insert, Goto, PC
<1> QED
  BY <1>3, <1>4 DEF Insert

LEMMA StepType == TypeOK /\ [Next]_vars => TypeOK'
<1> SUFFICES ASSUME TypeOK, [Next]_vars PROVE TypeOK'
  OBVIOUS
<1> USE TimeAssumption DEF TypeOK, PC, Goto
<1>1. ASSUME NEW a \in Attempt, Insert(a) PROVE TypeOK'
  BY <1>1, InsertType
<1>2. ASSUME NEW a \in Attempt, Log(a) PROVE TypeOK'
  BY <1>2, NoOpidAssumption DEF Log
<1>3. ASSUME NEW a \in Attempt, FindPeer(a) PROVE TypeOK'
  BY <1>3 DEF FindPeer
<1>4. ASSUME NEW a \in Attempt, Judge(a) PROVE TypeOK'
  <2>1. snap' = snap \/ snap' = [snap EXCEPT ![a] = {}]
    BY <1>4 DEF Judge
  <2>2. \E to \in {"end", "steal"} : pc' = [pc EXCEPT ![a] = to]
    BY <1>4 DEF Judge
  <2>3. UNCHANGED <<coll, timely, now, locks, opLog, status, retried, ran, robbed>>
    BY <1>4 DEF Judge
  <2> QED
    BY <2>1, <2>2, <2>3
<1>5. ASSUME NEW a \in Attempt, Steal(a) PROVE TypeOK'
  <2>1. locks' \subseteq locks /\ robbed' \subseteq Attempt
    BY <1>5 DEF Steal
  <2>2. UNCHANGED <<coll, timely, now, opLog, status, ran>>
    BY <1>5 DEF Steal
  <2>3. retried' \in [Attempt -> BOOLEAN]
    BY <1>5 DEF Steal
  <2>4. snap' \in [Attempt -> SUBSET Doc]
    BY <1>5 DEF Steal
  <2>5. pc' \in [Attempt -> PC]
    BY <1>5 DEF Steal
  <2> QED
    BY <2>1, <2>2, <2>3, <2>4, <2>5
<1>6. ASSUME NEW a \in Attempt, ReadStatus(a) PROVE TypeOK'
  BY <1>6 DEF ReadStatus
<1>7. ASSUME NEW a \in Attempt, WriteStatus(a) PROVE TypeOK'
  BY <1>7 DEF WriteStatus, Final
<1>8. ASSUME NEW a \in Attempt, Beat(a) PROVE TypeOK'
  <2>1. \A d \in Doc : [d EXCEPT !.hb = now] \in Doc /\ [d EXCEPT !.hb = now].hb = now
    BY DEF Doc
  <2>2. \A e \in locks' :
           e \in locks \/ \E d \in locks : e = [d EXCEPT !.hb = now]
    BY <1>8 DEF Beat, WithHeader
  <2>3. locks' \subseteq Doc /\ \A e \in locks' : e.hb <= now'
    <3>1. now' = now
      BY <1>8 DEF Beat
    <3>2. now <= now
      OBVIOUS
    <3>3. ASSUME NEW d \in locks, NEW e, e = [d EXCEPT !.hb = now]
          PROVE  e \in Doc /\ e.hb <= now
      BY <2>1, <3>2, <3>3
    <3> QED
      BY <2>2, <3>1, <3>3
  <2> QED
    BY <1>8, <2>3 DEF Beat
<1>9. ASSUME NEW a \in Attempt, Finish(a) PROVE TypeOK'
  BY <1>9 DEF Finish, Final
<1>10. ASSUME NEW a \in Attempt, Release(a) PROVE TypeOK'
  BY <1>10 DEF Release, WithHeader
<1>11. ASSUME NEW n \in Node, Crash(n) PROVE TypeOK'
  BY <1>11 DEF Crash
<1>12. CASE Tick
  BY <1>12 DEF Tick, Doc
<1>13. CASE UNCHANGED vars
  BY <1>13 DEF vars
<1> QED
  BY <1>1, <1>2, <1>3, <1>4, <1>5, <1>6, <1>7, <1>8, <1>9, <1>10, <1>11, <1>12, <1>13
     DEF Next

\* The variables stay in their types and no heartbeat is ahead of the cluster time.
THEOREM TypeCorrect == Spec => []TypeOK
  BY InitType, StepType, PTL DEF Spec

---------------------------------------------------------------------------
(* A command runs once: whoever ran has its OPID in pbmOpLog, and nobody   *)
(* runs an OPID that is there.                                             *)

RanIsLogged == coll = "pbmLock" => \A a \in ran : a[2] \in opLog

RunOnceInv == RanIsLogged /\ RunOnce

LEMMA OnlyLogRuns ==
  ASSUME [Next]_vars
  PROVE  (\E a \in Attempt : Log(a)) \/ UNCHANGED <<coll, opLog, ran>>
  BY DEF Next, vars, Insert, FindPeer, Judge, Steal, ReadStatus, WriteStatus, Beat, Finish,
         Release, Crash, Tick

LEMMA RunOnceStep == RunOnceInv /\ [Next]_vars => RunOnceInv'
<1> SUFFICES ASSUME RunOnceInv, [Next]_vars PROVE RunOnceInv'
  OBVIOUS
<1> USE DEF RunOnceInv, RanIsLogged, RunOnce
<1>1. CASE UNCHANGED <<coll, opLog, ran>>
  BY <1>1
<1>2. ASSUME NEW a \in Attempt, Log(a), coll = "pbmLock" PROVE RunOnceInv'
  <2>1. Opid(a) = a[2] /\ coll' = coll
    BY <1>2 DEF Opid, Log
  <2>2. CASE ran' = ran /\ opLog' = opLog
    BY <2>1, <2>2
  <2>3. CASE a[2] \notin opLog /\ opLog' = opLog \cup {a[2]} /\ ran' = ran \cup {a}
    BY <1>2, <2>1, <2>3
  <2>4. CASE a[2] = NoOpid
    BY <2>4, NoOpidAssumption DEF Attempt
  <2> QED
    BY <1>2, <2>1, <2>2, <2>3, <2>4 DEF Log
<1>3. ASSUME NEW a \in Attempt, Log(a), coll # "pbmLock" PROVE RunOnceInv'
  BY <1>3 DEF Log
<1> QED
  BY OnlyLogRuns, <1>1, <1>2, <1>3

\* A command is run at most once on a replica set (Lock.log): the unique index of
\* pbmOpLog decides, whatever happens to the lock.
THEOREM RunsOnce == Spec => []RunOnce
<1>1. Init => RunOnceInv
  BY DEF Init, RunOnceInv, RanIsLogged, RunOnce
<1>2. RunOnceInv => RunOnce
  BY DEF RunOnceInv
<1> QED
  BY <1>1, <1>2, RunOnceStep, PTL DEF Spec

---------------------------------------------------------------------------
(* In pbmLock a lock's header names its attempt.                           *)

LEMMA HeaderIsAttempt ==
  ASSUME coll = "pbmLock", NEW a \in Attempt PROVE Hdr(a) = a
  BY DEF Hdr, Opid, Attempt

\* The variables a holder's lock depends on.
LEMMA HolderFrame ==
  ASSUME [Next]_vars
  PROVE  \/ \E a \in Attempt : Insert(a) \/ Log(a) \/ Steal(a) \/ Beat(a) \/ Finish(a)
                               \/ Release(a)
         \/ \E a \in Attempt, label \in PC \ {"log", "held", "rel"} :
               /\ pc[a] \notin {"log", "held", "rel"}
               /\ Goto(a, label)
               /\ UNCHANGED <<coll, locks, robbed>>
         \/ \E n \in Node : Crash(n)
         \/ UNCHANGED <<coll, locks, pc, robbed>>
<1>1. ASSUME NEW a \in Attempt, FindPeer(a) \/ Judge(a) \/ ReadStatus(a) \/ WriteStatus(a)
      PROVE  \E label \in PC \ {"log", "held", "rel"} :
               /\ pc[a] \notin {"log", "held", "rel"}
               /\ Goto(a, label)
               /\ UNCHANGED <<coll, locks, robbed>>
  BY <1>1 DEF FindPeer, Judge, ReadStatus, WriteStatus, PC
<1>2. CASE Tick \/ UNCHANGED vars
  BY <1>2 DEF Tick, vars
<1> QED
  BY <1>1, <1>2 DEF Next

LEMMA KeptStep == TypeOK /\ LostOnlyToTakeover /\ [Next]_vars => LostOnlyToTakeover'
<1> SUFFICES ASSUME TypeOK, LostOnlyToTakeover, [Next]_vars, coll' = "pbmLock",
                    NEW b \in Attempt, Beating(b)', b \notin robbed'
             PROVE  \E d \in locks' : d.hdr = Hdr(b)'
  BY DEF LostOnlyToTakeover
<1> USE DEF TypeOK, Beating, Goto
<1>1. coll = "pbmLock" /\ Hdr(b)' = Hdr(b)
  BY DEF Next, vars, Insert, Log, FindPeer, Judge, Steal, ReadStatus, WriteStatus, Beat,
         Finish, Release, Crash, Tick, Hdr, Opid
<1>2. Beating(b) /\ b \notin robbed => \E d \in locks : d.hdr = Hdr(b)
  BY <1>1 DEF LostOnlyToTakeover
<1>3. ASSUME NEW a \in Attempt, Insert(a) PROVE \E d \in locks' : d.hdr = Hdr(b)'
  <2>1. CASE a = b
    <3>1. locks' = {[hdr |-> Hdr(a), hb |-> now]}
      BY <1>3, <2>1 DEF Insert
    <3> QED
      BY <1>1, <2>1, <3>1
  <2>2. CASE a # b
    BY <1>1, <1>2, <1>3, <2>2 DEF Insert
  <2> QED
    BY <2>1, <2>2
<1>4. ASSUME NEW a \in Attempt, Log(a) \/ Finish(a) PROVE \E d \in locks' : d.hdr = Hdr(b)'
  BY <1>1, <1>2, <1>4 DEF Log, Finish
<1>5. ASSUME NEW a \in Attempt, Steal(a) PROVE \E d \in locks' : d.hdr = Hdr(b)'
  <2>1. Beating(b) /\ b \notin robbed
    BY <1>5 DEF Steal
  <2>2. PICK d \in locks : d.hdr = Hdr(b)
    BY <1>2, <2>1
  <2>3. d \in locks'
    BY <1>5, <2>1, <2>2 DEF Steal, WithHeader
  <2> QED
    BY <1>1, <2>2, <2>3
<1>6. ASSUME NEW a \in Attempt, Beat(a) PROVE \E d \in locks' : d.hdr = Hdr(b)'
  <2>1. PICK d \in locks : d.hdr = Hdr(b)
    BY <1>2, <1>6 DEF Beat
  <2>2. CASE d.hdr = Hdr(a)
    <3>1. [d EXCEPT !.hb = now] \in locks'
      BY <1>6, <2>2 DEF Beat, WithHeader
    <3>2. [d EXCEPT !.hb = now].hdr = d.hdr
      BY DEF Doc
    <3> QED
      BY <1>1, <2>1, <3>1, <3>2
  <2>3. CASE d.hdr # Hdr(a)
    BY <1>1, <1>6, <2>1, <2>3 DEF Beat, WithHeader
  <2> QED
    BY <2>2, <2>3
<1>7. ASSUME NEW a \in Attempt, Release(a) PROVE \E d \in locks' : d.hdr = Hdr(b)'
  <2>1. a # b /\ Beating(b) /\ b \notin robbed
    BY <1>7 DEF Release
  <2>2. Hdr(a) # Hdr(b)
    BY <1>1, <2>1, HeaderIsAttempt
  <2> QED
    BY <1>1, <1>2, <1>7, <2>1, <2>2 DEF Release, WithHeader
<1>8. ASSUME NEW a \in Attempt, NEW label \in PC \ {"log", "held", "rel"},
             Goto(a, label), UNCHANGED <<coll, locks, robbed>>
      PROVE  \E d \in locks' : d.hdr = Hdr(b)'
  BY <1>1, <1>2, <1>8
<1>9. ASSUME NEW n \in Node, Crash(n) PROVE \E d \in locks' : d.hdr = Hdr(b)'
  BY <1>1, <1>2, <1>9 DEF Crash
<1>10. CASE UNCHANGED <<coll, locks, pc, robbed>>
  BY <1>1, <1>2, <1>10
<1> QED
  BY HolderFrame, <1>3, <1>4, <1>5, <1>6, <1>7, <1>8, <1>9, <1>10

\* Whoever holds pbmLock still has its document unless a takeover deleted it: Release
\* deletes by the holder's own header, and Insert adds no second document.
THEOREM KeptUnlessTakenOver == Spec => []LostOnlyToTakeover
<1>1. Init => LostOnlyToTakeover
  BY DEF Init, LostOnlyToTakeover, Beating
<1> QED
  BY <1>1, InitType, StepType, KeptStep, PTL DEF Spec

---------------------------------------------------------------------------
(* Exclusive: at the pace the design relies on, a lock that is judged stale *)
(* belongs to an attempt that is over.                                     *)

Paced == coll = "pbmLock" /\ timely

\* There is at most one document, and it belongs to a holder or to a dead attempt.
OneLock ==
    /\ \A d \in locks : d.hdr \in Attempt /\ (Beating(d.hdr) \/ pc[d.hdr] = "dead")
    /\ \A d, e \in locks : d = e

\* Every holder has the document and has refreshed it in the last period.
HolderBeats ==
    \A a \in Attempt : Beating(a) => \E d \in locks : d.hdr = a /\ d.hb + 1 >= now

\* A peer's lock that was read belongs to an attempt that is over, or was fresh.
SnapIsSound ==
    \A a \in Attempt : \A d \in snap[a] :
       /\ snap[a] = {d}
       /\ pc[a] \in {"judge", "steal"} => d.hdr \in Attempt
       /\ pc[a] = "judge" =>
             \/ pc[d.hdr] \in {"dead", "end"}
             \/ Beating(d.hdr) /\ d.hb + 1 >= now
       /\ pc[a] = "steal" => pc[d.hdr] \in {"dead", "end"}

ExclusiveInv == Paced => OneLock /\ HolderBeats /\ SnapIsSound

LEMMA ExclusiveStep == TypeOK /\ ExclusiveInv /\ [Next]_vars => ExclusiveInv'
<1> SUFFICES ASSUME TypeOK, ExclusiveInv, [Next]_vars, Paced'
             PROVE  (OneLock /\ HolderBeats /\ SnapIsSound)'
  BY DEF ExclusiveInv
<1> USE DEF TypeOK, Beating, Goto
<1>1. Paced
  BY DEF Next, vars, Insert, Log, FindPeer, Judge, Steal, ReadStatus, WriteStatus, Beat,
         Finish, Release, Crash, Tick, Paced
<1>2. OneLock /\ HolderBeats /\ SnapIsSound
  BY <1>1 DEF ExclusiveInv
<1>3. \A a \in Attempt : Hdr(a) = a
  BY <1>1, HeaderIsAttempt DEF Paced
<1>4. ASSUME NEW a \in Attempt, Insert(a) PROVE (OneLock /\ HolderBeats /\ SnapIsSound)'
  <2>1. CASE locks = {} /\ locks' = {[hdr |-> Hdr(a), hb |-> now]} /\ Goto(a, "log")
    <3>1. \A b \in Attempt : Beating(b)' => b = a
      BY <1>2, <1>4, <2>1 DEF HolderBeats
    <3>2. OneLock' /\ HolderBeats'
      BY <1>3, <1>4, <2>1, <3>1 DEF OneLock, HolderBeats, Insert
    <3>3. SnapIsSound'
      BY <1>2, <1>4, <2>1 DEF SnapIsSound, Insert
    <3> QED
      BY <3>2, <3>3
  <2>2. CASE Goto(a, "peer") /\ UNCHANGED locks
    BY <1>2, <1>4, <2>2 DEF OneLock, HolderBeats, SnapIsSound, Insert
  <2> QED
    BY <1>4, <2>1, <2>2 DEF Insert
<1>5. ASSUME NEW a \in Attempt, Log(a) \/ Finish(a)
      PROVE  (OneLock /\ HolderBeats /\ SnapIsSound)'
  BY <1>2, <1>5 DEF OneLock, HolderBeats, SnapIsSound, Log, Finish
<1>6. ASSUME NEW a \in Attempt, FindPeer(a) PROVE (OneLock /\ HolderBeats /\ SnapIsSound)'
  <2>1. OneLock' /\ HolderBeats'
    BY <1>2, <1>6 DEF OneLock, HolderBeats, FindPeer
  <2>2. \A d \in locks : pc[d.hdr] = "dead" \/ (Beating(d.hdr) /\ d.hb + 1 >= now)
    <3>1. ASSUME NEW d \in locks, Beating(d.hdr) PROVE d.hb + 1 >= now
      <4>1. d.hdr \in Attempt /\ \A e \in locks : e = d
        BY <1>2 DEF OneLock
      <4>2. PICK e \in locks : e.hb + 1 >= now
        BY <1>2, <3>1, <4>1 DEF HolderBeats
      <4> QED
        BY <4>1, <4>2
    <3> QED
      BY <1>2, <3>1 DEF OneLock
  <2>3. SnapIsSound'
    BY <1>2, <1>6, <2>2 DEF OneLock, SnapIsSound, FindPeer
  <2> QED
    BY <2>1, <2>3
<1>7. ASSUME NEW a \in Attempt, Judge(a) PROVE (OneLock /\ HolderBeats /\ SnapIsSound)'
  <2>1. OneLock' /\ HolderBeats'
    BY <1>2, <1>7 DEF OneLock, HolderBeats, Judge
  <2>2. \A d \in Doc : ~ PeerAlive(d) => ~ (d.hb + 1 >= now)
    BY TimeAssumption DEF PeerAlive, Doc
  <2>3. ASSUME NEW b \in Attempt, NEW d \in snap'[b], pc'[b] = "steal"
        PROVE  pc'[d.hdr] \in {"dead", "end"}
    <3>1. d \in snap[b] /\ snap[b] \subseteq Doc
      BY <1>7 DEF Judge
    <3>2. CASE b = a
      <4>1. ~ PeerAlive(d)
        BY <1>2, <1>7, <2>3, <3>1, <3>2 DEF SnapIsSound, Judge
      <4>2. d.hdr \in Attempt /\ pc[d.hdr] \in {"dead", "end"}
        BY <1>2, <1>7, <2>2, <3>1, <3>2, <4>1 DEF SnapIsSound, Judge
      <4> QED
        BY <1>7, <4>2 DEF Judge
    <3>3. CASE b # a
      <4>1. d.hdr \in Attempt /\ pc[d.hdr] \in {"dead", "end"}
        BY <1>2, <1>7, <2>3, <3>1, <3>3 DEF SnapIsSound, Judge
      <4> QED
        BY <1>7, <4>1 DEF Judge
    <3> QED
      BY <3>2, <3>3
  <2>4. SnapIsSound'
    BY <1>2, <1>7, <2>3 DEF SnapIsSound, Judge
  <2> QED
    BY <2>1, <2>4
<1>8. ASSUME NEW a \in Attempt, Steal(a) PROVE (OneLock /\ HolderBeats /\ SnapIsSound)'
  <2>1. PICK d \in snap[a] : locks' = locks \ WithHeader(d.hdr)
    BY <1>8 DEF Steal
  <2>2. ~ Beating(d.hdr)
    BY <1>2, <1>8, <2>1 DEF SnapIsSound, Steal
  <2>3. OneLock' /\ HolderBeats'
    BY <1>2, <1>8, <2>1, <2>2 DEF OneLock, HolderBeats, Steal, WithHeader
  <2>4. SnapIsSound'
    BY <1>2, <1>8 DEF SnapIsSound, Steal
  <2> QED
    BY <2>3, <2>4
<1>9. ASSUME NEW a \in Attempt, ReadStatus(a) \/ WriteStatus(a)
      PROVE  (OneLock /\ HolderBeats /\ SnapIsSound)'
  BY <1>2, <1>9 DEF OneLock, HolderBeats, SnapIsSound, ReadStatus, WriteStatus
<1>10. ASSUME NEW a \in Attempt, Beat(a) PROVE (OneLock /\ HolderBeats /\ SnapIsSound)'
  <2>1. PICK d \in locks : d.hdr = a /\ locks = {d}
    BY <1>2, <1>3, <1>10 DEF OneLock, Beat, WithHeader
  <2>2. locks' = {[d EXCEPT !.hb = now]}
    BY <1>3, <1>10, <2>1 DEF Beat, WithHeader
  <2>3. [d EXCEPT !.hb = now].hdr = a /\ [d EXCEPT !.hb = now].hb = now
    BY <2>1 DEF Doc
  <2>4. OneLock' /\ HolderBeats'
    <3>1. \A b \in Attempt : Beating(b) => b = a
      BY <1>2, <2>1 DEF HolderBeats
    <3>2. now + 1 >= now
      BY TimeAssumption
    <3>3. UNCHANGED <<pc, now>> /\ Beating(a)
      BY <1>10 DEF Beat
    <3> QED
      BY <2>2, <2>3, <3>1, <3>2, <3>3 DEF OneLock, HolderBeats
  <2>5. SnapIsSound'
    BY <1>2, <1>10 DEF SnapIsSound, Beat
  <2> QED
    BY <2>4, <2>5
<1>11. ASSUME NEW a \in Attempt, Release(a) PROVE (OneLock /\ HolderBeats /\ SnapIsSound)'
  <2>1. OneLock' /\ HolderBeats'
    BY <1>2, <1>3, <1>11 DEF OneLock, HolderBeats, Release, WithHeader
  <2>2. SnapIsSound'
    BY <1>2, <1>11 DEF SnapIsSound, Release
  <2> QED
    BY <2>1, <2>2
<1>12. ASSUME NEW n \in Node, Crash(n) PROVE (OneLock /\ HolderBeats /\ SnapIsSound)'
  BY <1>2, <1>12 DEF OneLock, HolderBeats, SnapIsSound, Crash
<1>13. CASE Tick
  <2>1. \A a \in Attempt : pc[a] \notin {"judge", "steal"}
    BY <1>1, <1>13 DEF Tick, Paced
  <2>2. \A a \in Attempt : Beating(a) => \A d \in locks : d.hdr = a => d.hb = now
    BY <1>1, <1>3, <1>13 DEF Tick, Paced, WithHeader
  <2>3. HolderBeats'
    BY <1>2, <1>13, <2>2 DEF HolderBeats, Tick
  <2> QED
    BY <1>2, <1>13, <2>1, <2>3 DEF OneLock, SnapIsSound, Tick
<1>14. CASE UNCHANGED vars
  BY <1>2, <1>14 DEF OneLock, HolderBeats, SnapIsSound, vars
<1> QED
  BY <1>4, <1>5, <1>6, <1>7, <1>8, <1>9, <1>10, <1>11, <1>12, <1>13, <1>14 DEF Next

\* While every holder beats once in a period and a takeover is not interrupted for a
\* whole period, two attempts never hold pbmLock at once (Acquire, StaleFrameSec).
THEOREM MutualExclusion == Spec => []Exclusive
<1>1. Init => ExclusiveInv
  BY DEF Init, ExclusiveInv, OneLock, HolderBeats, SnapIsSound, Beating
<1>2. TypeOK /\ ExclusiveInv => Exclusive
  BY DEF ExclusiveInv, Paced, OneLock, HolderBeats, Exclusive
<1> QED
  BY <1>1, <1>2, InitType, StepType, ExclusiveStep, PTL DEF Spec
=============================================================================

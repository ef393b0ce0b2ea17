------------------------------ MODULE PbmLock ------------------------------
(***************************************************************************)
(* The lock of one replica set: pbm/lock/lock.go together with the agent's *)
(* acquireLock and markBcpStale / markRestoreStale.                        *)
(*                                                                         *)
(* A lock is a document of the collection pbmLock (one per replica set, by *)
(* a unique index) or pbmLockOp (one per replica set and type; only PITR   *)
(* slicing uses it).  The holder refreshes its heartbeat; whoever finds    *)
(* the lock taken and the heartbeat too old deletes the document, marks    *)
(* the operation it belonged to as failed, and tries once more.            *)
(*                                                                         *)
(* Every database round trip is one action, so two agents interleave       *)
(* between the read of a lock, the read of the cluster time and the        *)
(* delete.  The cluster time read that goes with an insert or a heartbeat  *)
(* is taken together with the write: reading it earlier only makes the     *)
(* heartbeat older, which a missed heartbeat does as well.                 *)
(***************************************************************************)
EXTENDS Naturals, FiniteSets

CONSTANTS
    Node,       \* the agents of the replica set
    Op,         \* commands (for pbmLockOp: incarnations of the PITR routine)
    NoOpid,     \* a PITR lock carries no OPID
    Colls,      \* the collections considered, a subset of Coll
    Timing,     \* the timing regimes considered, a subset of BOOLEAN
    StaleSec,   \* defs.StaleFrameSec, in heartbeat periods
    MaxTime     \* bound of the cluster clock

Coll == {"pbmLock", "pbmLockOp"}

ASSUME CollsAssumption  == Colls \subseteq Coll /\ Timing \subseteq BOOLEAN
ASSUME TimeAssumption   == StaleSec \in Nat \ {0} /\ MaxTime \in Nat
ASSUME NoOpidAssumption == NoOpid \notin Op

\* One call of Agent.acquireLock with the work that follows it.
Attempt == Node \X Op

\* LockHeader: type and replset are fixed, node, opid and epoch identify it.
Header == Node \X (Op \cup {NoOpid})
Doc    == [hdr : Header, hb : 0..MaxTime]

VARIABLES
    coll,       \* the collection of this behaviour
    timely,     \* TRUE: agents keep the pace the design relies on (see Tick)
    now,        \* the cluster time
    locks,      \* the documents of the collection for this replica set
    opLog,      \* pbmOpLog: OPIDs logged for this replica set
    status,     \* the status in the metadata of each operation
    pc,         \* where each attempt is
    retried,    \* the attempt is in its second Acquire
    snap,       \* the peer's lock the attempt has read, as a set
    ran,        \* history: attempts that were given the lock
    robbed      \* history: attempts whose lock a takeover deleted

vars == <<coll, timely, now, locks, opLog, status, pc, retried, snap, ran, robbed>>

PC == {"new", "log", "peer", "judge", "steal", "mark", "markw",
       "held", "rel", "end", "dead"}

Final == {"done", "error"}

Opid(a)   == IF coll = "pbmLockOp" THEN NoOpid ELSE a[2]
Hdr(a)    == <<a[1], Opid(a)>>

\* The lock's heartbeat goroutine is running: from the insert to Release.
Beating(a) == pc[a] \in {"log", "held", "rel"}
Active(a)  == pc[a] \notin {"new", "end", "dead"}

Init ==
    /\ coll \in Colls
    /\ timely \in Timing
    /\ now = 0
    /\ locks = {}
    /\ opLog = {}
    /\ status = [o \in Op |-> "running"]
    /\ pc = [a \in Attempt |-> "new"]
    /\ retried = [a \in Attempt |-> FALSE]
    /\ snap = [a \in Attempt |-> {}]
    /\ ran = {}
    /\ robbed = {}

Goto(a, label) == pc' = [pc EXCEPT ![a] = label]

---------------------------------------------------------------------------
(* Acquire *)

\* acquireImpl: insert the lock; a duplicate key means somebody holds it.
Insert(a) ==
    /\ pc[a] = "new"
    /\ \/ /\ locks = {}
          /\ locks' = {[hdr |-> Hdr(a), hb |-> now]}
          /\ Goto(a, "log")
       \/ /\ locks # {}
          /\ Goto(a, "peer")
          /\ UNCHANGED locks
    /\ UNCHANGED <<coll, timely, now, opLog, status, retried, snap, ran, robbed>>

LogUnchecked(a) ==
    /\ pc[a] = "log"
    /\ opLog' = opLog \cup {Opid(a)}
    /\ ran' = ran \cup {a}
    /\ Goto(a, "held")
    /\ UNCHANGED <<coll, timely, now, locks, status, retried, snap, robbed>>

\* log: a PITR lock is not logged; for the others the unique index of pbmOpLog
\* turns a second run of the same OPID into DuplicatedOpError and a Release.
Log(a) ==
    /\ pc[a] = "log"
    /\ \/ /\ Opid(a) = NoOpid
          /\ ran' = ran \cup {a}
          /\ Goto(a, "held")
          /\ UNCHANGED opLog
       \/ /\ Opid(a) \in Op \ opLog
          /\ opLog' = opLog \cup {Opid(a)}
          /\ ran' = ran \cup {a}
          /\ Goto(a, "held")
       \/ /\ Opid(a) \in opLog
          /\ Goto(a, "rel")
          /\ UNCHANGED <<opLog, ran>>
    /\ UNCHANGED <<coll, timely, now, locks, status, retried, snap, robbed>>

\* getLockData by replica set only; no document any more is an error.
FindPeer(a) ==
    /\ pc[a] = "peer"
    /\ \/ /\ locks = {}
          /\ Goto(a, "end")
          /\ UNCHANGED snap
       \/ \E d \in locks :
             /\ snap' = [snap EXCEPT ![a] = {d}]
             /\ Goto(a, "judge")
    /\ UNCHANGED <<coll, timely, now, locks, opLog, status, retried, ran, robbed>>

PeerAliveStrict(d) == d.hb + StaleSec > now

PeerAlive(d) == d.hb + StaleSec >= now

\* Compare the peer's heartbeat with a cluster time read after it.  A living peer
\* ends the attempt (ConcurrentOpError, or "not acquired" for the same OPID).
Judge(a) ==
    /\ pc[a] = "judge"
    /\ \E d \in snap[a] :
          \/ /\ PeerAlive(d)
             /\ Goto(a, "end")
             /\ snap' = [snap EXCEPT ![a] = {}]
          \/ /\ ~ PeerAlive(d)
             /\ Goto(a, "steal")
             /\ UNCHANGED snap
    /\ UNCHANGED <<coll, timely, now, locks, opLog, status, retried, ran, robbed>>

\* Documents DeleteOne(header) removes: the heartbeat is not part of the filter.
WithHeader(h) == {d \in locks : d.hdr = h}

\* The stale lock is deleted by its header.  The first time, Agent.acquireLock marks
\* the operation of that lock (if the lock has an OPID) and calls Acquire again; the
\* second StaleLockError is returned to the caller.
Steal(a) ==
    /\ pc[a] = "steal"
    /\ \E d \in snap[a] :
          /\ locks' = locks \ WithHeader(d.hdr)
          /\ robbed' = robbed \cup
                {b \in Attempt : Beating(b) /\ Hdr(b) \in {e.hdr : e \in WithHeader(d.hdr)}}
          /\ \/ /\ retried[a]
                /\ Goto(a, "end")
                /\ snap' = [snap EXCEPT ![a] = {}]
                /\ UNCHANGED retried
             \/ /\ ~ retried[a]
                /\ retried' = [retried EXCEPT ![a] = TRUE]
                /\ IF d.hdr[2] = NoOpid
                   THEN Goto(a, "new") /\ snap' = [snap EXCEPT ![a] = {}]
                   ELSE Goto(a, "mark") /\ UNCHANGED snap
    /\ UNCHANGED <<coll, timely, now, opLog, status, ran>>

---------------------------------------------------------------------------
(* markBcpStale, markRestoreStale *)

\* "not to rewrite an error emitted by the agent": nothing is written when the
\* metadata read here already has a final status.
ReadStatus(a) ==
    /\ pc[a] = "mark"
    /\ \E d \in snap[a] :
          \/ /\ status[d.hdr[2]] \in Final
             /\ Goto(a, "new")
             /\ snap' = [snap EXCEPT ![a] = {}]
          \/ /\ status[d.hdr[2]] \notin Final
             /\ Goto(a, "markw")
             /\ UNCHANGED snap
    /\ UNCHANGED <<coll, timely, now, locks, opLog, status, retried, ran, robbed>>

\* ChangeBackupStateOPID / ChangeRestoreStateOPID: an unconditional $set.
WriteStatus(a) ==
    /\ pc[a] = "markw"
    /\ \E d \in snap[a] : status' = [status EXCEPT ![d.hdr[2]] = "error"]
    /\ snap' = [snap EXCEPT ![a] = {}]
    /\ Goto(a, "new")
    /\ UNCHANGED <<coll, timely, now, locks, opLog, retried, ran, robbed>>

---------------------------------------------------------------------------
(* The holder *)

\* beat: UpdateOne by header, which matches nothing once the lock was deleted.
Beat(a) ==
    /\ Beating(a)
    /\ \E d \in WithHeader(Hdr(a)) : d.hb # now
    /\ locks' = (locks \ WithHeader(Hdr(a)))
                   \cup {[d EXCEPT !.hb = now] : d \in WithHeader(Hdr(a))}
    /\ UNCHANGED <<coll, timely, now, opLog, status, pc, retried, snap, ran, robbed>>

\* The operation ends and writes its final status, whatever the status is by then.
Finish(a) ==
    /\ pc[a] = "held"
    /\ IF Opid(a) = NoOpid
       THEN UNCHANGED status
       ELSE \E s \in Final : status' = [status EXCEPT ![Opid(a)] = s]
    /\ Goto(a, "rel")
    /\ UNCHANGED <<coll, timely, now, locks, opLog, retried, snap, ran, robbed>>

ReleaseAny(a) ==
    /\ pc[a] = "rel"
    /\ locks' = {}
    /\ Goto(a, "end")
    /\ UNCHANGED <<coll, timely, now, opLog, status, retried, snap, ran, robbed>>

\* Release: stop the heartbeat and delete the document with the holder's own header.
Release(a) ==
    /\ pc[a] = "rel"
    /\ locks' = locks \ WithHeader(Hdr(a))
    /\ Goto(a, "end")
    /\ UNCHANGED <<coll, timely, now, opLog, status, retried, snap, ran, robbed>>

---------------------------------------------------------------------------
(* The environment *)

\* The agent process of a node dies; its locks stay.  Attempts not begun yet are
\* commands the node receives after its restart.
Crash(n) ==
    /\ \E a \in Attempt : a[1] = n /\ Active(a)
    /\ pc' = [a \in Attempt |-> IF a[1] = n /\ Active(a) THEN "dead" ELSE pc[a]]
    /\ snap' = [a \in Attempt |-> IF a[1] = n THEN {} ELSE snap[a]]
    /\ UNCHANGED <<coll, timely, now, locks, opLog, status, retried, ran, robbed>>

\* Time passes by one heartbeat period.  In a timely behaviour every living holder
\* has beaten in the period that ends, and no agent is in the middle of judging and
\* deleting a lock it has read.
Tick ==
    /\ now < MaxTime
    /\ timely =>
          \A a \in Attempt :
             /\ Beating(a) => \A d \in WithHeader(Hdr(a)) : d.hb = now
             /\ pc[a] \notin {"judge", "steal"}
    /\ now' = now + 1
    /\ UNCHANGED <<coll, timely, locks, opLog, status, pc, retried, snap, ran, robbed>>

Next ==
    \/ \E a \in Attempt :
          \/ Insert(a) \/ Log(a) \/ FindPeer(a) \/ Judge(a) \/ Steal(a)
          \/ ReadStatus(a) \/ WriteStatus(a)
          \/ Beat(a) \/ Finish(a) \/ Release(a)
    \/ \E n \in Node : Crash(n)
    \/ Tick

Spec == Init /\ [][Next]_vars

---------------------------------------------------------------------------
(* Properties *)

\* The variables stay in their types, and a heartbeat is never ahead of the cluster
\* time it is compared with (acquireImpl, beat).
TypeOK ==
    /\ coll \in Colls /\ timely \in Timing
    /\ now \in 0..MaxTime
    /\ locks \subseteq Doc /\ \A d \in locks : d.hb <= now
    /\ opLog \subseteq Op
    /\ status \in [Op -> {"running"} \cup Final]
    /\ pc \in [Attempt -> PC]
    /\ retried \in [Attempt -> BOOLEAN]
    /\ snap \in [Attempt -> SUBSET Doc]
    /\ ran \subseteq Attempt /\ robbed \subseteq Attempt

\* A command is run at most once on a replica set, whatever is taken over or crashes:
\* the insert into pbmOpLog (Lock.log) is what decides, not the lock.
RunOnce ==
    coll = "pbmLock" => \A a, b \in ran : a[2] = b[2] => a = b

\* An attempt that holds the lock and was not robbed by a takeover still has its
\* document in pbmLock: neither another Release nor another Acquire removes it.
LostOnlyToTakeover ==
    coll = "pbmLock" =>
       \A a \in Attempt : Beating(a) /\ a \notin robbed => \E d \in locks : d.hdr = Hdr(a)

\* When every holder beats in time and a takeover is not interrupted for a whole
\* period, two attempts never hold pbmLock at the same time.
Exclusive ==
    coll = "pbmLock" /\ timely =>
       \A a, b \in Attempt : Beating(a) /\ Beating(b) => a = b

=============================================================================

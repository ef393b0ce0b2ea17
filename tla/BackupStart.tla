------------------------------ MODULE BackupStart ------------------------------
(***************************************************************************)
(* From the command to the lock: how the agents that hear of a backup      *)
(* agree who makes it (cmd/pbm-agent/backup.go), on top of the stream of   *)
(* commands and beside a resync, which an agent handles in its main loop.  *)
(* The cluster's leader creates the record and nominates, for each replica *)
(* set, one group of agents after another by falling priority              *)
(* (pbm/prio); a nominated agent takes the lock and acknowledges.          *)
(* What the backup then does is the subject of BackupRun.                  *)
(***************************************************************************)
EXTENDS Commands, AgentStatus, SequencesExt

CONSTANTS
  Leader,              \* the primary of the config servers, or of the only replica set
  RenominationFrame,
  WaitActionStart

ASSUME StartAssumptions ==
  /\ Leader \in Agent
  /\ {RenominationFrame, WaitActionStart} \subseteq Nat \ {0}

VARIABLES
  jobs,         \* per agent, the handler of each command it was handed
  meta,         \* the records in pbmBackups: per replica set the nomination
  locks,        \* pbmLock: the agents that hold a lock
  opLog,        \* pbmOpLog: commands a replica set has taken
  nominating    \* the leader's goroutines, one for a replica set

vars == <<commandVars, jobs, meta, locks, opLog, nominating>>

Nobody == "nobody"

\* What a plan says of the agents: the replica set of each, its node (AgentStatus), the
\* agents whose node suits when they look, the coefficients of the command and the
\* priorities of the configuration.
setup == plan.agents

rsOf == setup.rs
RS == {rsOf[n] : n \in Agent}

-----------------------------------------------------------------------------
(* The priority of an agent, in tenths.                                      *)

DefaultScore == 10

Stat(n) == UpdateAgentStat(setup.node[n])

ImplicitPrioCalc(n) ==
  IF n \in DOMAIN setup.rule THEN setup.rule[n]
  ELSE CASE Stat(n).state = "primary" -> DefaultScore \div 2
         [] Stat(n).state # "primary" /\ Stat(n).hidden -> 2 * DefaultScore
         [] OTHER -> DefaultScore

ExplicitPrioCalc(n) == IF n \in DOMAIN setup.config THEN setup.config[n] ELSE DefaultScore

\* With any priority in the configuration the rules of the topology are off.
CalcPriority(n) == IF setup.config # <<>> THEN ExplicitPrioCalc(n) ELSE ImplicitPrioCalc(n)

\* An agent that has gone keeps its status for a while.
Candidates(r) == {n \in Agent : rsOf[n] = r /\ Steady(setup.node[n]) /\ OK(Stat(n))}

Scores(r) == {CalcPriority(n) : n \in Candidates(r)}

Grouped(r, scores) == [i \in DOMAIN scores |-> {n \in Candidates(r) : CalcPriority(n) = scores[i]}]

\* Faulty variant: the lowest score comes first.
CalcNodesPriorityAscending(r) == Grouped(r, SetToSortSeq(Scores(r), LAMBDA x, y : x < y))

CalcNodesPriority(r) == Grouped(r, SetToSortSeq(Scores(r), LAMBDA x, y : x > y))

-----------------------------------------------------------------------------
Init ==
  /\ CommandsInit
  /\ jobs = [n \in Agent |-> <<>>]
  /\ meta = <<>>
  /\ locks = {}
  /\ opLog = {}
  /\ nominating = {}

Job(op, at) == [op |-> op, at |-> at, until |-> 0]

At(n, k, step) == k \in DOMAIN jobs[n] /\ jobs[n][k].at = step /\ listen[n].at # "gone"
To(n, k, step) == jobs' = [jobs EXCEPT ![n][k].at = step]

\* The step of a handler that has nothing to do with the stream.
Handler == UNCHANGED commandVars

\* CancelBackup: only a backup that has got as far as setBcp.
Cancelled(n) == [k \in DOMAIN jobs[n] |-> IF jobs[n][k].at = "run" THEN [jobs[n][k] EXCEPT !.at = "stop"] ELSE jobs[n][k]]

\* The main loop: a resync is handled in the loop, a backup beside it.
Dispatch(n) ==
  LET i == Head(listen[n].batch) IN
    CASE stream[i].cmd = "backup" ->
           jobs' = [jobs EXCEPT ![n] = Append(@, Job(i, IF n = Leader THEN "check" ELSE "suits"))]
      [] stream[i].cmd = "cancel" -> jobs' = [jobs EXCEPT ![n] = Append(Cancelled(n), Job(i, "end"))]
      [] stream[i].cmd = "resync" -> jobs' = [jobs EXCEPT ![n] = Append(@, Job(i, "resync"))]

InLoop == {"resync", "clear", "sync"}
Busy(n) == \E k \in DOMAIN jobs[n] : jobs[n][k].at \in InLoop

HandOver(n) ==
  /\ Receive(n) /\ ~Busy(n)
  /\ Dispatch(n)
  /\ UNCHANGED <<now, stream, plan, faults, slow, meta, locks, opLog, nominating>>

\* The epoch cannot be read: the command is left.
Drop(n) ==
  /\ Receive(n) /\ ~Busy(n)
  /\ Fault
  /\ jobs' = [jobs EXCEPT ![n] = Append(@, Job(Head(listen[n].batch), "dropped"))]
  /\ UNCHANGED <<now, stream, plan, slow, meta, locks, opLog, nominating>>

-----------------------------------------------------------------------------
(* Agent.Backup.                                                             *)

LockOf(r) == {x \in locks : rsOf[x.node] = r}

\* The leader does not begin while there is any lock.
StartBcpLockCheck(n, k) ==
  /\ At(n, k, "check")
  /\ To(n, k, IF locks = {} THEN "suits" ELSE "end")
  /\ Handler /\ UNCHANGED <<meta, locks, opLog, nominating>>

\* The leader goes on for the others even when its own node does not suit.
NodeSuits(n, k) ==
  /\ At(n, k, "suits")
  /\ IF n = Leader THEN To(n, k, "init")
     ELSE IF n \in setup.suits
     THEN jobs' = [jobs EXCEPT ![n][k].at = "wait", ![n][k].until = now + WaitActionStart]
     ELSE To(n, k, "end")
  /\ Handler /\ UNCHANGED <<meta, locks, opLog, nominating>>

NoNomination == [listed |-> FALSE, nodes |-> {}, ack |-> Nobody]

Nominator(op, r) == [op |-> op, rs |-> r, groups |-> CalcNodesPriority(r), at |-> now]

\* The record's name is unique: a second handler of the command ends here.
InitMeta(n, k) ==
  LET op == jobs[n][k].op IN
    /\ At(n, k, "init")
    /\ IF op \in DOMAIN meta THEN To(n, k, "end") /\ UNCHANGED <<meta, nominating>>
       ELSE /\ meta' = [o \in DOMAIN meta \cup {op} |-> IF o = op THEN [r \in RS |-> NoNomination] ELSE meta[o]]
            /\ nominating' = nominating \cup {Nominator(op, r) : r \in RS}
            /\ jobs' = [jobs EXCEPT ![n][k].at = "wait", ![n][k].until = now + WaitActionStart]
    /\ Handler /\ UNCHANGED <<locks, opLog>>

Listed(op, r) == op \in DOMAIN meta /\ meta[op][r].listed
Acked(op, r) == Listed(op, r) /\ meta[op][r].ack # Nobody

SetRSNomination(x) ==
  /\ x \in nominating /\ x.op \in DOMAIN meta /\ ~Listed(x.op, x.rs)
  /\ meta' = [meta EXCEPT ![x.op][x.rs].listed = TRUE]
  /\ Handler /\ UNCHANGED <<jobs, locks, opLog, nominating>>

Due(x) == x.at <= now /\ (Listed(x.op, x.rs) \/ x.op \notin DOMAIN meta)

\* Faulty variant: without a first group that answers there is no other.
FinishedSoon(x) == Len(x.groups) < Len(CalcNodesPriority(x.rs)) \/ Acked(x.op, x.rs)

\* Nothing is left to nominate, or nobody need be.
Finished(x) == x.groups = <<>> \/ Acked(x.op, x.rs)

NominateRS(x) ==
  /\ x \in nominating /\ Due(x)
  /\ IF Finished(x) THEN nominating' = nominating \ {x} /\ UNCHANGED meta
     ELSE /\ nominating' = (nominating \ {x}) \cup {[x EXCEPT !.groups = Tail(@), !.at = now + RenominationFrame]}
          /\ meta' = IF Listed(x.op, x.rs) THEN [meta EXCEPT ![x.op][x.rs].nodes = Head(x.groups)] ELSE meta
  /\ Handler /\ UNCHANGED <<jobs, locks, opLog>>

Nominated(n, op) == Listed(op, rsOf[n]) /\ n \in meta[op][rsOf[n]].nodes

WaitNomination(n, k) ==
  LET op == jobs[n][k].op IN
    /\ At(n, k, "wait")
    /\ \/ Acked(op, rsOf[n]) /\ To(n, k, "end")
       \/ Nominated(n, op) /\ ~Acked(op, rsOf[n]) /\ To(n, k, "lock")
       \/ jobs[n][k].until <= now /\ To(n, k, "end")
    /\ Handler /\ UNCHANGED <<meta, locks, opLog, nominating>>

\* The lock's unique index and the one of pbmOpLog (PbmLock has the details).
Acquired(n, op) == LockOf(rsOf[n]) = {} /\ <<op, rsOf[n]>> \notin opLog

AcquireLock(n, k, next) ==
  LET op == jobs[n][k].op IN
    IF Acquired(n, op)
    THEN /\ locks' = locks \cup {[node |-> n, op |-> op]}
         /\ opLog' = opLog \cup {<<op, rsOf[n]>>}
         /\ To(n, k, next)
    ELSE To(n, k, "end") /\ UNCHANGED <<locks, opLog>>

AcquireBackupLock(n, k) ==
  /\ At(n, k, "lock")
  /\ AcquireLock(n, k, "ack")
  /\ Handler /\ UNCHANGED <<meta, nominating>>

\* The acknowledgement, and then the backup can be cancelled.
SetRSNomineeACK(n, k) ==
  LET op == jobs[n][k].op IN
    /\ At(n, k, "ack")
    /\ meta' = IF Listed(op, rsOf[n]) THEN [meta EXCEPT ![op][rsOf[n]].ack = n] ELSE meta
    /\ To(n, k, "run")
    /\ Handler /\ UNCHANGED <<locks, opLog, nominating>>

Release(n, k) == locks' = locks \ {[node |-> n, op |-> jobs[n][k].op]}

BackupEnd(n, k) ==
  /\ At(n, k, "run") \/ At(n, k, "stop")
  /\ Release(n, k) /\ To(n, k, "done")
  /\ Handler /\ UNCHANGED <<meta, opLog, nominating>>

-----------------------------------------------------------------------------
(* Agent.Resync, of the main storage.                                        *)

StartResync(n, k) ==
  /\ At(n, k, "resync")
  /\ IF rsOf[n] # rsOf[Leader] THEN To(n, k, "end") /\ UNCHANGED <<locks, opLog>>
     ELSE AcquireLock(n, k, "clear")
  /\ Handler /\ UNCHANGED <<meta, nominating>>

\* Every record goes, and those with a metadata file in the storage come back;
\* a backup that has only been started has none.
ClearBackupList(n, k) ==
  /\ At(n, k, "clear")
  /\ meta' = <<>>
  /\ To(n, k, "sync")
  /\ Handler /\ UNCHANGED <<locks, opLog, nominating>>

ResyncEnd(n, k) ==
  /\ At(n, k, "sync")
  /\ Release(n, k) /\ To(n, k, "end")
  /\ Handler /\ UNCHANGED <<meta, opLog, nominating>>

-----------------------------------------------------------------------------
Crash(n) ==
  /\ Gone(n)
  /\ nominating' = IF n = Leader THEN {} ELSE nominating
  /\ UNCHANGED <<jobs, meta, locks, opLog>>

JobReady(n, k) ==
  LET op == jobs[n][k].op IN
    \/ jobs[n][k].at \in {"check", "suits", "init", "lock", "ack", "stop", "resync"}
    \/ At(n, k, "wait") /\ (Acked(op, rsOf[n]) \/ Nominated(n, op) \/ jobs[n][k].until <= now)

\* Something can be done at once. A backup and the work of a resync take their time.
Pending ==
  \/ \E n \in Agent : listen[n].at # "gone" /\
       (ListenerReady(n, Busy(n)) \/ \E k \in DOMAIN jobs[n] : JobReady(n, k))
  \/ \E x \in nominating : Due(x) \/ (x.op \in DOMAIN meta /\ ~Listed(x.op, x.rs))

AgentStep(n) ==
  \/ Find(n) /\ UNCHANGED <<jobs, meta, locks, opLog, nominating>>
  \/ HandOver(n)
  \/ \E k \in DOMAIN jobs[n] :
       \/ StartBcpLockCheck(n, k) \/ NodeSuits(n, k) \/ InitMeta(n, k)
       \/ WaitNomination(n, k) \/ AcquireBackupLock(n, k) \/ SetRSNomineeACK(n, k) \/ BackupEnd(n, k)
       \/ StartResync(n, k) \/ ClearBackupList(n, k) \/ ResyncEnd(n, k)

Nomination == \E x \in nominating : SetRSNomination(x) \/ NominateRS(x)

Time == Tick(Pending) /\ UNCHANGED <<jobs, meta, locks, opLog, nominating>>

\* The clock of the model stops; the system would go on.
Over ==
  /\ now = MaxNow /\ ~Pending
  /\ \A n \in Agent, k \in DOMAIN stream : ~(\E s \in {"run", "clear", "sync"} : At(n, k, s))
  /\ UNCHANGED vars

Next ==
  \/ SendCommand /\ UNCHANGED <<jobs, meta, locks, opLog, nominating>>
  \/ \E n \in Agent : AgentStep(n) \/ Drop(n) \/ Crash(n)
  \/ Nomination \/ Time \/ Over

Spec == Init /\ [][Next]_vars

\* The agents and the leader's goroutines go on, and so does time once they have
\* done what can be done; a backup that runs ends at some time.
Progress ==
  \/ \E n \in Agent : AgentStep(n)
  \/ Nomination
  \/ ~Pending /\ Time

Fairness == WF_vars(Progress)
FairSpec == Spec /\ Fairness

-----------------------------------------------------------------------------
(* Exceptions: what the design does not provide for.                         *)

Sent(kind) == {i \in DOMAIN stream : stream[i].cmd = kind}

\* The agent's clock differs, an agent was slow or the loop did not take the command.
Disturbed(n) ==
  \/ plan.skew[n] # 0 \/ slow
  \/ listen[n].at = "gone"
  \/ \E k \in DOMAIN jobs[n] : jobs[n][k].at = "dropped"

\* Commands of one second may hide one another: one that is inserted after
\* another of its second or a later one has been handed over is never found.
Spaced(i) == \A j \in DOMAIN stream \ {i} :
  IF j < i THEN stream[j].at < stream[i].ts ELSE stream[i].at < stream[j].ts

\* An agent hears of every command of which the second begins after the insert
\* of the one before it, when no resync keeps its loop busy meanwhile (ListenCmd
\* looks for commands since the second it last handed one over).
EveryCommandSeen ==
  <>[](\A n \in Agent, i \in DOMAIN stream :
         Handed(n, i) \/ Disturbed(n) \/ ~Spaced(i) \/ Sent("resync") \ {i} # {})

\* Only one backup was asked for, nothing else took the lock, and the leader
\* was not disturbed.
Alone(op) == Sent("backup") = {op} /\ Sent("resync") = {} /\ ~Disturbed(Leader)

InTime == WaitActionStart \div RenominationFrame

\* The agents that are nominated while they wait, and can make the backup.
Able(n, op) ==
  /\ Handed(n, op) /\ ~Disturbed(n)
  /\ n \in setup.suits \cup {Leader}
  /\ LET groups == CalcNodesPriority(rsOf[n]) IN
       \E g \in 1 .. InTime : g \in DOMAIN groups /\ n \in groups[g]

\* A replica set with an agent that can make the backup takes part in it,
\* although the agents preferred to it are lost or do not suit (nominateRS and
\* waitNomination: three rounds of five seconds in the fifteen an agent waits).
BackupStarts ==
  <>[](\A op \in Sent("backup"), n \in Agent :
         (Handed(Leader, op) /\ Able(n, op) /\ Alone(op)) => <<op, rsOf[n]>> \in opLog)

Runs(n, op) == \E k \in DOMAIN jobs[n] : jobs[n][k].op = op /\ jobs[n][k].at \in {"ack", "run", "stop", "done"}

\* The backup is made by one of the agents with the highest priority of those that can
\* make it, and by none whose data is old or whose storage had failed when it last
\* looked (ListSteadyAgents, CalcNodesPriority and the rounds of nominateRS).
BestNodeRuns ==
  \A op \in Sent("backup"), n \in Agent : Runs(n, op) =>
    /\ setup.node[n].delay = 0 /\ setup.node[n].lag < MaxReplicationLagTimeSec
    /\ setup.node[n].reached /\ setup.node[n].storage # "failed"
    /\ (Alone(op) /\ ~Disturbed(n)) => \A m \in Agent : (rsOf[m] = rsOf[n] /\ Able(m, op)) =>
        CalcPriority(m) <= CalcPriority(n)
===============================================================================

----------------------------- MODULE PitrCluster -----------------------------
(***************************************************************************)
(* How the agents of a cluster agree to slice the oplog: the document in   *)
(* pbmPITR (pbm/oplog/nomination.go), the leader's nomination and monitors *)
(* and the other agents' part (cmd/pbm-agent/pitr.go).  One agent of each  *)
(* replica set holds its lock and slices; when one fails, is lost or the   *)
(* configuration changes, all stop and the leader begins again.            *)
(*                                                                         *)
(* PitrAgent has the goroutines inside an agent; here an agent is at one   *)
(* step of pitr() or is slicing.                                           *)
(***************************************************************************)
EXTENDS FiniteSets, Naturals, Sequences

CONSTANTS
  Agent,
  RS,           \* replica sets
  rsOf,         \* the replica set of each agent
  FirstLeader,
  Run,          \* slots for the goroutines of leadNomination
  Nobody,
  Plans         \* the clusters considered, and what may happen to them: a set of
                \*   [groups : per replica set, its agents by falling priority (CalcNodesPriority),
                \*    faults : the number of failures, crashes, timeouts over a nomination,
                \*             changes of leader or configuration,
                \*    misses : the number of healthy starts that a monitor or a slow agent undoes]

ASSUME Assumptions ==
  /\ rsOf \in [Agent -> RS]
  /\ FirstLeader \in Agent /\ Nobody \notin Agent
  /\ \A p \in Plans :
       /\ p.faults \in Nat /\ p.misses \in Nat
       /\ p.groups \in [RS -> Seq(SUBSET Agent)]
       /\ \A r \in RS : LET g == UNION {p.groups[r][i] : i \in DOMAIN p.groups[r]}
                         IN g # {} /\ \A a \in g : rsOf[a] = r
       /\ \E i \in DOMAIN p.groups[rsOf[FirstLeader]] : FirstLeader \in p.groups[rsOf[FirstLeader]][i]

VARIABLES
  plan,     \* one of Plans
  status,   \* the cluster's status in the document
  reports,  \* "replsets": what agents have reported since the status was set
  nominees, \* "n": the nominated agents of each replica set; {Nobody} if it has no entry
  ack,      \* "n": the acknowledgements
  hb,       \* whether the leader's heartbeat in the document is stale
  lock,     \* the PITR lock of each replica set
  pc,       \* where each agent is
  run,      \* the goroutines of leadNomination: step, agent, and the round of each replica set
  leader,
  monitor,  \* whether the leader's monitors are on, per agent (a.monStopSig)
  errors,   \* the step of each agent's error monitor
  activity, \* that of its activity monitor, how many acknowledgements it has read, and
            \* whether locks and acknowledgements have come or gone around that
  changed,  \* the configuration monitor has a change to see
  faults,
  misses,
  mixed,    \* a nomination was begun while another one was still going on, or an agent
            \* of the one before was still to acquire its lock or had just done so
  hitch     \* so it was, or an agent has stopped waiting for a nomination that was there
            \* or on its way, or was lost in the middle of one: nothing detects these

doc == <<status, reports, nominees, ack, hb>>
monitors == <<monitor, errors, activity>>
bounds == <<faults, misses, mixed, hitch>>
vars == <<plan, doc, lock, pc, run, leader, monitors, changed, bounds>>

-----------------------------------------------------------------------------
Status == {"unset", "ready", "running", "reconfig", "error"}
AgentStep == {"idle", "confirm", "setReady", "wait", "acquire", "ack", "slice", "stop", "report"}
RunStep == {"off", "locks", "init", "ready", "reconcile", "running", "nominate"}
ActivityStep == {"off", "tick", "errors", "acks", "locks", "reconfig"}

Groups == plan.groups

\* The agents there are.
Members == UNION {UNION {Groups[r][i] : i \in DOMAIN Groups[r]} : r \in RS}

Reported(what) == {a \in Agent : <<a, what>> \in reports}

\* No other nomination is on its way.
Alone(g) == \A h \in Run \ {g} : run[h].at \in {"off", "locks"}

\* The agent has its nomination or still slices.
Busy(a) == pc[a] \in {"acquire", "ack", "slice", "stop", "report"}

\* The agents that hold a lock and have not acknowledged.
Between == {a \in Agent : pc[a] = "ack"}

FaultOnly == faults < plan.faults /\ faults' = faults + 1
Fault == FaultOnly /\ UNCHANGED <<misses, mixed, hitch>>

HitchIf(c) ==
  /\ hitch' = (hitch \/ c)
  /\ IF c THEN FaultOnly ELSE UNCHANGED faults
  /\ UNCHANGED <<misses, mixed>>

Miss == misses < plan.misses /\ misses' = misses + 1 /\ UNCHANGED <<faults, mixed, hitch>>

MissIf(c) == IF c THEN Miss ELSE UNCHANGED bounds

MixedIf(c) == mixed' = (mixed \/ c) /\ hitch' = (hitch \/ c) /\ UNCHANGED <<faults, misses>>

NoTick == [at |-> "off", acked |-> 0, torn |-> FALSE]

Off == [at |-> "off", by |-> FirstLeader, round |-> [r \in RS |-> 0]]

Init ==
  /\ plan \in Plans
  /\ status = "unset" /\ reports = {} /\ hb = "fresh"
  /\ nominees = [r \in RS |-> {Nobody}]
  /\ ack = [r \in RS |-> Nobody]
  /\ lock = [r \in RS |-> Nobody]
  /\ pc = [a \in Agent |-> "idle"]
  /\ run = [g \in Run |-> Off]
  /\ leader = FirstLeader
  /\ monitor = [a \in Agent |-> FALSE]
  /\ errors = [a \in Agent |-> "off"]
  /\ activity = [a \in Agent |-> NoTick]
  /\ changed = FALSE
  /\ faults = 0 /\ misses = 0
  /\ mixed = FALSE /\ hitch = FALSE

-----------------------------------------------------------------------------
(* Updates of the document, each one statement.                              *)

\* SetClusterStatus resets what the replica sets have reported.
SetClusterStatus(s) == status' = s /\ reports' = {}

Report(a, what) == reports' = reports \cup {<<a, what>>} /\ UNCHANGED status

InitMeta ==
  /\ status' = "unset" /\ reports' = {} /\ hb' = "fresh"
  /\ nominees' = [r \in RS |-> {Nobody}]
  /\ ack' = [r \in RS |-> Nobody]

-----------------------------------------------------------------------------
(* Every agent: a pass of pitr().                                            *)

\* A monitor that was in the middle of a tick when it was to stop may be there still.
StartMon(a) ==
  /\ monitor' = [monitor EXCEPT ![a] = TRUE]
  /\ errors' = [errors EXCEPT ![a] = IF @ = "off" THEN "tick" ELSE @]
  /\ activity' = [activity EXCEPT ![a].at = IF @ = "off" THEN "tick" ELSE @]

\* Locks or acknowledgements change under an activity monitor that has read the
\* ones and not yet the others.
Tear ==
  activity' = [a \in Agent |-> [activity[a] EXCEPT !.torn = @ \/ activity[a].at = "locks"]]

AgentAt(a, from, to) == pc[a] = from /\ pc' = [pc EXCEPT ![a] = to]

AgentOnly == UNCHANGED <<doc, lock, run, leader, monitors, changed>>

\* Nobody slices in the replica set. The cluster's leader starts its monitors
\* and a nomination (one more than Run has slots for is left out).
Begin(a) ==
  /\ AgentAt(a, "idle", "confirm")
  /\ lock[rsOf[a]] = Nobody
  /\ IF a = leader THEN StartMon(a) ELSE UNCHANGED monitors
  /\ LET free == {g \in Run : a = leader /\ run[g].at = "off"} IN
       IF free = {} THEN UNCHANGED run
       ELSE \E g \in free : run' = [run EXCEPT ![g] = [Off EXCEPT !.at = "locks", !.by = a]]
  /\ UNCHANGED <<doc, lock, leader, changed, bounds>>

SeeReady(a) == status = "ready" /\ AgentAt(a, "confirm", "setReady") /\ AgentOnly /\ UNCHANGED bounds

ConfirmTimeout(a) ==
  /\ AgentAt(a, "confirm", "idle")
  /\ MissIf(\/ status = "ready"
            \/ \E g \in Run : run[g].by = a /\ run[g].at \in {"locks", "init", "ready"})
  /\ AgentOnly

SetReady(a) ==
  /\ AgentAt(a, "setReady", "wait")
  /\ Report(a, "ready")
  /\ UNCHANGED <<nominees, ack, hb, lock, run, leader, monitors, changed, bounds>>

\* waitNominationForPITR: somebody has acknowledged, or the agent is nominated.
SeesAck(a) == nominees[rsOf[a]] # {Nobody} /\ ack[rsOf[a]] # Nobody
SeesItself(a) == ack[rsOf[a]] = Nobody /\ a \in nominees[rsOf[a]]

SeeNomination(a) ==
  /\ \/ SeesAck(a) /\ AgentAt(a, "wait", "idle")
     \/ SeesItself(a) /\ AgentAt(a, "wait", "acquire")
  /\ AgentOnly /\ UNCHANGED bounds

NominationTimeout(a) ==
  /\ AgentAt(a, "wait", "idle")
  /\ HitchIf(\/ SeesAck(a) \/ SeesItself(a)
             \/ \E g \in Run : \/ run[g].at = "reconcile" /\ <<a, "ready">> \in reports
                              \/ run[g].at \in {"running", "nominate"})
  /\ AgentOnly

AcquireLock(a) ==
  /\ AgentAt(a, "acquire", IF lock[rsOf[a]] = Nobody THEN "ack" ELSE "idle")
  /\ lock' = [lock EXCEPT ![rsOf[a]] = IF @ = Nobody THEN a ELSE @]
  /\ Tear
  /\ UNCHANGED <<doc, run, leader, monitor, errors, changed, bounds>>

\* SetPITRNomineeACK matches nothing when the replica set has no entry.
SetAck(a) ==
  /\ AgentAt(a, "ack", "slice")
  /\ ack' = [ack EXCEPT ![rsOf[a]] = IF nominees[rsOf[a]] = {Nobody} THEN @ ELSE a]
  /\ Tear
  /\ UNCHANGED <<status, reports, nominees, hb, lock, run, leader, monitor, errors, changed,
                 bounds>>

\* The catch-up or the stream fails.
SliceFails(a) == AgentAt(a, "slice", "report") /\ Fault /\ AgentOnly

SetError(a) ==
  /\ AgentAt(a, "report", "stop")
  /\ Report(a, "error")
  /\ UNCHANGED <<nominees, ack, hb, lock, run, leader, monitors, changed, bounds>>

\* Faulty variant: the slicers stop for a new configuration only.
StatusStopReconfig(a) ==
  /\ status = "reconfig" \/ hb = "stale"
  /\ AgentAt(a, "slice", "stop")
  /\ AgentOnly /\ UNCHANGED bounds

\* getPITRClusterAndStaleStatus.
StatusStop(a) ==
  /\ status \in {"reconfig", "error"} \/ hb = "stale"
  /\ AgentAt(a, "slice", "stop")
  /\ AgentOnly /\ UNCHANGED bounds

Release(a) ==
  /\ AgentAt(a, "stop", "idle")
  /\ lock' = [lock EXCEPT ![rsOf[a]] = IF @ = a THEN Nobody ELSE @]
  /\ Tear
  /\ UNCHANGED <<doc, run, leader, monitor, errors, changed, bounds>>

-----------------------------------------------------------------------------
(* leadNomination, in a goroutine for each pass of the leader.               *)

RunAt(g, from, to) == run[g].at = from /\ run' = [run EXCEPT ![g].at = to]

RunOnly == UNCHANGED <<lock, pc, leader, monitors, changed>>

\* waitAllOpLockRelease, up to two minutes.
WaitLocks(g) ==
  /\ RunAt(g, "locks", IF \A r \in RS : lock[r] = Nobody THEN "init" ELSE "off")
  /\ UNCHANGED <<doc, bounds>> /\ RunOnly

LeadInit(g) ==
  /\ RunAt(g, "init", "ready")
  /\ InitMeta
  /\ MixedIf(~Alone(g) \/ \E a \in Agent : Busy(a))
  /\ RunOnly

LeadReady(g) ==
  /\ RunAt(g, "ready", "reconcile")
  /\ SetClusterStatus("ready")
  /\ MixedIf(~Alone(g))
  /\ UNCHANGED <<nominees, ack, hb>> /\ RunOnly

\* reconcileReadyStatus: all agents have to confirm.
Reconcile(g) ==
  /\ Cardinality(Reported("ready")) >= Cardinality(Members)
  /\ RunAt(g, "reconcile", "running")
  /\ UNCHANGED <<doc, bounds>> /\ RunOnly

\* Its two minutes are the other agents' too.
ReconcileTimeout(g) ==
  /\ RunAt(g, "reconcile", "off")
  /\ MissIf(status = "ready" /\ Alone(g) /\ \A a \in Agent : ~Busy(a))
  /\ SetClusterStatus("unset")
  /\ UNCHANGED <<nominees, ack, hb>> /\ RunOnly

LeadRunning(g) ==
  /\ RunAt(g, "running", "nominate")
  /\ SetClusterStatus("running")
  /\ UNCHANGED <<nominees, ack, hb, bounds>> /\ RunOnly

\* nominateRSForPITR: the next group, unless somebody has acknowledged.
Nominate(g, r) ==
  LET i == run[g].round[r] IN
    /\ run[g].at = "nominate"
    /\ i < Len(Groups[r])
    /\ IF i > 0 /\ ack[r] # Nobody
         THEN /\ run' = [run EXCEPT ![g].round[r] = Len(Groups[r])]
              /\ UNCHANGED nominees
         ELSE /\ run' = [run EXCEPT ![g].round[r] = i + 1]
              /\ nominees' = [nominees EXCEPT ![r] = (@ \ {Nobody}) \cup Groups[r][i + 1]]
    /\ UNCHANGED <<status, reports, ack, hb, bounds>> /\ RunOnly

LeadEnd(g) ==
  /\ \A r \in RS : run[g].round[r] = Len(Groups[r])
  /\ RunAt(g, "nominate", "off")
  /\ UNCHANGED <<doc, bounds>> /\ RunOnly

-----------------------------------------------------------------------------
(* The leader's monitors, a goroutine each. What one reads, it uses later.    *)

MonitorOnly == UNCHANGED <<nominees, ack, lock, run, leader, bounds>>

\* stopMon: a goroutine in the middle of a tick goes on, and finds the channel
\* that tells it to stop gone when it has ended.
StopMon(a) ==
  /\ monitor' = [monitor EXCEPT ![a] = FALSE]
  /\ errors' = [errors EXCEPT ![a] = IF @ = "tick" THEN "off" ELSE @]

StopActivity(a) == [activity EXCEPT ![a] = IF @.at = "tick" THEN NoTick ELSE @]

\* removePitr and stopMon: the agent's own job stops and so do the monitors.
StopOwn(a) == pc' = [pc EXCEPT ![a] = IF @ = "slice" THEN "stop" ELSE @]

\* pitrErrorMonitor.
SeeError(a) ==
  /\ errors[a] = "tick" /\ errors' = [errors EXCEPT ![a] = "write"]
  /\ Reported("error") # {}
  /\ UNCHANGED <<status, reports, hb, pc, monitor, activity, changed>> /\ MonitorOnly

SetErrorStatus(a) ==
  /\ errors[a] = "write" /\ errors' = [errors EXCEPT ![a] = "tick"]
  /\ SetClusterStatus("error")
  /\ UNCHANGED <<hb, pc, monitor, activity, changed>> /\ MonitorOnly

\* pitrActivityMonitor: four round trips, one after another.
ActivityAt(a, from, to) ==
  /\ activity[a].at = from
  /\ activity' = [activity EXCEPT ![a] = IF to = "tick" THEN [NoTick EXCEPT !.at = to]
                                                        ELSE [@ EXCEPT !.at = to]]

ActivityOnly == UNCHANGED <<doc, pc, monitor, errors, changed, lock, run, leader>>

ReadStatus(a) ==
  /\ status = "running" /\ ActivityAt(a, "tick", "errors")
  /\ ActivityOnly /\ UNCHANGED bounds

\* The error monitor sees to what has been reported.
ReadErrors(a) ==
  /\ ActivityAt(a, "errors", IF Reported("error") = {} THEN "acks" ELSE "tick")
  /\ ActivityOnly /\ UNCHANGED bounds

\* Faulty variant: all the nominated agents are expected to slice.
ReadNominees(a) ==
  /\ activity[a].at = "acks"
  /\ activity' = [activity EXCEPT ![a] =
       [at |-> "locks", torn |-> Between # {},
        acked |-> Cardinality(UNION {nominees[r] : r \in RS} \ {Nobody})]]
  /\ ActivityOnly /\ UNCHANGED bounds

ReadAcks(a) ==
  /\ activity[a].at = "acks"
  /\ activity' = [activity EXCEPT ![a] =
       [at |-> "locks", torn |-> Between # {},
        acked |-> Cardinality({r \in RS : ack[r] # Nobody})]]
  /\ ActivityOnly /\ UNCHANGED bounds

\* Fewer or more locks than acknowledgements: somebody has stopped slicing, or
\* has only begun between the reads. plan.misses bounds how often it is the
\* latter; a tick beyond that comes at another moment.
CompareLocks(a) ==
  LET same == activity[a].acked = Cardinality({r \in RS : lock[r] # Nobody}) IN
    /\ \/ same /\ ActivityAt(a, "locks", "tick") /\ UNCHANGED bounds
       \/ ~same /\ ActivityAt(a, "locks", "reconfig") /\ MissIf(activity[a].torn)
       \/ ~same /\ activity[a].torn /\ misses = plan.misses
          /\ ActivityAt(a, "locks", "tick") /\ UNCHANGED bounds
    /\ ActivityOnly

SetReconfig(a) ==
  /\ activity[a].at = "reconfig"
  /\ activity' = [activity EXCEPT ![a] = NoTick]
  /\ SetClusterStatus("reconfig")
  /\ StopOwn(a) /\ StopMon(a)
  /\ UNCHANGED <<hb, changed>> /\ MonitorOnly

\* pitrTopoMonitor.
NotLeader(a) ==
  /\ monitor[a] /\ a # leader
  /\ SetClusterStatus("reconfig")
  /\ StopOwn(a) /\ StopMon(a)
  /\ activity' = StopActivity(a)
  /\ UNCHANGED <<hb, changed>> /\ MonitorOnly

\* pitrConfigMonitor.
SeeConfig(a) ==
  /\ monitor[a]
  /\ changed /\ changed' = FALSE
  /\ SetClusterStatus("reconfig")
  /\ UNCHANGED <<hb, pc, monitors>> /\ MonitorOnly

\* pitrHb.
Beat(a) ==
  /\ monitor[a]
  /\ hb = "stale" /\ hb' = "fresh"
  /\ UNCHANGED <<status, reports, pc, monitors, changed>> /\ MonitorOnly

-----------------------------------------------------------------------------
(* The environment.                                                          *)

\* Nobody beats.
HbExpires ==
  /\ \A a \in Agent : ~monitor[a]
  /\ hb = "fresh" /\ hb' = "stale"
  /\ UNCHANGED <<status, reports, nominees, ack, lock, pc, run, leader, monitors, changed, bounds>>

NewLeader ==
  /\ Fault
  /\ leader' \in Members \ {leader}
  /\ UNCHANGED <<doc, lock, pc, run, monitors, changed>>

ChangeConfig ==
  /\ Fault
  /\ ~changed /\ changed' = TRUE
  /\ UNCHANGED <<doc, lock, pc, run, leader, monitors>>

\* An agent is restarted; the lock it held goes stale.
Crash(a) ==
  /\ FaultOnly
  /\ hitch' = (\/ hitch \/ pc[a] \in {"wait", "acquire", "ack"}
               \/ \E g \in Run : run[g].by = a /\ run[g].at # "off")
  /\ pc' = [pc EXCEPT ![a] = "idle"]
  /\ lock' = [lock EXCEPT ![rsOf[a]] = IF @ = a THEN Nobody ELSE @]
  /\ monitor' = [monitor EXCEPT ![a] = FALSE]
  /\ errors' = [errors EXCEPT ![a] = "off"]
  /\ activity' = [x \in Agent |->
       IF x = a THEN NoTick ELSE [activity[x] EXCEPT !.torn = @ \/ activity[x].at = "locks"]]
  /\ run' = [g \in Run |-> IF run[g].by = a THEN Off ELSE run[g]]
  /\ UNCHANGED <<doc, leader, changed, misses, mixed>>

-----------------------------------------------------------------------------
AgentStepOf(a) ==
  \/ Begin(a) \/ SeeReady(a) \/ SetReady(a) \/ SeeNomination(a) \/ AcquireLock(a) \/ SetAck(a)
  \/ SetError(a) \/ StatusStop(a) \/ Release(a) \/ ConfirmTimeout(a) \/ NominationTimeout(a)

LeadStep(g) ==
  \/ WaitLocks(g) \/ LeadInit(g) \/ LeadReady(g) \/ Reconcile(g) \/ ReconcileTimeout(g)
  \/ LeadRunning(g) \/ LeadEnd(g) \/ \E r \in RS : Nominate(g, r)

MonitorStepOf(a) ==
  \/ NotLeader(a) \/ SeeConfig(a) \/ Beat(a)

ErrorMonitor(a) == SeeError(a) \/ SetErrorStatus(a)

ActivityMonitor(a) ==
  \/ ReadStatus(a) \/ ReadErrors(a) \/ ReadAcks(a) \/ CompareLocks(a) \/ SetReconfig(a)

Next ==
  /\ \/ \E a \in Members : \/ AgentStepOf(a) \/ MonitorStepOf(a) \/ ErrorMonitor(a)
                            \/ ActivityMonitor(a) \/ SliceFails(a) \/ Crash(a)
     \/ \E g \in Run : LeadStep(g)
     \/ HbExpires \/ NewLeader \/ ChangeConfig
  /\ UNCHANGED plan

Spec == Init /\ [][Next]_vars

\* Tickers tick and goroutines run; faults need not happen.
Fairness ==
  /\ \A a \in Agent : /\ WF_vars(a \in Members /\ AgentStepOf(a) /\ UNCHANGED plan)
                      /\ WF_vars(MonitorStepOf(a) /\ UNCHANGED plan)
                      /\ WF_vars(ErrorMonitor(a) /\ UNCHANGED plan)
                      /\ WF_vars(ActivityMonitor(a) /\ UNCHANGED plan)
  /\ \A g \in Run : WF_vars(LeadStep(g) /\ UNCHANGED plan)
  /\ WF_vars(HbExpires /\ UNCHANGED plan)

FairSpec == Spec /\ Fairness

-----------------------------------------------------------------------------
TypeOK ==
  /\ plan \in Plans
  /\ status \in Status
  /\ reports \subseteq Agent \X {"ready", "error"}
  /\ nominees \in [RS -> SUBSET (Agent \cup {Nobody})]
  /\ ack \in [RS -> Agent \cup {Nobody}]
  /\ hb \in {"fresh", "stale"}
  /\ lock \in [RS -> Agent \cup {Nobody}]
  /\ pc \in [Agent -> AgentStep]
  /\ run \in [Run -> [at : RunStep, by : Agent, round : [RS -> Nat]]]
  /\ leader \in Agent
  /\ monitor \in [Agent -> BOOLEAN]
  /\ errors \in [Agent -> {"off", "tick", "write"}]
  /\ activity \in [Agent -> [at : ActivityStep, acked : 0..Cardinality(RS), torn : BOOLEAN]]
  /\ changed \in BOOLEAN /\ mixed \in BOOLEAN /\ hitch \in BOOLEAN
  /\ faults \in 0..plan.faults /\ misses \in 0..plan.misses

Sliced(r) == \E a \in Members : rsOf[a] = r /\ pc[a] = "slice"

\* A replica set's error reaches the slicers of all the others: the leader
\* makes it the cluster's status before the report is wiped, or all stop for
\* another reason.
ErrorStopsAll ==
  []~hitch =>
    \A r \in RS : Sliced(r) /\ Reported("error") # {} ~> ~Sliced(r)

\* While nothing fails every replica set comes to be sliced and stays so. The
\* activity monitor may take a healthy start for a failure, as it reads the
\* acknowledgements and the locks one after the other, and a slow agent may make
\* a ready status be withdrawn: the cluster starts again, and gets there.
AllSlice ==
  [](faults = 0 /\ ~mixed) => <>[](\A r \in RS : lock[r] # Nobody /\ pc[lock[r]] = "slice")
=============================================================================

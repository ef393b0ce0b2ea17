------------------------------- MODULE Catalog -------------------------------
(***************************************************************************)
(* What the database says of the storages, and who changes it: the         *)
(* configuration and its profiles, the list of backups, the lists of oplog *)
(* chunks and restores.  A client of the command line looks whether there  *)
(* is a lock, changes the configuration itself, sends commands and waits   *)
(* for them by their lock, their log or their backup's record.  The agents *)
(* of the leader's replica set carry the commands out in their main loop   *)
(* under the lock; a backup runs beside the loop and takes the lock only   *)
(* after it has read the configuration and written its record.             *)
(* How commands are lost and how agents are nominated is in Commands and   *)
(* BackupStart, what a lock does in PbmLock: here every agent hears every  *)
(* command, and a lock is stale as soon as its holder is gone.             *)
(***************************************************************************)
EXTENDS Naturals, Sequences, FiniteSets

CONSTANTS
  Member,      \* the agents of the leader's replica set
  Primary,     \* the cluster's leader among them
  Scripts,     \* what the clients ask, what there is at first, and how much goes wrong
  None

ASSUME CatalogAssumptions ==
  Primary \in Member /\ None \notin Member /\ None \notin [op : Nat, by : Member]

\* What there is at first is in order, storages that are asked for exist, no profile
\* is the main storage, and a backup's name, which is its time, is nobody else's.
ScriptInOrder(x) ==
  LET Kinds(c) == x.asks[c].do IN
    /\ x.conf \in DOMAIN x.held
    /\ \A p \in DOMAIN x.profiles : p # "main" /\ x.profiles[p] \in DOMAIN x.held
    /\ \A s \in DOMAIN x.held : DOMAIN x.held[s] = {"data", "meta"}
    /\ \A b \in DOMAIN x.list :
         /\ DOMAIN x.list[b] = {"of", "at", "status", "op"}
         /\ x.list[b].op = 0 /\ x.list[b].at \in DOMAIN x.held
         /\ x.list[b].status = "done" => b \in x.held[x.list[b].at].data \cap x.held[x.list[b].at].meta
    /\ \A c \in DOMAIN x.asks :
         /\ Kinds(c) \in {"file", "set", "add"} => x.asks[c].to \in DOMAIN x.held
         /\ Kinds(c) = "add" => x.asks[c].name # "main"
         /\ Kinds(c) = "backup" =>
              /\ x.asks[c].name \notin DOMAIN x.list
              /\ \A s \in DOMAIN x.held : x.asks[c].name \notin x.held[s].data \cup x.held[s].meta
              /\ \A d \in DOMAIN x.asks \ {c} : Kinds(d) = "backup" => x.asks[d].name # x.asks[c].name

ASSUME ScriptsAssumption == \A x \in Scripts : ScriptInOrder(x)

VARIABLES
  script,      \* the script: client c asks for script.asks[c]
  conf,        \* pbmConfig: the main storage
  profiles,    \* pbmConfig: the storage of each profile
  held,        \* per storage, the backups of which it has the data and the metadata
  list,        \* pbmBackups, by name
  ranges,      \* the storage of which pbmPITRChunks lists the chunks
  restores,    \* the storage of which pbmRestores lists the restores
  sent,        \* pbmCmd
  client,
  heard,       \* per agent, the commands its main loop has received
  tasks,       \* and the one it is at
  backups,     \* Agent.Backup, in a goroutine for each command
  holder,      \* pbmLock of the leader's replica set
  taken,       \* pbmOpLog
  logged,      \* pbmLog: a command and whether it failed
  gone,        \* the agents that have died
  mishaps      \* how much has gone wrong so far

listVars == <<list, ranges, restores>>
confVars == <<conf, profiles>>
lockVars == <<holder, taken, logged>>
agentVars == <<heard, tasks, backups, gone, mishaps>>
catalogVars == <<script, confVars, held, listVars, sent, client, agentVars, lockVars>>

Main == "main"

Record(of, at, status, op) == [of |-> of, at |-> at, status |-> status, op |-> op]

NoTask == [op |-> 0, at |-> "idle", todo |-> {}]

CatalogStart(x) ==
  /\ script = x
  /\ conf = x.conf /\ profiles = x.profiles /\ held = x.held /\ list = x.list
  /\ ranges = x.conf /\ restores = x.conf
  /\ client = [c \in DOMAIN x.asks |-> [at |-> "check", op |-> 0, old |-> None]]
  /\ sent = <<>>
  /\ heard = [n \in Member |-> 0]
  /\ tasks = [n \in Member |-> NoTask]
  /\ backups = {}
  /\ holder = None /\ taken = {} /\ logged = <<>>
  /\ gone = {} /\ mishaps = 0

CatalogInit == \E x \in Scripts : CatalogStart(x)

Put(f, k, v) == [x \in DOMAIN f \cup {k} |-> IF x = k THEN v ELSE f[x]]
Without(f, ks) == [x \in DOMAIN f \ ks |-> f[x]]

Mishap == mishaps < script.faults /\ mishaps' = mishaps + 1

-----------------------------------------------------------------------------
(* The client.                                                               *)

Ask(c) == script.asks[c]
ClientAt(c, step) == client[c].at = step
Becomes(c, step) == client' = [client EXCEPT ![c].at = step]
ClientOnly == UNCHANGED <<script, held, listVars, agentVars, lockVars>>
ClientWaits == ClientOnly /\ UNCHANGED <<confVars, sent>>

Stale == holder # None /\ holder.by \in gone

CheckForAnotherOperation(c) ==
  /\ ClientAt(c, "check")
  /\ Becomes(c, IF holder = None \/ Stale THEN "ready" ELSE "failed")
  /\ ClientWaits

Send(c, cmd, name, to, next) ==
  /\ sent' = Append(sent, [cmd |-> cmd, name |-> name, to |-> to])
  /\ client' = [client EXCEPT ![c].at = next, ![c].op = Len(sent) + 1]

\* pbm config --file or --set: the new configuration is the one that was given,
\* or what is read after the change.
ReadOldConfig(c) ==
  /\ ClientAt(c, "ready") /\ Ask(c).do \in {"file", "set"}
  /\ client' = [client EXCEPT ![c].at = "set", ![c].old = conf]
  /\ ClientWaits

SetConfig(c) ==
  /\ ClientAt(c, "set")
  /\ conf' = Ask(c).to
  /\ Becomes(c, "compare")
  /\ ClientOnly /\ UNCHANGED <<profiles, sent>>

IsSameStorage(a, b) == a = b

ResyncIfNeeded(c) ==
  LET new == IF Ask(c).do = "set" THEN conf ELSE Ask(c).to IN
    /\ ClientAt(c, "compare")
    /\ IF IsSameStorage(new, client[c].old) THEN Becomes(c, "ok") /\ UNCHANGED sent
       ELSE Send(c, "resync", Main, None, "log")
    /\ ClientOnly /\ UNCHANGED confVars

\* A resync of the main storage, of a profile or of all profiles, or their clearing.
SyncFromStorage(c) ==
  /\ ClientAt(c, "ready") /\ Ask(c).do \in {"resync", "clear"}
  /\ Send(c, Ask(c).do, Ask(c).name, None, "log")
  /\ ClientOnly /\ UNCHANGED confVars

\* A profile that exists is removed first.
AddConfigProfile(c) ==
  /\ \/ ClientAt(c, "ready") /\ Ask(c).do = "add"
        /\ IF Ask(c).name \in DOMAIN profiles THEN Send(c, "remove", Ask(c).name, None, "removed")
           ELSE Send(c, "add", Ask(c).name, Ask(c).to, "added")
     \/ ClientAt(c, "add") /\ Send(c, "add", Ask(c).name, Ask(c).to, "added")
     \/ ClientAt(c, "sync") /\ Send(c, "resync", Ask(c).name, None, "log")
  /\ ClientOnly /\ UNCHANGED confVars

RemoveConfigProfile(c) ==
  /\ ClientAt(c, "ready") /\ Ask(c).do = "remove"
  /\ IF Ask(c).name \notin DOMAIN profiles THEN Becomes(c, "failed") /\ UNCHANGED sent
     ELSE Send(c, "remove", Ask(c).name, None, "waited")
  /\ ClientOnly /\ UNCHANGED confVars

RunBackup(c) ==
  /\ ClientAt(c, "ready") /\ Ask(c).do = "backup"
  /\ IF Ask(c).of # Main /\ Ask(c).of \notin DOMAIN profiles THEN Becomes(c, "failed") /\ UNCHANGED sent
     ELSE Send(c, "backup", Ask(c).name, Ask(c).of, "exists")
  /\ ClientOnly /\ UNCHANGED confVars

CanDeleteBackup(name) == name \in DOMAIN list /\ list[name].status \in {"done", "error"}

DeleteBackupByName(c) ==
  /\ ClientAt(c, "ready") /\ Ask(c).do = "delete"
  /\ IF ~CanDeleteBackup(Ask(c).name) THEN Becomes(c, "failed") /\ UNCHANGED sent
     ELSE Send(c, "delete", Ask(c).name, None, "deleted")
  /\ ClientOnly /\ UNCHANGED confVars

\* The lock of a command, of any deletion in the case of a deletion.
Awaited(c) == holder # None /\
  (IF ClientAt(c, "deleted") THEN sent[holder.op].cmd = "delete" ELSE holder.op = client[c].op)

Errors(op) == \E i \in DOMAIN logged : logged[i] = <<op, "error">>

\* No lock counts as an operation that has finished, also before an agent has
\* taken it; the errors in the log are read once.
AfterLock(c) ==
  CASE client[c].at = "removed" -> "add"
    [] client[c].at = "added" -> IF Ask(c).sync THEN "sync" ELSE "ok"
    [] OTHER -> "ok"

WaitOp(c) ==
  /\ client[c].at \in {"removed", "added", "waited", "deleted"}
  /\ ~Awaited(c) \/ Stale
  /\ Becomes(c, IF Awaited(c) \/ (~ClientAt(c, "deleted") /\ Errors(client[c].op)) THEN "failed" ELSE AfterLock(c))
  /\ ClientWaits

EntriesOf(op) == SelectSeq(logged, LAMBDA e : e[1] = op)

\* Faulty variant: the errors in the log are not looked at.
WaitForSuccess(c) ==
  /\ ClientAt(c, "log") /\ \E i \in DOMAIN logged : logged[i] = <<client[c].op, "succeed">>
  /\ Becomes(c, "ok")
  /\ ClientWaits

\* The first entry that is an error or the success.
WaitForResync(c) ==
  /\ ClientAt(c, "log") /\ EntriesOf(client[c].op) # <<>>
  /\ Becomes(c, IF Head(EntriesOf(client[c].op))[2] = "error" THEN "failed" ELSE "ok")
  /\ ClientWaits

\* The record is awaited for a time, then that the backup runs, then that it ends;
\* a record that nobody works at is given up.
WaitForBcpExists(c) ==
  /\ ClientAt(c, "exists")
  /\ Becomes(c, IF Ask(c).name \in DOMAIN list THEN "starts" ELSE "failed")
  /\ ClientWaits

CheckBackupStale(name) == ~(\E b \in backups : b.op = list[name].op)

StatusWait(c, from, wanted, next) ==
  LET name == Ask(c).name IN
    /\ ClientAt(c, from)
    /\ CASE name \notin DOMAIN list -> Becomes(c, "failed")
         [] name \in DOMAIN list /\ list[name].status = "error" -> Becomes(c, "failed")
         [] name \in DOMAIN list /\ list[name].status \in wanted -> Becomes(c, next)
         [] OTHER -> CheckBackupStale(name) /\ Becomes(c, "failed")
    /\ ClientWaits

WaitForBcpStatus(c) == StatusWait(c, "starts", {"running", "done"}, "runs")
WaitBackup(c) == StatusWait(c, "runs", {"done"}, "ok")

ClientStep(c) ==
  \/ CheckForAnotherOperation(c)
  \/ ReadOldConfig(c) \/ SetConfig(c) \/ ResyncIfNeeded(c) \/ SyncFromStorage(c)
  \/ AddConfigProfile(c) \/ RemoveConfigProfile(c)
  \/ RunBackup(c) \/ DeleteBackupByName(c)
  \/ WaitOp(c) \/ WaitForResync(c) \/ WaitForBcpExists(c) \/ WaitForBcpStatus(c) \/ WaitBackup(c)

-----------------------------------------------------------------------------
(* The main loop of an agent.                                                *)

Task(n) == tasks[n]
TaskAt(n, step) == n \notin gone /\ Task(n).at = step
Cmd(n) == sent[Task(n).op]
Goes(n, step) == tasks' = [tasks EXCEPT ![n].at = step]
Idle(n) == tasks' = [tasks EXCEPT ![n] = NoTask]
AgentOnly == UNCHANGED <<script, sent, client, heard, gone>>
LoopOnly == AgentOnly /\ UNCHANGED backups

NewBackup(n, op) == [by |-> n, op |-> op, at |-> IF n = Primary THEN "check" ELSE "config", conf |-> None]

\* Profiles are changed by the cluster's leader only.
Concerns(n, cmd) == cmd \in {"add", "remove"} => n = Primary

HearCommand(n) ==
  LET op == heard[n] + 1 IN
    /\ TaskAt(n, "idle") /\ op <= Len(sent)
    /\ heard' = [heard EXCEPT ![n] = op]
    /\ IF sent[op].cmd = "backup" THEN backups' = backups \cup {NewBackup(n, op)} /\ UNCHANGED tasks
       ELSE /\ tasks' = IF Concerns(n, sent[op].cmd) THEN [tasks EXCEPT ![n].op = op, ![n].at = "lock"] ELSE tasks
            /\ UNCHANGED backups
    /\ UNCHANGED <<script, confVars, held, listVars, sent, client, gone, mishaps, lockVars>>

CanTake(op) == op \notin taken /\ (holder = None \/ Stale)

\* The backup of a holder that has died is marked as failed.
MarkBcpStale ==
  IF Stale /\ sent[holder.op].cmd = "backup"
  THEN [b \in DOMAIN list |->
         IF list[b].op = holder.op /\ list[b].status \in {"starting", "running"} THEN [list[b] EXCEPT !.status = "error"]
         ELSE list[b]]
  ELSE list

Take(n, op) ==
  /\ holder' = [op |-> op, by |-> n]
  /\ taken' = taken \cup {op}
  /\ list' = MarkBcpStale

Log(op, what) == logged' = Append(logged, <<op, what>>)

\* Only the handlers of profiles report that the lock is not theirs.
AcquireLockFor(n) ==
  LET op == Task(n).op IN
    /\ TaskAt(n, "lock")
    /\ IF CanTake(op) THEN Take(n, op) /\ Goes(n, "begin") /\ UNCHANGED logged
       ELSE /\ Idle(n) /\ UNCHANGED <<holder, taken, list>>
            /\ IF Cmd(n).cmd \in {"add", "remove"} THEN Log(op, "error") ELSE UNCHANGED logged
    /\ LoopOnly /\ UNCHANGED <<confVars, held, ranges, restores, mishaps>>

\* The handler returns: the lock goes, and what it was at is in the log.
Ends(n, what) ==
  /\ Idle(n) /\ Log(Task(n).op, what)
  /\ holder' = (IF holder = [op |-> Task(n).op, by |-> n] THEN None ELSE holder)
  /\ UNCHANGED taken

\* What a resync has to do: the lists of the main storage, or the backups of profiles.
SyncOf(of, at) == [of |-> of, from |-> at, at |-> "clear"]

SyncSources(cmd) ==
  CASE cmd.name = Main -> {SyncOf(Main, conf)}
    [] cmd.name = "all" -> {SyncOf(p, profiles[p]) : p \in DOMAIN profiles}
    [] OTHER -> {SyncOf(p, profiles[p]) : p \in DOMAIN profiles \cap {cmd.name}}

\* Agent.Resync, with the configuration as it is now and a storage that can be read
\* and written.
BeginSync(n) ==
  LET todo == SyncSources(Cmd(n)) IN
    /\ TaskAt(n, "begin") /\ Cmd(n).cmd \in {"resync", "clear"}
    /\ IF todo = {} /\ Cmd(n).name # "all" THEN Ends(n, "error")
       ELSE tasks' = [tasks EXCEPT ![n].at = "sync", ![n].todo = todo] /\ UNCHANGED lockVars
    /\ LoopOnly /\ UNCHANGED <<confVars, held, listVars, mishaps>>

Todo(n, x, next) == tasks' = [tasks EXCEPT ![n].todo = (@ \ {x}) \cup next]
Syncing(n, x, step) == TaskAt(n, "sync") /\ x \in Task(n).todo /\ x.at = step
SyncOnly == LoopOnly /\ UNCHANGED <<confVars, held, lockVars, mishaps>>

ClearList(n, x) ==
  /\ Syncing(n, x, "clear")
  /\ list' = Without(list, {b \in DOMAIN list : list[b].of = x.of})
  /\ Todo(n, x, IF Cmd(n).cmd = "clear" THEN {} ELSE {[x EXCEPT !.at = "insert"]})
  /\ SyncOnly /\ UNCHANGED <<ranges, restores>>

\* Faulty variant: a backup of which the data is missing is listed as the metadata says.
BackupsOfUnchecked(s, of) == [b \in held[s].meta |-> Record(of, s, "done", 0)]

\* A backup of which the data is missing is listed as failed.
BackupsOf(s, of) == [b \in held[s].meta |-> Record(of, s, IF b \in held[s].data THEN "done" ELSE "error", 0)]

Merged(first, then) == [b \in DOMAIN first \cup DOMAIN then |-> IF b \in DOMAIN first THEN first[b] ELSE then[b]]

\* Faulty variant: no record is replaced.
WithFoundInserted(x) == Merged(list, BackupsOf(x.from, x.of))

\* A record of the main storage replaces one with its name, one of a profile does not.
WithFound(x) ==
  LET found == BackupsOf(x.from, x.of) IN IF x.of = Main THEN Merged(found, list) ELSE Merged(list, found)

InsertBackupList(n, x) ==
  /\ Syncing(n, x, "insert")
  /\ list' = WithFound(x)
  /\ Todo(n, x, IF x.of = Main THEN {[x EXCEPT !.at = "chunks"]} ELSE {})
  /\ SyncOnly /\ UNCHANGED <<ranges, restores>>

SyncOplogRange(n, x) ==
  /\ Syncing(n, x, "chunks")
  /\ ranges' = x.from
  /\ Todo(n, x, {[x EXCEPT !.at = "restores"]})
  /\ SyncOnly /\ UNCHANGED <<list, restores>>

SyncPhysicalRestores(n, x) ==
  /\ Syncing(n, x, "restores")
  /\ restores' = x.from
  /\ Todo(n, x, {})
  /\ SyncOnly /\ UNCHANGED <<list, ranges>>

\* One list of the main storage that cannot be made is left and the next one is
\* begun; a profile's ends the command.
After(step) == CASE step \in {"clear", "insert"} -> "chunks" [] step = "chunks" -> "restores" [] OTHER -> "end"

SyncFails(n, x) ==
  /\ TaskAt(n, "sync") /\ x \in Task(n).todo /\ Mishap
  /\ IF x.of = Main
     THEN /\ Todo(n, x, IF After(x.at) = "end" THEN {} ELSE {[x EXCEPT !.at = After(x.at)]})
          /\ Log(Task(n).op, "error") /\ UNCHANGED <<holder, taken>>
          /\ ranges' = (IF x.at = "chunks" THEN None ELSE ranges)
          /\ restores' = (IF x.at = "restores" THEN None ELSE restores)
     ELSE Ends(n, "error") /\ UNCHANGED <<ranges, restores>>
  /\ LoopOnly /\ UNCHANGED <<confVars, held, list>>

ResyncSucceeds(n) ==
  /\ TaskAt(n, "sync") /\ Task(n).todo = {}
  /\ Ends(n, "succeed")
  /\ LoopOnly /\ UNCHANGED <<confVars, held, listVars, mishaps>>

\* handleAddConfigProfile, with a storage that can be read or initialised.
AddProfile(n) ==
  /\ TaskAt(n, "begin") /\ Cmd(n).cmd = "add"
  /\ profiles' = Put(profiles, Cmd(n).name, Cmd(n).to)
  /\ Ends(n, "done")
  /\ LoopOnly /\ UNCHANGED <<conf, held, listVars, mishaps>>

ClearProfile(n) ==
  /\ TaskAt(n, "begin") /\ Cmd(n).cmd = "remove"
  /\ IF Cmd(n).name \in DOMAIN profiles
     THEN /\ list' = Without(list, {b \in DOMAIN list : list[b].of = Cmd(n).name})
          /\ Goes(n, "remove") /\ UNCHANGED lockVars
     ELSE Ends(n, "error") /\ UNCHANGED list
  /\ LoopOnly /\ UNCHANGED <<confVars, held, ranges, restores, mishaps>>

RemoveProfile(n) ==
  /\ TaskAt(n, "remove")
  /\ profiles' = Without(profiles, {Cmd(n).name})
  /\ Ends(n, "done")
  /\ LoopOnly /\ UNCHANGED <<conf, held, listVars, mishaps>>

Kept(s, names) == [held EXCEPT ![s].data = @ \ names, ![s].meta = @ \ names]

\* DeleteBackup: what the record says is looked at again, the files go first.
DeleteBackupFiles(n) ==
  LET name == Cmd(n).name IN
    /\ TaskAt(n, "begin") /\ Cmd(n).cmd = "delete"
    /\ IF CanDeleteBackup(name)
       THEN held' = Kept(list[name].at, {name}) /\ Goes(n, "record") /\ UNCHANGED lockVars
       ELSE Ends(n, "error") /\ UNCHANGED held
    /\ LoopOnly /\ UNCHANGED <<confVars, listVars, mishaps>>

DeleteBackupRecord(n) ==
  /\ TaskAt(n, "record")
  /\ list' = Without(list, {Cmd(n).name})
  /\ Ends(n, "done")
  /\ LoopOnly /\ UNCHANGED <<confVars, held, ranges, restores, mishaps>>

\* The storage or the database does not answer.
HandlerFails(n) ==
  /\ n \notin gone /\ Task(n).at \in {"begin", "remove", "record"} /\ Mishap
  /\ Ends(n, "error")
  /\ LoopOnly /\ UNCHANGED <<confVars, held, listVars>>

HandlerStep(n) ==
  \/ HearCommand(n) \/ AcquireLockFor(n)
  \/ BeginSync(n) \/ ResyncSucceeds(n)
  \/ \E x \in Task(n).todo :
       ClearList(n, x) \/ InsertBackupList(n, x) \/ SyncOplogRange(n, x) \/ SyncPhysicalRestores(n, x)
  \/ AddProfile(n) \/ ClearProfile(n) \/ RemoveProfile(n)
  \/ DeleteBackupFiles(n) \/ DeleteBackupRecord(n)

HandlerMishap(n) == HandlerFails(n) \/ \E x \in Task(n).todo : SyncFails(n, x)

-----------------------------------------------------------------------------
(* Agent.Backup, as far as the lists are concerned.                          *)

BcpName(b) == sent[b.op].name
BackupAt(b, step) == b \in backups /\ b.at = step
BackupGoes(b, step) == backups' = (backups \ {b}) \cup {[b EXCEPT !.at = step]}
BackupLeaves(b) == backups' = backups \ {b}
BackupOnly == AgentOnly /\ UNCHANGED <<tasks, confVars, ranges, restores>>

\* The leader does not begin while there is a lock.
StartLockCheck(b) ==
  /\ BackupAt(b, "check")
  /\ IF holder = None \/ Stale THEN BackupGoes(b, "config") ELSE BackupLeaves(b)
  /\ BackupOnly /\ UNCHANGED <<held, list, lockVars, mishaps>>

\* GetProfiledConfig: every agent reads the configuration for itself.
ReadConfig(b) ==
  LET of == sent[b.op].to IN
    /\ BackupAt(b, "config")
    /\ IF of # Main /\ of \notin DOMAIN profiles THEN BackupLeaves(b)
       ELSE backups' = (backups \ {b}) \cup
              {[b EXCEPT !.conf = IF of = Main THEN conf ELSE profiles[of],
                         !.at = IF b.by = Primary THEN "init" ELSE "wait"]}
    /\ BackupOnly /\ UNCHANGED <<held, list, lockVars, mishaps>>

\* Backup.Init: a name is in the list once.
InitBackup(b) ==
  /\ BackupAt(b, "init")
  /\ IF BcpName(b) \in DOMAIN list THEN BackupLeaves(b) /\ UNCHANGED list
     ELSE /\ list' = Put(list, BcpName(b), Record(sent[b.op].to, b.conf, "starting", b.op))
          /\ BackupGoes(b, "wait")
  /\ BackupOnly /\ UNCHANGED <<held, lockVars, mishaps>>

\* Nominated, or not within the time.
AwaitNomination(b) ==
  /\ BackupAt(b, "wait")
  /\ \/ BcpName(b) \in DOMAIN list /\ BackupGoes(b, "lock")
     \/ BackupLeaves(b)
  /\ BackupOnly /\ UNCHANGED <<held, list, lockVars, mishaps>>

TakeBackupLock(b) ==
  /\ BackupAt(b, "lock")
  /\ IF CanTake(b.op) THEN Take(b.by, b.op) /\ BackupGoes(b, "run")
     ELSE BackupLeaves(b) /\ UNCHANGED <<list, holder, taken>>
  /\ BackupOnly /\ UNCHANGED <<held, logged, mishaps>>

Drops(b) == holder' = (IF holder = [op |-> b.op, by |-> b.by] THEN None ELSE holder)

SetStatus(name, status) ==
  list' = IF name \in DOMAIN list THEN [list EXCEPT ![name].status = status] ELSE list

\* The data goes to the storage this agent has read; without a record there is no backup.
RunStored(b) ==
  /\ BackupAt(b, "run") /\ BcpName(b) \in DOMAIN list
  /\ held' = [held EXCEPT ![b.conf].data = @ \cup {BcpName(b)}]
  /\ SetStatus(BcpName(b), "running")
  /\ BackupGoes(b, "save")
  /\ BackupOnly /\ UNCHANGED <<lockVars, mishaps>>

WriteMeta(b) ==
  /\ BackupAt(b, "save") /\ BcpName(b) \in DOMAIN list
  /\ held' = [held EXCEPT ![b.conf].meta = @ \cup {BcpName(b)}]
  /\ BackupGoes(b, "done")
  /\ BackupOnly /\ UNCHANGED <<list, lockVars, mishaps>>

BackupDone(b) ==
  /\ BackupAt(b, "done")
  /\ SetStatus(BcpName(b), "done")
  /\ Drops(b) /\ BackupLeaves(b)
  /\ BackupOnly /\ UNCHANGED <<held, taken, logged, mishaps>>

\* The record has gone, or something did not work: the files are removed.
BackupFails(b) ==
  /\ b \in backups /\ b.at \in {"run", "save", "done"}
  /\ \/ BcpName(b) \notin DOMAIN list /\ b.at # "done" /\ UNCHANGED mishaps
     \/ Mishap
  /\ SetStatus(BcpName(b), "error")
  /\ held' = IF b.at = "run" THEN held ELSE Kept(b.conf, {BcpName(b)})
  /\ Drops(b) /\ BackupLeaves(b)
  /\ BackupOnly /\ UNCHANGED <<taken, logged>>

BackupStep(b) ==
  \/ StartLockCheck(b) \/ ReadConfig(b) \/ InitBackup(b) \/ AwaitNomination(b) \/ TakeBackupLock(b)
  \/ RunStored(b) \/ WriteMeta(b) \/ BackupDone(b)
  \/ BcpName(b) \notin DOMAIN list /\ BackupFails(b)

-----------------------------------------------------------------------------
AgentDies(n) ==
  /\ n \notin gone /\ Mishap
  /\ gone' = gone \cup {n}
  /\ tasks' = [tasks EXCEPT ![n] = NoTask]
  /\ backups' = {b \in backups : b.by # n}
  /\ UNCHANGED <<script, sent, client, heard, confVars, held, listVars, lockVars>>

Ended(c) == client[c].at \in {"ok", "failed"}

\* Nobody has anything to do.
Quiet ==
  /\ \A n \in Member \ gone : Task(n).at = "idle" /\ heard[n] = Len(sent)
  /\ backups = {}
  /\ \A c \in DOMAIN client : Ended(c) \/ ClientAt(c, "log")

CatalogRests == Quiet /\ UNCHANGED catalogVars

CatalogProgress ==
  \/ \E c \in DOMAIN client : ClientStep(c)
  \/ \E n \in Member : HandlerStep(n)
  \/ \E b \in backups : BackupStep(b)

CatalogNext ==
  \/ CatalogProgress
  \/ \E n \in Member : HandlerMishap(n) \/ AgentDies(n)
  \/ \E b \in backups : BackupFails(b)
  \/ CatalogRests

CatalogSpec == CatalogInit /\ [][CatalogNext]_catalogVars /\ WF_catalogVars(CatalogProgress)

-----------------------------------------------------------------------------
StoredAt(b, s) == b \in held[s].data \cap held[s].meta

Asked(kinds) == {c \in DOMAIN client : Ask(c).do \in kinds}
Deleting(b) == \E i \in taken : sent[i].cmd = "delete" /\ sent[i].name = b

\* The leader and the nominated agent read different configurations.
Strayed(b) == list[b].op # 0 /\ Asked({"file", "set", "add"}) # {} /\ \E s \in DOMAIN held : StoredAt(b, s)

\* What the list shows as done is in the storage the record names, whatever
\* changes of the configuration, resyncs and failures have come between
\* (insertBackupList, getAllBackupMetaFromStorage, DeleteBackupData).
ListedIsStored ==
  \A b \in DOMAIN list :
    list[b].status = "done" => StoredAt(b, list[b].at) \/ Deleting(b) \/ Strayed(b)

Shows(of, s) == \A b \in held[s].meta : b \in DOMAIN list /\ (of = Main => list[b].of = Main /\ list[b].at = s)

\* A resync that is logged as succeeded, with no error before, has listed every
\* backup of its storage, and everything of the main storage from the same one.
\* Profiles that are synced together promise less: what one of them finds may be
\* listed as another's, which then clears it
\* (Agent.Resync, handleSyncAllProfiles, resync.Resync, SyncBackupList).
SyncedIsListed ==
  [][\A i \in DOMAIN logged' \ DOMAIN logged :
       LET cmd == sent[logged'[i][1]] IN
         (logged'[i][2] = "succeed" /\ cmd.cmd = "resync" /\ ~Errors(logged'[i][1])) =>
           IF cmd.name = Main THEN restores = ranges /\ Shows(Main, ranges)
           ELSE \A p \in DOMAIN profiles :
                  SyncSources(cmd) = {SyncOf(p, profiles[p])} => Shows(p, profiles[p])]_catalogVars

\* Every client comes to an end, unless it waits for the log of a resync that
\* found the lock taken, or of which the agent died (WaitForResync, waitOp,
\* waitForBcpStatus).
ClientsEnd ==
  <>[](\A c \in DOMAIN client :
         Ended(c) \/ (ClientAt(c, "log") /\ (client[c].op \notin taken \/ gone # {})))
===============================================================================

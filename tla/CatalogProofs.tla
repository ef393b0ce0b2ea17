---------------------------- MODULE CatalogProofs ----------------------------
(***************************************************************************)
(* The lists in the database agree with the storages, whatever the clients *)
(* ask and whichever agents fail: what is shown as done is stored where    *)
(* its record says, and a resync that says it succeeded has listed what    *)
(* its storage holds.  The lock keeps the handlers and the backup that     *)
(* runs apart; the rest of a backup, before its lock, is told apart by its *)
(* name, which no storage knows yet.                                       *)
(***************************************************************************)
EXTENDS Catalog, TLAPS

Storages == DOMAIN script.held
Profiles == {Main} \cup DOMAIN script.profiles \cup {Ask(c).name : c \in DOMAIN script.asks}
Sources == {Main, None} \cup {Ask(c).to : c \in DOMAIN script.asks} \cup {Ask(c).of : c \in DOMAIN script.asks}
Kinds == {"resync", "clear", "add", "remove", "backup", "delete"}
Messages == [cmd : Kinds, name : Profiles, to : Sources]
Syncs == [of : Profiles, from : Storages, at : {"clear", "insert", "chunks", "restores"}]
Working == {"begin", "sync", "remove", "record"}
Running == {"run", "save", "done"}

\* The clients' steps for each thing they ask.
AskSteps(do) ==
  CASE do \in {"file", "set"} -> {"check", "ready", "set", "compare", "log", "ok", "failed"}
    [] do = "add" -> {"check", "ready", "removed", "add", "added", "sync", "log", "ok", "failed"}
    [] do = "backup" -> {"check", "ready", "exists", "starts", "runs", "ok", "failed"}
    [] OTHER -> {"check", "ready", "log", "waited", "deleted", "ok", "failed"}

Tasks == [op : Nat, at : {"idle", "lock"} \cup Working, todo : SUBSET Syncs]
Backups == [by : Member, op : Nat, at : {"check", "config", "init", "wait", "lock"} \cup Running,
            conf : Storages \cup {None}]

ClientSteps ==
  {"check", "ready", "set", "compare", "removed", "add", "added", "sync", "log", "exists", "starts", "runs",
   "waited", "deleted", "ok", "failed"}

TypeOK ==
  /\ script \in Scripts
  /\ DOMAIN held = Storages /\ \A s \in Storages : DOMAIN held[s] = {"data", "meta"}
  /\ conf \in Storages
  /\ DOMAIN profiles \subseteq Profiles \ {Main} /\ \A p \in DOMAIN profiles : profiles[p] \in Storages
  /\ \A z \in DOMAIN list :
       DOMAIN list[z] = {"of", "at", "status", "op"} /\ list[z].at \in Storages /\ list[z].op \in 0..Len(sent)
  /\ sent \in Seq(Messages)
  /\ client \in [DOMAIN script.asks -> [at : ClientSteps, op : Nat, old : Storages \cup {None}]]
  /\ \A c \in DOMAIN script.asks : client[c].at \in AskSteps(Ask(c).do)
  /\ heard \in [Member -> Nat] /\ \A n \in Member : heard[n] <= Len(sent)
  /\ tasks \in [Member -> Tasks]
  /\ backups \subseteq Backups
  /\ holder \in {None} \cup [op : Nat, by : Member]
  /\ taken \subseteq 1..Len(sent)
  /\ logged \in Seq(Nat \X {"error", "succeed", "done"})
  /\ gone \subseteq Member

\* Of a client that asks for a backup there is one command, with the name it chose.
MessagesAreAsked ==
  /\ \A i \in 1..Len(sent) :
       /\ sent[i].cmd = "backup" => \E c \in DOMAIN client : Ask(c).do = "backup" /\ client[c].op = i
       /\ sent[i].cmd = "add" => sent[i].to \in Storages /\ sent[i].name # Main /\ Asked({"add"}) # {}
  /\ \A c \in DOMAIN client : Ask(c).do = "backup" =>
       /\ ClientAt(c, "check") \/ ClientAt(c, "ready") => client[c].op = 0
       /\ client[c].op # 0 =>
            /\ client[c].op \in 1..Len(sent)
            /\ sent[client[c].op].cmd = "backup" /\ sent[client[c].op].name = Ask(c).name

\* Whoever works holds the lock, and has not died.
TasksAreLocked ==
  \A n \in Member : tasks[n].at # "idle" =>
    /\ n \notin gone /\ tasks[n].op \in 1..heard[n] /\ Cmd(n).cmd # "backup"
    /\ tasks[n].at \in Working => holder = [op |-> tasks[n].op, by |-> n] /\ tasks[n].op \in taken
    /\ tasks[n].at = "sync" => Cmd(n).cmd \in {"resync", "clear"}
    /\ tasks[n].at = "record" => Cmd(n).cmd = "delete"

BackupsAreLocked ==
  /\ \A b \in backups :
       /\ b.by \notin gone /\ b.op \in 1..heard[b.by] /\ sent[b.op].cmd = "backup"
       /\ b.at \notin {"check", "config"} => b.conf \in Storages
       /\ b.at \in Running => holder = [op |-> b.op, by |-> b.by] /\ b.op \in taken
  /\ \A a, b \in backups : a.op = b.op /\ a.by = b.by => a = b

\* Until the backup of a client has stored something, its name is in no storage, and
\* the list has it, if at all, from the backup's own start.
Unstored(c) == client[c].op \notin taken \/ \E b \in backups : b.op = client[c].op /\ b.at = "run"

NamesAreFresh ==
  \A c \in DOMAIN client : Ask(c).do = "backup" /\ Unstored(c) =>
    /\ \A s \in Storages : Ask(c).name \notin held[s].data \cup held[s].meta
    /\ Ask(c).name \in DOMAIN list => client[c].op # 0 /\ list[Ask(c).name].op = client[c].op

\* What a backup has stored so far.
RunsAreListed ==
  \A b \in backups : b.at \in {"save", "done"} =>
    /\ BcpName(b) \in DOMAIN list /\ list[BcpName(b)].op = b.op
    /\ BcpName(b) \in held[b.conf].data
    /\ b.at = "done" => BcpName(b) \in held[b.conf].meta

\* With no change of the configuration all agents read the same one.
First(of) == IF of = Main THEN script.conf ELSE script.profiles[of]

ConfigurationStands ==
  Asked({"file", "set", "add"}) = {} =>
    /\ conf = script.conf
    /\ \A p \in DOMAIN profiles : profiles[p] = script.profiles[p]
    /\ \A b \in backups : b.at \notin {"check", "config"} => b.conf = First(sent[b.op].to)
    /\ \A z \in DOMAIN list : list[z].op # 0 => list[z].at = First(sent[list[z].op].to)

\* What a resync without an error has listed so far.
MainSynced(todo, s) ==
  \/ todo \in {{[of |-> Main, from |-> s, at |-> "clear"]}, {[of |-> Main, from |-> s, at |-> "insert"]}}
  \/ /\ Shows(Main, s)
     /\ \/ todo = {[of |-> Main, from |-> s, at |-> "chunks"]}
        \/ todo = {[of |-> Main, from |-> s, at |-> "restores"]} /\ ranges = s
        \/ todo = {} /\ ranges = s /\ restores = s

ProfileSynced(todo, p) ==
  \/ todo \in {{[of |-> p, from |-> profiles[p], at |-> "clear"]}, {[of |-> p, from |-> profiles[p], at |-> "insert"]}}
  \/ todo = {} /\ Shows(p, profiles[p])

SyncsShow ==
  \A n \in Member : tasks[n].at = "sync" /\ Cmd(n).cmd = "resync" /\ ~Errors(tasks[n].op) =>
    /\ Cmd(n).name = Main => \E s \in Storages : MainSynced(tasks[n].todo, s)
    /\ Cmd(n).name # Main => \A p \in DOMAIN profiles :
         SyncSources(Cmd(n)) = {SyncOf(p, profiles[p])} => ProfileSynced(tasks[n].todo, p)

CatalogInv ==
  /\ TypeOK /\ MessagesAreAsked /\ TasksAreLocked /\ BackupsAreLocked /\ NamesAreFresh /\ RunsAreListed
  /\ ConfigurationStands /\ ListedIsStored /\ SyncsShow

-----------------------------------------------------------------------------
(* What the lock, the list and the script give at once.                      *)

LEMMA ScriptOfState ==
  ASSUME TypeOK PROVE ScriptInOrder(script) /\ DOMAIN client = DOMAIN script.asks
BY ScriptsAssumption DEF TypeOK

\* While somebody works nobody else does.
LEMMA OneTaskWorks ==
  ASSUME TypeOK, TasksAreLocked, BackupsAreLocked, NEW n \in Member, tasks[n].at \in Working
  PROVE  /\ n \notin gone /\ holder = [op |-> tasks[n].op, by |-> n] /\ holder # None
         /\ \A m \in Member \ {n} : tasks[m].at \notin Working
         /\ \A b \in backups : b.at \notin Running
<1>1. n \notin gone /\ holder = [op |-> tasks[n].op, by |-> n] /\ Cmd(n).cmd # "backup" /\ tasks[n].op \in Nat
  BY DEF TasksAreLocked, TypeOK, Tasks, Working
<1>2. holder # None
  BY <1>1, CatalogAssumptions
<1>3. ASSUME NEW m \in Member, tasks[m].at \in Working PROVE m = n
  BY <1>1, <1>3 DEF TasksAreLocked, Working
<1>4. ASSUME NEW b \in backups, b.at \in Running PROVE FALSE
  BY <1>1, <1>4 DEF BackupsAreLocked, Cmd, Task
<1> QED BY <1>1, <1>2, <1>3, <1>4

LEMMA OneBackupRuns ==
  ASSUME TypeOK, TasksAreLocked, BackupsAreLocked, NEW b \in backups, b.at \in Running
  PROVE  /\ b.by \notin gone /\ holder = [op |-> b.op, by |-> b.by] /\ holder # None
         /\ \A m \in Member : tasks[m].at \notin Working
         /\ \A a \in backups \ {b} : a.at \notin Running
<1>1. /\ b.by \notin gone /\ holder = [op |-> b.op, by |-> b.by] /\ sent[b.op].cmd = "backup"
      /\ b.op \in Nat /\ b.by \in Member
  BY DEF BackupsAreLocked, TypeOK, Backups
<1>2. holder # None
  BY <1>1, CatalogAssumptions
<1>3. ASSUME NEW m \in Member, tasks[m].at \in Working PROVE FALSE
  BY <1>1, <1>3 DEF TasksAreLocked, Working, Cmd, Task
<1>4. ASSUME NEW a \in backups, a.at \in Running PROVE a = b
  BY <1>1, <1>4 DEF BackupsAreLocked
<1> QED BY <1>1, <1>2, <1>3, <1>4

\* And while the lock can be taken nobody works.
LEMMA FreeLock ==
  ASSUME TypeOK, TasksAreLocked, BackupsAreLocked, holder = None \/ Stale
  PROVE  /\ \A n \in Member : tasks[n].at \notin Working
         /\ \A b \in backups : b.at \notin Running
<1>1. ASSUME NEW n \in Member, tasks[n].at \in Working PROVE FALSE
  <2>1. n \notin gone /\ holder = [op |-> tasks[n].op, by |-> n] /\ holder # None
    BY <1>1, OneTaskWorks
  <2> QED BY <2>1 DEF Stale
<1>2. ASSUME NEW b \in backups, b.at \in Running PROVE FALSE
  <2>1. b.by \notin gone /\ holder = [op |-> b.op, by |-> b.by] /\ holder # None
    BY <1>2, OneBackupRuns
  <2> QED BY <2>1 DEF Stale
<1> QED BY <1>1, <1>2

\* What marking the backup of a dead holder leaves.
LEMMA MarkedList ==
  ASSUME TypeOK
  PROVE  /\ DOMAIN MarkBcpStale = DOMAIN list
         /\ \A z \in DOMAIN list :
              /\ DOMAIN MarkBcpStale[z] = {"of", "at", "status", "op"}
              /\ MarkBcpStale[z].of = list[z].of /\ MarkBcpStale[z].at = list[z].at
              /\ MarkBcpStale[z].op = list[z].op
              /\ MarkBcpStale[z].status = "done" => list[z].status = "done"
<1>1. CASE Stale /\ sent[holder.op].cmd = "backup"
  BY <1>1 DEF MarkBcpStale, TypeOK
<1>2. CASE ~(Stale /\ sent[holder.op].cmd = "backup")
  BY <1>2 DEF MarkBcpStale, TypeOK
<1> QED BY <1>1, <1>2

\* The backup that a command asks for is one client's.
LEMMA AskedOnce ==
  ASSUME TypeOK, MessagesAreAsked, NEW i \in 1..Len(sent), sent[i].cmd = "backup"
  PROVE  \E c \in DOMAIN client :
           /\ Ask(c).do = "backup" /\ client[c].op = i /\ Ask(c).name = sent[i].name
           /\ \A d \in DOMAIN client : Ask(d).do = "backup" /\ d # c => Ask(d).name # sent[i].name
<1>1. PICK c \in DOMAIN client : Ask(c).do = "backup" /\ client[c].op = i
  BY DEF MessagesAreAsked
<1>2. Len(sent) \in Nat
  BY DEF TypeOK
<1>3. i # 0
  BY <1>2
<1>4. Ask(c).name = sent[i].name
  BY <1>1, <1>3 DEF MessagesAreAsked
<1>5. ScriptInOrder(script) /\ DOMAIN client = DOMAIN script.asks
  BY ScriptOfState
<1>6. ASSUME NEW d \in DOMAIN client, Ask(d).do = "backup", d # c PROVE Ask(d).name # Ask(c).name
  BY <1>1, <1>5, <1>6 DEF ScriptInOrder, Ask
<1> QED BY <1>1, <1>4, <1>6

-----------------------------------------------------------------------------
(* The first state.                                                          *)

LEMMA CatalogInitInv == CatalogInit => CatalogInv
<1> SUFFICES ASSUME NEW x \in Scripts, CatalogStart(x) PROVE CatalogInv
  BY DEF CatalogInit
<1> USE DEF CatalogStart
<1>0. ScriptInOrder(x) /\ script = x
  BY ScriptsAssumption
<1>s. Len(sent) = 0 /\ sent \in Seq(Messages) /\ logged \in Seq(Nat \X {"error", "succeed", "done"})
  OBVIOUS
<1>c. /\ client \in [DOMAIN script.asks -> [at : ClientSteps, op : Nat, old : Storages \cup {None}]]
      /\ \A c \in DOMAIN script.asks : client[c].at = "check" /\ client[c].op = 0
  <2>1. client = [c \in DOMAIN script.asks |-> [at |-> "check", op |-> 0, old |-> None]]
    BY <1>0
  <2> HIDE DEF CatalogStart
  <2>2. [at |-> "check", op |-> 0, old |-> None] \in [at : ClientSteps, op : Nat, old : Storages \cup {None}]
    BY DEF ClientSteps
  <2> QED BY <2>1, <2>2
<1>t. /\ tasks \in [Member -> Tasks]
      /\ \A n \in Member : tasks[n].at = "idle"
  BY DEF NoTask, Tasks
<1>1. TypeOK
  <2>1. DOMAIN held = Storages /\ (\A s \in Storages : DOMAIN held[s] = {"data", "meta"}) /\ conf \in Storages
    BY <1>0 DEF ScriptInOrder, Storages
  <2>2. DOMAIN profiles \subseteq Profiles \ {Main} /\ \A p \in DOMAIN profiles : profiles[p] \in Storages
    BY <1>0 DEF ScriptInOrder, Storages, Profiles, Main
  <2>3. \A z \in DOMAIN list : /\ DOMAIN list[z] = {"of", "at", "status", "op"}
                               /\ list[z].at \in Storages /\ list[z].op \in 0..Len(sent)
    <3>1. list = script.list /\ held = script.held
      BY <1>0
    <3>2. \A z \in DOMAIN script.list :
            /\ DOMAIN script.list[z] = {"of", "at", "status", "op"}
            /\ script.list[z].op = 0 /\ script.list[z].at \in DOMAIN script.held
      BY <1>0 DEF ScriptInOrder
    <3>3. 0 \in 0..Len(sent)
      BY <1>s
    <3> HIDE DEF CatalogStart
    <3> QED BY <3>1, <3>2, <3>3 DEF Storages
  <2>4. \A c \in DOMAIN script.asks : client[c].at \in AskSteps(Ask(c).do)
    BY <1>c DEF AskSteps
  <2>5. heard \in [Member -> Nat] /\ (\A n \in Member : heard[n] <= Len(sent)) /\ taken \subseteq 1..Len(sent)
    BY <1>s
  <2> QED BY <1>0, <1>s, <1>c, <1>t, <2>1, <2>2, <2>3, <2>4, <2>5 DEF TypeOK
<1>2. MessagesAreAsked
  BY <1>s, <1>c DEF MessagesAreAsked
<1>3. TasksAreLocked /\ SyncsShow
  BY <1>t DEF TasksAreLocked, SyncsShow
<1>b. BackupsAreLocked /\ RunsAreListed
  BY DEF BackupsAreLocked, RunsAreListed
<1>4. NamesAreFresh
  BY <1>0, <1>c DEF NamesAreFresh, ScriptInOrder, Storages, Ask
<1>5. ConfigurationStands
  <2>1. \A z \in DOMAIN list : list[z].op = 0
    BY <1>0 DEF ScriptInOrder
  <2> QED BY <1>0, <2>1 DEF ConfigurationStands
<1>6. ListedIsStored
  BY <1>0 DEF ListedIsStored, ScriptInOrder, StoredAt
<1> QED BY <1>1, <1>2, <1>3, <1>b, <1>4, <1>5, <1>6 DEF CatalogInv

-----------------------------------------------------------------------------
(* The clients.                                                              *)

ClientMoves(c) ==
  /\ ClientOnly /\ profiles' = profiles
  /\ client' \in [DOMAIN script.asks -> [at : ClientSteps, op : Nat, old : Storages \cup {None}]]
  /\ \A d \in DOMAIN client : d # c => client'[d] = client[d]
  /\ client'[c].at \in AskSteps(Ask(c).do)
  /\ Ask(c).do = "backup" /\ client'[c].at \in {"check", "ready"} => client[c].at = "check"
  /\ conf' = conf \/ (Ask(c).do \in {"file", "set"} /\ conf' = Ask(c).to)
  /\ \/ sent' = sent /\ client'[c].op = client[c].op
     \/ \E m \in Messages :
          /\ sent' = Append(sent, m) /\ client'[c].op = Len(sent) + 1
          /\ m.cmd = "backup" <=> Ask(c).do = "backup"
          /\ Ask(c).do = "backup" =>
               m.name = Ask(c).name /\ client[c].at = "ready" /\ client'[c].at \notin {"check", "ready"}
          /\ m.cmd = "add" => Ask(c).do = "add" /\ m.name = Ask(c).name /\ m.to = Ask(c).to

\* Where a client is tells what it asks.
LEMMA StepsTell ==
  ASSUME TypeOK, NEW c \in DOMAIN client
  PROVE  /\ c \in DOMAIN script.asks /\ client[c].at \in AskSteps(Ask(c).do)
         /\ client[c].at \in {"set", "compare"} => Ask(c).do \in {"file", "set"}
         /\ client[c].at \in {"removed", "added", "add", "sync"} => Ask(c).do = "add"
         /\ client[c].at \in {"exists", "starts", "runs"} => Ask(c).do = "backup"
         /\ client[c].at \in {"log", "waited", "deleted"} => Ask(c).do # "backup"
         /\ client[c].at \in {"waited", "deleted"} => Ask(c).do \notin {"file", "set", "add", "backup"}
<1>1. c \in DOMAIN script.asks /\ client[c].at \in AskSteps(Ask(c).do)
  BY DEF TypeOK
<1> QED BY <1>1 DEF AskSteps

LEMMA ClientBecomes ==
  ASSUME TypeOK, NEW c \in DOMAIN client, NEW step \in ClientSteps, Becomes(c, step)
  PROVE  /\ client' \in [DOMAIN script.asks -> [at : ClientSteps, op : Nat, old : Storages \cup {None}]]
         /\ \A d \in DOMAIN client : d # c => client'[d] = client[d]
         /\ client'[c].at = step /\ client'[c].op = client[c].op
<1>1. client \in [DOMAIN script.asks -> [at : ClientSteps, op : Nat, old : Storages \cup {None}]]
  BY DEF TypeOK
<1>2. client' = [client EXCEPT ![c] = [client[c] EXCEPT !.at = step]]
  BY DEF Becomes
<1>3. client[c] \in [at : ClientSteps, op : Nat, old : Storages \cup {None}]
  BY <1>1
<1>4. /\ [client[c] EXCEPT !.at = step] \in [at : ClientSteps, op : Nat, old : Storages \cup {None}]
      /\ [client[c] EXCEPT !.at = step].at = step /\ [client[c] EXCEPT !.at = step].op = client[c].op
  BY <1>3
<1> QED BY <1>1, <1>2, <1>4

LEMMA ClientSends ==
  ASSUME TypeOK, NEW c \in DOMAIN client, NEW cmd \in Kinds, NEW name \in Profiles, NEW to \in Sources,
         NEW step \in ClientSteps, Send(c, cmd, name, to, step)
  PROVE  /\ client' \in [DOMAIN script.asks -> [at : ClientSteps, op : Nat, old : Storages \cup {None}]]
         /\ \A d \in DOMAIN client : d # c => client'[d] = client[d]
         /\ client'[c].at = step /\ client'[c].op = Len(sent) + 1
         /\ [cmd |-> cmd, name |-> name, to |-> to] \in Messages
         /\ sent' = Append(sent, [cmd |-> cmd, name |-> name, to |-> to])
<1>1. Len(sent) + 1 \in Nat
  BY DEF TypeOK
<1>2. [cmd |-> cmd, name |-> name, to |-> to] \in Messages
  BY DEF Messages
<1>3. client \in [DOMAIN script.asks -> [at : ClientSteps, op : Nat, old : Storages \cup {None}]]
  BY DEF TypeOK
<1> DEFINE new == [client[c] EXCEPT !.at = step, !.op = Len(sent) + 1]
<1>4. client' = [client EXCEPT ![c] = new]
  BY <1>3 DEF Send
<1>5. client[c] \in [at : ClientSteps, op : Nat, old : Storages \cup {None}]
  BY <1>3
<1>6. new \in [at : ClientSteps, op : Nat, old : Storages \cup {None}] /\ new.at = step /\ new.op = Len(sent) + 1
  BY <1>1, <1>5
<1> HIDE DEF new
<1>7. /\ client' \in [DOMAIN script.asks -> [at : ClientSteps, op : Nat, old : Storages \cup {None}]]
      /\ \A d \in DOMAIN client : d # c => client'[d] = client[d]
      /\ client'[c].at = step /\ client'[c].op = Len(sent) + 1
  BY <1>3, <1>4, <1>6
<1> QED BY <1>2, <1>7 DEF Send

LEMMA ClientStepMoves ==
  ASSUME TypeOK, NEW c \in DOMAIN client, ClientStep(c) PROVE ClientMoves(c)
<1>1. /\ c \in DOMAIN script.asks /\ client[c].at \in AskSteps(Ask(c).do)
      /\ client[c].at \in {"set", "compare"} => Ask(c).do \in {"file", "set"}
      /\ client[c].at \in {"removed", "added", "add", "sync"} => Ask(c).do = "add"
      /\ client[c].at \in {"exists", "starts", "runs"} => Ask(c).do = "backup"
      /\ client[c].at \in {"log", "waited", "deleted"} => Ask(c).do # "backup"
      /\ client[c].at \in {"waited", "deleted"} => Ask(c).do \notin {"file", "set", "add", "backup"}
  BY StepsTell
<1>n. Main \in Profiles /\ Ask(c).name \in Profiles /\ {None, Ask(c).to, Ask(c).of} \subseteq Sources
  BY <1>1 DEF Profiles, Sources
<1>a. \A step \in {"ok", "failed", "ready"} : step \in ClientSteps /\ step \in AskSteps(Ask(c).do)
  BY DEF ClientSteps, AskSteps
<1>w. ASSUME NEW step \in AskSteps(Ask(c).do), Becomes(c, step), ClientWaits,
             step \notin {"check", "ready"} \/ ClientAt(c, "check")
      PROVE  ClientMoves(c)
  <2>1. step \in ClientSteps
    BY DEF AskSteps, ClientSteps
  <2>2. /\ client' \in [DOMAIN script.asks -> [at : ClientSteps, op : Nat, old : Storages \cup {None}]]
        /\ \A d \in DOMAIN client : d # c => client'[d] = client[d]
        /\ client'[c].at = step /\ client'[c].op = client[c].op
    BY <1>w, <2>1, ClientBecomes
  <2> QED BY <1>w, <2>2 DEF ClientMoves, ClientWaits, ClientAt, confVars
<1>s. ASSUME NEW cmd \in Kinds, NEW name \in Profiles, NEW to \in Sources, NEW step \in AskSteps(Ask(c).do),
             Send(c, cmd, name, to, step), ClientOnly, UNCHANGED confVars, step \notin {"check", "ready"},
             cmd = "backup" <=> Ask(c).do = "backup",
             cmd = "backup" => name = Ask(c).name /\ ClientAt(c, "ready"),
             cmd = "add" => Ask(c).do = "add" /\ name = Ask(c).name /\ to = Ask(c).to
      PROVE  ClientMoves(c)
  <2>1. step \in ClientSteps
    BY DEF AskSteps, ClientSteps
  <2> DEFINE m == [cmd |-> cmd, name |-> name, to |-> to]
  <2>2. m \in Messages /\ sent' = Append(sent, m) /\ client'[c].op = Len(sent) + 1 /\ client'[c].at = step
    BY <1>s, <2>1, ClientSends
  <2>3. /\ client' \in [DOMAIN script.asks -> [at : ClientSteps, op : Nat, old : Storages \cup {None}]]
        /\ \A d \in DOMAIN client : d # c => client'[d] = client[d]
    BY <1>s, <2>1, ClientSends
  <2>4. m.cmd = cmd /\ m.name = name /\ m.to = to
    OBVIOUS
  <2> QED BY <1>s, <2>2, <2>3, <2>4 DEF ClientMoves, confVars, ClientAt
<1>2. CASE CheckForAnotherOperation(c)
  BY <1>2, <1>a, <1>w DEF CheckForAnotherOperation
<1>3. CASE ReadOldConfig(c)
  <2>1. "set" \in AskSteps(Ask(c).do)
    BY <1>3 DEF ReadOldConfig, AskSteps
  <2>2. client' = [client EXCEPT ![c].at = "set", ![c].old = conf] /\ ClientWaits
    BY <1>3 DEF ReadOldConfig
  <2>3. "set" \in ClientSteps /\ conf \in Storages
    BY DEF ClientSteps, TypeOK
  <2>4. /\ client' \in [DOMAIN script.asks -> [at : ClientSteps, op : Nat, old : Storages \cup {None}]]
        /\ \A d \in DOMAIN client : d # c => client'[d] = client[d]
        /\ client'[c].at = "set" /\ client'[c].op = client[c].op
    <3>1. client \in [DOMAIN script.asks -> [at : ClientSteps, op : Nat, old : Storages \cup {None}]]
      BY DEF TypeOK
    <3> DEFINE new == [client[c] EXCEPT !.at = "set", !.old = conf]
    <3>2. client' = [client EXCEPT ![c] = new]
      BY <2>2, <3>1
    <3>3. client[c] \in [at : ClientSteps, op : Nat, old : Storages \cup {None}]
      BY <3>1
    <3>4. new \in [at : ClientSteps, op : Nat, old : Storages \cup {None}] /\ new.at = "set" /\ new.op = client[c].op
      BY <2>3, <3>3
    <3> HIDE DEF new
    <3> QED BY <3>1, <3>2, <3>4
  <2> QED BY <2>1, <2>2, <2>4 DEF ClientMoves, ClientWaits, confVars
<1>4. CASE SetConfig(c)
  <2>1. Ask(c).do \in {"file", "set"} /\ Becomes(c, "compare") /\ conf' = Ask(c).to
    BY <1>1, <1>4 DEF SetConfig, ClientAt
  <2>2. "compare" \in AskSteps(Ask(c).do) /\ "compare" \in ClientSteps
    BY <2>1 DEF AskSteps, ClientSteps
  <2> QED BY <1>4, <2>1, <2>2, ClientBecomes DEF ClientMoves, SetConfig
<1>5. CASE ResyncIfNeeded(c)
  <2>1. Ask(c).do \in {"file", "set"}
    BY <1>1, <1>5 DEF ResyncIfNeeded, ClientAt
  <2>2. "log" \in AskSteps(Ask(c).do) /\ "resync" \in Kinds
    BY <2>1 DEF AskSteps, Kinds
  <2>3. \/ Becomes(c, "ok") /\ UNCHANGED sent
        \/ Send(c, "resync", Main, None, "log")
    BY <1>5 DEF ResyncIfNeeded
  <2>4. ClientOnly /\ UNCHANGED confVars
    BY <1>5 DEF ResyncIfNeeded
  <2>5. CASE Becomes(c, "ok") /\ UNCHANGED sent
    BY <2>4, <2>5, <1>a, <1>w DEF ClientWaits, confVars
  <2>6. CASE Send(c, "resync", Main, None, "log")
    BY <2>1, <2>2, <2>4, <2>6, <1>n, <1>s
  <2> QED BY <2>3, <2>5, <2>6
<1>6. CASE SyncFromStorage(c)
  <2>1. Ask(c).do \in {"resync", "clear"} /\ Send(c, Ask(c).do, Ask(c).name, None, "log")
        /\ ClientOnly /\ UNCHANGED confVars
    BY <1>6 DEF SyncFromStorage
  <2>2. "log" \in AskSteps(Ask(c).do) /\ Ask(c).do \in Kinds
    BY <2>1 DEF AskSteps, Kinds
  <2> QED BY <2>1, <2>2, <1>n, <1>s
<1>7. CASE AddConfigProfile(c)
  <2>1. Ask(c).do = "add"
    BY <1>1, <1>7 DEF AddConfigProfile, ClientAt
  <2>2. {"log", "added", "removed"} \subseteq AskSteps(Ask(c).do) /\ {"remove", "add", "resync"} \subseteq Kinds
    BY <2>1 DEF AskSteps, Kinds
  <2>3. ClientOnly /\ UNCHANGED confVars
    BY <1>7 DEF AddConfigProfile
  <2>4. \/ Send(c, "remove", Ask(c).name, None, "removed")
        \/ Send(c, "add", Ask(c).name, Ask(c).to, "added")
        \/ Send(c, "resync", Ask(c).name, None, "log")
    BY <1>7 DEF AddConfigProfile
  <2>5. CASE Send(c, "remove", Ask(c).name, None, "removed")
    BY <2>1, <2>2, <2>3, <2>5, <1>n, <1>s
  <2>6. CASE Send(c, "add", Ask(c).name, Ask(c).to, "added")
    BY <2>1, <2>2, <2>3, <2>6, <1>n, <1>s
  <2>7. CASE Send(c, "resync", Ask(c).name, None, "log")
    BY <2>1, <2>2, <2>3, <2>7, <1>n, <1>s
  <2> QED BY <2>4, <2>5, <2>6, <2>7
<1>8. CASE RemoveConfigProfile(c)
  <2>1. Ask(c).do = "remove" /\ ClientOnly /\ UNCHANGED confVars
    BY <1>8 DEF RemoveConfigProfile
  <2>2. "waited" \in AskSteps(Ask(c).do) /\ "remove" \in Kinds
    BY <2>1 DEF AskSteps, Kinds
  <2>3. (Becomes(c, "failed") /\ UNCHANGED sent) \/ Send(c, "remove", Ask(c).name, None, "waited")
    BY <1>8 DEF RemoveConfigProfile
  <2>4. CASE Becomes(c, "failed") /\ UNCHANGED sent
    BY <2>1, <2>4, <1>a, <1>w DEF ClientWaits, confVars
  <2>5. CASE Send(c, "remove", Ask(c).name, None, "waited")
    BY <2>1, <2>2, <2>5, <1>n, <1>s
  <2> QED BY <2>3, <2>4, <2>5
<1>9. CASE RunBackup(c)
  <2>1. Ask(c).do = "backup" /\ ClientOnly /\ UNCHANGED confVars /\ ClientAt(c, "ready")
    BY <1>9 DEF RunBackup
  <2>2. "exists" \in AskSteps(Ask(c).do) /\ "backup" \in Kinds
    BY <2>1 DEF AskSteps, Kinds
  <2>3. (Becomes(c, "failed") /\ UNCHANGED sent) \/ Send(c, "backup", Ask(c).name, Ask(c).of, "exists")
    BY <1>9 DEF RunBackup
  <2>4. CASE Becomes(c, "failed") /\ UNCHANGED sent
    BY <2>1, <2>4, <1>a, <1>w DEF ClientWaits, confVars
  <2>5. CASE Send(c, "backup", Ask(c).name, Ask(c).of, "exists")
    BY <2>1, <2>2, <2>5, <1>n, <1>s
  <2> QED BY <2>3, <2>4, <2>5
<1>10. CASE DeleteBackupByName(c)
  <2>1. Ask(c).do = "delete" /\ ClientOnly /\ UNCHANGED confVars
    BY <1>10 DEF DeleteBackupByName
  <2>2. "deleted" \in AskSteps(Ask(c).do) /\ "delete" \in Kinds
    BY <2>1 DEF AskSteps, Kinds
  <2>3. (Becomes(c, "failed") /\ UNCHANGED sent) \/ Send(c, "delete", Ask(c).name, None, "deleted")
    BY <1>10 DEF DeleteBackupByName
  <2>4. CASE Becomes(c, "failed") /\ UNCHANGED sent
    BY <2>1, <2>4, <1>a, <1>w DEF ClientWaits, confVars
  <2>5. CASE Send(c, "delete", Ask(c).name, None, "deleted")
    BY <2>1, <2>2, <2>5, <1>n, <1>s
  <2> QED BY <2>3, <2>4, <2>5
<1>11. CASE WaitOp(c)
  <2>1. AfterLock(c) \in AskSteps(Ask(c).do) \ {"check", "ready"}
    BY <1>1, <1>11 DEF WaitOp, AfterLock, AskSteps, ClientAt
  <2>2. ClientWaits /\ (Becomes(c, "failed") \/ Becomes(c, AfterLock(c)))
    BY <1>11 DEF WaitOp
  <2> QED BY <2>1, <2>2, <1>a, <1>w
<1>12. CASE WaitForResync(c)
  BY <1>12, <1>a, <1>w DEF WaitForResync
<1>13. CASE WaitForBcpExists(c)
  <2>1. "starts" \in AskSteps(Ask(c).do)
    BY <1>1, <1>13 DEF WaitForBcpExists, AskSteps, ClientAt
  <2> QED BY <2>1, <1>13, <1>a, <1>w DEF WaitForBcpExists
<1>14. CASE WaitForBcpStatus(c)
  <2>1. ClientAt(c, "starts") /\ ClientWaits /\ (Becomes(c, "failed") \/ Becomes(c, "runs"))
    BY <1>14 DEF WaitForBcpStatus, StatusWait
  <2>2. "runs" \in AskSteps(Ask(c).do)
    BY <1>1, <2>1 DEF AskSteps, ClientAt
  <2> QED BY <2>1, <2>2, <1>a, <1>w
<1>15. CASE WaitBackup(c)
  <2>1. ClientAt(c, "runs") /\ ClientWaits /\ (Becomes(c, "failed") \/ Becomes(c, "ok"))
    BY <1>15 DEF WaitBackup, StatusWait
  <2> QED BY <2>1, <1>a, <1>w
<1> QED BY <1>2, <1>3, <1>4, <1>5, <1>6, <1>7, <1>8, <1>9, <1>10, <1>11, <1>12, <1>13, <1>14, <1>15
        DEF ClientStep

LEMMA ClientKeeps ==
  ASSUME CatalogInv, NEW c \in DOMAIN client, ClientMoves(c) PROVE CatalogInv'
<1> USE DEF CatalogInv
<1>0. ScriptInOrder(script) /\ DOMAIN client = DOMAIN script.asks /\ c \in DOMAIN script.asks
  BY ScriptOfState
<1>1. /\ UNCHANGED <<script, held, list, ranges, restores, heard, tasks, backups, gone, mishaps>>
      /\ UNCHANGED <<holder, taken, logged, profiles>>
      /\ \A d : Ask(d)' = Ask(d)
  BY DEF ClientMoves, ClientOnly, listVars, agentVars, lockVars, Ask
<1>2. /\ DOMAIN client' = DOMAIN client /\ Storages' = Storages /\ Profiles' = Profiles /\ Sources' = Sources
      /\ Messages' = Messages /\ \A kinds : Asked(kinds)' = Asked(kinds)
  <2>1. script' = script /\ DOMAIN client' = DOMAIN client
    BY <1>0, <1>1 DEF ClientMoves
  <2>2. Storages' = Storages /\ Profiles' = Profiles /\ Sources' = Sources
    BY <2>1 DEF Storages, Profiles, Sources, Ask
  <2>3. \A kinds : Asked(kinds)' = Asked(kinds)
    BY <2>1 DEF Asked, Ask
  <2> QED BY <2>1, <2>2, <2>3 DEF Messages
<1>3. /\ sent \in Seq(Messages) /\ Len(sent) \in Nat
      /\ \A n \in Member : heard[n] \in Nat /\ heard[n] <= Len(sent)
  BY DEF TypeOK
<1>4. /\ sent' \in Seq(Messages) /\ Len(sent') \in Nat /\ Len(sent') >= Len(sent)
      /\ \A i \in 1..Len(sent) : i \in 1..Len(sent') /\ sent'[i] = sent[i]
  <2>1. sent' = sent \/ \E m \in Messages : sent' = Append(sent, m)
    BY DEF ClientMoves
  <2> QED BY <1>3, <2>1
<1>5. TypeOK'
  <2>1. conf' \in Storages
    <3>1. conf \in Storages
      BY DEF TypeOK
    <3>2. Ask(c).do \in {"file", "set"} => Ask(c).to \in Storages
      BY <1>0 DEF ScriptInOrder, Ask, Storages
    <3> QED BY <3>1, <3>2 DEF ClientMoves
  <2>2. \A z \in DOMAIN list : list[z].op \in 0..Len(sent')
    BY <1>3, <1>4 DEF TypeOK
  <2>3. taken \subseteq 1..Len(sent') /\ \A n \in Member : heard[n] <= Len(sent')
    BY <1>3, <1>4 DEF TypeOK
  <2>4. client' \in [DOMAIN script.asks -> [at : ClientSteps, op : Nat, old : Storages \cup {None}]]
    BY DEF ClientMoves
  <2>5. \A d \in DOMAIN script.asks : client'[d].at \in AskSteps(Ask(d).do)
    BY <1>0 DEF ClientMoves, TypeOK
  <2> QED BY <1>1, <1>2, <1>4, <2>1, <2>2, <2>3, <2>4, <2>5 DEF TypeOK, Syncs, Tasks, Backups
<1>6. MessagesAreAsked'
  <2>1. ASSUME NEW i \in 1..Len(sent'), sent'[i].cmd = "backup"
        PROVE  \E d \in DOMAIN client : Ask(d).do = "backup" /\ client'[d].op = i
    <3>1. CASE i \in 1..Len(sent)
      <4>1. PICK d \in DOMAIN client : Ask(d).do = "backup" /\ client[d].op = i
        BY <2>1, <3>1, <1>4 DEF MessagesAreAsked
      <4>2. client'[d].op = i
        BY <4>1, <3>1, <1>3 DEF ClientMoves, MessagesAreAsked, ClientAt
      <4> QED BY <4>1, <4>2
    <3>2. CASE i \notin 1..Len(sent)
      <4>1. PICK m \in Messages : /\ sent' = Append(sent, m) /\ client'[c].op = Len(sent) + 1
                                  /\ m.cmd = "backup" <=> Ask(c).do = "backup"
        BY <3>2, <1>3 DEF ClientMoves
      <4>2. i = Len(sent) + 1 /\ sent'[i] = m
        BY <4>1, <3>2, <1>3
      <4> QED BY <4>1, <4>2, <2>1
    <3> QED BY <3>1, <3>2
  <2>2. ASSUME NEW i \in 1..Len(sent'), sent'[i].cmd = "add"
        PROVE  sent'[i].to \in Storages /\ sent'[i].name # Main /\ Asked({"add"}) # {}
    <3>1. CASE i \in 1..Len(sent)
      BY <2>2, <3>1, <1>4 DEF MessagesAreAsked
    <3>2. CASE i \notin 1..Len(sent)
      <4>1. PICK m \in Messages :
                /\ sent' = Append(sent, m)
                /\ m.cmd = "add" => Ask(c).do = "add" /\ m.name = Ask(c).name /\ m.to = Ask(c).to
        BY <3>2, <1>3 DEF ClientMoves
      <4>2. sent'[i] = m
        BY <4>1, <3>2, <1>3
      <4>3. Ask(c).do = "add" /\ m.name = Ask(c).name /\ m.to = Ask(c).to
        BY <4>1, <4>2, <2>2
      <4>4. m.to \in Storages /\ m.name # Main
        BY <4>3, <1>0 DEF ScriptInOrder, Ask, Storages, Main
      <4>5. c \in Asked({"add"})
        BY <4>3 DEF Asked
      <4> QED BY <4>2, <4>4, <4>5
    <3> QED BY <3>1, <3>2
  <2>3. ASSUME NEW d \in DOMAIN client, Ask(d).do = "backup"
        PROVE  /\ client'[d].at \in {"check", "ready"} => client'[d].op = 0
               /\ client'[d].op # 0 =>
                    /\ client'[d].op \in 1..Len(sent')
                    /\ sent'[client'[d].op].cmd = "backup" /\ sent'[client'[d].op].name = Ask(d).name
    <3>1. /\ client[d].at \in {"check", "ready"} => client[d].op = 0
          /\ client[d].op # 0 =>
               /\ client[d].op \in 1..Len(sent)
               /\ sent[client[d].op].cmd = "backup" /\ sent[client[d].op].name = Ask(d).name
      BY <2>3 DEF MessagesAreAsked, ClientAt
    <3>2. CASE d # c
      BY <3>1, <3>2, <1>4 DEF ClientMoves
    <3>3. CASE d = c /\ sent' = sent /\ client'[c].op = client[c].op
      BY <3>1, <3>3, <2>3 DEF ClientMoves
    <3>4. CASE d = c /\ ~(sent' = sent /\ client'[c].op = client[c].op)
      <4>1. PICK m \in Messages :
                /\ sent' = Append(sent, m) /\ client'[c].op = Len(sent) + 1
                /\ m.cmd = "backup" /\ m.name = Ask(c).name /\ client'[c].at \notin {"check", "ready"}
        BY <3>4, <2>3 DEF ClientMoves
      <4>2. Len(sent) + 1 \in 1..Len(sent') /\ sent'[Len(sent) + 1] = m
        BY <4>1, <1>3
      <4> QED BY <4>1, <4>2, <3>4
    <3> QED BY <3>2, <3>3, <3>4
  <2> QED BY <2>1, <2>2, <2>3, <1>1, <1>2 DEF MessagesAreAsked, ClientAt
<1>7. \A n \in Member : tasks[n].at # "idle" => Cmd(n)' = Cmd(n) /\ tasks[n].op \in 1..Len(sent)
  <2> SUFFICES ASSUME NEW n \in Member, tasks[n].at # "idle" PROVE Cmd(n)' = Cmd(n) /\ tasks[n].op \in 1..Len(sent)
    OBVIOUS
  <2>1. tasks[n].op \in 1..Len(sent)
    BY <1>3 DEF TasksAreLocked
  <2> QED BY <2>1, <1>1, <1>4 DEF Cmd, Task
<1>8. TasksAreLocked'
  BY <1>1, <1>7 DEF TasksAreLocked
<1>9. \A b \in backups : b.op \in 1..Len(sent) /\ sent'[b.op] = sent[b.op] /\ BcpName(b)' = BcpName(b)
  <2> SUFFICES ASSUME NEW b \in backups
               PROVE  b.op \in 1..Len(sent) /\ sent'[b.op] = sent[b.op] /\ BcpName(b)' = BcpName(b)
    OBVIOUS
  <2>1. b.op \in 1..heard[b.by] /\ b.by \in Member
    BY DEF BackupsAreLocked, TypeOK, Backups
  <2>2. b.op \in 1..Len(sent)
    BY <2>1, <1>3
  <2> QED BY <2>2, <1>4 DEF BcpName
<1>10. BackupsAreLocked'
  BY <1>1, <1>2, <1>9 DEF BackupsAreLocked
<1>11. NamesAreFresh'
  <2> SUFFICES ASSUME NEW d \in DOMAIN client, Ask(d).do = "backup", Unstored(d)'
               PROVE  /\ \A s \in Storages : Ask(d).name \notin held[s].data \cup held[s].meta
                      /\ Ask(d).name \in DOMAIN list => client'[d].op # 0 /\ list[Ask(d).name].op = client'[d].op
    BY <1>1, <1>2 DEF NamesAreFresh
  <2>1. CASE client'[d].op = client[d].op
    <3>1. Unstored(d)
      BY <2>1, <1>1 DEF Unstored
    <3> QED BY <2>1, <3>1 DEF NamesAreFresh
  <2>2. CASE client'[d].op # client[d].op
    <3>1. d = c /\ client[d].at = "ready"
      BY <2>2 DEF ClientMoves
    <3>2. client[d].op = 0
      BY <3>1 DEF MessagesAreAsked, ClientAt
    <3>3. Unstored(d)
      BY <3>2, <1>3 DEF Unstored, TypeOK
    <3> QED BY <3>2, <3>3 DEF NamesAreFresh
  <2> QED BY <2>1, <2>2
<1>12. RunsAreListed'
  BY <1>1, <1>9 DEF RunsAreListed
<1>13. ConfigurationStands'
  <2> SUFFICES ASSUME Asked({"file", "set", "add"}) = {}
               PROVE  /\ conf' = script.conf
                      /\ \A p \in DOMAIN profiles : profiles[p] = script.profiles[p]
                      /\ \A b \in backups : b.at \notin {"check", "config"} => b.conf = First(sent'[b.op].to)
                      /\ \A z \in DOMAIN list : list[z].op # 0 => list[z].at = First(sent'[list[z].op].to)
    BY <1>1, <1>2 DEF ConfigurationStands, First
  <2>1. Ask(c).do \notin {"file", "set"}
    BY DEF Asked
  <2>2. conf' = conf
    BY <2>1 DEF ClientMoves
  <2>3. \A z \in DOMAIN list : list[z].op # 0 => list[z].op \in 1..Len(sent)
    BY <1>3 DEF TypeOK
  <2>4. \A z \in DOMAIN list : list[z].op # 0 => sent'[list[z].op] = sent[list[z].op]
    BY <2>3, <1>4
  <2> QED BY <2>2, <2>4, <1>9 DEF ConfigurationStands
<1>14. ListedIsStored'
  <2>1. \A z : Deleting(z) => Deleting(z)'
    <3> SUFFICES ASSUME NEW z, NEW i \in taken, sent[i].cmd = "delete", sent[i].name = z PROVE Deleting(z)'
      BY DEF Deleting
    <3>1. i \in 1..Len(sent)
      BY DEF TypeOK
    <3>2. sent'[i] = sent[i]
      BY <3>1, <1>4
    <3> QED BY <3>2, <1>1 DEF Deleting
  <2>2. \A z, s : (Strayed(z)' <=> Strayed(z)) /\ (StoredAt(z, s)' <=> StoredAt(z, s))
    BY <1>1, <1>2 DEF Strayed, StoredAt
  <2> QED BY <2>1, <2>2, <1>1 DEF ListedIsStored
<1>15. SyncsShow'
  <2> SUFFICES ASSUME NEW n \in Member, tasks[n].at = "sync", Cmd(n).cmd = "resync", ~Errors(tasks[n].op)
               PROVE  /\ Cmd(n).name = Main => \E s \in Storages : MainSynced(tasks[n].todo, s)'
                      /\ Cmd(n).name # Main => \A p \in DOMAIN profiles :
                           SyncSources(Cmd(n))' = {SyncOf(p, profiles[p])} => ProfileSynced(tasks[n].todo, p)'
    BY <1>1, <1>2, <1>7 DEF SyncsShow, Errors, SyncOf
  <2>1. \A of, s : Shows(of, s)' <=> Shows(of, s)
    BY <1>1 DEF Shows
  <2>2. \A todo, s : MainSynced(todo, s)' <=> MainSynced(todo, s)
    BY <2>1, <1>1 DEF MainSynced
  <2>3. \A todo, p : ProfileSynced(todo, p)' <=> ProfileSynced(todo, p)
    BY <2>1, <1>1 DEF ProfileSynced
  <2>4. Cmd(n).name # Main => SyncSources(Cmd(n))' = SyncSources(Cmd(n))
    BY <1>1, <1>7 DEF SyncSources, SyncOf
  <2> QED BY <2>2, <2>3, <2>4, <1>1 DEF SyncsShow
<1> QED BY <1>5, <1>6, <1>8, <1>10, <1>11, <1>12, <1>13, <1>14, <1>15

-----------------------------------------------------------------------------
(* The commands an agent hears, and the lock.                                *)

LEMMA ScriptStays ==
  ASSUME UNCHANGED <<script, sent, client>>, TypeOK, MessagesAreAsked
  PROVE  /\ Storages' = Storages /\ Profiles' = Profiles /\ Sources' = Sources /\ Messages' = Messages
         /\ Syncs' = Syncs /\ Tasks' = Tasks /\ Backups' = Backups
         /\ \A kinds : Asked(kinds)' = Asked(kinds)
         /\ \A c : Ask(c)' = Ask(c)
         /\ \A b : BcpName(b)' = BcpName(b)
         /\ \A of : First(of)' = First(of)
         /\ MessagesAreAsked'
<1>1. Storages' = Storages /\ Profiles' = Profiles /\ Sources' = Sources
  BY DEF Storages, Profiles, Sources, Ask
<1>2. Messages' = Messages /\ Syncs' = Syncs
  BY <1>1 DEF Messages, Syncs
<1>3. Tasks' = Tasks /\ Backups' = Backups
  BY <1>1, <1>2 DEF Tasks, Backups
<1>4. \A kinds : Asked(kinds)' = Asked(kinds)
  BY DEF Asked, Ask
<1>5. \A c : Ask(c)' = Ask(c)
  BY DEF Ask
<1>6. (\A b : BcpName(b)' = BcpName(b)) /\ \A of : First(of)' = First(of)
  BY DEF BcpName, First
<1>7. MessagesAreAsked'
  BY <1>1, <1>4, <1>5 DEF MessagesAreAsked, ClientAt
<1> QED BY <1>1, <1>2, <1>3, <1>4, <1>5, <1>6, <1>7

\* The records stay, but for what failed.
SameRecords ==
  /\ DOMAIN list' = DOMAIN list
  /\ \A z \in DOMAIN list :
       /\ DOMAIN list'[z] = {"of", "at", "status", "op"}
       /\ list'[z].of = list[z].of /\ list'[z].at = list[z].at /\ list'[z].op = list[z].op
       /\ list'[z].status = "done" => list[z].status = "done"

\* What does not touch the lists cannot make them wrong.
LEMMA ListsStay ==
  ASSUME UNCHANGED <<script, sent, client, held, conf, profiles>>, list' = list \/ list' = MarkBcpStale,
         taken \subseteq taken', CatalogInv
  PROVE  /\ SameRecords /\ ListedIsStored'
         /\ (\A b \in backups' : b.at \notin {"check", "config"} =>
               b.conf = First(sent[b.op].to) \/ Asked({"file", "set", "add"}) # {}) => ConfigurationStands'
<1>1. (\A kinds : Asked(kinds)' = Asked(kinds)) /\ \A of : First(of)' = First(of)
  BY ScriptStays DEF CatalogInv
<1>2. SameRecords
  BY MarkedList DEF SameRecords, CatalogInv, TypeOK
<1>3. \A z : Deleting(z) => Deleting(z)'
  BY DEF Deleting
<1>4. \A z, s : StoredAt(z, s)' <=> StoredAt(z, s)
  BY DEF StoredAt
<1>5. \A z \in DOMAIN list : Strayed(z)' <=> Strayed(z)
  BY <1>1, <1>2, <1>4 DEF Strayed, SameRecords
<1>6. ListedIsStored'
  BY <1>2, <1>3, <1>4, <1>5 DEF ListedIsStored, CatalogInv, SameRecords
<1>7. ASSUME \A b \in backups' : b.at \notin {"check", "config"} =>
               b.conf = First(sent[b.op].to) \/ Asked({"file", "set", "add"}) # {}
      PROVE  ConfigurationStands'
  BY <1>1, <1>2, <1>7 DEF ConfigurationStands, CatalogInv, SameRecords
<1> QED BY <1>2, <1>6, <1>7

\* Nor can a resync that goes on beside it.
LEMMA SyncsStay ==
  ASSUME UNCHANGED <<script, sent, client, held, conf, profiles, ranges, restores>>, CatalogInv,
         \A z \in DOMAIN list : z \in DOMAIN list' /\ list'[z].of = list[z].of /\ list'[z].at = list[z].at,
         \A i \in DOMAIN logged : i \in DOMAIN logged' /\ logged'[i] = logged[i],
         \A m \in Member : tasks'[m].at = "sync" => tasks'[m] = tasks[m]
  PROVE  SyncsShow'
<1>1. Storages' = Storages /\ \A x : SyncSources(x)' = SyncSources(x)
  BY DEF SyncSources, SyncOf, Storages
<1>2. \A of, s : Shows(of, s) => Shows(of, s)'
  BY DEF Shows
<1>3. \A todo, s : MainSynced(todo, s) => MainSynced(todo, s)'
  BY <1>2 DEF MainSynced
<1>4. \A todo, p : ProfileSynced(todo, p) => ProfileSynced(todo, p)'
  BY <1>2 DEF ProfileSynced
<1>5. \A op : Errors(op) => Errors(op)'
  BY DEF Errors
<1> SUFFICES ASSUME NEW m \in Member, tasks'[m].at = "sync", Cmd(m)'.cmd = "resync", ~Errors(tasks[m].op)',
                    tasks'[m] = tasks[m]
             PROVE  /\ Cmd(m)'.name = Main => \E s \in Storages : MainSynced(tasks[m].todo, s)'
                    /\ Cmd(m)'.name # Main => \A p \in DOMAIN profiles :
                         SyncSources(Cmd(m))' = {SyncOf(p, profiles[p])} => ProfileSynced(tasks[m].todo, p)'
  BY <1>1 DEF SyncsShow, SyncOf, Errors
<1>6. Cmd(m)' = Cmd(m)
  BY DEF Cmd, Task
<1>7. SyncSources(Cmd(m))' = SyncSources(Cmd(m))
  BY <1>6 DEF SyncSources, SyncOf
<1>8. ~Errors(tasks[m].op)
  BY <1>5 DEF Errors
<1>9. tasks[m].at = "sync" /\ Cmd(m).cmd = "resync"
  BY <1>6
<1>10. ASSUME Cmd(m).name = Main PROVE \E s \in Storages : MainSynced(tasks[m].todo, s)'
  <2>1. PICK s \in Storages : MainSynced(tasks[m].todo, s)
    BY <1>8, <1>9, <1>10 DEF SyncsShow, CatalogInv
  <2> QED BY <2>1, <1>3
<1>11. ASSUME Cmd(m).name # Main, NEW p \in DOMAIN profiles, SyncSources(Cmd(m)) = {SyncOf(p, profiles[p])}
       PROVE  ProfileSynced(tasks[m].todo, p)'
  <2>1. ProfileSynced(tasks[m].todo, p)
    BY <1>8, <1>9, <1>11 DEF SyncsShow, CatalogInv
  <2> QED BY <2>1, <1>4
<1>12. Cmd(m)'.name = Main => \E s \in Storages : MainSynced(tasks[m].todo, s)'
  BY <1>6, <1>10
<1>13. Cmd(m)'.name # Main => \A p \in DOMAIN profiles :
         SyncSources(Cmd(m))' = {SyncOf(p, profiles[p])} => ProfileSynced(tasks[m].todo, p)'
  BY <1>6, <1>7, <1>11
<1> QED BY <1>12, <1>13

\* One backup goes on or leaves, the others stay as they are.
LEMMA BackupMoves ==
  ASSUME CatalogInv, UNCHANGED <<script, sent, client, heard, gone>>, NEW b \in backups, NEW nb \in Backups,
         nb.by = b.by, nb.op = b.op, backups' \subseteq (backups \ {b}) \cup {nb},
         nb.at \notin {"check", "config"} => nb.conf \in Storages,
         \A a \in backups' : a.at \in Running => holder' = [op |-> a.op, by |-> a.by] /\ a.op \in taken'
  PROVE  backups' \subseteq Backups /\ BackupsAreLocked'
<1>1. Storages' = Storages
  BY DEF Storages
<1>2. backups' \subseteq Backups
  BY DEF CatalogInv, TypeOK
<1>3. \A a \in backups' :
        /\ a.by \notin gone' /\ a.op \in 1..heard'[a.by] /\ sent'[a.op].cmd = "backup"
        /\ a.at \notin {"check", "config"} => a.conf \in Storages'
  BY <1>1 DEF CatalogInv, BackupsAreLocked
<1>4. \A a, c \in backups' : a.op = c.op /\ a.by = c.by => a = c
  BY DEF CatalogInv, BackupsAreLocked
<1>5. BackupsAreLocked'
  BY <1>3, <1>4 DEF BackupsAreLocked
<1> QED BY <1>2, <1>5

LEMMA HearCommandKeeps ==
  ASSUME CatalogInv, NEW n \in Member, HearCommand(n) PROVE CatalogInv'
<1> DEFINE op == heard[n] + 1
<1> USE DEF CatalogInv
<1>1. /\ UNCHANGED <<script, conf, profiles, held, list, ranges, restores, sent, client, gone, holder, taken, logged>>
      /\ tasks[n].at = "idle" /\ n \notin gone /\ heard' = [heard EXCEPT ![n] = op] /\ op <= Len(sent)
  BY DEF HearCommand, TaskAt, Task, confVars, listVars, lockVars
<1>2. /\ \/ sent[op].cmd = "backup" /\ backups' = backups \cup {NewBackup(n, op)} /\ tasks' = tasks
         \/ sent[op].cmd # "backup" /\ backups' = backups /\ tasks' = tasks
         \/ sent[op].cmd # "backup" /\ backups' = backups /\ tasks' = [tasks EXCEPT ![n].op = op, ![n].at = "lock"]
  BY DEF HearCommand
<1>3. /\ Storages' = Storages /\ Profiles' = Profiles /\ Sources' = Sources /\ Messages' = Messages
      /\ Syncs' = Syncs /\ Tasks' = Tasks /\ Backups' = Backups
      /\ (\A kinds : Asked(kinds)' = Asked(kinds)) /\ (\A c : Ask(c)' = Ask(c))
      /\ (\A b : BcpName(b)' = BcpName(b)) /\ (\A of : First(of)' = First(of)) /\ MessagesAreAsked'
  BY <1>1, ScriptStays
<1>4. /\ heard \in [Member -> Nat] /\ Len(sent) \in Nat /\ op \in Nat /\ op \in 1..Len(sent)
      /\ \A m \in Member : heard[m] <= Len(sent)
  BY <1>1 DEF TypeOK
<1> HIDE DEF op
<1>5. /\ heard' \in [Member -> Nat] /\ heard'[n] = op /\ \A m \in Member : heard'[m] <= Len(sent)
      /\ \A m \in Member : \A i \in 1..heard[m] : i \in 1..heard'[m]
      /\ \A i \in 1..heard[n] : i # op
  <2>1. heard' \in [Member -> Nat] /\ heard'[n] = op /\ \A m \in Member : m # n => heard'[m] = heard[m]
    BY <1>1, <1>4
  <2>2. op = heard[n] + 1 /\ heard[n] \in Nat
    BY <1>4 DEF op
  <2> QED BY <2>1, <2>2, <1>4
<1>6. /\ tasks' \in [Member -> Tasks]
      /\ \A m \in Member : \/ tasks'[m] = tasks[m]
                           \/ m = n /\ tasks'[m].op = op /\ tasks'[m].at = "lock" /\ sent[op].cmd # "backup"
  <2>1. tasks \in [Member -> Tasks]
    BY DEF TypeOK
  <2> DEFINE new == [tasks[n] EXCEPT !.op = op, !.at = "lock"]
  <2>2. tasks[n] \in Tasks
    BY <2>1
  <2>3. new \in Tasks /\ new.op = op /\ new.at = "lock"
    BY <2>2, <1>4 DEF Tasks
  <2>4. \/ tasks' = tasks
        \/ tasks' = [tasks EXCEPT ![n] = new] /\ sent[op].cmd # "backup"
    BY <1>2, <2>1
  <2> HIDE DEF new
  <2> QED BY <2>1, <2>3, <2>4
<1>7. /\ backups' \subseteq Backups
      /\ \A b \in backups' : \/ b \in backups
                             \/ b.by = n /\ b.op = op /\ b.at \in {"check", "config"} /\ sent[op].cmd = "backup"
      /\ \A a, b \in backups' : a \notin backups /\ b \notin backups => a = b
  <2>1. /\ NewBackup(n, op) \in Backups /\ NewBackup(n, op).by = n /\ NewBackup(n, op).op = op
        /\ NewBackup(n, op).at \in {"check", "config"}
    BY <1>4 DEF NewBackup, Backups
  <2> QED BY <1>2, <2>1 DEF TypeOK
<1>8. TypeOK'
  BY <1>1, <1>3, <1>5, <1>6, <1>7 DEF TypeOK
<1>9. TasksAreLocked'
  <2> SUFFICES ASSUME NEW m \in Member, tasks'[m].at # "idle"
               PROVE  /\ m \notin gone /\ tasks'[m].op \in 1..heard'[m] /\ Cmd(m)'.cmd # "backup"
                      /\ tasks'[m].at \in Working => holder = [op |-> tasks'[m].op, by |-> m] /\ tasks'[m].op \in taken
                      /\ tasks'[m].at = "sync" => Cmd(m)'.cmd \in {"resync", "clear"}
                      /\ tasks'[m].at = "record" => Cmd(m)'.cmd = "delete"
    BY <1>1 DEF TasksAreLocked
  <2>1. CASE tasks'[m] = tasks[m]
    <3>1. Cmd(m)' = Cmd(m) /\ tasks[m].op \in 1..heard'[m]
      BY <2>1, <1>1, <1>5 DEF Cmd, Task, TasksAreLocked
    <3> QED BY <2>1, <3>1 DEF TasksAreLocked
  <2>2. CASE m = n /\ tasks'[m].op = op /\ tasks'[m].at = "lock" /\ sent[op].cmd # "backup"
    <3>1. Cmd(m)' = sent[op] /\ op \in 1..heard'[n]
      BY <2>2, <1>1, <1>4, <1>5 DEF Cmd, Task
    <3> QED BY <2>2, <3>1, <1>1 DEF Working
  <2> QED BY <2>1, <2>2, <1>6
<1>10. BackupsAreLocked'
  <2>1. ASSUME NEW b \in backups'
        PROVE  /\ b.by \notin gone /\ b.op \in 1..heard'[b.by] /\ sent[b.op].cmd = "backup"
               /\ b.at \notin {"check", "config"} => b.conf \in Storages
               /\ b.at \in Running => holder = [op |-> b.op, by |-> b.by] /\ b.op \in taken
    <3>1. CASE b \in backups
      <4>1. b.by \in Member
        BY <3>1 DEF TypeOK, Backups
      <4> QED BY <3>1, <4>1, <1>5 DEF BackupsAreLocked
    <3>2. CASE b \notin backups
      <4>1. b.by = n /\ b.op = op /\ b.at \in {"check", "config"} /\ sent[op].cmd = "backup"
        BY <2>1, <3>2, <1>7
      <4> QED BY <4>1, <1>1, <1>4, <1>5 DEF Running
    <3> QED BY <3>1, <3>2
  <2>2. ASSUME NEW a \in backups', NEW b \in backups', a.op = b.op, a.by = b.by PROVE a = b
    <3>1. \A x \in backups : x.by = n => x.op # op
      BY <1>5 DEF BackupsAreLocked
    <3> QED BY <2>2, <3>1, <1>7 DEF BackupsAreLocked
  <2> QED BY <2>1, <2>2, <1>1, <1>3 DEF BackupsAreLocked
<1>11. NamesAreFresh'
  <2>1. \A c \in DOMAIN client : Unstored(c)' => Unstored(c)
    BY <1>1, <1>7 DEF Unstored
  <2> QED BY <2>1, <1>1, <1>3 DEF NamesAreFresh
<1>12. RunsAreListed'
  BY <1>1, <1>3, <1>7 DEF RunsAreListed
<1>13. ConfigurationStands' /\ ListedIsStored'
  <2>1. \A b \in backups' : b.at \notin {"check", "config"} =>
          b.conf = First(sent[b.op].to) \/ Asked({"file", "set", "add"}) # {}
    BY <1>7 DEF ConfigurationStands
  <2> QED BY <1>1, <2>1, ListsStay
<1>14. SyncsShow'
  BY <1>1, <1>6, SyncsStay
<1> QED BY <1>3, <1>8, <1>9, <1>10, <1>11, <1>12, <1>13, <1>14

LEMMA LogGrows ==
  ASSUME NEW S, NEW l \in Seq(S), NEW e \in S
  PROVE  /\ Append(l, e) \in Seq(S) /\ Len(Append(l, e)) = Len(l) + 1 /\ Append(l, e)[Len(l) + 1] = e
         /\ \A i \in DOMAIN l : i \in DOMAIN Append(l, e) /\ Append(l, e)[i] = l[i]
         /\ \A i \in DOMAIN Append(l, e) \ DOMAIN l : i = Len(l) + 1
OBVIOUS

LEMMA AcquireLockForKeeps ==
  ASSUME CatalogInv, NEW n \in Member, AcquireLockFor(n) PROVE CatalogInv'
<1> DEFINE op == tasks[n].op
<1> USE DEF CatalogInv
<1>1. /\ UNCHANGED <<script, conf, profiles, held, ranges, restores, sent, client, heard, gone, backups>>
      /\ tasks[n].at = "lock" /\ n \notin gone
  BY DEF AcquireLockFor, TaskAt, Task, confVars, LoopOnly, AgentOnly
<1>2. \/ /\ CanTake(op) /\ tasks' = [tasks EXCEPT ![n].at = "begin"] /\ logged' = logged
         /\ holder' = [op |-> op, by |-> n] /\ taken' = taken \cup {op} /\ list' = MarkBcpStale
      \/ /\ tasks' = [tasks EXCEPT ![n] = NoTask] /\ holder' = holder /\ taken' = taken /\ list' = list
         /\ logged' = logged \/ logged' = Append(logged, <<op, "error">>)
  BY DEF AcquireLockFor, Take, Goes, Idle, Log, Task
<1>3. /\ Storages' = Storages /\ Profiles' = Profiles /\ Sources' = Sources /\ Messages' = Messages
      /\ Syncs' = Syncs /\ Tasks' = Tasks /\ Backups' = Backups
      /\ (\A kinds : Asked(kinds)' = Asked(kinds)) /\ (\A c : Ask(c)' = Ask(c))
      /\ (\A b : BcpName(b)' = BcpName(b)) /\ (\A of : First(of)' = First(of)) /\ MessagesAreAsked'
  BY <1>1, ScriptStays
<1>4. /\ tasks \in [Member -> Tasks] /\ op \in 1..heard[n] /\ sent[op].cmd # "backup"
      /\ heard[n] \in Nat /\ Len(sent) \in Nat /\ heard[n] <= Len(sent)
  BY <1>1 DEF TasksAreLocked, Cmd, Task, TypeOK
<1>5. op \in Nat /\ op \in 1..Len(sent)
  BY <1>4
<1> HIDE DEF op
<1>6. /\ tasks' \in [Member -> Tasks] /\ \A m \in Member : m # n => tasks'[m] = tasks[m]
      /\ tasks'[n].at \in {"begin", "idle"}
      /\ tasks'[n].at = "begin" =>
           CanTake(op) /\ tasks'[n].op = op /\ holder' = [op |-> op, by |-> n] /\ taken' = taken \cup {op}
      /\ tasks'[n].at = "idle" => holder' = holder /\ taken' = taken /\ list' = list
  <2>1. NoTask \in Tasks /\ NoTask.at = "idle"
    BY DEF NoTask, Tasks
  <2> DEFINE new == [tasks[n] EXCEPT !.at = "begin"]
  <2>2. new \in Tasks /\ new.at = "begin" /\ new.op = op
    BY <1>4 DEF Tasks, Working, op
  <2>3. \/ /\ CanTake(op) /\ tasks' = [tasks EXCEPT ![n] = new]
           /\ holder' = [op |-> op, by |-> n] /\ taken' = taken \cup {op}
        \/ tasks' = [tasks EXCEPT ![n] = NoTask] /\ holder' = holder /\ taken' = taken /\ list' = list
    BY <1>2, <1>4
  <2> HIDE DEF new
  <2> QED BY <2>1, <2>2, <2>3, <1>4
<1>7. /\ taken \subseteq taken' /\ taken' \subseteq 1..Len(sent) /\ holder' \in {None} \cup [op : Nat, by : Member]
      /\ taken' \subseteq taken \cup {op}
      /\ list' = list \/ list' = MarkBcpStale
      /\ logged' \in Seq(Nat \X {"error", "succeed", "done"})
      /\ \A i \in DOMAIN logged : i \in DOMAIN logged' /\ logged'[i] = logged[i]
  <2>1. /\ taken \subseteq taken' /\ taken' \subseteq 1..Len(sent) /\ holder' \in {None} \cup [op : Nat, by : Member]
        /\ taken' \subseteq taken \cup {op}
        /\ list' = list \/ list' = MarkBcpStale
    BY <1>2, <1>5 DEF TypeOK
  <2>2. logged \in Seq(Nat \X {"error", "succeed", "done"}) /\ <<op, "error">> \in Nat \X {"error", "succeed", "done"}
    BY <1>5 DEF TypeOK
  <2>3. logged' = logged \/ logged' = Append(logged, <<op, "error">>)
    BY <1>2
  <2>4. CASE logged' = logged
    BY <2>1, <2>2, <2>4
  <2>5. CASE logged' = Append(logged, <<op, "error">>)
    <3>1. /\ logged' \in Seq(Nat \X {"error", "succeed", "done"})
          /\ \A i \in DOMAIN logged : i \in DOMAIN logged' /\ logged'[i] = logged[i]
      BY <2>2, <2>5, LogGrows
    <3> QED BY <2>1, <3>1
  <2> QED BY <2>3, <2>4, <2>5
<1>8. \* Whoever takes the lock finds nobody at work.
      tasks'[n].at = "begin" =>
        (\A m \in Member : tasks[m].at \notin Working) /\ \A b \in backups : b.at \notin Running
  <2>1. tasks'[n].at = "begin" => holder = None \/ Stale
    BY <1>6 DEF CanTake
  <2> QED BY <2>1, FreeLock
<1>9. SameRecords /\ ListedIsStored' /\ ConfigurationStands'
  <2>1. \A b \in backups' : b.at \notin {"check", "config"} =>
          b.conf = First(sent[b.op].to) \/ Asked({"file", "set", "add"}) # {}
    BY <1>1 DEF ConfigurationStands
  <2> QED BY <1>1, <1>7, <2>1, ListsStay
<1>10. TypeOK'
  <2>1. \A z \in DOMAIN list' :
          DOMAIN list'[z] = {"of", "at", "status", "op"} /\ list'[z].at \in Storages /\ list'[z].op \in 0..Len(sent)
    BY <1>9 DEF SameRecords, TypeOK
  <2> QED BY <1>1, <1>3, <1>6, <1>7, <2>1 DEF TypeOK
<1>11. TasksAreLocked'
  <2> SUFFICES ASSUME NEW m \in Member, tasks'[m].at # "idle"
               PROVE  /\ m \notin gone /\ tasks'[m].op \in 1..heard[m] /\ Cmd(m)'.cmd # "backup"
                      /\ tasks'[m].at \in Working => holder' = [op |-> tasks'[m].op, by |-> m] /\ tasks'[m].op \in taken'
                      /\ tasks'[m].at = "sync" => Cmd(m)'.cmd \in {"resync", "clear"}
                      /\ tasks'[m].at = "record" => Cmd(m)'.cmd = "delete"
    BY <1>1 DEF TasksAreLocked
  <2>1. CASE m = n
    <3>1. tasks'[m].at = "begin" /\ tasks'[m].op = op /\ holder' = [op |-> op, by |-> n] /\ taken' = taken \cup {op}
      BY <2>1, <1>6
    <3>2. Cmd(m)' = sent[op]
      BY <3>1, <1>1 DEF Cmd, Task
    <3> QED BY <2>1, <3>1, <3>2, <1>1, <1>4
  <2>2. CASE m # n
    <3>1. tasks'[m] = tasks[m] /\ Cmd(m)' = Cmd(m)
      BY <2>2, <1>1, <1>6 DEF Cmd, Task
    <3>2. tasks[m].at \in Working => holder' = holder
      BY <1>6, <1>8
    <3> QED BY <3>1, <3>2, <1>7 DEF TasksAreLocked
  <2> QED BY <2>1, <2>2
<1>12. BackupsAreLocked'
  <2>1. \A b \in backups : b.at \in Running => holder' = holder
    BY <1>6, <1>8
  <2> QED BY <2>1, <1>1, <1>3, <1>7 DEF BackupsAreLocked
<1>13. NamesAreFresh'
  <2>1. ASSUME NEW c \in DOMAIN client, Ask(c).do = "backup", Unstored(c)' PROVE Unstored(c)
    BY <2>1, <1>1, <1>7 DEF Unstored
  <2> QED BY <2>1, <1>1, <1>3, <1>9 DEF NamesAreFresh, SameRecords
<1>14. RunsAreListed'
  BY <1>1, <1>3, <1>9 DEF RunsAreListed, SameRecords
<1>15. SyncsShow'
  <2>1. \A m \in Member : tasks'[m].at = "sync" => tasks'[m] = tasks[m]
    BY <1>6
  <2> QED BY <1>1, <1>7, <1>9, <2>1, SyncsStay DEF SameRecords
<1> QED BY <1>3, <1>9, <1>10, <1>11, <1>12, <1>13, <1>14, <1>15

LEMMA TakeBackupLockKeeps ==
  ASSUME CatalogInv, NEW b \in backups, TakeBackupLock(b) PROVE CatalogInv'
<1> DEFINE nb == [b EXCEPT !.at = "run"]
<1> USE DEF CatalogInv
<1>1. /\ UNCHANGED <<script, conf, profiles, held, ranges, restores, sent, client, heard, gone, tasks, logged>>
      /\ b.at = "lock"
  BY DEF TakeBackupLock, BackupAt, confVars, BackupOnly, AgentOnly
<1>2. \/ /\ CanTake(b.op) /\ backups' = (backups \ {b}) \cup {nb}
         /\ holder' = [op |-> b.op, by |-> b.by] /\ taken' = taken \cup {b.op} /\ list' = MarkBcpStale
      \/ backups' = backups \ {b} /\ holder' = holder /\ taken' = taken /\ list' = list
  BY DEF TakeBackupLock, Take, BackupGoes, BackupLeaves
<1>3. /\ Storages' = Storages /\ Profiles' = Profiles /\ Sources' = Sources /\ Messages' = Messages
      /\ Syncs' = Syncs /\ Tasks' = Tasks /\ Backups' = Backups
      /\ (\A kinds : Asked(kinds)' = Asked(kinds)) /\ (\A c : Ask(c)' = Ask(c))
      /\ (\A a : BcpName(a)' = BcpName(a)) /\ (\A of : First(of)' = First(of)) /\ MessagesAreAsked'
  BY <1>1, ScriptStays
<1>4. /\ b \in Backups /\ nb \in Backups /\ nb.at = "run" /\ nb.op = b.op /\ nb.by = b.by /\ nb.conf = b.conf
      /\ b.op \in Nat /\ b.by \in Member /\ b.conf \in Storages
      /\ b.op \in 1..Len(sent)
  <2>1. b \in Backups
    BY DEF TypeOK
  <2>2. b.conf \in Storages /\ b.op \in 1..heard[b.by]
    BY <1>1 DEF BackupsAreLocked
  <2>3. b.by \in Member /\ b.op \in Nat
    BY <2>1 DEF Backups
  <2>4. heard[b.by] \in Nat /\ Len(sent) \in Nat /\ heard[b.by] <= Len(sent)
    BY <2>3 DEF TypeOK
  <2>5. nb \in Backups /\ nb.at = "run" /\ nb.op = b.op /\ nb.by = b.by /\ nb.conf = b.conf
    BY <2>1 DEF Backups, Running
  <2> QED BY <2>1, <2>2, <2>3, <2>4, <2>5
<1> HIDE DEF nb
<1>5. /\ taken \subseteq taken' /\ taken' \subseteq 1..Len(sent) /\ holder' \in {None} \cup [op : Nat, by : Member]
      /\ list' = list \/ list' = MarkBcpStale
      /\ backups' \subseteq (backups \ {b}) \cup {nb}
      /\ nb \in backups' \ backups => /\ CanTake(b.op) /\ taken' = taken \cup {b.op}
                                      /\ holder' = [op |-> b.op, by |-> b.by]
      /\ ~CanTake(b.op) => holder' = holder
  <2>1. taken \subseteq 1..Len(sent) /\ holder \in {None} \cup [op : Nat, by : Member]
    BY DEF TypeOK
  <2>2. [op |-> b.op, by |-> b.by] \in [op : Nat, by : Member]
    BY <1>4
  <2> QED BY <1>2, <1>4, <2>1, <2>2
<1>6. CanTake(b.op) =>
        (\A m \in Member : tasks[m].at \notin Working) /\ \A a \in backups : a.at \notin Running
  BY FreeLock DEF CanTake
<1>7. SameRecords /\ ListedIsStored' /\ ConfigurationStands'
  <2>1. \A a \in backups' : a.at \notin {"check", "config"} =>
          a.conf = First(sent[a.op].to) \/ Asked({"file", "set", "add"}) # {}
    BY <1>1, <1>4, <1>5 DEF ConfigurationStands
  <2> QED BY <1>1, <1>5, <2>1, ListsStay
<1>8. backups' \subseteq Backups /\ BackupsAreLocked'
  <2>1. \A a \in backups' : a.at \in Running => holder' = [op |-> a.op, by |-> a.by] /\ a.op \in taken'
    <3> SUFFICES ASSUME NEW a \in backups', a.at \in Running
                 PROVE  holder' = [op |-> a.op, by |-> a.by] /\ a.op \in taken'
      OBVIOUS
    <3>1. CASE a \in backups
      <4>1. ~CanTake(b.op)
        BY <3>1, <1>6
      <4> QED BY <3>1, <4>1, <1>5 DEF BackupsAreLocked
    <3>2. CASE a \notin backups
      <4>1. a = nb
        BY <3>2, <1>5
      <4> QED BY <3>2, <4>1, <1>4, <1>5
    <3> QED BY <3>1, <3>2
  <2> QED BY <2>1, <1>1, <1>4, <1>5, BackupMoves
<1>9. TypeOK'
  <2>1. \A z \in DOMAIN list' :
          DOMAIN list'[z] = {"of", "at", "status", "op"} /\ list'[z].at \in Storages /\ list'[z].op \in 0..Len(sent)
    BY <1>7 DEF SameRecords, TypeOK
  <2> QED BY <1>1, <1>3, <1>5, <1>8, <2>1 DEF TypeOK
<1>10. TasksAreLocked'
  <2>1. \A m \in Member : Cmd(m)' = Cmd(m)
    BY <1>1 DEF Cmd, Task
  <2>2. \A m \in Member : tasks[m].at \in Working => holder' = holder
    BY <1>5, <1>6
  <2> QED BY <2>1, <2>2, <1>1, <1>5 DEF TasksAreLocked
<1>11. NamesAreFresh'
  <2>1. ASSUME NEW c \in DOMAIN client, Ask(c).do = "backup", Unstored(c)' PROVE Unstored(c)
    <3>1. CASE client[c].op \notin taken'
      BY <3>1, <1>5 DEF Unstored
    <3>2. CASE \E a \in backups' : a.op = client[c].op /\ a.at = "run"
      <4>1. PICK a \in backups' : a.op = client[c].op /\ a.at = "run"
        BY <3>2
      <4>2. CASE a \in backups
        BY <4>1, <4>2 DEF Unstored
      <4>3. CASE a \notin backups
        <5>1. a = nb /\ b.op \notin taken
          BY <4>3, <1>5 DEF CanTake
        <5> QED BY <4>1, <5>1, <1>4 DEF Unstored
      <4> QED BY <4>2, <4>3
    <3> QED BY <2>1, <3>1, <3>2, <1>1 DEF Unstored
  <2> QED BY <2>1, <1>1, <1>3, <1>7 DEF NamesAreFresh, SameRecords
<1>12. RunsAreListed'
  BY <1>1, <1>3, <1>4, <1>5, <1>7 DEF RunsAreListed, SameRecords
<1>13. SyncsShow'
  <2>1. \A z \in DOMAIN list : z \in DOMAIN list' /\ list'[z].of = list[z].of /\ list'[z].at = list[z].at
    BY <1>7 DEF SameRecords
  <2> QED BY <1>1, <2>1, SyncsStay
<1> QED BY <1>3, <1>7, <1>8, <1>9, <1>10, <1>11, <1>12, <1>13

-----------------------------------------------------------------------------
(* A backup before it has the lock, and the death of an agent.               *)

LEMMA WaitingKeeps ==
  ASSUME CatalogInv, NEW b \in backups, b.at \notin Running, NEW nb \in Backups, nb.by = b.by, nb.op = b.op,
         nb.at \notin Running,
         nb.at \notin {"check", "config"} =>
           nb.conf \in Storages /\ (nb.conf = First(sent[b.op].to) \/ Asked({"file", "set", "add"}) # {}),
         backups' \subseteq (backups \ {b}) \cup {nb},
         UNCHANGED <<script, conf, profiles, held, ranges, restores, sent, client, heard, gone, tasks>>,
         UNCHANGED <<holder, taken, logged>>,
         \/ list' = list
         \/ /\ b.at \notin {"check", "config"} /\ BcpName(b) \notin DOMAIN list
            /\ list' = Put(list, BcpName(b), Record(sent[b.op].to, b.conf, "starting", b.op))
  PROVE  CatalogInv'
<1> DEFINE z == BcpName(b)
<1> USE DEF CatalogInv
<1>1. /\ Storages' = Storages /\ Profiles' = Profiles /\ Sources' = Sources /\ Messages' = Messages
      /\ Syncs' = Syncs /\ Tasks' = Tasks /\ Backups' = Backups
      /\ (\A kinds : Asked(kinds)' = Asked(kinds)) /\ (\A c : Ask(c)' = Ask(c))
      /\ (\A a : BcpName(a)' = BcpName(a)) /\ (\A of : First(of)' = First(of)) /\ MessagesAreAsked'
  BY ScriptStays
<1>2. /\ b.op \in 1..Len(sent) /\ b.op # 0 /\ Len(sent) \in Nat /\ sent[b.op].cmd = "backup"
      /\ b.at \notin {"check", "config"} => b.conf \in Storages
  <2>1. b.op \in 1..heard[b.by] /\ b.by \in Member
    BY DEF BackupsAreLocked, TypeOK, Backups
  <2>2. heard[b.by] \in Nat /\ Len(sent) \in Nat /\ heard[b.by] <= Len(sent)
    BY <2>1 DEF TypeOK
  <2> QED BY <2>1, <2>2 DEF BackupsAreLocked
<1>3. /\ DOMAIN list \subseteq DOMAIN list' /\ \A x \in DOMAIN list : list'[x] = list[x]
      /\ \A x \in DOMAIN list' \ DOMAIN list :
           /\ x = z /\ b.at \notin {"check", "config"} /\ DOMAIN list'[x] = {"of", "at", "status", "op"}
           /\ list'[x].at = b.conf /\ list'[x].status = "starting" /\ list'[x].op = b.op
  <2>1. CASE list' = list
    BY <2>1
  <2>2. CASE /\ b.at \notin {"check", "config"} /\ z \notin DOMAIN list
             /\ list' = Put(list, z, Record(sent[b.op].to, b.conf, "starting", b.op))
    BY <2>2 DEF Put, Record
  <2> QED BY <2>1, <2>2
<1> HIDE DEF z
<1>4. backups' \subseteq Backups /\ BackupsAreLocked'
  <2>1. \A a \in backups' : a.at \in Running => holder' = [op |-> a.op, by |-> a.by] /\ a.op \in taken'
    BY DEF BackupsAreLocked
  <2> QED BY <2>1, BackupMoves
<1>5. TypeOK'
  <2>1. \A x \in DOMAIN list' :
          DOMAIN list'[x] = {"of", "at", "status", "op"} /\ list'[x].at \in Storages /\ list'[x].op \in 0..Len(sent)
    <3> SUFFICES ASSUME NEW x \in DOMAIN list'
                 PROVE  DOMAIN list'[x] = {"of", "at", "status", "op"} /\ list'[x].at \in Storages
                        /\ list'[x].op \in 0..Len(sent)
      OBVIOUS
    <3>1. CASE x \in DOMAIN list
      BY <3>1, <1>3 DEF TypeOK
    <3>2. CASE x \notin DOMAIN list
      BY <3>2, <1>2, <1>3
    <3> QED BY <3>1, <3>2
  <2> QED BY <1>1, <1>4, <2>1 DEF TypeOK
<1>6. TasksAreLocked'
  <2>1. \A m \in Member : Cmd(m)' = Cmd(m)
    BY DEF Cmd, Task
  <2> QED BY <2>1 DEF TasksAreLocked
<1>7. NamesAreFresh'
  <2> SUFFICES ASSUME NEW c \in DOMAIN client, Ask(c).do = "backup", Unstored(c)'
               PROVE  /\ \A s \in Storages : Ask(c).name \notin held[s].data \cup held[s].meta
                      /\ Ask(c).name \in DOMAIN list' => client[c].op # 0 /\ list'[Ask(c).name].op = client[c].op
    BY <1>1 DEF NamesAreFresh
  <2>1. Unstored(c)
    BY DEF Unstored, Running
  <2>2. CASE Ask(c).name \in DOMAIN list \/ Ask(c).name \notin DOMAIN list'
    BY <2>1, <2>2, <1>3 DEF NamesAreFresh
  <2>3. CASE Ask(c).name \in DOMAIN list' \ DOMAIN list
    <3>1. Ask(c).name = sent[b.op].name /\ list'[Ask(c).name].op = b.op
      BY <2>3, <1>3 DEF z, BcpName
    <3>2. client[c].op = b.op
      BY <3>1, <1>2, AskedOnce
    <3> QED BY <2>1, <3>1, <3>2, <1>2 DEF NamesAreFresh
  <2> QED BY <2>2, <2>3
<1>8. RunsAreListed'
  <2>1. \A a \in backups' : a.at \in {"save", "done"} => a \in backups
    BY DEF Running
  <2> QED BY <2>1, <1>1, <1>3 DEF RunsAreListed
<1>9. ConfigurationStands'
  <2>1. \A a \in backups' : a.at \notin {"check", "config"} =>
          a.conf = First(sent[a.op].to) \/ Asked({"file", "set", "add"}) # {}
    BY DEF ConfigurationStands
  <2>2. \A x \in DOMAIN list' : list'[x].op # 0 =>
          list'[x].at = First(sent[list'[x].op].to) \/ Asked({"file", "set", "add"}) # {}
    <3> SUFFICES ASSUME NEW x \in DOMAIN list', list'[x].op # 0
                 PROVE  list'[x].at = First(sent[list'[x].op].to) \/ Asked({"file", "set", "add"}) # {}
      OBVIOUS
    <3>1. CASE x \in DOMAIN list
      BY <3>1, <1>3 DEF ConfigurationStands
    <3>2. CASE x \notin DOMAIN list
      BY <3>2, <1>3 DEF ConfigurationStands
    <3> QED BY <3>1, <3>2
  <2> QED BY <2>1, <2>2, <1>1 DEF ConfigurationStands
<1>10. ListedIsStored'
  <2>1. \A x : Deleting(x)' <=> Deleting(x)
    BY DEF Deleting
  <2>2. \A x, s : StoredAt(x, s)' <=> StoredAt(x, s)
    BY DEF StoredAt
  <2>3. \A x \in DOMAIN list : Strayed(x)' <=> Strayed(x)
    BY <2>2, <1>1, <1>3 DEF Strayed
  <2>4. \A x \in DOMAIN list' : list'[x].status = "done" => x \in DOMAIN list
    BY <1>3
  <2> QED BY <2>1, <2>2, <2>3, <2>4, <1>3 DEF ListedIsStored
<1>11. SyncsShow'
  BY <1>3, SyncsStay
<1> QED BY <1>1, <1>4, <1>5, <1>6, <1>7, <1>8, <1>9, <1>10, <1>11

LEMMA WaitingBackupKeeps ==
  ASSUME CatalogInv, NEW b \in backups,
         StartLockCheck(b) \/ ReadConfig(b) \/ InitBackup(b) \/ AwaitNomination(b)
  PROVE  CatalogInv'
<1> USE DEF CatalogInv
<1>1. /\ UNCHANGED <<script, conf, profiles, held, ranges, restores, sent, client, heard, gone, tasks>>
      /\ UNCHANGED <<holder, taken, logged>>
  BY DEF StartLockCheck, ReadConfig, InitBackup, AwaitNomination, BackupOnly, AgentOnly, confVars, lockVars
<1>2. b \in Backups /\ (b.at \notin {"check", "config"} => b.conf \in Storages)
  BY DEF TypeOK, BackupsAreLocked
<1>3. b.at \notin {"check", "config"} =>
        b.conf = First(sent[b.op].to) \/ Asked({"file", "set", "add"}) # {}
  BY DEF ConfigurationStands
<1>m. ASSUME NEW step \in {"config", "wait", "lock"}, b.at \notin Running, b.at \in {"check", "config"} => step = "config",
             BackupGoes(b, step) \/ BackupLeaves(b),
             \/ list' = list
             \/ /\ b.at \notin {"check", "config"} /\ BcpName(b) \notin DOMAIN list
                /\ list' = Put(list, BcpName(b), Record(sent[b.op].to, b.conf, "starting", b.op))
      PROVE  CatalogInv'
  <2> DEFINE nb == [b EXCEPT !.at = step]
  <2>1. /\ nb \in Backups /\ nb.at = step /\ nb.by = b.by /\ nb.op = b.op /\ nb.conf = b.conf
    BY <1>2 DEF Backups
  <2>2. backups' \subseteq (backups \ {b}) \cup {nb}
    BY <1>m DEF BackupGoes, BackupLeaves
  <2>3. step \notin Running
    BY DEF Running
  <2> HIDE DEF nb
  <2> QED BY <2>1, <2>2, <2>3, <1>1, <1>2, <1>3, <1>m, WaitingKeeps
<1>4. CASE StartLockCheck(b)
  <2>1. b.at = "check" /\ (BackupGoes(b, "config") \/ BackupLeaves(b)) /\ list' = list
    BY <1>4 DEF StartLockCheck, BackupAt
  <2> QED BY <2>1, <1>m DEF Running
<1>5. CASE ReadConfig(b)
  <2> DEFINE of == sent[b.op].to
             c == IF of = Main THEN conf ELSE profiles[of]
             next == IF b.by = Primary THEN "init" ELSE "wait"
             nb == [b EXCEPT !.conf = c, !.at = next]
  <2>1. b.at = "config" /\ list' = list
    BY <1>5 DEF ReadConfig, BackupAt
  <2>2. \/ backups' = backups \ {b}
        \/ (of = Main \/ of \in DOMAIN profiles) /\ backups' = (backups \ {b}) \cup {nb}
    BY <1>5 DEF ReadConfig, BackupLeaves
  <2>3. CASE backups' = backups \ {b}
    <3>1. backups' \subseteq (backups \ {b}) \cup {b}
      BY <2>3
    <3> QED BY <2>1, <3>1, <1>1, <1>2, <1>3, WaitingKeeps DEF Running
  <2>4. CASE (of = Main \/ of \in DOMAIN profiles) /\ backups' = (backups \ {b}) \cup {nb}
    <3>1. c \in Storages
      BY <2>4 DEF TypeOK
    <3>2. c = First(of) \/ Asked({"file", "set", "add"}) # {}
      BY <2>4 DEF ConfigurationStands, First
    <3>3. next \in {"init", "wait"}
      OBVIOUS
    <3> HIDE DEF c, next
    <3>4. nb \in Backups /\ nb.at = next /\ nb.by = b.by /\ nb.op = b.op /\ nb.conf = c
      BY <3>1, <3>3, <1>2 DEF Backups
    <3>5. backups' \subseteq (backups \ {b}) \cup {nb}
      BY <2>4
    <3> HIDE DEF nb
    <3>6. b.at \notin Running /\ nb.at \notin Running
      BY <2>1, <3>3, <3>4 DEF Running
    <3> QED BY <2>1, <3>1, <3>2, <3>4, <3>5, <3>6, <1>1, WaitingKeeps
  <2> QED BY <2>2, <2>3, <2>4
<1>6. CASE InitBackup(b)
  <2>1. /\ b.at = "init" /\ (BackupGoes(b, "wait") \/ BackupLeaves(b))
        /\ \/ list' = list
           \/ /\ BcpName(b) \notin DOMAIN list
              /\ list' = Put(list, BcpName(b), Record(sent[b.op].to, b.conf, "starting", b.op))
    BY <1>6 DEF InitBackup, BackupAt
  <2> QED BY <2>1, <1>m DEF Running
<1>7. CASE AwaitNomination(b)
  <2>1. b.at = "wait" /\ (BackupGoes(b, "lock") \/ BackupLeaves(b)) /\ list' = list
    BY <1>7 DEF AwaitNomination, BackupAt
  <2> QED BY <2>1, <1>m DEF Running
<1> QED BY <1>4, <1>5, <1>6, <1>7

LEMMA AgentDiesKeeps ==
  ASSUME CatalogInv, NEW n \in Member, AgentDies(n) PROVE CatalogInv'
<1> USE DEF CatalogInv
<1>1. /\ UNCHANGED <<script, conf, profiles, held, list, ranges, restores, sent, client, heard, holder, taken, logged>>
      /\ gone' = gone \cup {n} /\ tasks' = [tasks EXCEPT ![n] = NoTask] /\ backups' = {b \in backups : b.by # n}
  BY DEF AgentDies, confVars, listVars, lockVars
<1>2. /\ Storages' = Storages /\ Profiles' = Profiles /\ Sources' = Sources /\ Messages' = Messages
      /\ Syncs' = Syncs /\ Tasks' = Tasks /\ Backups' = Backups
      /\ (\A kinds : Asked(kinds)' = Asked(kinds)) /\ (\A c : Ask(c)' = Ask(c))
      /\ (\A a : BcpName(a)' = BcpName(a)) /\ (\A of : First(of)' = First(of)) /\ MessagesAreAsked'
  BY <1>1, ScriptStays
<1>3. /\ tasks' \in [Member -> Tasks] /\ tasks'[n].at = "idle"
      /\ \A m \in Member : m # n => tasks'[m] = tasks[m] /\ Cmd(m)' = Cmd(m)
  <2>1. NoTask \in Tasks /\ NoTask.at = "idle" /\ tasks \in [Member -> Tasks]
    BY DEF NoTask, Tasks, TypeOK
  <2> QED BY <2>1, <1>1 DEF Cmd, Task
<1>4. TypeOK'
  BY <1>1, <1>2, <1>3 DEF TypeOK
<1>5. TasksAreLocked'
  BY <1>1, <1>3 DEF TasksAreLocked
<1>6. BackupsAreLocked'
  BY <1>1, <1>2 DEF BackupsAreLocked
<1>7. NamesAreFresh'
  <2>1. \A c \in DOMAIN client : Unstored(c)' => Unstored(c)
    BY <1>1 DEF Unstored
  <2> QED BY <2>1, <1>1, <1>2 DEF NamesAreFresh
<1>8. RunsAreListed'
  BY <1>1, <1>2 DEF RunsAreListed
<1>9. ListedIsStored' /\ ConfigurationStands'
  <2>1. \A b \in backups' : b.at \notin {"check", "config"} =>
          b.conf = First(sent[b.op].to) \/ Asked({"file", "set", "add"}) # {}
    BY <1>1 DEF ConfigurationStands
  <2> QED BY <1>1, <2>1, ListsStay
<1>10. SyncsShow'
  BY <1>1, <1>3, SyncsStay
<1> QED BY <1>2, <1>4, <1>5, <1>6, <1>7, <1>8, <1>9, <1>10

-----------------------------------------------------------------------------
(* The handler that has the lock.                                            *)

\* What a resync has still to do agrees with what it has listed.
SyncShows(n) ==
  tasks[n].at = "sync" /\ Cmd(n).cmd = "resync" /\ ~Errors(tasks[n].op) =>
    /\ Cmd(n).name = Main => \E s \in Storages : MainSynced(tasks[n].todo, s)
    /\ Cmd(n).name # Main => \A p \in DOMAIN profiles :
         SyncSources(Cmd(n)) = {SyncOf(p, profiles[p])} => ProfileSynced(tasks[n].todo, p)

\* A step of the handler: what it leaves of the lists is what was there or is found
\* in a storage, and it adds nothing to the storages.
HandlerMoves(n, next) ==
  /\ UNCHANGED <<script, sent, client, heard, gone, backups, conf, taken>>
  /\ tasks[n].at \in Working /\ next \in Tasks /\ next.at # "lock" /\ tasks' = [tasks EXCEPT ![n] = next]
  /\ next.at \in Working => next.op = tasks[n].op /\ holder' = holder
  /\ next.at = "idle" => holder' \in {holder, None}
  /\ next.at = "sync" => Cmd(n).cmd \in {"resync", "clear"}
  /\ next.at = "record" => Cmd(n).cmd = "delete"
  /\ logged' = logged \/ \E what \in {"error", "succeed", "done"} : logged' = Append(logged, <<tasks[n].op, what>>)
  /\ DOMAIN profiles' \subseteq Profiles \ {Main}
  /\ \A p \in DOMAIN profiles' : \/ p \in DOMAIN profiles /\ profiles'[p] = profiles[p]
                                 \/ profiles'[p] \in Storages /\ Asked({"add"}) # {}
  /\ DOMAIN held' = DOMAIN held
  /\ \A s \in Storages : /\ DOMAIN held'[s] = {"data", "meta"}
                         /\ held'[s].data \subseteq held[s].data /\ held'[s].meta \subseteq held[s].meta
  /\ \A z \in DOMAIN list' : \/ z \in DOMAIN list /\ list'[z] = list[z]
                             \/ /\ DOMAIN list'[z] = {"of", "at", "status", "op"} /\ list'[z].op = 0
                                /\ list'[z].at \in Storages /\ z \in held[list'[z].at].meta

LEMMA HandlerKeeps ==
  ASSUME CatalogInv, NEW n \in Member, NEW next, HandlerMoves(n, next), ListedIsStored', SyncShows(n)'
  PROVE  CatalogInv'
<1> USE DEF CatalogInv
<1>1. /\ UNCHANGED <<script, sent, client, heard, gone, backups, conf, taken>>
      /\ tasks[n].at \in Working /\ next \in Tasks /\ tasks' = [tasks EXCEPT ![n] = next]
  BY DEF HandlerMoves
<1>2. /\ Storages' = Storages /\ Profiles' = Profiles /\ Sources' = Sources /\ Messages' = Messages
      /\ Syncs' = Syncs /\ Tasks' = Tasks /\ Backups' = Backups
      /\ (\A kinds : Asked(kinds)' = Asked(kinds)) /\ (\A c : Ask(c)' = Ask(c))
      /\ (\A a : BcpName(a)' = BcpName(a)) /\ (\A of : First(of)' = First(of)) /\ MessagesAreAsked'
  BY <1>1, ScriptStays
<1>3. /\ n \notin gone /\ holder = [op |-> tasks[n].op, by |-> n]
      /\ \A m \in Member \ {n} : tasks[m].at \notin Working
      /\ \A b \in backups : b.at \notin Running
  BY <1>1, OneTaskWorks
<1>4. /\ tasks' \in [Member -> Tasks] /\ tasks'[n] = next /\ \A m \in Member : m # n => tasks'[m] = tasks[m]
      /\ next.at \in {"idle"} \cup Working
  BY <1>1 DEF TypeOK, HandlerMoves, Tasks
<1>5. tasks[n].op \in 1..heard[n] /\ tasks[n].op \in taken /\ Cmd(n).cmd # "backup" /\ tasks[n].op \in Nat
  BY <1>1 DEF TasksAreLocked, TypeOK, Working
<1>6. next.at \in Working => Cmd(n)' = Cmd(n)
  BY <1>1, <1>4 DEF HandlerMoves, Cmd, Task
<1>7. TypeOK'
  <2>1. DOMAIN held' = Storages /\ (\A s \in Storages : DOMAIN held'[s] = {"data", "meta"})
    BY DEF HandlerMoves, TypeOK
  <2>2. DOMAIN profiles' \subseteq Profiles \ {Main} /\ \A p \in DOMAIN profiles' : profiles'[p] \in Storages
    BY DEF HandlerMoves, TypeOK
  <2>3. \A z \in DOMAIN list' :
          DOMAIN list'[z] = {"of", "at", "status", "op"} /\ list'[z].at \in Storages /\ list'[z].op \in 0..Len(sent)
    <3> SUFFICES ASSUME NEW z \in DOMAIN list'
                 PROVE  DOMAIN list'[z] = {"of", "at", "status", "op"} /\ list'[z].at \in Storages
                        /\ list'[z].op \in 0..Len(sent)
      OBVIOUS
    <3>1. Len(sent) \in Nat
      BY DEF TypeOK
    <3>2. CASE z \in DOMAIN list /\ list'[z] = list[z]
      BY <3>2 DEF TypeOK
    <3>3. CASE DOMAIN list'[z] = {"of", "at", "status", "op"} /\ list'[z].op = 0 /\ list'[z].at \in Storages
      BY <3>1, <3>3
    <3> QED BY <3>2, <3>3 DEF HandlerMoves
  <2>4. logged' \in Seq(Nat \X {"error", "succeed", "done"})
    <3>1. logged \in Seq(Nat \X {"error", "succeed", "done"})
      BY DEF TypeOK
    <3>2. CASE logged' = logged
      BY <3>1, <3>2
    <3>3. ASSUME NEW what \in {"error", "succeed", "done"}, logged' = Append(logged, <<tasks[n].op, what>>)
          PROVE  logged' \in Seq(Nat \X {"error", "succeed", "done"})
      <4>1. <<tasks[n].op, what>> \in Nat \X {"error", "succeed", "done"}
        BY <1>5
      <4> QED BY <3>1, <3>3, <4>1, LogGrows
    <3> QED BY <3>2, <3>3 DEF HandlerMoves
  <2>5. holder' \in {None} \cup [op : Nat, by : Member]
    BY <1>4 DEF HandlerMoves, TypeOK
  <2> QED BY <1>1, <1>2, <1>4, <2>1, <2>2, <2>3, <2>4, <2>5 DEF TypeOK
<1>8. TasksAreLocked'
  <2> SUFFICES ASSUME NEW m \in Member, tasks'[m].at # "idle"
               PROVE  /\ m \notin gone /\ tasks'[m].op \in 1..heard[m] /\ Cmd(m)'.cmd # "backup"
                      /\ tasks'[m].at \in Working => holder' = [op |-> tasks'[m].op, by |-> m] /\ tasks'[m].op \in taken
                      /\ tasks'[m].at = "sync" => Cmd(m)'.cmd \in {"resync", "clear"}
                      /\ tasks'[m].at = "record" => Cmd(m)'.cmd = "delete"
    BY <1>1 DEF TasksAreLocked
  <2>1. CASE m = n
    BY <2>1, <1>3, <1>4, <1>5, <1>6 DEF HandlerMoves
  <2>2. CASE m # n
    <3>1. tasks'[m] = tasks[m] /\ Cmd(m)' = Cmd(m) /\ tasks[m].at \notin Working
      BY <2>2, <1>1, <1>3, <1>4 DEF Cmd, Task
    <3> QED BY <3>1 DEF TasksAreLocked, Working
  <2> QED BY <2>1, <2>2
<1>9. BackupsAreLocked'
  BY <1>1, <1>2, <1>3 DEF BackupsAreLocked
<1>10. NamesAreFresh'
  <2> SUFFICES ASSUME NEW c \in DOMAIN client, Ask(c).do = "backup", Unstored(c)'
               PROVE  /\ \A s \in Storages : Ask(c).name \notin held'[s].data \cup held'[s].meta
                      /\ Ask(c).name \in DOMAIN list' => client[c].op # 0 /\ list'[Ask(c).name].op = client[c].op
    BY <1>1, <1>2 DEF NamesAreFresh
  <2>1. Unstored(c)
    BY <1>1 DEF Unstored
  <2>2. \A s \in Storages : Ask(c).name \notin held[s].data \cup held[s].meta
    BY <2>1 DEF NamesAreFresh
  <2>3. \A s \in Storages : Ask(c).name \notin held'[s].data \cup held'[s].meta
    BY <2>2 DEF HandlerMoves
  <2>4. Ask(c).name \in DOMAIN list' =>
          Ask(c).name \in DOMAIN list /\ list'[Ask(c).name] = list[Ask(c).name]
    BY <2>2 DEF HandlerMoves
  <2> QED BY <2>1, <2>3, <2>4 DEF NamesAreFresh
<1>11. RunsAreListed'
  BY <1>1, <1>3 DEF RunsAreListed, Running
<1>12. ConfigurationStands'
  <2> SUFFICES ASSUME Asked({"file", "set", "add"}) = {}
               PROVE  /\ conf = script.conf
                      /\ \A p \in DOMAIN profiles' : profiles'[p] = script.profiles[p]
                      /\ \A b \in backups : b.at \notin {"check", "config"} => b.conf = First(sent[b.op].to)
                      /\ \A z \in DOMAIN list' : list'[z].op # 0 => list'[z].at = First(sent[list'[z].op].to)
    BY <1>1, <1>2 DEF ConfigurationStands
  <2>1. Asked({"add"}) = {}
    BY DEF Asked
  <2> QED BY <2>1 DEF ConfigurationStands, HandlerMoves
<1>13. SyncsShow'
  <2> SUFFICES ASSUME NEW m \in Member PROVE SyncShows(m)'
    BY DEF SyncsShow, SyncShows
  <2>1. CASE m = n
    BY <2>1
  <2>2. CASE m # n
    <3>1. tasks'[m].at # "sync"
      BY <2>2, <1>3, <1>4 DEF Working
    <3> QED BY <3>1 DEF SyncShows
  <2> QED BY <2>1, <2>2
<1> QED BY <1>2, <1>7, <1>8, <1>9, <1>10, <1>11, <1>12, <1>13

\* The list is right if what is new in it was found.
LEMMA FoundIsStored ==
  ASSUME CatalogInv, UNCHANGED <<script, sent, client, held, taken>>,
         \A z \in DOMAIN list' : \/ z \in DOMAIN list /\ list'[z] = list[z]
                                 \/ list'[z].status = "done" => StoredAt(z, list'[z].at)
  PROVE  ListedIsStored'
<1>1. /\ \A x : Deleting(x)' <=> Deleting(x)
      /\ \A x, s : StoredAt(x, s)' <=> StoredAt(x, s)
      /\ \A kinds : Asked(kinds)' = Asked(kinds)
  BY ScriptStays DEF Deleting, StoredAt, CatalogInv
<1>2. \A z \in DOMAIN list' : z \in DOMAIN list /\ list'[z] = list[z] => (Strayed(z)' <=> Strayed(z))
  BY <1>1 DEF Strayed
<1> QED BY <1>1, <1>2 DEF ListedIsStored, CatalogInv

\* The handler ends: its lock goes, its outcome is in the log.
LEMMA HandlerEnds ==
  ASSUME CatalogInv, NEW n \in Member, tasks[n].at \in Working, NEW what \in {"error", "succeed", "done"},
         Ends(n, what), LoopOnly, conf' = conf, ListedIsStored',
         DOMAIN profiles' \subseteq Profiles \ {Main},
         \A p \in DOMAIN profiles' : \/ p \in DOMAIN profiles /\ profiles'[p] = profiles[p]
                                     \/ profiles'[p] \in Storages /\ Asked({"add"}) # {},
         held' = held, \A z \in DOMAIN list' : z \in DOMAIN list /\ list'[z] = list[z]
  PROVE  CatalogInv'
<1>1. NoTask \in Tasks /\ NoTask.at = "idle"
  BY DEF NoTask, Tasks
<1>2. tasks' = [tasks EXCEPT ![n] = NoTask] /\ holder' \in {holder, None} /\ taken' = taken
      /\ logged' = Append(logged, <<tasks[n].op, what>>)
  BY DEF Ends, Idle, Log, Task
<1>3. UNCHANGED <<script, sent, client, heard, gone, backups>>
  BY DEF LoopOnly, AgentOnly
<1>4. \A s \in Storages : /\ DOMAIN held'[s] = {"data", "meta"}
                          /\ held'[s].data \subseteq held[s].data /\ held'[s].meta \subseteq held[s].meta
  BY DEF CatalogInv, TypeOK
<1>5. HandlerMoves(n, NoTask)
  BY <1>1, <1>2, <1>3, <1>4 DEF HandlerMoves, Working
<1>6. SyncShows(n)'
  <2>1. tasks'[n].at = "idle"
    BY <1>1, <1>2 DEF CatalogInv, TypeOK
  <2> QED BY <2>1 DEF SyncShows
<1> QED BY <1>5, <1>6, HandlerKeeps

\* It goes on, and changes no more than the list.
LEMMA HandlerGoesOn ==
  ASSUME CatalogInv, NEW n \in Member, tasks[n].at \in Working, NEW next \in Tasks, next.at \in Working,
         next.op = tasks[n].op, tasks' = [tasks EXCEPT ![n] = next],
         next.at = "sync" => Cmd(n).cmd \in {"resync", "clear"}, next.at # "record",
         LoopOnly, UNCHANGED <<confVars, held, holder, taken>>,
         logged' = logged \/ logged' = Append(logged, <<tasks[n].op, "error">>), SyncShows(n)',
         \A z \in DOMAIN list' : \/ z \in DOMAIN list /\ list'[z] = list[z]
                                 \/ /\ DOMAIN list'[z] = {"of", "at", "status", "op"} /\ list'[z].op = 0
                                    /\ list'[z].at \in Storages /\ z \in held[list'[z].at].meta
                                    /\ list'[z].status = "done" => z \in held[list'[z].at].data
  PROVE  CatalogInv'
<1>1. /\ DOMAIN held = Storages /\ \A s \in Storages : DOMAIN held[s] = {"data", "meta"}
      /\ DOMAIN profiles \subseteq Profiles \ {Main}
  BY DEF CatalogInv, TypeOK
<1>2. UNCHANGED <<script, sent, client, heard, gone, backups, conf, profiles>>
  BY DEF LoopOnly, AgentOnly, confVars
<1>3. logged' = logged \/ \E what \in {"error", "succeed", "done"} : logged' = Append(logged, <<tasks[n].op, what>>)
  OBVIOUS
<1>4. HandlerMoves(n, next)
  BY <1>1, <1>2, <1>3 DEF HandlerMoves, Working
<1>5. ListedIsStored'
  <2>1. \A z \in DOMAIN list' : \/ z \in DOMAIN list /\ list'[z] = list[z]
                                \/ list'[z].status = "done" => StoredAt(z, list'[z].at)
    BY DEF StoredAt
  <2> QED BY <2>1, <1>2, FoundIsStored
<1> QED BY <1>4, <1>5, HandlerKeeps

\* What a resync of one source is at.
LEMMA SyncingFacts ==
  ASSUME CatalogInv, NEW n \in Member, NEW x \in tasks[n].todo, NEW step, Syncing(n, x, step)
  PROVE  /\ tasks[n] \in Tasks /\ tasks[n].at = "sync" /\ tasks[n].at \in Working /\ n \notin gone
         /\ x \in Syncs /\ x.at = step /\ x.of \in Profiles /\ x.from \in Storages
         /\ Cmd(n).cmd \in {"resync", "clear"} /\ SyncShows(n)
<1>1. tasks[n].at = "sync" /\ x.at = step /\ n \notin gone
  BY DEF Syncing, TaskAt, Task
<1>2. tasks[n] \in Tasks
  BY DEF CatalogInv, TypeOK
<1>3. x \in Syncs
  BY <1>2 DEF Tasks
<1>4. x.of \in Profiles /\ x.from \in Storages
  BY <1>3 DEF Syncs
<1>5. Cmd(n).cmd \in {"resync", "clear"}
  BY <1>1 DEF CatalogInv, TasksAreLocked
<1>6. SyncShows(n)
  BY DEF CatalogInv, SyncsShow, SyncShows
<1> QED BY <1>1, <1>2, <1>3, <1>4, <1>5, <1>6 DEF Working

LEMMA TodoChanges ==
  ASSUME CatalogInv, NEW n \in Member, tasks[n] \in Tasks, NEW x, NEW more \in SUBSET Syncs, Todo(n, x, more),
         UNCHANGED <<script, sent>>
  PROVE  \E next \in Tasks : /\ tasks' = [tasks EXCEPT ![n] = next] /\ tasks'[n] = next
                             /\ next.op = tasks[n].op /\ next.at = tasks[n].at
                             /\ next.todo = (tasks[n].todo \ {x}) \cup more
                             /\ Cmd(n)' = Cmd(n)
<1> DEFINE next == [tasks[n] EXCEPT !.todo = (tasks[n].todo \ {x}) \cup more]
<1>1. tasks \in [Member -> Tasks] /\ tasks' = [tasks EXCEPT ![n] = next]
  BY DEF CatalogInv, TypeOK, Todo
<1>2. /\ next \in Tasks /\ next.op = tasks[n].op /\ next.at = tasks[n].at
      /\ next.todo = (tasks[n].todo \ {x}) \cup more
  BY DEF Tasks
<1> HIDE DEF next
<1>3. tasks'[n] = next
  BY <1>1
<1>4. Cmd(n)' = Cmd(n)
  BY <1>2, <1>3 DEF Cmd, Task
<1> QED BY <1>1, <1>2, <1>3, <1>4

LEMMA ClearListKeeps ==
  ASSUME CatalogInv, NEW n \in Member, NEW x \in tasks[n].todo, ClearList(n, x) PROVE CatalogInv'
<1> DEFINE y == [x EXCEPT !.at = "insert"]
           more == IF Cmd(n).cmd = "clear" THEN {} ELSE {y}
<1>1. Syncing(n, x, "clear") /\ Todo(n, x, more) /\ SyncOnly /\ UNCHANGED <<ranges, restores>>
      /\ list' = Without(list, {b \in DOMAIN list : list[b].of = x.of})
  BY DEF ClearList
<1>2. /\ tasks[n] \in Tasks /\ tasks[n].at = "sync" /\ tasks[n].at \in Working
      /\ x \in Syncs /\ x.at = "clear" /\ x.of \in Profiles /\ x.from \in Storages
      /\ Cmd(n).cmd \in {"resync", "clear"} /\ SyncShows(n)
  BY <1>1, SyncingFacts
<1>3. LoopOnly /\ UNCHANGED <<confVars, held, holder, taken, logged>>
      /\ UNCHANGED <<script, sent, conf, profiles>>
  BY <1>1 DEF SyncOnly, LoopOnly, AgentOnly, lockVars, confVars
<1>4. y = [of |-> x.of, from |-> x.from, at |-> "insert"] /\ y \in Syncs /\ more \in SUBSET Syncs
  BY <1>2 DEF Syncs
<1> HIDE DEF y
<1>5. PICK next \in Tasks : /\ tasks' = [tasks EXCEPT ![n] = next] /\ tasks'[n] = next
                            /\ next.op = tasks[n].op /\ next.at = tasks[n].at
                            /\ next.todo = (tasks[n].todo \ {x}) \cup more
                            /\ Cmd(n)' = Cmd(n)
  BY <1>1, <1>2, <1>3, <1>4, TodoChanges
<1>6. \A z \in DOMAIN list' : z \in DOMAIN list /\ list'[z] = list[z]
  BY <1>1 DEF Without
<1>7. SyncShows(n)'
  <2> SUFFICES ASSUME Cmd(n).cmd = "resync", ~Errors(tasks[n].op)
               PROVE  /\ Cmd(n).name = Main => \E s \in Storages' : MainSynced(tasks[n].todo, s)'
                      /\ Cmd(n).name # Main => \A p \in DOMAIN profiles :
                           SyncSources(Cmd(n))' = {SyncOf(p, profiles[p])} => ProfileSynced(tasks[n].todo, p)'
    BY <1>3, <1>5 DEF SyncShows, Errors, SyncOf
  <2>1. more = {y}
    OBVIOUS
  <2>2. ASSUME Cmd(n).name = Main PROVE \E s \in Storages' : MainSynced(tasks[n].todo, s)'
    <3>1. PICK s \in Storages : MainSynced(tasks[n].todo, s)
      BY <2>2, <1>2 DEF SyncShows
    <3>2. tasks[n].todo = {[of |-> Main, from |-> s, at |-> "clear"]}
      BY <3>1, <1>2 DEF MainSynced
    <3>3. x = [of |-> Main, from |-> s, at |-> "clear"]
      BY <3>2
    <3>4. tasks'[n].todo = {[of |-> Main, from |-> s, at |-> "insert"]}
      BY <3>2, <3>3, <2>1, <1>4, <1>5
    <3> QED BY <3>4, <1>3 DEF MainSynced, Storages
  <2>3. ASSUME Cmd(n).name # Main, NEW p \in DOMAIN profiles, SyncSources(Cmd(n))' = {SyncOf(p, profiles[p])}
        PROVE  ProfileSynced(tasks[n].todo, p)'
    <3>1. SyncSources(Cmd(n)) = {SyncOf(p, profiles[p])}
      BY <2>3, <1>3, <1>5 DEF SyncSources, SyncOf
    <3>2. ProfileSynced(tasks[n].todo, p)
      BY <2>3, <3>1, <1>2 DEF SyncShows
    <3>3. tasks[n].todo = {[of |-> p, from |-> profiles[p], at |-> "clear"]}
      BY <3>2, <1>2 DEF ProfileSynced
    <3>4. x = [of |-> p, from |-> profiles[p], at |-> "clear"]
      BY <3>3
    <3>5. tasks'[n].todo = {[of |-> p, from |-> profiles[p], at |-> "insert"]}
      BY <3>3, <3>4, <2>1, <1>4, <1>5
    <3> QED BY <3>5, <1>3 DEF ProfileSynced
  <2> QED BY <2>2, <2>3
<1> QED BY <1>2, <1>3, <1>5, <1>6, <1>7, HandlerGoesOn

LEMMA InsertBackupListKeeps ==
  ASSUME CatalogInv, NEW n \in Member, NEW x \in tasks[n].todo, InsertBackupList(n, x) PROVE CatalogInv'
<1> DEFINE y == [x EXCEPT !.at = "chunks"]
           more == IF x.of = Main THEN {y} ELSE {}
           found == BackupsOf(x.from, x.of)
<1>1. Syncing(n, x, "insert") /\ Todo(n, x, more) /\ SyncOnly /\ UNCHANGED <<ranges, restores>>
      /\ list' = WithFound(x)
  BY DEF InsertBackupList
<1>2. /\ tasks[n] \in Tasks /\ tasks[n].at = "sync" /\ tasks[n].at \in Working
      /\ x \in Syncs /\ x.at = "insert" /\ x.of \in Profiles /\ x.from \in Storages
      /\ Cmd(n).cmd \in {"resync", "clear"} /\ SyncShows(n)
  BY <1>1, SyncingFacts
<1>3. LoopOnly /\ UNCHANGED <<confVars, held, holder, taken, logged>>
      /\ UNCHANGED <<script, sent, conf, profiles>>
  BY <1>1 DEF SyncOnly, LoopOnly, AgentOnly, lockVars, confVars
<1>4. y = [of |-> x.of, from |-> x.from, at |-> "chunks"] /\ y \in Syncs /\ more \in SUBSET Syncs
  BY <1>2 DEF Syncs
<1> HIDE DEF y
<1>5. PICK next \in Tasks : /\ tasks' = [tasks EXCEPT ![n] = next] /\ tasks'[n] = next
                            /\ next.op = tasks[n].op /\ next.at = tasks[n].at
                            /\ next.todo = (tasks[n].todo \ {x}) \cup more
                            /\ Cmd(n)' = Cmd(n)
  BY <1>1, <1>2, <1>3, <1>4, TodoChanges
<1>6. /\ DOMAIN found = held[x.from].meta
      /\ \A z \in held[x.from].meta :
           /\ DOMAIN found[z] = {"of", "at", "status", "op"} /\ found[z].op = 0
           /\ found[z].at = x.from /\ found[z].of = x.of
           /\ found[z].status = "done" => z \in held[x.from].data
  BY DEF BackupsOf, Record
<1> HIDE DEF found
<1>7. /\ DOMAIN list' = DOMAIN list \cup held[x.from].meta
      /\ \A z \in DOMAIN list' : \/ z \in DOMAIN list /\ list'[z] = list[z]
                                 \/ z \in held[x.from].meta /\ list'[z] = found[z]
      /\ x.of = Main => \A z \in held[x.from].meta : list'[z] = found[z]
  BY <1>1, <1>6 DEF WithFound, Merged, found
<1>8. \A z \in DOMAIN list' : \/ z \in DOMAIN list /\ list'[z] = list[z]
                              \/ /\ DOMAIN list'[z] = {"of", "at", "status", "op"} /\ list'[z].op = 0
                                 /\ list'[z].at \in Storages /\ z \in held[list'[z].at].meta
                                 /\ list'[z].status = "done" => z \in held[list'[z].at].data
  BY <1>2, <1>6, <1>7
<1>9. SyncShows(n)'
  <2> SUFFICES ASSUME Cmd(n).cmd = "resync", ~Errors(tasks[n].op)
               PROVE  /\ Cmd(n).name = Main => \E s \in Storages' : MainSynced(tasks[n].todo, s)'
                      /\ Cmd(n).name # Main => \A p \in DOMAIN profiles :
                           SyncSources(Cmd(n))' = {SyncOf(p, profiles[p])} => ProfileSynced(tasks[n].todo, p)'
    BY <1>3, <1>5 DEF SyncShows, Errors, SyncOf
  <2>1. ASSUME Cmd(n).name = Main PROVE \E s \in Storages' : MainSynced(tasks[n].todo, s)'
    <3>1. PICK s \in Storages : MainSynced(tasks[n].todo, s)
      BY <2>1, <1>2 DEF SyncShows
    <3>2. tasks[n].todo = {[of |-> Main, from |-> s, at |-> "insert"]}
      BY <3>1, <1>2 DEF MainSynced
    <3>3. x = [of |-> Main, from |-> s, at |-> "insert"] /\ x.of = Main /\ x.from = s
      BY <3>2
    <3>4. tasks'[n].todo = {[of |-> Main, from |-> s, at |-> "chunks"]}
      BY <3>2, <3>3, <1>4, <1>5
    <3>5. Shows(Main, s)'
      BY <3>3, <1>3, <1>6, <1>7 DEF Shows
    <3> QED BY <3>4, <3>5, <1>3 DEF MainSynced, Storages
  <2>2. ASSUME Cmd(n).name # Main, NEW p \in DOMAIN profiles, SyncSources(Cmd(n))' = {SyncOf(p, profiles[p])}
        PROVE  ProfileSynced(tasks[n].todo, p)'
    <3>1. SyncSources(Cmd(n)) = {SyncOf(p, profiles[p])} /\ p # Main
      BY <2>2, <1>3, <1>5 DEF SyncSources, SyncOf, CatalogInv, TypeOK
    <3>2. ProfileSynced(tasks[n].todo, p)
      BY <2>2, <3>1, <1>2 DEF SyncShows
    <3>3. tasks[n].todo = {[of |-> p, from |-> profiles[p], at |-> "insert"]}
      BY <3>2, <1>2 DEF ProfileSynced
    <3>4. x = [of |-> p, from |-> profiles[p], at |-> "insert"] /\ x.of = p /\ x.from = profiles[p]
      BY <3>3
    <3>5. tasks'[n].todo = {}
      BY <3>1, <3>3, <3>4, <1>5
    <3>6. Shows(p, profiles[p])'
      BY <3>1, <3>4, <1>3, <1>7 DEF Shows
    <3> QED BY <3>5, <3>6, <1>3 DEF ProfileSynced
  <2> QED BY <2>1, <2>2
<1> QED BY <1>2, <1>3, <1>5, <1>8, <1>9, HandlerGoesOn

LEMMA SyncOfMainKeeps ==
  ASSUME CatalogInv, NEW n \in Member, NEW x \in tasks[n].todo, SyncOplogRange(n, x) \/ SyncPhysicalRestores(n, x)
  PROVE  CatalogInv'
<1> DEFINE y == [x EXCEPT !.at = "restores"]
           more == IF x.at = "chunks" THEN {y} ELSE {}
<1>1. /\ x.at \in {"chunks", "restores"} /\ Syncing(n, x, x.at) /\ Todo(n, x, more) /\ SyncOnly /\ list' = list
      /\ x.at = "chunks" => ranges' = x.from /\ restores' = restores
      /\ x.at = "restores" => ranges' = ranges /\ restores' = x.from
  BY DEF SyncOplogRange, SyncPhysicalRestores, Syncing
<1>2. /\ tasks[n] \in Tasks /\ tasks[n].at = "sync" /\ tasks[n].at \in Working
      /\ x \in Syncs /\ x.of \in Profiles /\ x.from \in Storages
      /\ Cmd(n).cmd \in {"resync", "clear"} /\ SyncShows(n)
  BY <1>1, SyncingFacts
<1>3. LoopOnly /\ UNCHANGED <<confVars, held, holder, taken, logged>>
      /\ UNCHANGED <<script, sent, conf, profiles>>
  BY <1>1 DEF SyncOnly, LoopOnly, AgentOnly, lockVars, confVars
<1>4. y = [of |-> x.of, from |-> x.from, at |-> "restores"] /\ y \in Syncs /\ more \in SUBSET Syncs
  BY <1>2 DEF Syncs
<1> HIDE DEF y
<1>5. PICK next \in Tasks : /\ tasks' = [tasks EXCEPT ![n] = next] /\ tasks'[n] = next
                            /\ next.op = tasks[n].op /\ next.at = tasks[n].at
                            /\ next.todo = (tasks[n].todo \ {x}) \cup more
                            /\ Cmd(n)' = Cmd(n)
  BY <1>1, <1>2, <1>3, <1>4, TodoChanges
<1>6. SyncShows(n)'
  <2> SUFFICES ASSUME Cmd(n).cmd = "resync", ~Errors(tasks[n].op)
               PROVE  /\ Cmd(n).name = Main => \E s \in Storages' : MainSynced(tasks[n].todo, s)'
                      /\ Cmd(n).name # Main => \A p \in DOMAIN profiles :
                           SyncSources(Cmd(n))' = {SyncOf(p, profiles[p])} => ProfileSynced(tasks[n].todo, p)'
    BY <1>3, <1>5 DEF SyncShows, Errors, SyncOf
  <2>1. ASSUME Cmd(n).name = Main PROVE \E s \in Storages' : MainSynced(tasks[n].todo, s)'
    <3>1. PICK s \in Storages : MainSynced(tasks[n].todo, s)
      BY <2>1, <1>2 DEF SyncShows
    <3>2. Shows(Main, s)'
      BY <3>1, <1>1, <1>3 DEF MainSynced, Shows
    <3>3. CASE x.at = "chunks"
      <4>1. tasks[n].todo = {[of |-> Main, from |-> s, at |-> "chunks"]}
        BY <3>1, <3>3 DEF MainSynced
      <4>2. x = [of |-> Main, from |-> s, at |-> "chunks"] /\ x.of = Main /\ x.from = s
        BY <4>1
      <4>3. tasks'[n].todo = {[of |-> Main, from |-> s, at |-> "restores"]} /\ ranges' = s
        BY <3>3, <4>1, <4>2, <1>1, <1>4, <1>5
      <4> QED BY <3>2, <4>3, <1>3 DEF MainSynced, Storages
    <3>4. CASE x.at = "restores"
      <4>1. tasks[n].todo = {[of |-> Main, from |-> s, at |-> "restores"]} /\ ranges = s
        BY <3>1, <3>4 DEF MainSynced
      <4>2. x = [of |-> Main, from |-> s, at |-> "restores"] /\ x.of = Main /\ x.from = s
        BY <4>1
      <4>3. tasks'[n].todo = {} /\ ranges' = s /\ restores' = s
        BY <3>4, <4>1, <4>2, <1>1, <1>5
      <4> QED BY <3>2, <4>3, <1>3 DEF MainSynced, Storages
    <3> QED BY <3>3, <3>4, <1>1
  <2>2. ASSUME Cmd(n).name # Main, NEW p \in DOMAIN profiles, SyncSources(Cmd(n))' = {SyncOf(p, profiles[p])}
        PROVE  ProfileSynced(tasks[n].todo, p)'
    <3>1. SyncSources(Cmd(n)) = {SyncOf(p, profiles[p])}
      BY <2>2, <1>3, <1>5 DEF SyncSources, SyncOf
    <3>2. ProfileSynced(tasks[n].todo, p)
      BY <2>2, <3>1, <1>2 DEF SyncShows
    <3> QED BY <3>2, <1>1 DEF ProfileSynced
  <2> QED BY <2>1, <2>2
<1>7. \A z \in DOMAIN list' : z \in DOMAIN list /\ list'[z] = list[z]
  BY <1>1
<1> QED BY <1>2, <1>3, <1>5, <1>6, <1>7, HandlerGoesOn

LEMMA SyncFailsKeeps ==
  ASSUME CatalogInv, NEW n \in Member, NEW x \in tasks[n].todo, SyncFails(n, x) PROVE CatalogInv'
<1>1. Syncing(n, x, x.at) /\ LoopOnly /\ UNCHANGED <<confVars, held, list>> /\ UNCHANGED <<script, sent, conf, profiles>>
  BY DEF SyncFails, Syncing, LoopOnly, AgentOnly, confVars
<1>2. /\ tasks[n] \in Tasks /\ tasks[n].at = "sync" /\ tasks[n].at \in Working
      /\ x \in Syncs /\ x.of \in Profiles /\ x.from \in Storages
      /\ Cmd(n).cmd \in {"resync", "clear"} /\ SyncShows(n)
  BY <1>1, SyncingFacts
<1>3. \A z \in DOMAIN list' : z \in DOMAIN list /\ list'[z] = list[z]
  BY <1>1
<1>4. CASE x.of = Main
  <2> DEFINE more == IF After(x.at) = "end" THEN {} ELSE {[x EXCEPT !.at = After(x.at)]}
  <2>1. Todo(n, x, more) /\ logged' = Append(logged, <<tasks[n].op, "error">>) /\ UNCHANGED <<holder, taken>>
    BY <1>4 DEF SyncFails, Log, Task
  <2>2. After(x.at) \in {"chunks", "restores", "end"}
    BY DEF After
  <2>3. more \in SUBSET Syncs
    BY <2>2, <1>2 DEF Syncs
  <2> HIDE DEF more
  <2>4. PICK next \in Tasks : /\ tasks' = [tasks EXCEPT ![n] = next] /\ tasks'[n] = next
                              /\ next.op = tasks[n].op /\ next.at = tasks[n].at
                              /\ next.todo = (tasks[n].todo \ {x}) \cup more
                              /\ Cmd(n)' = Cmd(n)
    BY <2>1, <2>3, <1>1, <1>2, TodoChanges
  <2>5. SyncShows(n)'
    <3>1. logged \in Seq(Nat \X {"error", "succeed", "done"}) /\ tasks[n].op \in Nat
      BY <1>2 DEF CatalogInv, TypeOK, Tasks
    <3>2. <<tasks[n].op, "error">> \in Nat \X {"error", "succeed", "done"}
      BY <3>1
    <3>3. Len(logged) \in Nat /\ logged' \in Seq(Nat \X {"error", "succeed", "done"})
          /\ Len(logged') = Len(logged) + 1 /\ logged'[Len(logged) + 1] = <<tasks[n].op, "error">>
      BY <2>1, <3>1, <3>2, LogGrows
    <3>4. Len(logged) + 1 \in DOMAIN logged'
      BY <3>3
    <3>5. Errors(tasks[n].op)'
      BY <2>4, <3>3, <3>4 DEF Errors
    <3> QED BY <3>5 DEF SyncShows
  <2> QED BY <2>1, <2>4, <2>5, <1>1, <1>2, <1>3, HandlerGoesOn
<1>5. CASE x.of # Main
  <2>1. Ends(n, "error")
    BY <1>5 DEF SyncFails
  <2>2. UNCHANGED <<client, taken>>
    BY <2>1, <1>1 DEF Ends, LoopOnly, AgentOnly
  <2>3. ListedIsStored'
    BY <2>2, <1>1, FoundIsStored
  <2>4. DOMAIN profiles' \subseteq Profiles \ {Main} /\ \A p \in DOMAIN profiles' : p \in DOMAIN profiles /\ profiles'[p] = profiles[p]
    BY <1>1 DEF CatalogInv, TypeOK
  <2> QED BY <2>1, <2>3, <2>4, <1>1, <1>2, <1>3, HandlerEnds
<1> QED BY <1>4, <1>5

\* The handlers that end at once, or only take from the list.
LEMMA HandlerEndsPlainly ==
  ASSUME CatalogInv, NEW n \in Member, tasks[n].at \in Working, NEW what \in {"error", "succeed", "done"},
         Ends(n, what), LoopOnly, UNCHANGED <<confVars, held>>,
         \A z \in DOMAIN list' : z \in DOMAIN list /\ list'[z] = list[z]
  PROVE  CatalogInv'
<1>1. UNCHANGED <<script, sent, client, conf, profiles, taken>>
  BY DEF Ends, LoopOnly, AgentOnly, confVars
<1>2. ListedIsStored'
  BY <1>1, FoundIsStored
<1>3. DOMAIN profiles' \subseteq Profiles \ {Main} /\ \A p \in DOMAIN profiles' : p \in DOMAIN profiles /\ profiles'[p] = profiles[p]
  BY <1>1 DEF CatalogInv, TypeOK
<1> QED BY <1>1, <1>2, <1>3, HandlerEnds

LEMMA BeginSyncKeeps ==
  ASSUME CatalogInv, NEW n \in Member, BeginSync(n) PROVE CatalogInv'
<1> DEFINE todo == SyncSources(Cmd(n))
           next == [tasks[n] EXCEPT !.at = "sync", !.todo = todo]
<1>1. /\ tasks[n].at \in Working /\ Cmd(n).cmd \in {"resync", "clear"} /\ LoopOnly
      /\ UNCHANGED <<confVars, held, list, ranges, restores, script, sent, conf, profiles>>
  BY DEF BeginSync, TaskAt, Task, Working, LoopOnly, AgentOnly, confVars, listVars
<1>2. \A z \in DOMAIN list' : z \in DOMAIN list /\ list'[z] = list[z]
  BY <1>1
<1>3. CASE Ends(n, "error")
  BY <1>1, <1>2, <1>3, HandlerEndsPlainly
<1>4. CASE tasks' = [tasks EXCEPT ![n].at = "sync", ![n].todo = todo] /\ UNCHANGED lockVars
  <2>1. tasks \in [Member -> Tasks] /\ tasks[n] \in Tasks /\ UNCHANGED <<holder, taken, logged>>
    BY <1>4 DEF CatalogInv, TypeOK, lockVars
  <2>2. todo \in SUBSET Syncs
    <3>1. conf \in Storages /\ DOMAIN profiles \subseteq Profiles /\ \A p \in DOMAIN profiles : profiles[p] \in Storages
      BY DEF CatalogInv, TypeOK
    <3>2. Main \in Profiles
      BY DEF Profiles
    <3>3. SyncOf(Main, conf) \in Syncs /\ \A p \in DOMAIN profiles : SyncOf(p, profiles[p]) \in Syncs
      BY <3>1, <3>2 DEF SyncOf, Syncs
    <3> QED BY <3>3 DEF SyncSources
  <2>3. tasks' = [tasks EXCEPT ![n] = next]
    BY <1>4, <2>1
  <2>4. next \in Tasks /\ next.at = "sync" /\ next.todo = todo /\ next.op = tasks[n].op
    BY <2>1, <2>2 DEF Tasks, Working
  <2> HIDE DEF next
  <2>5. tasks'[n] = next /\ Cmd(n)' = Cmd(n)
    BY <1>1, <2>1, <2>3, <2>4 DEF Cmd, Task
  <2>6. SyncShows(n)'
    <3>2. ASSUME NEW p \in DOMAIN profiles, SyncSources(Cmd(n))' = {SyncOf(p, profiles[p])}
          PROVE  ProfileSynced(tasks[n].todo, p)'
      <4>1. todo = {SyncOf(p, profiles[p])}
        BY <3>2, <1>1, <2>5 DEF SyncSources, SyncOf
      <4>2. tasks'[n].todo = {[of |-> p, from |-> profiles[p], at |-> "clear"]}
        BY <4>1, <2>4, <2>5 DEF SyncOf
      <4> QED BY <4>2, <1>1 DEF ProfileSynced
    <3>3. Cmd(n).name = Main => \E s \in Storages' : MainSynced(tasks[n].todo, s)'
      <4> SUFFICES ASSUME Cmd(n).name = Main PROVE \E s \in Storages' : MainSynced(tasks[n].todo, s)'
        OBVIOUS
      <4>1. todo = {[of |-> Main, from |-> conf, at |-> "clear"]}
        BY DEF SyncSources, SyncOf, Main
      <4>2. tasks'[n].todo = {[of |-> Main, from |-> conf, at |-> "clear"]}
        BY <4>1, <2>4, <2>5
      <4>3. conf \in Storages' /\ MainSynced(tasks[n].todo, conf)'
        BY <4>2, <1>1 DEF MainSynced, CatalogInv, TypeOK, Storages
      <4> QED BY <4>3, <1>1
    <3> QED BY <3>2, <3>3, <1>1, <2>5 DEF SyncShows, SyncOf
  <2> QED BY <1>1, <1>2, <2>1, <2>3, <2>4, <2>6, HandlerGoesOn DEF Working
<1> QED BY <1>3, <1>4 DEF BeginSync

LEMMA ProfilesKeep ==
  ASSUME CatalogInv, NEW n \in Member, AddProfile(n) \/ ClearProfile(n) \/ RemoveProfile(n) PROVE CatalogInv'
<1>t. tasks \in [Member -> Tasks] /\ tasks[n] \in Tasks /\ DOMAIN profiles \subseteq Profiles \ {Main}
  BY DEF CatalogInv, TypeOK
<1>1. CASE AddProfile(n)
  <2>1. /\ tasks[n].at \in Working /\ Cmd(n).cmd = "add" /\ Ends(n, "done") /\ LoopOnly
        /\ profiles' = Put(profiles, Cmd(n).name, Cmd(n).to) /\ UNCHANGED <<conf, held, list>>
    BY <1>1 DEF AddProfile, TaskAt, Task, Working, listVars
  <2>2. tasks[n].op \in 1..Len(sent)
    <3>1. tasks[n].op \in 1..heard[n]
      BY <2>1 DEF CatalogInv, TasksAreLocked, Working
    <3>2. heard[n] \in Nat /\ heard[n] <= Len(sent) /\ Len(sent) \in Nat
      BY DEF CatalogInv, TypeOK
    <3> QED BY <3>1, <3>2
  <2>3. Cmd(n).to \in Storages /\ Cmd(n).name # Main /\ Asked({"add"}) # {} /\ Cmd(n).name \in Profiles
    <3>1. Cmd(n).to \in Storages /\ Cmd(n).name # Main /\ Asked({"add"}) # {}
      BY <2>1, <2>2 DEF CatalogInv, MessagesAreAsked, Cmd, Task
    <3>2. Cmd(n) \in Messages
      BY <2>2 DEF CatalogInv, TypeOK, Cmd, Task
    <3> QED BY <3>1, <3>2 DEF Messages
  <2>4. /\ DOMAIN profiles' \subseteq Profiles \ {Main}
        /\ \A p \in DOMAIN profiles' : \/ p \in DOMAIN profiles /\ profiles'[p] = profiles[p]
                                       \/ profiles'[p] \in Storages /\ Asked({"add"}) # {}
    BY <1>t, <2>1, <2>3 DEF Put
  <2>5. UNCHANGED <<script, sent, client, taken>>
    BY <2>1 DEF Ends, LoopOnly, AgentOnly
  <2>6. ListedIsStored'
    BY <2>1, <2>5, FoundIsStored
  <2>7. \A z \in DOMAIN list' : z \in DOMAIN list /\ list'[z] = list[z]
    BY <2>1
  <2> QED BY <2>1, <2>4, <2>6, <2>7, HandlerEnds
<1>2. CASE ClearProfile(n)
  <2>1. tasks[n].at \in Working /\ LoopOnly /\ UNCHANGED <<confVars, held>>
    BY <1>2 DEF ClearProfile, TaskAt, Task, Working
  <2>2. CASE Ends(n, "error") /\ UNCHANGED list
    BY <2>1, <2>2, HandlerEndsPlainly
  <2>3. CASE /\ list' = Without(list, {b \in DOMAIN list : list[b].of = Cmd(n).name})
             /\ Goes(n, "remove") /\ UNCHANGED lockVars
    <3> DEFINE next == [tasks[n] EXCEPT !.at = "remove"]
    <3>1. next \in Tasks /\ next.at = "remove" /\ next.op = tasks[n].op
      BY <1>t DEF Tasks, Working
    <3>2. tasks' = [tasks EXCEPT ![n] = next] /\ UNCHANGED <<holder, taken, logged>>
      BY <2>3 DEF Goes, lockVars
    <3> HIDE DEF next
    <3>3. tasks'[n].at = "remove"
      BY <1>t, <3>1, <3>2
    <3>4. SyncShows(n)'
      BY <3>3 DEF SyncShows
    <3>5. \A z \in DOMAIN list' : z \in DOMAIN list /\ list'[z] = list[z]
      BY <2>3 DEF Without
    <3> QED BY <2>1, <3>1, <3>2, <3>4, <3>5, HandlerGoesOn DEF Working
  <2> QED BY <1>2, <2>2, <2>3 DEF ClearProfile
<1>3. CASE RemoveProfile(n)
  <2>1. /\ tasks[n].at \in Working /\ Ends(n, "done") /\ LoopOnly
        /\ profiles' = Without(profiles, {Cmd(n).name}) /\ UNCHANGED <<conf, held, list>>
    BY <1>3 DEF RemoveProfile, TaskAt, Task, Working, listVars
  <2>2. DOMAIN profiles' \subseteq Profiles \ {Main} /\ \A p \in DOMAIN profiles' : p \in DOMAIN profiles /\ profiles'[p] = profiles[p]
    BY <1>t, <2>1 DEF Without
  <2>3. UNCHANGED <<script, sent, client, taken>>
    BY <2>1 DEF Ends, LoopOnly, AgentOnly
  <2>4. ListedIsStored'
    BY <2>1, <2>3, FoundIsStored
  <2>5. \A z \in DOMAIN list' : z \in DOMAIN list /\ list'[z] = list[z]
    BY <2>1
  <2> QED BY <2>1, <2>2, <2>4, <2>5, HandlerEnds
<1> QED BY <1>1, <1>2, <1>3

LEMMA DeletionKeeps ==
  ASSUME CatalogInv, NEW n \in Member, DeleteBackupFiles(n) \/ DeleteBackupRecord(n) PROVE CatalogInv'
<1>t. tasks \in [Member -> Tasks] /\ tasks[n] \in Tasks
  BY DEF CatalogInv, TypeOK
<1>1. CASE DeleteBackupRecord(n)
  <2>1. /\ tasks[n].at \in Working /\ Ends(n, "done") /\ LoopOnly /\ UNCHANGED <<confVars, held>>
        /\ list' = Without(list, {Cmd(n).name})
    BY <1>1 DEF DeleteBackupRecord, TaskAt, Task, Working
  <2>2. \A z \in DOMAIN list' : z \in DOMAIN list /\ list'[z] = list[z]
    BY <2>1 DEF Without
  <2> QED BY <2>1, <2>2, HandlerEndsPlainly
<1>2. CASE DeleteBackupFiles(n)
  <2> DEFINE name == Cmd(n).name
             at == list[name].at
             next == [tasks[n] EXCEPT !.at = "record"]
  <2>1. tasks[n].at \in Working /\ LoopOnly /\ UNCHANGED <<confVars, listVars>> /\ Cmd(n).cmd = "delete"
    BY <1>2 DEF DeleteBackupFiles, TaskAt, Task, Working
  <2>2. UNCHANGED <<list, conf, profiles>>
    BY <2>1 DEF listVars, confVars
  <2>3. CASE Ends(n, "error") /\ UNCHANGED held
    BY <2>1, <2>2, <2>3, HandlerEndsPlainly
  <2>4. CASE CanDeleteBackup(name) /\ held' = Kept(at, {name}) /\ Goes(n, "record") /\ UNCHANGED lockVars
    <3>1. /\ next \in Tasks /\ next.at = "record" /\ next.op = tasks[n].op
          /\ tasks' = [tasks EXCEPT ![n] = next] /\ UNCHANGED <<holder, taken, logged>>
      BY <1>t, <2>4 DEF Tasks, Working, Goes, lockVars
    <3> HIDE DEF next
    <3>2. tasks'[n].at = "record"
      BY <1>t, <3>1
    <3>3. UNCHANGED <<script, sent, client, heard, gone, backups>>
      BY <2>1 DEF LoopOnly, AgentOnly
    <3>4. /\ DOMAIN held = Storages /\ at \in Storages /\ \A s \in Storages : DOMAIN held[s] = {"data", "meta"}
      BY <2>4 DEF CanDeleteBackup, CatalogInv, TypeOK
    <3>5. /\ DOMAIN held' = Storages
          /\ \A s \in Storages \ {at} : held'[s] = held[s]
          /\ DOMAIN held'[at] = {"data", "meta"}
          /\ held'[at].data = held[at].data \ {name} /\ held'[at].meta = held[at].meta \ {name}
      <4> DEFINE h == [held[at] EXCEPT !.data = held[at].data \ {name}, !.meta = held[at].meta \ {name}]
      <4>1. held' = [held EXCEPT ![at] = h]
        BY <2>4, <3>4 DEF Kept
      <4>2. DOMAIN h = {"data", "meta"} /\ h.data = held[at].data \ {name} /\ h.meta = held[at].meta \ {name}
        BY <3>4
      <4> HIDE DEF h
      <4> QED BY <3>4, <4>1, <4>2
    <3>6. \A s \in Storages : /\ DOMAIN held'[s] = {"data", "meta"}
                              /\ held'[s].data \subseteq held[s].data /\ held'[s].meta \subseteq held[s].meta
                              /\ \A z : z # name /\ z \in held[s].data \cap held[s].meta => z \in held'[s].data \cap held'[s].meta
      BY <3>4, <3>5
    <3>7. HandlerMoves(n, next)
      <4>1. DOMAIN profiles \subseteq Profiles \ {Main}
        BY DEF CatalogInv, TypeOK
      <4> QED BY <2>1, <2>2, <3>1, <3>3, <3>4, <3>5, <3>6, <4>1 DEF HandlerMoves, Working
    <3>8. ListedIsStored'
      <4>1. \A y : y = name => Deleting(y)'
        BY <2>1, <3>1, <3>3 DEF Deleting, CatalogInv, TasksAreLocked, Cmd, Task, Working
      <4>2. \A z : Deleting(z) => Deleting(z)'
        BY <3>1, <3>3 DEF Deleting
      <4>3. \A z, s : z # name /\ s \in Storages /\ StoredAt(z, s) => StoredAt(z, s)'
        BY <3>6 DEF StoredAt
      <4>4. \A kinds : Asked(kinds)' = Asked(kinds)
        BY <3>3 DEF Asked, Ask
      <4>5. \A z \in DOMAIN list : z # name /\ Strayed(z) => Strayed(z)'
        BY <2>2, <3>4, <3>5, <4>3, <4>4 DEF Strayed
      <4>6. \A z \in DOMAIN list : list[z].at \in Storages
        BY DEF CatalogInv, TypeOK
      <4> SUFFICES ASSUME NEW z \in DOMAIN list', list'[z].status = "done"
                   PROVE  StoredAt(z, list[z].at)' \/ Deleting(z)' \/ Strayed(z)'
        BY DEF ListedIsStored
      <4>7. z \in DOMAIN list /\ list'[z] = list[z] /\ list[z].status = "done"
        BY <2>2
      <4>8. StoredAt(z, list[z].at) \/ Deleting(z) \/ Strayed(z)
        BY <4>7 DEF ListedIsStored, CatalogInv
      <4>10. CASE z = name
        BY <4>1, <4>10
      <4>11. CASE z # name /\ StoredAt(z, list[z].at)
        <5>1. StoredAt(z, list[z].at)'
          BY <4>3, <4>6, <4>7, <4>11, <2>2
        <5> QED BY <5>1
      <4>12. CASE Deleting(z)
        BY <4>12, <4>2
      <4>13. CASE z # name /\ Strayed(z)
        BY <4>13, <4>5, <4>7
      <4> QED BY <4>8, <4>10, <4>11, <4>12, <4>13
    <3>9. SyncShows(n)'
      BY <3>2 DEF SyncShows
    <3> QED BY <3>7, <3>8, <3>9, HandlerKeeps
  <2> QED BY <1>2, <2>3, <2>4 DEF DeleteBackupFiles
<1> QED BY <1>1, <1>2

LEMMA HandlerStepKeeps ==
  ASSUME CatalogInv, NEW n \in Member, HandlerStep(n) \/ HandlerMishap(n) PROVE CatalogInv'
<1>1. CASE ResyncSucceeds(n)
  <2>1. tasks[n].at \in Working /\ Ends(n, "succeed") /\ LoopOnly /\ UNCHANGED <<confVars, held, list>>
    BY <1>1 DEF ResyncSucceeds, TaskAt, Task, Working, listVars
  <2> QED BY <2>1, HandlerEndsPlainly
<1>2. CASE HandlerFails(n)
  <2>1. tasks[n].at \in Working /\ Ends(n, "error") /\ LoopOnly /\ UNCHANGED <<confVars, held, list>>
    BY <1>2 DEF HandlerFails, Task, Working, listVars
  <2> QED BY <2>1, HandlerEndsPlainly
<1> QED BY <1>1, <1>2, HearCommandKeeps, AcquireLockForKeeps, BeginSyncKeeps, ClearListKeeps, InsertBackupListKeeps,
           SyncOfMainKeeps, SyncFailsKeeps, ProfilesKeep, DeletionKeeps DEF HandlerStep, HandlerMishap, Task

-----------------------------------------------------------------------------
(* The backup that runs: it alone changes its record and its files.          *)

LEMMA RunningKeeps ==
  ASSUME CatalogInv, NEW b \in backups, b.at \in Running, NEW nb \in Backups, nb.by = b.by, nb.op = b.op,
         nb.conf = b.conf, nb.at \in {"save", "done"}, backups' \subseteq (backups \ {b}) \cup {nb},
         UNCHANGED <<script, conf, profiles, ranges, restores, sent, client, heard, gone, tasks, taken, logged>>,
         holder' \in {holder, None}, nb \in backups' => holder' = holder,
         NEW z, z = BcpName(b),
         DOMAIN list' = DOMAIN list,
         \A x \in DOMAIN list : /\ x # z => list'[x] = list[x]
                                /\ DOMAIN list'[x] = DOMAIN list[x]
                                /\ list'[x].of = list[x].of /\ list'[x].at = list[x].at /\ list'[x].op = list[x].op,
         DOMAIN held' = Storages,
         \A s \in Storages : /\ DOMAIN held'[s] = {"data", "meta"}
                             /\ \A x : x # z => /\ x \in held'[s].data <=> x \in held[s].data
                                                /\ x \in held'[s].meta <=> x \in held[s].meta,
         nb \in backups' => /\ z \in DOMAIN list /\ list[z].op = b.op /\ z \in held'[b.conf].data
                            /\ nb.at = "done" => z \in held'[b.conf].meta,
         z \in DOMAIN list' /\ list'[z].status = "done" =>
           StoredAt(z, list[z].at)' \/ Deleting(z)' \/ Strayed(z)'
  PROVE  CatalogInv'
<1> USE DEF CatalogInv
<1>1. /\ Storages' = Storages /\ Profiles' = Profiles /\ Sources' = Sources /\ Messages' = Messages
      /\ Syncs' = Syncs /\ Tasks' = Tasks /\ Backups' = Backups
      /\ (\A kinds : Asked(kinds)' = Asked(kinds)) /\ (\A c : Ask(c)' = Ask(c))
      /\ (\A a : BcpName(a)' = BcpName(a)) /\ (\A of : First(of)' = First(of)) /\ MessagesAreAsked'
  BY ScriptStays
<1>2. /\ b.op \in 1..Len(sent) /\ b.op # 0 /\ Len(sent) \in Nat /\ sent[b.op].cmd = "backup"
      /\ b.conf \in Storages /\ b.op \in taken
  <2>1. b.op \in 1..heard[b.by] /\ b.by \in Member
    BY DEF BackupsAreLocked, TypeOK, Backups
  <2>2. heard[b.by] \in Nat /\ Len(sent) \in Nat /\ heard[b.by] <= Len(sent)
    BY <2>1 DEF TypeOK
  <2> QED BY <2>1, <2>2 DEF BackupsAreLocked, Running
<1>3. /\ \A m \in Member : tasks[m].at \notin Working
      /\ \A a \in backups \ {b} : a.at \notin Running
      /\ holder = [op |-> b.op, by |-> b.by]
  BY OneBackupRuns
<1>4. backups' \subseteq Backups /\ BackupsAreLocked'
  <2>1. \A a \in backups' : a.at \in Running => holder' = [op |-> a.op, by |-> a.by] /\ a.op \in taken'
    BY <1>2, <1>3
  <2> QED BY <1>2, <2>1, BackupMoves
<1>5. TypeOK'
  <2>1. \A x \in DOMAIN list' :
          DOMAIN list'[x] = {"of", "at", "status", "op"} /\ list'[x].at \in Storages /\ list'[x].op \in 0..Len(sent)
    BY DEF TypeOK
  <2>2. holder' \in {None} \cup [op : Nat, by : Member]
    BY DEF TypeOK
  <2> QED BY <1>1, <1>4, <2>1, <2>2 DEF TypeOK
<1>6. TasksAreLocked'
  <2>1. \A m \in Member : Cmd(m)' = Cmd(m) /\ tasks'[m].at \notin Working
    BY <1>3 DEF Cmd, Task
  <2>2. TasksAreLocked
    OBVIOUS
  <2>3. UNCHANGED <<tasks, heard, gone>>
    OBVIOUS
  <2> HIDE DEF CatalogInv
  <2> QED BY <2>1, <2>2, <2>3 DEF TasksAreLocked
<1>7. NamesAreFresh'
  <2> SUFFICES ASSUME NEW c \in DOMAIN client, Ask(c).do = "backup", Unstored(c)'
               PROVE  /\ \A s \in Storages : Ask(c).name \notin held'[s].data \cup held'[s].meta
                      /\ Ask(c).name \in DOMAIN list' => client[c].op # 0 /\ list'[Ask(c).name].op = client[c].op
    BY <1>1 DEF NamesAreFresh
  <2>1. client[c].op \notin taken
    BY <1>3 DEF Unstored, Running
  <2>2. Unstored(c)
    BY <2>1 DEF Unstored
  <2>3. Ask(c).name # z
    BY <2>1, <1>2, AskedOnce DEF BcpName
  <2> QED BY <2>2, <2>3 DEF NamesAreFresh
<1>8. RunsAreListed'
  <2> SUFFICES ASSUME NEW a \in backups', a.at \in {"save", "done"}
               PROVE  /\ BcpName(a) \in DOMAIN list' /\ list'[BcpName(a)].op = a.op
                      /\ BcpName(a) \in held'[a.conf].data
                      /\ a.at = "done" => BcpName(a) \in held'[a.conf].meta
    BY <1>1 DEF RunsAreListed
  <2>1. a = nb
    BY <1>3 DEF Running
  <2>2. BcpName(a) = z
    BY <2>1 DEF BcpName
  <2> QED BY <2>1, <2>2
<1>9. ConfigurationStands'
  <2>1. \A a \in backups' : a.at \notin {"check", "config"} =>
          a.conf = First(sent[a.op].to) \/ Asked({"file", "set", "add"}) # {}
    BY DEF ConfigurationStands, Running
  <2> QED BY <2>1, <1>1 DEF ConfigurationStands
<1>10. ListedIsStored'
  <2> SUFFICES ASSUME NEW x \in DOMAIN list', list'[x].status = "done", x # z
               PROVE  StoredAt(x, list[x].at)' \/ Deleting(x)' \/ Strayed(x)'
    BY DEF ListedIsStored
  <2>1. x \in DOMAIN list /\ list'[x] = list[x] /\ list[x].at \in Storages
    BY DEF TypeOK
  <2>2. StoredAt(x, list[x].at) \/ Deleting(x) \/ Strayed(x)
    BY <2>1 DEF ListedIsStored
  <2>3. \A s \in Storages : StoredAt(x, s)' <=> StoredAt(x, s)
    BY DEF StoredAt
  <2>4. Deleting(x)' <=> Deleting(x)
    BY DEF Deleting
  <2>5. Strayed(x) => Strayed(x)'
    BY <1>1, <2>1, <2>3 DEF Strayed, TypeOK
  <2>6. StoredAt(x, list[x].at) => StoredAt(x, list[x].at)'
    BY <2>1 DEF StoredAt
  <2> QED BY <2>2, <2>4, <2>5, <2>6
<1>11. SyncsShow'
  <2>1. \A m \in Member : tasks'[m].at # "sync"
    BY <1>3 DEF Working
  <2> QED BY <2>1 DEF SyncsShow
<1> QED BY <1>1, <1>4, <1>5, <1>6, <1>7, <1>8, <1>9, <1>10, <1>11

LEMMA RunningFacts ==
  ASSUME CatalogInv, NEW b \in backups, b.at \in Running
  PROVE  /\ b \in Backups /\ b.op \in Nat /\ b.op # 0 /\ b.by \in Member /\ b.conf \in Storages
         /\ DOMAIN held = Storages /\ \A s \in Storages : DOMAIN held[s] = {"data", "meta"}
         /\ \A at \in {"save", "done"} : LET nb == [b EXCEPT !.at = at] IN
              nb \in Backups /\ nb.by = b.by /\ nb.op = b.op /\ nb.conf = b.conf /\ nb.at = at
<1>1. b \in Backups /\ DOMAIN held = Storages /\ \A s \in Storages : DOMAIN held[s] = {"data", "meta"}
  BY DEF CatalogInv, TypeOK
<1>2. b.op \in 1..heard[b.by] /\ b.conf \in Storages
  BY DEF CatalogInv, BackupsAreLocked, Running
<1>3. b.op \in Nat /\ b.by \in Member
  BY <1>1 DEF Backups
<1>4. heard[b.by] \in Nat
  BY <1>3 DEF CatalogInv, TypeOK
<1>5. ASSUME NEW at \in {"save", "done"}
      PROVE  LET nb == [b EXCEPT !.at = at] IN
               nb \in Backups /\ nb.by = b.by /\ nb.op = b.op /\ nb.conf = b.conf /\ nb.at = at
  BY <1>1 DEF Backups, Running
<1> QED BY <1>1, <1>2, <1>3, <1>4, <1>5

\* Data or metadata of a backup is written to, or all of it removed from, one storage.
LEMMA FilesChange ==
  ASSUME NEW s0 \in Storages, DOMAIN held = Storages, NEW z, NEW r,
         DOMAIN r = {"data", "meta"}, held' = [held EXCEPT ![s0] = r],
         \A s \in Storages : DOMAIN held[s] = {"data", "meta"},
         \A x : x # z => (x \in r.data <=> x \in held[s0].data) /\ (x \in r.meta <=> x \in held[s0].meta)
  PROVE  /\ DOMAIN held' = Storages /\ held'[s0] = r
         /\ \A s \in Storages : /\ DOMAIN held'[s] = {"data", "meta"}
                                /\ s # s0 => held'[s] = held[s]
                                /\ \A x : x # z => /\ x \in held'[s].data <=> x \in held[s].data
                                                   /\ x \in held'[s].meta <=> x \in held[s].meta
OBVIOUS

LEMMA StatusChanges ==
  ASSUME TypeOK, NEW z, NEW status, SetStatus(z, status)
  PROVE  /\ DOMAIN list' = DOMAIN list
         /\ \A x \in DOMAIN list :
              /\ x # z => list'[x] = list[x]
              /\ DOMAIN list'[x] = DOMAIN list[x]
              /\ list'[x].of = list[x].of /\ list'[x].at = list[x].at /\ list'[x].op = list[x].op
         /\ z \in DOMAIN list => list'[z].status = status
<1>1. \A x \in DOMAIN list : DOMAIN list[x] = {"of", "at", "status", "op"}
  BY DEF TypeOK
<1>2. CASE z \in DOMAIN list
  <2> DEFINE r == [list[z] EXCEPT !.status = status]
  <2>1. list' = [list EXCEPT ![z] = r]
    BY <1>2 DEF SetStatus
  <2>2. /\ DOMAIN r = DOMAIN list[z] /\ r.of = list[z].of /\ r.at = list[z].at /\ r.op = list[z].op
        /\ r.status = status
    BY <1>1, <1>2
  <2> HIDE DEF r
  <2> QED BY <2>1, <2>2
<1>3. CASE z \notin DOMAIN list
  BY <1>3 DEF SetStatus
<1> QED BY <1>2, <1>3

LEMMA RunStoredKeeps ==
  ASSUME CatalogInv, NEW b \in backups, RunStored(b) PROVE CatalogInv'
<1>0. PICK z : z = BcpName(b)
  OBVIOUS
<1> DEFINE nb == [b EXCEPT !.at = "save"]
           r == [held[b.conf] EXCEPT !.data = held[b.conf].data \cup {z}]
<1>1. /\ b.at = "run" /\ b.at \in Running /\ z \in DOMAIN list /\ SetStatus(z, "running")
      /\ backups' = (backups \ {b}) \cup {nb}
      /\ UNCHANGED <<script, conf, profiles, ranges, restores, sent, client, heard, gone, tasks, taken, logged, holder>>
  BY <1>0 DEF RunStored, BackupAt, Running, BackupGoes, BackupOnly, AgentOnly, confVars, lockVars
<1>2. /\ b.op # 0 /\ b.op \in Nat /\ b.conf \in Storages /\ DOMAIN held = Storages
      /\ \A s \in Storages : DOMAIN held[s] = {"data", "meta"}
      /\ nb \in Backups /\ nb.by = b.by /\ nb.op = b.op /\ nb.conf = b.conf /\ nb.at = "save"
  BY <1>1, RunningFacts
<1>3. /\ DOMAIN r = {"data", "meta"} /\ r.data = held[b.conf].data \cup {z} /\ r.meta = held[b.conf].meta
      /\ held' = [held EXCEPT ![b.conf] = r]
  BY <1>0, <1>2 DEF RunStored
<1>4. list[z].op = b.op
  <2>1. b.op \in 1..Len(sent) /\ sent[b.op].cmd = "backup"
    <3>1. b.op \in 1..heard[b.by] /\ b.by \in Member /\ sent[b.op].cmd = "backup"
      BY DEF CatalogInv, BackupsAreLocked, TypeOK, Backups
    <3>2. heard[b.by] \in Nat /\ Len(sent) \in Nat /\ heard[b.by] <= Len(sent)
      BY <3>1 DEF CatalogInv, TypeOK
    <3> QED BY <3>1, <3>2
  <2>2. PICK c \in DOMAIN client : Ask(c).do = "backup" /\ client[c].op = b.op /\ Ask(c).name = z
    BY <1>0, <2>1, AskedOnce DEF CatalogInv, BcpName
  <2>3. Unstored(c)
    BY <1>1, <2>2 DEF Unstored
  <2> QED BY <1>1, <2>2, <2>3 DEF CatalogInv, NamesAreFresh
<1> HIDE DEF nb, r
<1>6. /\ DOMAIN list' = DOMAIN list /\ list'[z].status = "running"
      /\ \A x \in DOMAIN list : /\ x # z => list'[x] = list[x]
                                /\ DOMAIN list'[x] = DOMAIN list[x]
                                /\ list'[x].of = list[x].of /\ list'[x].at = list[x].at /\ list'[x].op = list[x].op
  BY <1>1, StatusChanges DEF CatalogInv
<1>7. /\ DOMAIN held' = Storages /\ held'[b.conf] = r
      /\ \A s \in Storages : /\ DOMAIN held'[s] = {"data", "meta"}
                             /\ \A x : x # z => /\ x \in held'[s].data <=> x \in held[s].data
                                                /\ x \in held'[s].meta <=> x \in held[s].meta
  BY <1>2, <1>3, FilesChange
<1> QED BY <1>1, <1>2, <1>3, <1>4, <1>0, <1>6, <1>7, RunningKeeps

LEMMA WriteMetaKeeps ==
  ASSUME CatalogInv, NEW b \in backups, WriteMeta(b) PROVE CatalogInv'
<1>0. PICK z : z = BcpName(b)
  OBVIOUS
<1> DEFINE nb == [b EXCEPT !.at = "done"]
           r == [held[b.conf] EXCEPT !.meta = held[b.conf].meta \cup {z}]
<1>1. /\ b.at = "save" /\ b.at \in Running /\ backups' = (backups \ {b}) \cup {nb}
      /\ UNCHANGED <<script, conf, profiles, ranges, restores, sent, client, heard, gone, tasks, taken, logged, holder, list>>
  BY DEF WriteMeta, BackupAt, Running, BackupGoes, BackupOnly, AgentOnly, confVars, lockVars
<1>2. /\ b.op # 0 /\ b.op \in Nat /\ b.conf \in Storages /\ DOMAIN held = Storages
      /\ \A s \in Storages : DOMAIN held[s] = {"data", "meta"}
      /\ nb \in Backups /\ nb.by = b.by /\ nb.op = b.op /\ nb.conf = b.conf /\ nb.at = "done"
  BY <1>1, RunningFacts
<1>3. /\ DOMAIN r = {"data", "meta"} /\ r.data = held[b.conf].data /\ r.meta = held[b.conf].meta \cup {z}
      /\ held' = [held EXCEPT ![b.conf] = r]
  BY <1>0, <1>2 DEF WriteMeta
<1>4. z \in DOMAIN list /\ list[z].op = b.op /\ z \in held[b.conf].data
  BY <1>0, <1>1 DEF CatalogInv, RunsAreListed
<1> HIDE DEF nb, r
<1>6. /\ DOMAIN held' = Storages /\ held'[b.conf] = r
      /\ \A s \in Storages : /\ DOMAIN held'[s] = {"data", "meta"}
                             /\ s # b.conf => held'[s] = held[s]
                             /\ \A x : x # z => /\ x \in held'[s].data <=> x \in held[s].data
                                                /\ x \in held'[s].meta <=> x \in held[s].meta
  BY <1>2, <1>3, FilesChange
<1>7. ASSUME list[z].status = "done" PROVE StoredAt(z, list[z].at)' \/ Deleting(z)' \/ Strayed(z)'
  <2>1. StoredAt(z, list[z].at) \/ Deleting(z) \/ Strayed(z)
    BY <1>4, <1>7 DEF CatalogInv, ListedIsStored
  <2>2. list[z].at \in Storages
    BY <1>4 DEF CatalogInv, TypeOK
  <2>3. \A s \in Storages : StoredAt(z, s) => StoredAt(z, s)'
    BY <1>3, <1>6 DEF StoredAt
  <2>4. Deleting(z) => Deleting(z)'
    BY <1>1 DEF Deleting
  <2>5. Strayed(z) => Strayed(z)'
    <3>1. \A kinds : Asked(kinds)' = Asked(kinds)
      BY <1>1, ScriptStays DEF CatalogInv
    <3> QED BY <1>1, <1>2, <1>6, <2>3, <3>1 DEF Strayed
  <2>6. StoredAt(z, list[z].at) => StoredAt(z, list[z].at)'
    BY <1>1, <2>2, <2>3 DEF StoredAt
  <2> QED BY <2>1, <2>4, <2>5, <2>6
<1>8. \A x \in DOMAIN list : /\ x # z => list'[x] = list[x]
                             /\ DOMAIN list'[x] = DOMAIN list[x]
                             /\ list'[x].of = list[x].of /\ list'[x].at = list[x].at /\ list'[x].op = list[x].op
  BY <1>1
<1> QED BY <1>1, <1>2, <1>3, <1>4, <1>0, <1>6, <1>7, <1>8, RunningKeeps

LEMMA BackupEndsKeeps ==
  ASSUME CatalogInv, NEW b \in backups, BackupDone(b) \/ BackupFails(b) PROVE CatalogInv'
<1>0. PICK z : z = BcpName(b)
  OBVIOUS
<1> DEFINE nb == [b EXCEPT !.at = "save"]
           r == [held[b.conf] EXCEPT !.data = held[b.conf].data \ {z}, !.meta = held[b.conf].meta \ {z}]
<1>1. /\ b.at \in Running /\ backups' = backups \ {b}
      /\ UNCHANGED <<script, conf, profiles, ranges, restores, sent, client, heard, gone, tasks, taken, logged>>
      /\ holder' \in {holder, None}
  BY DEF BackupDone, BackupFails, BackupAt, Running, BackupLeaves, BackupOnly, AgentOnly, confVars, Drops
<1>2. /\ b.op # 0 /\ b.op \in Nat /\ b.conf \in Storages /\ DOMAIN held = Storages
      /\ \A s \in Storages : DOMAIN held[s] = {"data", "meta"}
      /\ nb \in Backups /\ nb.by = b.by /\ nb.op = b.op /\ nb.conf = b.conf /\ nb.at = "save"
  BY <1>1, RunningFacts
<1>3. /\ DOMAIN r = {"data", "meta"} /\ r.data = held[b.conf].data \ {z} /\ r.meta = held[b.conf].meta \ {z}
  BY <1>2
<1>4. nb \notin backups'
  BY <1>1, <1>2, OneBackupRuns DEF CatalogInv, Running
<1>5. CASE BackupDone(b)
  <2>1. b.at = "done" /\ SetStatus(z, "done") /\ held' = held
    BY <1>0, <1>5 DEF BackupDone, BackupAt
  <2>2. /\ z \in DOMAIN list /\ list[z].op = b.op
        /\ z \in held[b.conf].data /\ z \in held[b.conf].meta
    BY <1>0, <2>1 DEF CatalogInv, RunsAreListed
  <2>3. /\ DOMAIN list' = DOMAIN list
        /\ \A x \in DOMAIN list : /\ x # z => list'[x] = list[x]
                                  /\ DOMAIN list'[x] = DOMAIN list[x]
                                  /\ list'[x].of = list[x].of /\ list'[x].at = list[x].at /\ list'[x].op = list[x].op
    BY <2>1, StatusChanges DEF CatalogInv
  <2>4. list[z].at = b.conf \/ Asked({"file", "set", "add"}) # {}
    BY <1>1, <1>2, <2>2 DEF CatalogInv, ConfigurationStands, Running
  <2>5. \A kinds : Asked(kinds)' = Asked(kinds)
    BY <1>1, ScriptStays DEF CatalogInv
  <2>6. StoredAt(z, b.conf)'
    BY <2>1, <2>2 DEF StoredAt
  <2>7. StoredAt(z, list[z].at)' \/ Strayed(z)'
    <3>1. CASE list[z].at = b.conf
      BY <3>1, <2>1, <2>2, <2>3 DEF StoredAt
    <3>2. CASE Asked({"file", "set", "add"}) # {}
      BY <3>2, <1>2, <2>1, <2>2, <2>3, <2>5, <2>6 DEF Strayed
    <3> QED BY <2>4, <3>1, <3>2
  <2> HIDE DEF nb, r
  <2> QED BY <1>1, <1>2, <1>4, <2>1, <2>3, <2>7, <1>0, RunningKeeps
<1>6. CASE BackupFails(b)
  <2>1. SetStatus(z, "error") /\ (held' = held \/ held' = [held EXCEPT ![b.conf] = r])
    BY <1>0, <1>6, <1>2 DEF BackupFails, Kept
  <2> HIDE DEF nb, r
  <2>3. /\ DOMAIN list' = DOMAIN list
        /\ z \in DOMAIN list => list'[z].status = "error"
        /\ \A x \in DOMAIN list : /\ x # z => list'[x] = list[x]
                                  /\ DOMAIN list'[x] = DOMAIN list[x]
                                  /\ list'[x].of = list[x].of /\ list'[x].at = list[x].at /\ list'[x].op = list[x].op
    BY <2>1, StatusChanges DEF CatalogInv
  <2>4. /\ DOMAIN held' = Storages
        /\ \A s \in Storages : /\ DOMAIN held'[s] = {"data", "meta"}
                               /\ \A x : x # z => /\ x \in held'[s].data <=> x \in held[s].data
                                                  /\ x \in held'[s].meta <=> x \in held[s].meta
    <3>1. CASE held' = held
      BY <3>1, <1>2
    <3>2. CASE held' = [held EXCEPT ![b.conf] = r]
      BY <3>2, <1>2, <1>3, FilesChange
    <3> QED BY <2>1, <3>1, <3>2
  <2> QED BY <1>1, <1>2, <1>0, <1>4, <2>3, <2>4, RunningKeeps
<1> QED BY <1>5, <1>6

-----------------------------------------------------------------------------
(* The theorems.                                                             *)

LEMMA CatalogStepKeeps == CatalogInv /\ [CatalogNext]_catalogVars => CatalogInv'
<1> SUFFICES ASSUME CatalogInv, [CatalogNext]_catalogVars PROVE CatalogInv'
  OBVIOUS
<1>1. CASE UNCHANGED catalogVars
  <2>1. /\ UNCHANGED <<script, conf, profiles, held, list, ranges, restores, sent, client>>
        /\ UNCHANGED <<heard, tasks, backups, holder, taken, logged, gone>>
    BY <1>1 DEF catalogVars, confVars, listVars, agentVars, lockVars
  <2>2. TypeOK' /\ MessagesAreAsked'
    <3>1. TypeOK'
      BY <2>1 DEF CatalogInv, TypeOK, Storages, Profiles, Sources, Messages, Syncs, Tasks, Backups, Ask
    <3>2. MessagesAreAsked'
      BY <2>1, ScriptStays DEF CatalogInv
    <3> QED BY <3>1, <3>2
  <2>3. TasksAreLocked' /\ BackupsAreLocked' /\ RunsAreListed'
    BY <2>1 DEF CatalogInv, TasksAreLocked, BackupsAreLocked, RunsAreListed, Cmd, Task, Storages, BcpName
  <2>4. NamesAreFresh' /\ ConfigurationStands'
    BY <2>1 DEF CatalogInv, NamesAreFresh, ConfigurationStands, Ask, Asked, Storages, Unstored, First
  <2>5. ListedIsStored'
    BY <2>1 DEF CatalogInv, ListedIsStored, StoredAt, Deleting, Strayed, Asked, Ask
  <2>6. SyncsShow'
    BY <2>1, SyncsStay
  <2> QED BY <2>2, <2>3, <2>4, <2>5, <2>6 DEF CatalogInv
<1>2. ASSUME NEW c \in DOMAIN client, ClientStep(c) PROVE CatalogInv'
  BY <1>2, ClientStepMoves, ClientKeeps DEF CatalogInv
<1>3. ASSUME NEW n \in Member, HandlerStep(n) \/ HandlerMishap(n) PROVE CatalogInv'
  BY <1>3, HandlerStepKeeps
<1>4. ASSUME NEW b \in backups, BackupStep(b) \/ BackupFails(b) PROVE CatalogInv'
  BY <1>4, WaitingBackupKeeps, TakeBackupLockKeeps, RunStoredKeeps, WriteMetaKeeps, BackupEndsKeeps DEF BackupStep
<1>5. ASSUME NEW n \in Member, AgentDies(n) PROVE CatalogInv'
  BY <1>5, AgentDiesKeeps
<1> QED BY <1>1, <1>2, <1>3, <1>4, <1>5 DEF CatalogNext, CatalogProgress, CatalogRests

LEMMA CatalogAlways == CatalogSpec => []CatalogInv
BY CatalogInitInv, CatalogStepKeeps, PTL DEF CatalogSpec

\* What clients, agents, lists and storages are at any time has its type: a client is at
\* a step of what it asks for, a record names a storage there is and a command that was
\* sent (sdk, pbm/resync, cmd/pbm-agent/agent.go).
THEOREM TypeCorrect == CatalogSpec => []TypeOK
<1>1. CatalogInv => TypeOK
  BY DEF CatalogInv
<1> QED BY <1>1, CatalogAlways, PTL

\* A backup that is listed as done has its data and its metadata in the storage its
\* record names, unless it is being deleted or the configuration was changed between
\* what the leader and what the nominated agent read of it (insertBackupList,
\* getAllBackupMetaFromStorage, DeleteBackupData, Backup.Run).
THEOREM DoneIsStored == CatalogSpec => []ListedIsStored
<1>1. CatalogInv => ListedIsStored
  BY DEF CatalogInv
<1> QED BY <1>1, CatalogAlways, PTL

LEMMA WhatIsLogged ==
  ASSUME CatalogInv, CatalogNext
  PROVE  \/ logged' = logged
         \/ \E op, what : what # "succeed" /\ logged' = Append(logged, <<op, what>>)
         \/ \E n \in Member : ResyncSucceeds(n)
<1>1. ASSUME NEW c \in DOMAIN client, ClientStep(c) PROVE logged' = logged
  BY <1>1, ClientStepMoves DEF ClientMoves, ClientOnly, lockVars, CatalogInv
<1>2. ASSUME NEW n \in Member, HandlerStep(n) \/ HandlerMishap(n), ~ResyncSucceeds(n)
      PROVE  logged' = logged \/ \E op, what : what # "succeed" /\ logged' = Append(logged, <<op, what>>)
  <2>1. CASE HearCommand(n) \/ AcquireLockFor(n) \/ BeginSync(n)
    BY <2>1 DEF HearCommand, AcquireLockFor, BeginSync, Ends, Log, lockVars
  <2>2. CASE \E x \in Task(n).todo :
               ClearList(n, x) \/ InsertBackupList(n, x) \/ SyncOplogRange(n, x) \/ SyncPhysicalRestores(n, x)
    BY <2>2 DEF ClearList, InsertBackupList, SyncOplogRange, SyncPhysicalRestores, SyncOnly, lockVars
  <2>3. CASE AddProfile(n) \/ ClearProfile(n) \/ RemoveProfile(n)
    BY <2>3 DEF AddProfile, ClearProfile, RemoveProfile, Ends, Log, lockVars
  <2>4. CASE DeleteBackupFiles(n) \/ DeleteBackupRecord(n)
    BY <2>4 DEF DeleteBackupFiles, DeleteBackupRecord, Ends, Log, lockVars
  <2>5. CASE HandlerMishap(n)
    BY <2>5 DEF HandlerMishap, HandlerFails, SyncFails, Ends, Log
  <2> QED BY <1>2, <2>1, <2>2, <2>3, <2>4, <2>5 DEF HandlerStep
<1>3. ASSUME NEW b \in backups, BackupStep(b) \/ BackupFails(b) PROVE logged' = logged
  BY <1>3 DEF BackupStep, BackupFails, StartLockCheck, ReadConfig, InitBackup, AwaitNomination, TakeBackupLock,
              RunStored, WriteMeta, BackupDone, lockVars
<1>4. ASSUME NEW n \in Member, AgentDies(n) PROVE logged' = logged
  BY <1>4 DEF AgentDies, lockVars
<1>5. ASSUME CatalogRests PROVE logged' = logged
  BY <1>5 DEF CatalogRests, catalogVars, lockVars
<1> QED BY <1>1, <1>2, <1>3, <1>4, <1>5 DEF CatalogNext, CatalogProgress

LEMMA SuccessIsListed ==
  ASSUME CatalogInv, NEW n \in Member, ResyncSucceeds(n), Cmd(n).cmd = "resync", ~Errors(tasks[n].op)
  PROVE  /\ Cmd(n).name = Main => restores = ranges /\ Shows(Main, ranges)
         /\ Cmd(n).name # Main => \A p \in DOMAIN profiles :
              SyncSources(Cmd(n)) = {SyncOf(p, profiles[p])} => Shows(p, profiles[p])
<1>1. tasks[n].at = "sync" /\ tasks[n].todo = {}
  BY DEF ResyncSucceeds, TaskAt, Task
<1>2. /\ Cmd(n).name = Main => \E s \in Storages : MainSynced(tasks[n].todo, s)
      /\ Cmd(n).name # Main => \A p \in DOMAIN profiles :
           SyncSources(Cmd(n)) = {SyncOf(p, profiles[p])} => ProfileSynced(tasks[n].todo, p)
  BY <1>1 DEF CatalogInv, SyncsShow
<1> QED BY <1>1, <1>2 DEF MainSynced, ProfileSynced

\* A resync that logs its success without an error before has listed the backups of
\* its storage, and for the main storage the chunks and the restores of the same one
\* (resync.Resync, SyncBackupList, handleSyncAllProfiles).
THEOREM SyncedIsListedAlways == CatalogSpec => SyncedIsListed
<1> DEFINE Listed ==
             \A i \in DOMAIN logged' \ DOMAIN logged :
               LET cmd == sent[logged'[i][1]] IN
                 (logged'[i][2] = "succeed" /\ cmd.cmd = "resync" /\ ~Errors(logged'[i][1])) =>
                   IF cmd.name = Main THEN restores = ranges /\ Shows(Main, ranges)
                   ELSE \A p \in DOMAIN profiles :
                          SyncSources(cmd) = {SyncOf(p, profiles[p])} => Shows(p, profiles[p])
<1>1. CatalogInv /\ [CatalogNext]_catalogVars => [Listed]_catalogVars
  <2> SUFFICES ASSUME CatalogInv, CatalogNext, NEW i \in DOMAIN logged' \ DOMAIN logged,
                      logged'[i][2] = "succeed", sent[logged'[i][1]].cmd = "resync", ~Errors(logged'[i][1])
               PROVE  LET cmd == sent[logged'[i][1]] IN
                        IF cmd.name = Main THEN restores = ranges /\ Shows(Main, ranges)
                        ELSE \A p \in DOMAIN profiles :
                               SyncSources(cmd) = {SyncOf(p, profiles[p])} => Shows(p, profiles[p])
    OBVIOUS
  <2>1. logged \in Seq(Nat \X {"error", "succeed", "done"})
    BY DEF CatalogInv, TypeOK
  <2>2. \A op, what : logged' = Append(logged, <<op, what>>) => logged'[i] = <<op, what>>
    BY <2>1
  <2>3. PICK n \in Member : ResyncSucceeds(n)
    BY <2>2, WhatIsLogged
  <2>4. logged'[i] = <<tasks[n].op, "succeed">>
    BY <2>2, <2>3 DEF ResyncSucceeds, Ends, Log, Task
  <2>5. sent[logged'[i][1]] = Cmd(n) /\ ~Errors(tasks[n].op)
    BY <2>4 DEF Cmd, Task
  <2> QED BY <2>3, <2>5, SuccessIsListed
<1> QED BY <1>1, CatalogAlways, PTL DEF CatalogSpec, SyncedIsListed

=============================================================================

------------------------------- MODULE Archive -------------------------------
(***************************************************************************)
(* What a cluster has stored: its backups and its oplog chunks.  Backups   *)
(* come (pbm/backup), slicers add chunks (pbm/slicer), and delete, cleanup *)
(* and lifecycle (pbm/backup/delete.go, pbm/lifecycle, cmd/pbm-agent's     *)
(* delete.go) remove what they find not to be needed.                      *)
(*                                                                         *)
(* Time is in seconds.  What PitrAgent, PitrCluster and BackupRun have in  *)
(* steps is one step here.  A backup is named by the time it starts at.    *)
(***************************************************************************)
EXTENDS Timelines

CONSTANT Plans   \* deployments and bounds: see plan

ASSUME Assumptions ==
  \A p \in Plans :
    /\ p.replsets \in Nat \ {0} /\ p.until \in Nat \ {0} /\ p.backups \in Nat /\ p.deleteAt \subseteq Nat
    /\ p.modes \subseteq {"off", "on", "oplogOnly"}
    /\ p.types \subseteq {"logical", "physical", "incremental", "selective"}
    /\ p.daily \in Nat /\ p.minKeep \in Nat
    /\ p.buckets \subseteq (Nat \ {0}) \X Nat

VARIABLES
  plan,      \* how many replica sets, the types of backups, the modes PITR is set to, the times
             \* that delete and cleanup are given, how long it goes and with how many backups;
             \* lifecycle: all backups of so many seconds are kept (daily), and the newest of each
             \* bucket (width, how many), and so many restore points have to be left (minKeep)
  now,
  bcps,      \* metadata of backups: start, lw (last write), type, src, done
  chunks,    \* per replica set: start s and end e
  pitr,      \* configuration: "off", "on" or "oplogOnly"
  lastTS,    \* where each slicer is; 0: it does not slice
  uploaded,  \* the slicer has made a chunk on a tick
  oldest,    \* the oldest entry of the oplog
  restored,  \* when the last restore began; 0: none
  fell       \* OplogOnlyCatchup went on from a chunk older than a restore

vars == <<plan, now, bcps, chunks, pitr, lastTS, uploaded, oldest, restored, fell>>

RS == 1..plan.replsets
Types == plan.types
MaxTime == plan.until

-----------------------------------------------------------------------------
Time == 0..MaxTime

Backup == [start : Time, lw : Time, type : Types, src : Time, done : BOOLEAN]

Newest(B) == CHOOSE b \in B : \A x \in B : x.start <= b.start

\* PITRLastChunkMeta; of chunks that start together, any.
LastChunks(C) == {c \in C : \A x \in C : x.s <= c.s}

Init ==
  /\ plan \in Plans
  /\ now = 1 /\ bcps = {} /\ chunks = [r \in RS |-> {}]
  /\ pitr = "off" /\ lastTS = [r \in RS |-> 0] /\ uploaded = [r \in RS |-> FALSE]
  /\ oldest = 1 /\ restored = 0 /\ fell = FALSE

-----------------------------------------------------------------------------
(* Which backups can be the base of a restore to a point in time.            *)

IsValidBase(b) == b.done /\ b.type # "selective"

\* GetLastBackup.
Bases(B) == {b \in B : IsValidBase(b)}

\* LastIncrementalBackup.
Increments(B) == {b \in B : b.done /\ b.type = "incremental"}

-----------------------------------------------------------------------------
(* Slicing.                                                                  *)

\* IsSufficient: the oplog has an entry no later than the start.
IsSufficient(from) == oldest <= from

\* Uploads up to a time, where there is something to upload.
Slice(r, to) ==
  IF lastTS[r] \in 1..(to - 1) /\ IsSufficient(lastTS[r])
    THEN chunks[r] \cup {[s |-> lastTS[r], e |-> to]} ELSE chunks[r]

StopAll == lastTS' = [r \in RS |-> 0] /\ uploaded' = [r \in RS |-> FALSE]

\* The slicer goes on from here, if the oplog still has it.
Start(r, at, C) ==
  /\ lastTS' = [lastTS EXCEPT ![r] = IF IsSufficient(at) THEN at ELSE 0]
  /\ chunks' = [chunks EXCEPT ![r] = C]
  /\ UNCHANGED <<now, bcps, pitr, uploaded, oldest, restored>>

\* Faulty variant: the last restore is not looked at.
NeverOutdated(c) == c.s > MaxTime

\* A chunk of before the last restore.
Outdated(c) == c.e < restored

\* Catchup: the gap up to the last backup is filled, and a logical backup's own
\* oplog copied; if that fails, the slicer goes on from its start.
Catchup(r) ==
  /\ pitr = "on" /\ lastTS[r] = 0 /\ Bases(bcps) # {}
  /\ LET b == Newest(Bases(bcps)) IN
       /\ b.start >= restored
       /\ \/ chunks[r] = {} /\ Start(r, b.lw, {})
          \/ \E c \in LastChunks(chunks[r]) :
               LET gap == IF c.e < b.start /\ IsSufficient(c.e) THEN {[s |-> c.e, e |-> b.start]} ELSE {}
                   own == {[s |-> b.start, e |-> b.lw]}
               IN CASE Outdated(c) -> Start(r, b.lw, chunks[r])
                    [] ~Outdated(c) /\ c.e >= b.lw -> Start(r, c.e, chunks[r])
                    [] OTHER ->
                         \/ b.type = "logical" /\ Start(r, b.lw, chunks[r] \cup gap \cup own)
                         \/ b.type = "logical" /\ Start(r, b.start, chunks[r] \cup gap)
                         \/ b.type # "logical" /\ Start(r, b.lw, chunks[r] \cup gap)
  /\ UNCHANGED fell

\* OplogOnlyCatchup: a start after the last restore is set, and then replaced by
\* the end of the last chunk.
OplogOnlyCatchup(r) ==
  /\ pitr = "oplogOnly" /\ lastTS[r] = 0
  /\ \/ chunks[r] = {} /\ Start(r, now, {}) /\ UNCHANGED fell
     \/ \E c \in LastChunks(chunks[r]) :
          Start(r, c.e, chunks[r]) /\ fell' = (fell \/ Outdated(c))

\* The slicer's ticker.
Stream(r) ==
  /\ lastTS[r] \in 1..(now - 1) /\ IsSufficient(lastTS[r])
  /\ chunks' = [chunks EXCEPT ![r] = Slice(r, now)]
  /\ lastTS' = [lastTS EXCEPT ![r] = now]
  /\ uploaded' = [uploaded EXCEPT ![r] = TRUE]
  /\ UNCHANGED <<now, bcps, pitr, oldest, restored, fell>>

\* A slicer fails. The others stop: they delete the last chunk if they have made
\* one on a tick.
SliceError(r) ==
  /\ lastTS[r] > 0
  /\ \E last \in [RS -> UNION {chunks[q] : q \in RS} \cup {[s |-> 0, e |-> 0]}] :
       /\ \A q \in RS : IF q # r /\ lastTS[q] > 0 /\ uploaded[q] /\ chunks[q] # {}
                           THEN last[q] \in LastChunks(chunks[q]) ELSE last[q].e = 0
       /\ chunks' = [q \in RS |-> chunks[q] \ {last[q]}]
  /\ StopAll
  /\ UNCHANGED <<now, bcps, pitr, oldest, restored, fell>>

\* The configuration changes. Slicers stop with a last chunk.
SetPitr(mode) ==
  /\ pitr # mode /\ pitr' = mode
  /\ chunks' = [r \in RS |-> Slice(r, now)]
  /\ StopAll
  /\ UNCHANGED <<now, bcps, oldest, restored, fell>>

-----------------------------------------------------------------------------
(* Time, backups and restores.                                               *)

Tick ==
  /\ now < MaxTime /\ now' = now + 1
  /\ UNCHANGED <<bcps, chunks, pitr, lastTS, uploaded, oldest, restored, fell>>

\* The oplog is a capped collection.
Truncate ==
  /\ oldest < now /\ oldest' = oldest + 1
  /\ UNCHANGED <<now, bcps, chunks, pitr, lastTS, uploaded, restored, fell>>

\* A logical backup takes a second. Its start wakes the slicers: they slice up to its
\* first write, or to now, and pause.
LogicalBackup(type, done) ==
  /\ type \in Types \cap {"logical", "selective"}
  /\ Cardinality(bcps) < plan.backups /\ \A b \in bcps : b.start # now
  /\ now < MaxTime /\ now' = now + 1
  /\ bcps' = bcps \cup {[start |-> now, lw |-> IF done THEN now + 1 ELSE 0, type |-> type,
                         src |-> 0, done |-> done]}
  /\ chunks' = [r \in RS |-> Slice(r, now)]
  /\ StopAll
  /\ UNCHANGED <<pitr, oldest, restored, fell>>

\* The slicers go on beside a physical backup, whose data is of one instant. An
\* increment has the last one that is done for its source.
PhysicalBackup(type, done, base) ==
  /\ type \in Types \cap {"physical", "incremental"}
  /\ base \/ (type = "incremental" /\ Increments(bcps) # {})
  /\ Cardinality(bcps) < plan.backups /\ \A b \in bcps : b.start # now
  /\ bcps' = bcps \cup {[start |-> now, lw |-> IF done THEN now ELSE 0, type |-> type,
                         src |-> IF base THEN 0 ELSE Newest(Increments(bcps)).start, done |-> done]}
  /\ UNCHANGED <<now, chunks, pitr, lastTS, uploaded, oldest, restored, fell>>

\* The restore disables PITR, waits for the slicers and begins after that.
Restore ==
  /\ Bases(bcps) # {}
  /\ now + 2 <= MaxTime /\ now' = now + 2 /\ restored' = now + 1
  /\ pitr' = "off"
  /\ chunks' = [r \in RS |-> Slice(r, now)]
  /\ StopAll
  /\ UNCHANGED <<bcps, oldest, fell>>

-----------------------------------------------------------------------------
(* Deleting a backup, or a chain of incremental backups from its base.       *)

AllTimelines(C, from, until) ==
  MergeTimelines([r \in RS |-> Gettimelines({c \in C[r] : c.e >= from /\ c.s <= until})])

\* FindBaseSnapshotLWAfter, FindBaseSnapshotLWBefore; 0 if there is none.
BaseAfter(B, lw) == {b.lw : b \in {x \in Bases(B) : x.lw > lw}}
BaseBefore(B, lw, except) == Max({0} \cup {b.lw : b \in {x \in Bases(B) : x.lw < lw /\ x.lw # except}})

\* isRequiredForOplogSlicing.
IsRequired(B, C, lw, baseLw) ==
  /\ pitr = "on"
  /\ BaseAfter(B, lw) = {}
  /\ LET prev == BaseBefore(B, lw, baseLw)
         tl == AllTimelines(C, prev, lw)
     IN Cardinality(tl) = 1 /\ \A t \in tl : prev < t.s

\* Faulty variant: only what comes from the base itself.
ChainDirect(B, base) == {base} \cup {b \in B : base.done /\ b.src = base.start}

\* FetchAllIncrements: all that come from the base, the failed ones too.
Chain(B, base) ==
  LET all == B \cup {base}
      IsClosed(S) == base \in S /\ \A x \in S, b \in B : x.done /\ b.src = x.start => b \in S
  IN {b \in all : \A S \in SUBSET all : IsClosed(S) => b \in S}

CanDelete(B, C, b) ==
  IF b.type = "incremental"
    THEN /\ b.src = 0
         /\ ~IsRequired(B, C, Newest({x \in Chain(B, b) : x.done \/ x = b}).lw, b.lw)
    ELSE ~IsValidBase(b) \/ ~IsRequired(B, C, b.lw, 0)

AfterDelete(B, C, b) ==
  IF ~CanDelete(B, C, b) THEN B
  ELSE IF b.type = "incremental" THEN B \ Chain(B, b) ELSE B \ {b}

DeleteBackup(b) ==
  /\ bcps' = AfterDelete(bcps, chunks, b)
  /\ UNCHANGED <<now, chunks, pitr, lastTS, uploaded, oldest, restored, fell>>

-----------------------------------------------------------------------------
(* What is not needed before a time (MakeCleanupInfo).                       *)

ByLw(x, y) == x.lw < y.lw \/ (x.lw = y.lw /\ x.start < y.start)
Highest(B) == CHOOSE b \in B : \A x \in B \ {b} : ByLw(x, b)

\* A backup with all that it comes from.
Ancestors(B, b) ==
  LET all == B \cup {b}
      IsClosed(S) == b \in S /\ \A x \in B, y \in S : y.src = x.start => x \in S
  IN {x \in all : \A S \in SUBSET all : IsClosed(S) => x \in S}

\* extractLastIncrementalChain: the last increment of these is kept with all it
\* comes from, if another one comes from it.
WithoutLastChain(B) ==
  LET last == Highest(Increments(B))
  IN IF Increments(B) = {} \/ {b \in bcps : b.done /\ b.src = last.start} = {} THEN B
     ELSE B \ Ancestors(Increments(B), last)

\* Faulty variant: a chunk that goes on beyond the time is taken too.
UptoStart(C, ts) == [r \in RS |-> {c \in C[r] : c.s <= ts}]

Upto(C, ts) == [r \in RS |-> {c \in C[r] : c.e <= ts}]

CleanupInfo(ts) ==
  LET old  == {b \in bcps : b.lw <= ts}
      C    == [r \in RS |-> {c \in chunks[r] : c.s < ts}]
      at   == Highest(old)
      rest == IF at.lw = ts THEN old \ {at} ELSE old
      base == Highest(Bases(rest))
      after == [r \in RS |-> {c \in C[r] : c.e > base.lw}]
      needed == \/ HasSingleTimelineToCover(after, base.lw, ts)
                \/ pitr = "on" /\ BaseAfter(bcps, ts) = {}
  IN IF old = {} THEN [backups |-> {}, chunks |-> C]
     ELSE IF at.lw = ts /\ IsValidBase(at)
       THEN [backups |-> WithoutLastChain(rest), chunks |-> Upto(C, ts)]
     ELSE IF Bases(rest) = {} THEN [backups |-> rest, chunks |-> Upto(C, ts)]
     ELSE IF needed
       THEN [backups |-> WithoutLastChain(rest \ {base}), chunks |-> Upto(C, base.lw)]
     ELSE [backups |-> WithoutLastChain(rest), chunks |-> C]

Cleanup(ts) ==
  /\ ts <= now
  /\ bcps' = bcps \ CleanupInfo(ts).backups
  /\ chunks' = [r \in RS |-> chunks[r] \ CleanupInfo(ts).chunks[r]]
  /\ UNCHANGED <<now, pitr, lastTS, uploaded, oldest, restored, fell>>

\* delete-pitr removes the chunks only, delete-backup --older-than the backups
\* only, of one type if it is given.
DeletePITR(ts) ==
  /\ ts <= now
  /\ chunks' = [r \in RS |-> chunks[r] \ CleanupInfo(ts).chunks[r]]
  /\ UNCHANGED <<now, bcps, pitr, lastTS, uploaded, oldest, restored, fell>>

DeleteBackupBefore(ts, types) ==
  /\ ts <= now
  /\ bcps' = bcps \ {b \in CleanupInfo(ts).backups : b.type \in types}
  /\ UNCHANGED <<now, chunks, pitr, lastTS, uploaded, oldest, restored, fell>>

-----------------------------------------------------------------------------
Next ==
  \/ \E r \in RS : Catchup(r) \/ OplogOnlyCatchup(r) \/ Stream(r) \/ SliceError(r)
  \/ \E mode \in plan.modes : SetPitr(mode)
  \/ Tick \/ Truncate \/ Restore
  \/ \E type \in Types, done \in BOOLEAN : LogicalBackup(type, done)
  \/ \E type \in Types, done, base \in BOOLEAN : PhysicalBackup(type, done, base)
  \/ \E b \in bcps : DeleteBackup(b)
  \/ \E ts \in plan.deleteAt : Cleanup(ts) \/ DeletePITR(ts)
  \/ \E ts \in plan.deleteAt, type \in Types : DeleteBackupBefore(ts, {type})

Spec == Init /\ [][Next /\ UNCHANGED plan]_vars

-----------------------------------------------------------------------------
(* What a restore can reach.                                                 *)

Complete(B, b) == \E x \in Ancestors(B, b) : x.src = 0

Reachable(B, C, t) ==
  \E b \in Bases(B) :
    /\ Complete(B, b)
    /\ b.lw = t \/ (b.lw < t /\ \A r \in RS : Accepts(C[r], b.lw, t))

-----------------------------------------------------------------------------
(* What pbm list and pbm status show of the oplog.                           *)

ValidTimelines ==
  LET rss == {r \in RS : chunks[r] # {}}
  IN MergeTimelines([i \in 1..Cardinality(rss) |->
                       Gettimelines({c \in chunks[SetToSeq(rss)[i]] : c.s <= now})])

\* Faulty variant: up to the last write there is no base.
SplitByBaseSnapshotNever(lw, tl) == {[s |-> tl.s, e |-> tl.e, base |-> lw > 0]}

\* splitByBaseSnapshot: what is up to the last write has no base.
SplitByBaseSnapshot(lw, tl) ==
  IF lw < tl.s \/ lw > tl.e THEN {[s |-> tl.s, e |-> tl.e, base |-> FALSE]}
  ELSE {x \in {[s |-> tl.s, e |-> lw, base |-> FALSE]} : lw > tl.s}
         \cup {x \in {[s |-> lw + 1, e |-> tl.e, base |-> TRUE]} : lw < tl.e}

\* getBaseSnapshotLastWrite: the oldest backup that ends in the timeline or after it.
BaseOfList(tl) ==
  LET B == {b \in Bases(bcps) : b.lw >= tl.s}
  IN IF B = {} THEN 0 ELSE (CHOOSE b \in B : \A x \in B : b.start <= x.start).lw

\* getPITRranges: the one with the earliest end that begins before the timeline ends.
BaseOfStatus(tl) ==
  LET B == {b \in Bases(bcps) : b.lw >= tl.s /\ b.start <= tl.e}
  IN IF B = {} THEN 0 ELSE Min({b.lw : b \in B})

\* getPitrList, without the option to show what has no base.
ListedRanges ==
  {x \in UNION {SplitByBaseSnapshot(BaseOfList(tl), tl) : tl \in ValidTimelines} : x.base}

StatusRanges == UNION {SplitByBaseSnapshot(BaseOfStatus(tl), tl) : tl \in ValidTimelines}

-----------------------------------------------------------------------------
(* Properties.                                                               *)

TypeOK ==
  /\ now \in Time /\ oldest \in 1..now /\ restored \in 0..now /\ fell \in BOOLEAN
  /\ bcps \subseteq Backup
  /\ chunks \in [RS -> SUBSET [s : Time \ {0}, e : Time \ {0}]]
  /\ \A r \in RS : \A c \in chunks[r] : c.s < c.e /\ c.e <= now
  /\ pitr \in plan.modes \cup {"off"}
  /\ lastTS \in [RS -> 0..now] /\ uploaded \in [RS -> BOOLEAN]

\* No increment is left without what it comes from, whatever delete, cleanup and
\* lifecycle remove (CanDeleteIncrementalChain, extractLastIncrementalChain,
\* applyIncrementalChainRules).
ChainsComplete ==
  \A b \in bcps : b.done /\ b.src # 0 => \E x \in bcps : x.done /\ x.start = b.src

\* A range lies within one of the timelines merged from all replica sets exactly if
\* a restore accepts every replica set's chunks for it (MergeTimelines against chunks
\* of pbm/restore/restore.go).
TimelinesAgree ==
  (\A r \in RS : chunks[r] # {}) =>
    LET tl == AllTimelines(chunks, 0, MaxTime)
    IN \A a, b \in Time \ {0} :
         a < b => ((\E t \in tl : t.s <= a /\ b <= t.e) <=> \A r \in RS : Accepts(chunks[r], a, b))

\* Every point of a range that is shown to have a base can be restored.
ShownIsRestorable ==
  (\A r \in RS : chunks[r] # {}) =>
    \A x \in ListedRanges \cup {y \in StatusRanges : y.base} :
      \A t \in x.s..x.e : Reachable(bcps, chunks, t)

\* No chunk goes on over a restore, from the data before it to the data after it,
\* as long as the slicers did not start from an older chunk than the restore
\* (Catchup; OplogOnlyCatchup does so).
NoChunkAcrossRestore ==
  ~fell /\ restored > 0 => \A r \in RS, c \in UNION {chunks[q] : q \in RS} : ~(c.s < restored /\ restored < c.e)

\* A cleanup up to a time leaves every later point restorable that was so from a
\* backup that ended no later (MakeCleanupInfo).
CleanupKeeps ==
  [][\A ts \in plan.deleteAt :
       <<bcps, chunks>>' # <<bcps, chunks>> /\ now' = now /\ Cleanup(ts) =>
         \A t \in ts..now :
           (\E b \in Bases(bcps) : b.lw <= ts /\ Reachable({x \in bcps : x = b \/ x \in Ancestors(bcps, b)}, chunks, t))
             => Reachable(bcps', chunks', t)]_vars

=============================================================================

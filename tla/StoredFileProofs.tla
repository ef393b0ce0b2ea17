-------------------------- MODULE StoredFileProofs --------------------------
(***************************************************************************)
(* Proofs about files of a backup on a cloud storage: what is read back is *)
(* what was saved, for any number of workers and spans, any sizes and any  *)
(* number of faults.                                                       *)
(***************************************************************************)
EXTENDS StoredFile, FiniteSetTheorems, NaturalsInduction, TLAPS

Steps == {"idle", "task", "copy", "send", "err"}
Task == [st : Steps, chunk : Nat, slot : Nat]
Chunk == [chunk : Nat, arena : Workers, slot : Nat]
Readers == {"none", "open", "closed", "failed", "eof"}

ReadTypeOK ==
  /\ opts.cc \in Nat /\ opts.spans \in Nat /\ opts.span \in Nat \ {0}
  /\ object \in [size : Nat, nth : Nat]
  /\ next \in Nat /\ written \in Nat
  /\ worker \in [Workers -> Task]
  /\ queue \subseteq Chunk
  /\ phase \in {"select", "drain", "over"}
  /\ reader \in Readers
  /\ out \in Seq(Nat \X Nat)
  /\ busy \in [Workers -> SUBSET Slots]
  /\ mem \in [Workers -> [Slots -> Nat \X Nat]]

\* A span in use, and in it the chunk of the present object.
Ready(chunk, i, slot) ==
  slot \in busy[i] /\ mem[i][slot] = <<object.nth, chunk>> /\ HasData(chunk)

\* What a worker has of its arena.
Held(i) ==
  /\ worker[i].st \in {"idle", "task", "err"} => worker[i].slot = 0
  /\ worker[i].st = "copy" => worker[i].slot \in busy[i] /\ HasData(worker[i].chunk)
  /\ worker[i].st = "send" => worker[i].slot = 0 \/ Ready(worker[i].chunk, i, worker[i].slot)

\* A span in use belongs to one worker or to one chunk that waits, and is not written
\* to again before that has been passed on.
Spans ==
  /\ \A i \in Workers : Held(i)
  /\ \A c \in queue : c.slot = 0 \/ Ready(c.chunk, c.arena, c.slot)
  /\ \A c \in queue : c.slot = 0 \/ c.slot # worker[c.arena].slot
  /\ \A c, d \in queue : c.arena = d.arena /\ c.slot = d.slot => c = d \/ c.slot = 0

\* Where a read is.
Stages ==
  /\ reader = "none" <=> object.nth = 0
  /\ object.nth = 0 =>
       phase = "select" /\ written = 0 /\ queue = {} /\ \A i \in Workers : worker[i].st = "idle"
  /\ reader = "eof" => phase = "over" /\ ~HasData(written)
  /\ reader \in {"open", "closed", "eof"} => object.size > 0
  /\ object.nth <= Len(todo) /\ (object.nth > 0 => object.size = todo[object.nth])

\* How far it has come.
UpTo ==
  /\ written > 0 => out # <<>> /\ out[Len(out)] = <<object.nth, written - 1>>
  /\ written = 0 /\ object.nth > 1 =>
       out # <<>> /\ out[Len(out)][1] = object.nth - 1 /\ IsLast(out[Len(out)])
  /\ written = 0 /\ object.nth <= 1 => out = <<>>

ReadInv == ReadTypeOK /\ Spans /\ Stages /\ InOrder /\ UpTo

FileTypeOK ==
  /\ maxObj \in Nat \ {0} /\ saved \in [size : Nat, max : Nat \ {0}]
  /\ DOMAIN parts = PartIds
  /\ sm = [op |-> sm.op, part |-> sm.part, left |-> sm.left]

\* The parts before the present one are full.
Filled ==
  /\ sm.part \in PartIds /\ saved.size \in FileSizes
  /\ \A p \in PartIds : p < sm.part => parts[p] = saved.max

\* How much of a file is on the storage while it is saved, and then.
SavedOK ==
  /\ sm.op = "none" => \A p \in PartIds : parts[p] = Absent
  /\ sm.op = "save" =>
       /\ Filled /\ maxObj = saved.max
       /\ sm.left \in Nat /\ sm.part * saved.max + sm.left = saved.size
       /\ \A p \in PartIds : p >= sm.part => parts[p] = Absent
  /\ sm.op = "saved" =>
       /\ Filled
       /\ \E rest \in 0..saved.max - 1 :
            /\ sm.part * saved.max + rest = saved.size
            /\ parts[sm.part] = IF rest = 0 /\ sm.part # 0 THEN Absent ELSE rest
       /\ \A p \in PartIds : p > sm.part => parts[p] = Absent

\* The parts that are read are those that were saved.
TodoOK == todo \in Seq(Nat) /\ (todo # <<>> => Raised \/ PartsAreFile)

Inv == ReadInv /\ FileTypeOK /\ SavedOK /\ TodoOK

----------------------------------------------------------------------------
(* Helpers. *)

LEMMA Quotient ==
  ASSUME NEW a \in Nat, NEW b \in Nat \ {0}
  PROVE  /\ a \div b \in Nat /\ b * (a \div b) <= a
         /\ b <= a => a \div b # 0
  OBVIOUS

\* With any setting there are spans of some size.
LEMMA OptsType ==
  ASSUME NEW s \in Settings
  PROVE  LET o == DownloadOpts(s.cc, s.buf, s.span) IN
           o.cc \in Nat /\ o.spans \in Nat /\ o.span \in Nat \ {0}
<1>1. s \in [cc : Nat \ {0}, buf : Nat, span : Nat \ {0}]
  BY SettingsAssumption
<1> DEFINE size == IF s.buf < s.span THEN s.buf ELSE s.span
           spans == IF s.cc > LowCPU THEN 2 * ArenaSpans ELSE ArenaSpans
           workers == IF s.buf \div s.cc < size THEN s.buf \div size ELSE s.cc
<1>2. spans \in Nat
  BY SpansAssumption
<1>3. CASE s.buf = 0 \/ s.span * spans * s.cc <= s.buf
  BY <1>1, <1>2, <1>3 DEF DownloadOpts
<1>4. CASE ~(s.buf = 0 \/ s.span * spans * s.cc <= s.buf)
  <2>1. s.buf \in Nat \ {0} /\ size \in Nat \ {0} /\ size <= s.buf
    BY <1>1, <1>4
  <2>2. workers \in Nat \ {0}
    <3>1. s.buf \div size \in Nat \ {0}
      <4> HIDE DEF size
      <4> QED BY <2>1, Quotient
    <3> HIDE DEF size
    <3> QED BY <1>1, <3>1
  <2>3. s.buf \div workers \in Nat
    <3> HIDE DEF workers
    <3> QED BY <2>1, <2>2, Quotient
  <2>4. (s.buf \div workers) \div size \in Nat
    <3> HIDE DEF workers, size
    <3> QED BY <2>1, <2>3, Quotient
  <2>5. DownloadOpts(s.cc, s.buf, s.span)
          = [cc |-> workers, spans |-> (s.buf \div workers) \div size, span |-> size]
    BY <1>4 DEF DownloadOpts
  <2> HIDE DEF workers, size
  <2> QED BY <2>1, <2>2, <2>4, <2>5
<1> QED BY <1>3, <1>4

LEMMA SlotsType == ASSUME ReadTypeOK PROVE Slots \subseteq Nat \ {0}
  BY DEF ReadTypeOK, Slots

\* While chunks are missing the goroutine does not take the object for ended.
LEMMA SizeIsReached ==
  ASSUME ReadTypeOK, written >= Size PROVE ~HasData(written)
<1> DEFINE q == object.size \div opts.span
           D == {n \in 0..q : HasData(n)}
<1>1. SUFFICES ASSUME written * opts.span < object.size PROVE FALSE
  BY DEF HasData
<1>2. q \in Nat /\ object.size \in Nat /\ opts.span \in Nat \ {0} /\ written \in Nat
  BY Quotient DEF ReadTypeOK
<1>3. \A n \in 0..written : n * opts.span < object.size
  <2> TAKE n \in 0..written
  <2>1. n * opts.span <= written * opts.span
    BY <1>2
  <2> QED BY <2>1, <1>1, <1>2
<1>4. \A n \in 0..written : n <= q
  BY <1>2, <1>3
<1>5. (0..written) \subseteq D
  <2> HIDE DEF q
  <2> QED BY <1>2, <1>3, <1>4 DEF HasData
<1>6. IsFiniteSet(0..q) /\ IsFiniteSet(D) /\ Cardinality(D) \in Nat
  <2> HIDE DEF q
  <2>1. IsFiniteSet(0..q)
    BY <1>2, FS_Interval
  <2> QED BY <2>1, FS_Subset, FS_CardinalityType
<1>7. Cardinality(0..written) = written + 1 /\ Cardinality(0..written) <= Cardinality(D)
  <2> HIDE DEF D
  <2> QED BY <1>2, <1>5, <1>6, FS_Interval, FS_Subset
<1>8. Size = Cardinality(D)
  BY DEF Size, LastTask
<1> HIDE DEF D
<1> QED BY <1>2, <1>6, <1>7, <1>8

----------------------------------------------------------------------------
(* Spans and chunks. *)

\* What the goroutine has passed on stays so while it passes nothing on.
LEMMA OrderStays ==
  ASSUME InOrder, UpTo, UNCHANGED <<opts, object, written, out, todo>>
  PROVE  InOrder' /\ UpTo'
BY DEF InOrder, UpTo, After, IsLast

\* A worker moves on: the spans of the chunks that wait are left alone.
LEMMA WorkerMoves ==
  ASSUME ReadTypeOK, Spans, NEW i \in Workers, NEW w \in Task, SetWorker(i, w),
         UNCHANGED <<opts, object, queue>>, ReadTypeOK', Held(i)',
         \A j \in Workers \ {i} : busy'[j] = busy[j] /\ mem'[j] = mem[j],
         \A s \in busy[i] \ {worker[i].slot} : s \in busy'[i] /\ mem'[i][s] = mem[i][s],
         w.slot \in {0, worker[i].slot} \/ w.slot \notin busy[i]
  PROVE  Spans'
<1>1. worker'[i] = w /\ (\A j \in Workers \ {i} : worker'[j] = worker[j]) /\ Workers' = Workers
  BY DEF ReadTypeOK, SetWorker, Workers
<1>2. \A c \in queue : c.arena \in Workers /\ c.slot \in Nat
  BY DEF ReadTypeOK, Chunk
<1>3. \A n : HasData(n)' <=> HasData(n)
  BY DEF HasData
<1>4. \A j \in Workers : Held(j)'
  <2> SUFFICES ASSUME NEW j \in Workers \ {i} PROVE Held(j)'
    OBVIOUS
  <2>1. Held(j)
    BY DEF Spans
  <2>2. UNCHANGED <<object, worker[j], busy[j], mem[j]>>
    BY <1>1
  <2> QED BY <2>1, <2>2, <1>3 DEF Held, Ready
<1>5. ASSUME NEW c \in queue, c.slot # 0
      PROVE  Ready(c.chunk, c.arena, c.slot)' /\ c.slot # worker'[c.arena].slot
  <2>1. Ready(c.chunk, c.arena, c.slot) /\ c.slot # worker[c.arena].slot
    BY <1>5 DEF Spans
  <2>2. CASE c.arena = i
    BY <2>1, <2>2, <1>1, <1>3, <1>5 DEF Ready
  <2>3. CASE c.arena # i
    BY <2>1, <2>3, <1>1, <1>2, <1>3 DEF Ready
  <2> QED BY <2>2, <2>3
<1>6. \A c, d \in queue' : c.arena = d.arena /\ c.slot = d.slot => c = d \/ c.slot = 0
  BY DEF Spans
<1>7. queue' = queue
  OBVIOUS
<1> QED BY <1>1, <1>4, <1>5, <1>6, <1>7 DEF Spans

\* The chunk whose turn it is comes out, after the ones before it.
LEMMA PassedOn ==
  ASSUME ReadInv, NEW c \in Chunk, c.chunk = written, c.slot = 0 \/ Ready(c.chunk, c.arena, c.slot),
         object.nth > 0, phase # "over", WriteChunk(c), UNCHANGED <<opts, object, mem, todo>>
  PROVE  /\ written' \in Nat /\ phase' \in {"drain", "over"} /\ reader' = reader
         /\ out' \in Seq(Nat \X Nat)
         /\ busy' = IF c.slot = 0 THEN busy ELSE [busy EXCEPT ![c.arena] = @ \ {c.slot}]
         /\ InOrder' /\ UpTo'
<1>1. reader # "eof"
  BY DEF ReadInv, Stages
<1>2. CASE UNCHANGED <<written, out>>
  <2>1. InOrder' /\ UpTo'
    BY <1>2, OrderStays DEF ReadInv
  <2> QED BY <1>1, <1>2, <2>1 DEF WriteChunk, Exit, PutSpan, ReadInv, ReadTypeOK
<1>3. CASE ~UNCHANGED <<written, out>>
  <2> DEFINE n == Len(out)
             x == <<object.nth, written>>
  <2>1. /\ c.slot # 0 /\ written' = written + 1 /\ out' = Append(out, x)
        /\ phase' = "drain" /\ reader' = reader /\ PutSpan(c.arena, c.slot)
    BY <1>3 DEF WriteChunk, Ready
  <2>2. written \in Nat /\ object.nth \in Nat /\ out \in Seq(Nat \X Nat) /\ opts.span \in Nat /\ object.size \in Nat
    BY DEF ReadInv, ReadTypeOK
  <2>3. /\ n \in Nat /\ Len(out') = n + 1 /\ out'[n + 1] = x /\ \A k \in 1..n : out'[k] = out[k]
        /\ out' \in Seq(Nat \X Nat) /\ (n = 0 <=> out = <<>>)
    BY <2>1, <2>2
  <2>4. x[1] = object.nth /\ x[2] = written
    OBVIOUS
  <2>5. object.size = todo[object.nth] /\ object.nth <= Len(todo) /\ written * opts.span < object.size
    BY <2>1 DEF ReadInv, Stages, Ready, HasData
  <2>6. IF n = 0 THEN x = <<1, 0>> ELSE x = After(out[n])
    <3>1. CASE written > 0
      <4>1. n # 0 /\ out[n] = <<object.nth, written - 1>>
        BY <2>3, <3>1 DEF ReadInv, UpTo
      <4>2. ~IsLast(out[n])
        BY <4>1, <2>2, <2>5 DEF IsLast
      <4> QED BY <4>1, <4>2, <2>2, <3>1 DEF After
    <3>2. CASE written = 0 /\ object.nth > 1
      <4>1. n # 0 /\ out[n][1] = object.nth - 1 /\ IsLast(out[n])
        BY <2>3, <3>2 DEF ReadInv, UpTo
      <4> QED BY <4>1, <2>2, <3>2 DEF After
    <3>3. CASE written = 0 /\ object.nth <= 1
      BY <2>2, <2>3, <3>3 DEF ReadInv, UpTo
    <3> QED BY <2>2, <3>1, <3>2, <3>3
  <2>7. InOrder'
    <3> HIDE DEF n, x
    <3> SUFFICES ASSUME NEW k \in 1..n + 1
        PROVE  /\ out'[k] = IF k = 1 THEN <<1, 0>> ELSE After(out'[k - 1])
               /\ out'[k][1] <= Len(todo)
      BY <2>3 DEF InOrder, After, IsLast
    <3>1. CASE k \in 1..n
      <4>1. out[k] = (IF k = 1 THEN <<1, 0>> ELSE After(out[k - 1])) /\ out[k][1] <= Len(todo)
        BY <3>1 DEF ReadInv, InOrder, n
      <4>2. out'[k] = out[k] /\ (k # 1 => out'[k - 1] = out[k - 1])
        BY <2>3, <3>1
      <4> QED BY <4>1, <4>2
    <3>2. CASE k = n + 1
      BY <3>2, <2>3, <2>4, <2>5, <2>6
    <3> QED BY <2>3, <3>1, <3>2
  <2>8. UpTo'
    <3>1. out' # <<>> /\ out'[Len(out')] = <<object.nth, written' - 1>> /\ written' > 0
      BY <2>1, <2>2, <2>3
    <3> QED BY <3>1 DEF UpTo
  <2> QED BY <2>1, <2>2, <2>3, <2>7, <2>8 DEF PutSpan
<1> QED BY <1>2, <1>3

\* The steps of a worker by itself.
LEMMA WorkerWorks ==
  ASSUME ReadInv, NEW i \in Workers, UNCHANGED todo,
         Take(i) \/ GetSpan(i) \/ NoRange(i) \/ Copied(i) \/ Break(i) \/ ReceiveErr(i)
  PROVE  ReadInv'
<1>1. /\ UNCHANGED <<opts, object, queue, written, out, todo>>
      /\ Workers' = Workers /\ Slots' = Slots
  BY DEF Take, GetSpan, NoRange, Copied, Break, ReceiveErr, Workers, Slots
<1>2. InOrder' /\ UpTo'
  BY <1>1, OrderStays DEF ReadInv
<1>3. /\ worker[i] \in Task /\ worker \in [Workers -> Task] /\ Idle \in Task /\ Idle.slot = 0
      /\ busy \in [Workers -> SUBSET Slots] /\ mem \in [Workers -> [Slots -> Nat \X Nat]]
      /\ next \in Nat /\ Slots \subseteq Nat \ {0} /\ object.nth \in Nat
  BY SlotsType DEF ReadInv, ReadTypeOK, Idle, Task, Steps
<1>4. Held(i)
  BY DEF ReadInv, Spans
<1>5. \A n : HasData(n)' <=> HasData(n)
  BY <1>1 DEF HasData
<1>6. object.nth > 0 /\ (worker[i].st # "idle" => reader # "none")
  <2>1. Take(i) => object.nth # 0
    BY DEF Take, ReadInv, Stages
  <2>2. ~Take(i) => worker[i].st # "idle"
    BY DEF GetSpan, NoRange, Copied, Break, ReceiveErr
  <2>3. worker[i].st # "idle" => object.nth # 0
    BY DEF ReadInv, Stages
  <2> QED BY <1>3, <2>1, <2>2, <2>3 DEF ReadInv, Stages
<1>7. Stages'
  <2>1. CASE ReceiveErr(i)
    <3>1. phase = "select" /\ phase' = "over" /\ reader' \in {reader, "failed"}
          /\ (reader' = reader \/ reader = "open")
      BY <2>1 DEF ReceiveErr, Exit
    <3> QED BY <3>1, <1>1, <1>5, <1>6 DEF ReadInv, Stages
  <2>2. CASE ~ReceiveErr(i)
    <3>1. UNCHANGED <<phase, reader>>
      BY <2>2 DEF Take, GetSpan, NoRange, Copied, Break
    <3> QED BY <3>1, <1>1, <1>5, <1>6 DEF ReadInv, Stages
  <2> QED BY <2>1, <2>2
<1>8. SUFFICES ReadTypeOK' /\ Spans'
  BY <1>2, <1>7 DEF ReadInv
<1>9. ASSUME next' \in Nat, worker' \in [Workers -> Task], phase' \in {"select", "over"} \/ phase' = phase,
             reader' \in Readers, busy' \in [Workers -> SUBSET Slots],
             mem' \in [Workers -> [Slots -> Nat \X Nat]]
      PROVE  ReadTypeOK'
  BY <1>1, <1>9 DEF ReadInv, ReadTypeOK, Chunk
<1>10. ASSUME NEW w \in Task, SetWorker(i, w), UNCHANGED <<phase, reader>>, next' \in Nat,
              busy' \in [Workers -> SUBSET Slots], mem' \in [Workers -> [Slots -> Nat \X Nat]],
              \A j \in Workers \ {i} : busy'[j] = busy[j] /\ mem'[j] = mem[j],
              \A s \in busy[i] \ {worker[i].slot} : s \in busy'[i] /\ mem'[i][s] = mem[i][s],
              w.slot \in {0, worker[i].slot} \/ w.slot \notin busy[i],
              w.st \in {"idle", "task", "err"} => w.slot = 0,
              w.st = "copy" => w.slot \in busy'[i] /\ HasData(w.chunk),
              w.st = "send" => \/ w.slot = 0
                               \/ /\ w.slot \in busy'[i] /\ HasData(w.chunk)
                                  /\ mem'[i][w.slot] = <<object.nth, w.chunk>>
       PROVE  ReadTypeOK' /\ Spans'
  <2>1. worker' \in [Workers -> Task] /\ worker'[i] = w
    BY <1>3, <1>10 DEF SetWorker
  <2>2. ReadTypeOK'
    BY <1>9, <1>10, <2>1 DEF ReadInv, ReadTypeOK
  <2>3. Held(i)'
    BY <1>1, <1>5, <1>10, <2>1 DEF Held, Ready
  <2> QED BY <1>1, <1>10, <2>2, <2>3, WorkerMoves DEF ReadInv
<1>11. CASE Take(i)
  <2> DEFINE w == [Idle EXCEPT !.st = "task", !.chunk = next]
  <2>1. w \in Task /\ w.st = "task" /\ w.slot = 0
    BY <1>3 DEF Idle, Task, Steps
  <2>2. SetWorker(i, w) /\ UNCHANGED <<phase, reader, busy, mem>> /\ next' \in Nat
    BY <1>3, <1>11 DEF Take
  <2> HIDE DEF w
  <2> QED BY <2>1, <2>2, <1>3, <1>10
<1>12. CASE GetSpan(i)
  <2>1. PICK slot \in Slots \ busy[i] : /\ busy' = Taken(i, slot)
                                        /\ SetWorker(i, [worker[i] EXCEPT !.st = "copy", !.slot = slot])
    BY <1>12 DEF GetSpan
  <2> DEFINE w == [worker[i] EXCEPT !.st = "copy", !.slot = slot]
  <2>2. w \in Task /\ w.st = "copy" /\ w.slot = slot /\ w.chunk = worker[i].chunk
    BY <1>3 DEF Task, Steps
  <2>3. SetWorker(i, w) /\ UNCHANGED <<phase, reader, next, mem>> /\ HasData(worker[i].chunk)
    BY <1>12, <2>1 DEF GetSpan
  <2>4. /\ busy' \in [Workers -> SUBSET Slots] /\ busy'[i] = busy[i] \cup {slot}
        /\ \A j \in Workers \ {i} : busy'[j] = busy[j]
    BY <1>3, <2>1 DEF Taken
  <2> HIDE DEF w
  <2> QED BY <2>2, <2>3, <2>4, <1>3, <1>10
<1>13. CASE NoRange(i)
  <2> DEFINE w == [worker[i] EXCEPT !.st = "send"]
  <2>1. w \in Task /\ w.st = "send" /\ w.slot = 0
    BY <1>3, <1>4, <1>13 DEF Task, Steps, Held, NoRange
  <2>2. SetWorker(i, w) /\ UNCHANGED <<phase, reader, next, busy, mem>>
    BY <1>13 DEF NoRange
  <2> HIDE DEF w
  <2> QED BY <2>1, <2>2, <1>3, <1>10
<1>14. CASE Copied(i)
  <2> DEFINE w == [worker[i] EXCEPT !.st = "send"]
             slot == worker[i].slot
  <2>1. w \in Task /\ w.st = "send" /\ w.slot = slot /\ w.chunk = worker[i].chunk
    BY <1>3 DEF Task, Steps
  <2>2. slot \in busy[i] /\ slot \in Slots /\ HasData(worker[i].chunk)
    BY <1>3, <1>4, <1>14 DEF Held, Copied
  <2>3. SetWorker(i, w) /\ UNCHANGED <<phase, reader, next, busy>>
        /\ mem' = [mem EXCEPT ![i][slot] = <<object.nth, worker[i].chunk>>]
    BY <1>14 DEF Copied
  <2>4. /\ mem' \in [Workers -> [Slots -> Nat \X Nat]] /\ mem'[i][slot] = <<object.nth, worker[i].chunk>>
        /\ \A s \in Slots \ {slot} : mem'[i][s] = mem[i][s]
        /\ \A j \in Workers \ {i} : mem'[j] = mem[j]
    <3>1. <<object.nth, worker[i].chunk>> \in Nat \X Nat
      BY <1>3 DEF Task
    <3> HIDE DEF slot
    <3> QED BY <3>1, <2>2, <2>3, <1>3
  <2> HIDE DEF w
  <2> QED BY <2>1, <2>2, <2>3, <2>4, <1>3, <1>10
<1>15. CASE Break(i)
  <2>1. UNCHANGED <<phase, reader, next, mem>>
    BY <1>15 DEF Break
  <2>2. CASE worker[i].st = "copy"
    <3> DEFINE w == [Idle EXCEPT !.st = "task", !.chunk = worker[i].chunk]
    <3>1. w \in Task /\ w.st = "task" /\ w.slot = 0
      BY <1>3 DEF Idle, Task, Steps
    <3>2. SetWorker(i, w) /\ busy' = [busy EXCEPT ![i] = @ \ {worker[i].slot}]
      BY <1>15, <2>2 DEF Break, PutSpan
    <3> HIDE DEF w
    <3> QED BY <2>1, <3>1, <3>2, <1>3, <1>10
  <2>3. CASE worker[i].st = "task"
    <3>1. PICK st \in {"err", "send"} : SetWorker(i, [worker[i] EXCEPT !.st = st])
      BY <1>15, <2>3 DEF Break
    <3> DEFINE w == [worker[i] EXCEPT !.st = st]
    <3>2. w \in Task /\ w.st = st /\ w.slot = 0
      BY <1>3, <1>4, <2>3 DEF Task, Steps, Held
    <3>3. UNCHANGED busy
      BY <1>15, <2>3 DEF Break
    <3>4. SetWorker(i, w)
      BY <3>1
    <3> HIDE DEF w
    <3> QED BY <2>1, <3>2, <3>3, <3>4, <1>3, <1>10
  <2> QED BY <1>15, <2>2, <2>3 DEF Break
<1>16. CASE ReceiveErr(i)
  <2>1. SetWorker(i, Idle) /\ UNCHANGED <<next, busy, mem>> /\ phase' = "over" /\ reader' \in Readers
    BY <1>16 DEF ReceiveErr, Exit, ReadInv, ReadTypeOK, Readers
  <2>2. worker' \in [Workers -> Task] /\ worker'[i] = Idle
    BY <1>3, <2>1 DEF SetWorker
  <2>3. ReadTypeOK'
    BY <1>3, <1>9, <2>1, <2>2
  <2>4. Held(i)'
    BY <2>2 DEF Held, Idle
  <2> QED BY <1>1, <1>3, <2>1, <2>3, <2>4, WorkerMoves DEF ReadInv
<1> QED BY <1>11, <1>12, <1>13, <1>14, <1>15, <1>16

\* A result is passed on, or waits with its span.
LEMMA ReceivePassesOn ==
  ASSUME ReadInv, NEW i \in Workers, UNCHANGED todo, Receive(i)
  PROVE  ReadInv'
<1> DEFINE w == worker[i]
           c == [chunk |-> w.chunk, arena |-> i, slot |-> w.slot]
<1>1. /\ UNCHANGED <<opts, object, mem, next>> /\ Workers' = Workers /\ Slots' = Slots
      /\ phase = "select" /\ w.st = "send" /\ SetWorker(i, Idle)
  BY DEF Receive, Workers, Slots
<1>2. /\ w \in Task /\ worker \in [Workers -> Task] /\ Idle \in Task /\ Idle.slot = 0 /\ Idle.st = "idle"
      /\ busy \in [Workers -> SUBSET Slots] /\ Slots \subseteq Nat \ {0} /\ object.nth \in Nat
      /\ queue \subseteq Chunk
  BY SlotsType DEF ReadInv, ReadTypeOK, Idle, Task, Steps
<1>3. c \in Chunk /\ c.chunk = w.chunk /\ c.arena = i /\ c.slot = w.slot
  BY <1>2 DEF Task, Chunk
<1>4. c.slot = 0 \/ Ready(c.chunk, c.arena, c.slot)
  BY <1>1, <1>3 DEF ReadInv, Spans, Held
<1>5. object.nth > 0
  BY <1>1, <1>2 DEF ReadInv, Stages
<1>6. worker' \in [Workers -> Task] /\ worker'[i] = Idle /\ \A j \in Workers \ {i} : worker'[j] = worker[j]
  BY <1>1, <1>2 DEF SetWorker
<1>7. \A n : HasData(n)' <=> HasData(n)
  BY <1>1 DEF HasData
<1>8. CASE InTurn(w.chunk)
  <2>1. WriteChunk(c) /\ UNCHANGED queue
    BY <1>8 DEF Receive
  <2>2. /\ written' \in Nat /\ phase' \in {"drain", "over"} /\ reader' = reader
        /\ out' \in Seq(Nat \X Nat)
        /\ busy' = IF c.slot = 0 THEN busy ELSE [busy EXCEPT ![c.arena] = @ \ {c.slot}]
        /\ InOrder' /\ UpTo'
    <3>1. c.chunk = written
      BY <1>3, <1>8 DEF InTurn
    <3> HIDE DEF c
    <3> QED BY <1>1, <1>3, <1>4, <1>5, <2>1, <3>1, PassedOn
  <2>3. /\ busy' \in [Workers -> SUBSET Slots]
        /\ \A j \in Workers \ {i} : busy'[j] = busy[j]
        /\ \A s \in busy[i] \ {worker[i].slot} : s \in busy'[i]
    <3> HIDE DEF c
    <3> QED BY <1>2, <1>3, <2>2
  <2>4. ReadTypeOK'
    BY <1>1, <1>6, <2>1, <2>2, <2>3 DEF ReadInv, ReadTypeOK, Chunk
  <2>5. Stages'
    <3>1. reader # "eof"
      BY <1>1 DEF ReadInv, Stages
    <3> QED BY <3>1, <1>1, <1>5, <2>2 DEF ReadInv, Stages
  <2>6. Held(i)'
    BY <1>2, <1>6 DEF Held
  <2>7. Spans'
    BY <1>1, <1>2, <2>1, <2>3, <2>4, <2>6, WorkerMoves DEF ReadInv
  <2> QED BY <2>2, <2>4, <2>5, <2>7 DEF ReadInv
<1>9. CASE ~InTurn(w.chunk)
  <2>1. queue' = queue \cup {c} /\ UNCHANGED <<written, phase, reader, out, busy>>
    BY <1>9 DEF Receive
  <2>2. ReadTypeOK'
    <3>1. queue' \subseteq Chunk'
      <4> HIDE DEF c
      <4> QED BY <1>1, <1>2, <1>3, <2>1 DEF Chunk
    <3> QED BY <1>1, <1>6, <2>1, <3>1 DEF ReadInv, ReadTypeOK
  <2>3. Stages' /\ InOrder' /\ UpTo'
    <3>1. InOrder' /\ UpTo'
      BY <1>1, <2>1, OrderStays DEF ReadInv
    <3>2. Stages'
      BY <1>1, <1>5, <1>7, <2>1 DEF ReadInv, Stages
    <3> QED BY <3>1, <3>2
  <2>4. Spans'
    <3>1. \A j \in Workers : Held(j)'
      BY <1>1, <1>2, <1>6, <1>7, <2>1 DEF ReadInv, Spans, Held, Ready
    <3>2. \A d \in queue' : d.slot = 0 \/ Ready(d.chunk, d.arena, d.slot)'
      <4>1. \A d \in queue' : d.slot = 0 \/ Ready(d.chunk, d.arena, d.slot)
        <5> HIDE DEF c
        <5> QED BY <1>4, <2>1 DEF ReadInv, Spans
      <4> QED BY <4>1, <1>1, <1>7, <2>1 DEF Ready
    <3>3. \A d \in queue : d.slot = 0 \/ d.slot # worker[d.arena].slot
      BY DEF ReadInv, Spans
    <3>4. \A d \in queue' : d.slot = 0 \/ d.slot # worker'[d.arena].slot
      <4> TAKE d \in queue'
      <4>1. d.arena \in Workers
        BY <2>2, <1>1 DEF ReadTypeOK, Chunk
      <4>2. CASE d.arena = i
        BY <4>2, <1>2, <1>6
      <4>3. CASE d.arena # i
        <5>1. d \in queue
          BY <4>3, <2>1, <1>3
        <5> QED BY <5>1, <4>1, <4>3, <3>3, <1>6
      <4> QED BY <4>2, <4>3
    <3>5. \A d, e \in queue' : d.arena = e.arena /\ d.slot = e.slot => d = e \/ d.slot = 0
      <4>1. \A d \in queue : d.arena = i => d.slot = 0 \/ d.slot # c.slot
        BY <3>3, <1>3
      <4>2. \A d, e \in queue : d.arena = e.arena /\ d.slot = e.slot => d = e \/ d.slot = 0
        BY DEF ReadInv, Spans
      <4> HIDE DEF c
      <4> QED BY <4>1, <4>2, <1>3, <2>1
    <3> QED BY <3>1, <3>2, <3>4, <3>5, <1>1 DEF Spans
  <2> QED BY <2>2, <2>3, <2>4 DEF ReadInv
<1> QED BY <1>8, <1>9

\* The chunks that waited follow, and the object ends when all have come.
LEMMA DrainPassesOn ==
  ASSUME ReadInv, UNCHANGED todo, Drain
  PROVE  ReadInv'
<1>1. /\ UNCHANGED <<opts, object, next, worker, mem>> /\ phase = "drain"
      /\ Workers' = Workers /\ Slots' = Slots
  BY DEF Drain, Workers, Slots
<1>2. /\ worker \in [Workers -> Task] /\ busy \in [Workers -> SUBSET Slots] /\ Slots \subseteq Nat \ {0}
      /\ queue \subseteq Chunk /\ object.nth \in Nat /\ written \in Nat
  BY SlotsType DEF ReadInv, ReadTypeOK
<1>3. object.nth > 0 /\ reader # "eof"
  BY <1>1, <1>2 DEF ReadInv, Stages
<1>4. \A n : HasData(n)' <=> HasData(n)
  BY <1>1 DEF HasData
<1>5. CASE Follows # {}
  <2>1. PICK c \in Follows : WriteChunk(c) /\ queue' = queue \ {c}
    BY <1>5 DEF Drain
  <2>2. c \in queue /\ c \in Chunk /\ c.chunk = written /\ (c.slot = 0 \/ Ready(c.chunk, c.arena, c.slot))
    BY <1>2, <2>1 DEF Follows, ReadInv, Spans
  <2>3. /\ written' \in Nat /\ phase' \in {"drain", "over"} /\ reader' = reader
        /\ out' \in Seq(Nat \X Nat)
        /\ busy' = IF c.slot = 0 THEN busy ELSE [busy EXCEPT ![c.arena] = @ \ {c.slot}]
        /\ InOrder' /\ UpTo'
    BY <1>1, <1>3, <2>1, <2>2, PassedOn
  <2>4. /\ busy' \in [Workers -> SUBSET Slots]
        /\ \A j \in Workers : \A s \in busy[j] : s \in busy'[j] \/ (j = c.arena /\ s = c.slot)
    BY <1>2, <2>2, <2>3
  <2>5. ReadTypeOK'
    BY <1>1, <2>1, <2>3, <2>4 DEF ReadInv, ReadTypeOK, Chunk
  <2>6. Stages'
    BY <1>1, <1>3, <2>3 DEF ReadInv, Stages
  <2>7. Spans'
    <3>1. \A j \in Workers : Held(j)'
      <4> TAKE j \in Workers
      <4>1. Held(j) /\ worker[j].slot \in Nat
        BY <1>2 DEF ReadInv, Spans, Task
      <4>2. c.arena = j => c.slot = 0 \/ c.slot # worker[j].slot
        BY <2>2 DEF ReadInv, Spans
      <4>3. worker[j].slot \in busy[j] => worker[j].slot \in busy'[j]
        BY <1>2, <2>2, <2>4, <4>2
      <4> QED BY <4>1, <4>3, <1>1, <1>4 DEF Held, Ready
    <3>2. \A d \in queue' : d.slot = 0 \/ Ready(d.chunk, d.arena, d.slot)'
      <4> TAKE d \in queue'
      <4>1. d \in queue /\ d # c /\ d.arena \in Workers
        BY <1>2, <2>1 DEF Chunk
      <4>2. d.slot = 0 \/ Ready(d.chunk, d.arena, d.slot)
        BY <4>1 DEF ReadInv, Spans
      <4>3. d.arena = c.arena /\ d.slot = c.slot => d.slot = 0
        BY <4>1, <2>2 DEF ReadInv, Spans
      <4>4. d.slot # 0 => d.slot \in busy'[d.arena]
        BY <4>1, <4>2, <4>3, <2>4 DEF Ready
      <4> QED BY <4>2, <4>4, <1>1, <1>4 DEF Ready
    <3>3. \A d \in queue' : d.slot = 0 \/ d.slot # worker'[d.arena].slot
      BY <1>1, <2>1 DEF ReadInv, Spans
    <3>4. \A d, e \in queue' : d.arena = e.arena /\ d.slot = e.slot => d = e \/ d.slot = 0
      BY <2>1 DEF ReadInv, Spans
    <3> QED BY <3>1, <3>2, <3>3, <3>4, <1>1 DEF Spans
  <2> QED BY <2>3, <2>5, <2>6, <2>7 DEF ReadInv
<1>6. CASE Follows = {}
  <2>1. /\ UNCHANGED <<queue, written, out, busy>>
        /\ \/ written >= Size /\ phase' = "over" /\ reader' = IF reader = "open" THEN "eof" ELSE reader
           \/ phase' = "select" /\ reader' = reader
    BY <1>6 DEF Drain, Exit
  <2>2. ReadTypeOK'
    BY <1>1, <2>1 DEF ReadInv, ReadTypeOK, Chunk, Readers
  <2>3. Spans'
    BY <1>1, <1>4, <2>1 DEF ReadInv, Spans, Held, Ready
  <2>4. InOrder' /\ UpTo'
    BY <1>1, <2>1, OrderStays DEF ReadInv
  <2>5. Stages'
    <3>1. written >= Size => ~HasData(written)
      BY SizeIsReached DEF ReadInv
    <3> QED BY <3>1, <1>1, <1>3, <1>4, <2>1 DEF ReadInv, Stages
  <2> QED BY <2>2, <2>3, <2>4, <2>5 DEF ReadInv
<1> QED BY <1>5, <1>6

LEMMA ReadingKeeps ==
  ASSUME ReadInv, Reading, UNCHANGED todo PROVE ReadInv'
<1>1. CASE CloseReader
  <2>1. /\ UNCHANGED <<setting, opts, object, next, worker, queue, written, phase, out, busy, mem>>
        /\ reader = "open" /\ reader' = "closed"
    BY <1>1 DEF CloseReader
  <2>2. ReadTypeOK'
    BY <2>1 DEF ReadInv, ReadTypeOK, Chunk, Workers, Slots, Readers
  <2>3. Spans'
    BY <2>1 DEF ReadInv, Spans, Held, Ready, HasData, Workers
  <2>4. InOrder' /\ UpTo'
    BY <2>1, OrderStays DEF ReadInv
  <2>5. Stages'
    BY <2>1 DEF ReadInv, Stages, HasData, Workers
  <2> QED BY <2>2, <2>3, <2>4, <2>5 DEF ReadInv
<1>2. CASE \E i \in Workers : WorkerStep(i) \/ Break(i)
  BY <1>2, WorkerWorks, ReceivePassesOn DEF WorkerStep
<1> QED BY <1>1, <1>2, DrainPassesOn DEF Reading

----------------------------------------------------------------------------
(* The file and its parts. *)

LEMMA Smallest ==
  ASSUME NEW T, T \subseteq Nat, T # {} PROVE \E n \in T : \A m \in T : n <= m
<1>1. PICK n \in T : \A m \in T : ~(<<m, n>> \in OpToRel(<, Nat))
  BY NatLessThanWellFounded, WFMin
<1>2. \A m \in T : ~(m < n)
  BY <1>1 DEF OpToRel
<1> QED BY <1>2

LEMMA TopType == Top \in FileSizes /\ Top \in Nat /\ \A n \in FileSizes : n <= Top
BY SizesAssumption DEF Top

LEMMA Times ==
  ASSUME NEW a \in Nat, NEW b \in Nat \ {0}
  PROVE  a <= a * b /\ (a + 1) * b = a * b + b /\ a * b \in Nat
<1>1. a * b >= a
  OBVIOUS
<1> QED BY <1>1

\* A part more; there are no more parts than the model has room for.
LEMMA SavePartKeeps ==
  ASSUME FileTypeOK, SavedOK, SavePart PROVE FileTypeOK' /\ SavedOK'
<1> DEFINE n == IF sm.left < maxObj THEN sm.left ELSE maxObj
           p == sm.part
<1>1. /\ sm.op = "save" /\ UNCHANGED <<maxObj, saved, broken>>
      /\ parts' = [parts EXCEPT ![p] = IF n = 0 /\ p # 0 THEN Absent ELSE n]
      /\ sm' = IF Continues(n) THEN [sm EXCEPT !.part = @ + 1, !.left = @ - n]
               ELSE [sm EXCEPT !.op = "saved", !.left = 0]
  BY DEF SavePart
<1>2. /\ Filled /\ maxObj = saved.max /\ sm.left \in Nat
      /\ p * saved.max + sm.left = saved.size /\ \A q \in PartIds : q >= p => parts[q] = Absent
  BY <1>1 DEF SavedOK
<1>3. /\ saved.max \in Nat \ {0} /\ saved.size \in Nat /\ DOMAIN parts = PartIds /\ p \in Nat /\ p \in PartIds
      /\ sm = [op |-> sm.op, part |-> sm.part, left |-> sm.left] /\ saved.size <= Top
      /\ PartIds = 0..Top + 1 /\ Top \in Nat /\ saved.size \in FileSizes
  BY <1>2, TopType DEF FileTypeOK, Filled, PartIds
<1>4. /\ DOMAIN parts' = PartIds /\ parts'[p] = (IF n = 0 /\ p # 0 THEN Absent ELSE n)
      /\ \A q \in PartIds \ {p} : parts'[q] = parts[q]
  BY <1>1, <1>3
<1>5. n \in Nat
  BY <1>2, <1>3
<1>6. CASE Continues(n)
  <2>1. n = saved.max /\ sm.left >= saved.max
    BY <1>2, <1>3, <1>6 DEF Continues
  <2>2. sm' = [op |-> "save", part |-> p + 1, left |-> sm.left - saved.max]
    BY <1>1, <1>3, <1>6, <2>1
  <2>3. sm'.op = "save" /\ sm'.part = p + 1 /\ sm'.left = sm.left - saved.max
    BY <2>2
  <2>4. (p + 1) * saved.max + (sm.left - saved.max) = saved.size
    <3>1. (p + 1) * saved.max = p * saved.max + saved.max /\ p * saved.max \in Nat
      BY <1>3, Times
    <3> DEFINE full == p * saved.max
               more == (p + 1) * saved.max
    <3>2. full \in Nat /\ more = full + saved.max /\ full + sm.left = saved.size
      BY <3>1, <1>2
    <3> HIDE DEF full, more
    <3>3. more + (sm.left - saved.max) = saved.size
      BY <3>2, <1>2, <1>3
    <3> QED BY <3>3 DEF more
  <2>5. p + 1 \in PartIds
    <3>1. p <= p * saved.max /\ p * saved.max \in Nat
      BY <1>3, Times
    <3> QED BY <3>1, <1>2, <1>3
  <2>6. Filled'
    BY <1>1, <1>2, <1>3, <1>4, <2>1, <2>3, <2>5 DEF Filled
  <2>7. SavedOK'
    BY <1>1, <1>2, <1>3, <1>4, <2>1, <2>3, <2>4, <2>6 DEF SavedOK
  <2>8. FileTypeOK'
    BY <1>1, <1>4, <2>2 DEF FileTypeOK
  <2> QED BY <2>7, <2>8
<1>7. CASE ~Continues(n)
  <2>1. n = sm.left /\ n \in 0..saved.max - 1
    BY <1>2, <1>3, <1>5, <1>7 DEF Continues
  <2>2. sm' = [op |-> "saved", part |-> p, left |-> 0]
    BY <1>1, <1>3, <1>7
  <2>3. sm'.op = "saved" /\ sm'.part = p
    BY <2>2
  <2>4. Filled'
    BY <1>1, <1>2, <1>3, <1>4, <2>3 DEF Filled
  <2>5. \A q \in PartIds : q > p => parts'[q] = Absent
    BY <1>2, <1>3, <1>4
  <2>6. \E rest \in 0..saved.max - 1 :
          /\ p * saved.max + rest = saved.size
          /\ parts'[p] = IF rest = 0 /\ p # 0 THEN Absent ELSE rest
    <3>1. p * saved.max + n = saved.size
      BY <1>2, <2>1
    <3> HIDE DEF n
    <3> QED BY <2>1, <3>1, <1>4
  <2>7. SavedOK'
    BY <1>1, <2>3, <2>4, <2>5, <2>6 DEF SavedOK
  <2>8. FileTypeOK'
    BY <1>1, <1>4, <2>2 DEF FileTypeOK
  <2> QED BY <2>7, <2>8
<1> QED BY <1>6, <1>7

LEMMA FileKeeps ==
  ASSUME FileTypeOK, SavedOK, Saving \/ Deleting \/ (\E m \in MaxSizes : SetConfig(m))
  PROVE  FileTypeOK' /\ SavedOK'
<1>1. CASE \E size \in FileSizes : Save(size)
  <2>1. PICK size \in FileSizes : Save(size)
    BY <1>1
  <2>2. /\ sm.op = "none" /\ sm' = [op |-> "save", part |-> 0, left |-> size]
        /\ saved' = [size |-> size, max |-> maxObj] /\ UNCHANGED <<maxObj, parts>>
    BY <2>1 DEF Save, Begin
  <2>3. size \in Nat /\ maxObj \in Nat \ {0} /\ 0 \in PartIds /\ PartIds \subseteq Nat
    BY SizesAssumption, TopType DEF FileTypeOK, PartIds
  <2>4. FileTypeOK'
    BY <2>2, <2>3 DEF FileTypeOK
  <2>5. Filled'
    BY <2>2, <2>3 DEF Filled
  <2>6. SavedOK'
    BY <2>2, <2>3, <2>5 DEF SavedOK, FileTypeOK
  <2> QED BY <2>4, <2>6
<1>2. CASE SaveFails
  <2>1. sm' = [sm EXCEPT !.op = "failed"] /\ DOMAIN parts' = DOMAIN parts /\ UNCHANGED <<maxObj, saved>>
    BY <1>2 DEF SaveFails
  <2>2. sm' = [op |-> "failed", part |-> sm.part, left |-> sm.left]
    BY <2>1 DEF FileTypeOK
  <2> QED BY <2>1, <2>2 DEF FileTypeOK, SavedOK
<1>3. CASE Delete
  <2>1. sm' = [op |-> "delete", part |-> 0, left |-> ToDelete] /\ UNCHANGED <<maxObj, parts, saved>>
    BY <1>3 DEF Delete, Begin
  <2> QED BY <2>1 DEF FileTypeOK, SavedOK
<1>4. CASE DeletePart
  <2>1. \E part, left : sm' = [op |-> "delete", part |-> part, left |-> left]
                      \/ sm' = [op |-> "deleted", part |-> part, left |-> left]
    BY <1>4 DEF DeletePart, FileTypeOK
  <2>2. DOMAIN parts' = DOMAIN parts /\ UNCHANGED <<maxObj, saved>>
    BY <1>4 DEF DeletePart
  <2>3. sm'.op \in {"delete", "deleted"} /\ sm' = [op |-> sm'.op, part |-> sm'.part, left |-> sm'.left]
    BY <2>1
  <2> QED BY <2>2, <2>3 DEF FileTypeOK, SavedOK
<1>5. CASE DeleteFails
  <2>1. sm' = [op |-> "failed", part |-> sm.part, left |-> sm.left] /\ UNCHANGED <<maxObj, parts, saved>>
    BY <1>5 DEF DeleteFails, FileTypeOK
  <2> QED BY <2>1 DEF FileTypeOK, SavedOK
<1>6. CASE \E m \in MaxSizes : SetConfig(m)
  <2>1. maxObj' \in MaxSizes /\ sm.op \in {"saved", "failed"} /\ UNCHANGED <<parts, sm, saved>>
    BY <1>6 DEF SetConfig
  <2>2. FileTypeOK'
    BY <2>1, SizesAssumption DEF FileTypeOK
  <2>3. SavedOK'
    BY <2>1 DEF SavedOK, Filled
  <2> QED BY <2>2, <2>3
<1> QED BY <1>1, <1>2, <1>3, <1>4, <1>5, <1>6, SavePartKeeps DEF Saving, Deleting

\* The parts that are found are those of the file, if the limit has not been raised.
LEMMA PartsFound ==
  ASSUME FileTypeOK, SavedOK, sm.op = "saved", parts[0] > 0
  PROVE  /\ FileWithParts \in Seq(Nat) /\ FileWithParts # <<>>
         /\ ~Raised =>
              /\ \A p \in 1..Len(FileWithParts) - 1 : FileWithParts[p] = saved.max
              /\ (Len(FileWithParts) - 1) * saved.max + FileWithParts[Len(FileWithParts)] = saved.size
<1> DEFINE L == sm.part
           M == saved.max
<1>1. PICK rest \in 0..M - 1 :
        L * M + rest = saved.size /\ parts[L] = (IF rest = 0 /\ L # 0 THEN Absent ELSE rest)
  BY DEF SavedOK
<1>2. /\ M \in Nat \ {0} /\ saved.size \in Nat /\ maxObj \in Nat \ {0} /\ rest \in Nat /\ rest < M
      /\ L \in Nat /\ L \in PartIds /\ saved.size <= Top /\ PartIds = 0..Top + 1 /\ Top \in Nat
      /\ \A p \in PartIds : p < L => parts[p] = M
      /\ \A p \in PartIds : p > L => parts[p] = Absent
  BY TopType DEF FileTypeOK, SavedOK, Filled, PartIds
<1> DEFINE K == IF rest = 0 THEN L - 1 ELSE L
<1>3. K \in 0..Top /\ parts[K + 1] <= 0
  <2>1. CASE rest = 0
    <3>1. L # 0
      BY <1>1, <2>1
    <3>2. parts[L] = Absent
      BY <1>1, <2>1, <3>1
    <3> QED BY <1>2, <2>1, <3>1, <3>2 DEF Absent
  <2>2. CASE rest # 0
    <3>1. L <= L * M /\ L * M \in Nat
      BY <1>2, Times
    <3>2. L <= Top
      BY <1>1, <1>2, <2>2, <3>1
    <3> QED BY <1>2, <2>2, <3>2 DEF Absent
  <2> QED BY <2>1, <2>2
<1>4. /\ \A p \in 0..K : parts[p] \in Nat \ {0}
      /\ \A p \in 0..K : p < K => parts[p] = M
      /\ K * M + parts[K] = saved.size
  <2>1. CASE rest = 0
    <3>1. K \in Nat /\ K + 1 = L
      BY <1>2, <1>3, <2>1
    <3>2. (K + 1) * M = K * M + M
      <4> HIDE DEF K
      <4> QED BY <1>2, <3>1, Times
    <3>3. K * M + M = saved.size
      <4>1. (K + 1) * M = saved.size
        <5>1. L * M \in Nat
          BY <1>2, Times
        <5> QED BY <5>1, <1>1, <2>1, <3>1
      <4> QED BY <4>1, <3>2
    <3> HIDE DEF K
    <3>4. K \in PartIds /\ K < L
      BY <1>2, <1>3, <3>1
    <3>5. \A p \in 0..K : p \in PartIds /\ p < L
      BY <1>2, <3>1, <3>4
    <3> QED BY <1>2, <3>3, <3>4, <3>5
  <2>2. CASE rest # 0
    <3>1. K = L /\ parts[K] = rest
      BY <1>1, <2>2
    <3>2. K * M + parts[K] = saved.size
      BY <1>1, <3>1
    <3> HIDE DEF K
    <3>3. \A p \in 0..K : p \in PartIds /\ (p < L \/ p = K)
      BY <1>2, <1>3, <3>1
    <3>4. \A p \in 0..K : p < L => parts[p] = M
      BY <1>2, <3>3
    <3>5. \A p \in 0..K : parts[p] \in Nat \ {0}
      BY <1>2, <2>2, <3>1, <3>3, <3>4
    <3> QED BY <3>1, <3>2, <3>4, <3>5
  <2> QED BY <2>1, <2>2
<1> HIDE DEF K
<1> DEFINE Ends(p) == LastPart(p) /\ \A q \in 0..p - 1 : ~LastPart(q)
           last == CHOOSE p \in 0..Top : Ends(p)
<1>5. \E p \in 0..K : p \in 0..Top /\ Ends(p)
  <2> DEFINE T == {p \in 0..Top : LastPart(p)}
  <2>1. K \in T
    BY <1>3 DEF LastPart
  <2>2. PICK p \in T : \A q \in T : p <= q
    <3>1. T \subseteq Nat /\ T # {}
      BY <1>2, <2>1
    <3> HIDE DEF T
    <3> QED BY <3>1, Smallest
  <2>3. p <= K /\ p \in 0..Top /\ LastPart(p)
    BY <2>1, <2>2
  <2>4. \A q \in 0..p - 1 : ~LastPart(q)
    <3> TAKE q \in 0..p - 1
    <3>1. q \in 0..Top /\ ~(p <= q)
      BY <1>2, <2>3
    <3> QED BY <2>2, <3>1
  <2> QED BY <1>3, <2>3, <2>4
<1>6. last \in 0..Top /\ Ends(last)
  <2>1. \E p \in 0..Top : Ends(p)
    BY <1>5
  <2> HIDE DEF Ends
  <2> QED BY <2>1
<1>7. last <= K
  <2>1. PICK p \in 0..K : p \in 0..Top /\ Ends(p)
    BY <1>5
  <2> HIDE DEF last
  <2>2. ~(p < last)
    BY <1>6, <2>1
  <2> QED BY <1>2, <1>3, <1>6, <2>1, <2>2
<1>8. FileWithParts = [n \in 1..last + 1 |-> parts[n - 1]]
  <2>1. ~(parts[0] <= 0)
    BY <1>3, <1>4
  <2> QED BY <2>1 DEF FileWithParts
<1>9. /\ FileWithParts \in Seq(Nat) /\ FileWithParts # <<>> /\ Len(FileWithParts) = last + 1
      /\ \A n \in 1..last + 1 : FileWithParts[n] = parts[n - 1]
  <2> HIDE DEF last
  <2>1. last \in Nat /\ K \in Nat
    BY <1>2, <1>3, <1>6
  <2>2. ASSUME NEW n \in 1..last + 1 PROVE parts[n - 1] \in Nat
    <3>1. n - 1 \in 0..K
      BY <2>1, <1>7
    <3> QED BY <3>1, <1>4
  <2>3. FileWithParts \in [1..last + 1 -> Nat]
    BY <1>8, <2>2
  <2>4. FileWithParts \in Seq(Nat) /\ Len(FileWithParts) = last + 1
    BY <2>1, <2>3
  <2>5. FileWithParts # <<>>
    BY <2>1, <2>4
  <2>6. \A n \in 1..last + 1 : FileWithParts[n] = parts[n - 1]
    BY <1>8
  <2> QED BY <2>4, <2>5, <2>6
<1>10. ASSUME ~Raised PROVE last = K
  <2>1. maxObj <= M
    BY <1>2, <1>10 DEF Raised
  <2>2. \A p \in 0..K : p < K => ~LastPart(p)
    <3> TAKE p \in 0..K
    <3> HAVE p < K
    <3>1. parts[p] = M /\ p + 1 \in 0..K
      BY <1>3, <1>4
    <3>2. parts[p + 1] \in Nat \ {0}
      BY <1>4, <3>1
    <3> QED BY <1>2, <2>1, <3>1, <3>2 DEF LastPart
  <2> HIDE DEF last
  <2>3. ~(last < K)
    BY <1>3, <1>6, <1>7, <2>2
  <2> QED BY <1>2, <1>3, <1>6, <1>7, <2>3
<1>11. ASSUME ~Raised
       PROVE  /\ \A p \in 1..Len(FileWithParts) - 1 : FileWithParts[p] = M
              /\ (Len(FileWithParts) - 1) * M + FileWithParts[Len(FileWithParts)] = saved.size
  <2>1. Len(FileWithParts) = K + 1 /\ \A n \in 1..K + 1 : FileWithParts[n] = parts[n - 1]
    BY <1>9, <1>10, <1>11
  <2>2. K \in Nat /\ M \in Nat
    BY <1>2, <1>3
  <2>3. ASSUME NEW p \in 1..K PROVE FileWithParts[p] = M
    <3>1. p \in 1..K + 1 /\ p - 1 \in 0..K /\ p - 1 < K
      BY <2>2
    <3> QED BY <3>1, <2>1, <1>4
  <2>4. FileWithParts[K + 1] = parts[K]
    BY <2>1, <2>2
  <2> HIDE DEF M
  <2> QED BY <1>4, <2>1, <2>2, <2>3, <2>4
<1> QED BY <1>9, <1>11

\* A read begins with the parts that are found.
LEMMA OpenFileKeeps ==
  ASSUME Inv, OpenFile PROVE Inv'
<1>1. /\ sm.op = "saved" /\ reader = "none" /\ todo = <<>> /\ UNCHANGED <<readVars, fileVars>>
      /\ todo' = IF FileWithParts = <<>> THEN <<parts[0]>> ELSE FileWithParts
  BY DEF OpenFile, Untouched
<1>2. object.nth = 0 /\ written = 0 /\ out = <<>>
  BY <1>1 DEF Inv, ReadInv, Stages, UpTo
<1>3. TodoOK' /\ todo' # <<>>
  <2>1. CASE parts[0] > 0
    <3>1. todo' = FileWithParts /\ FileWithParts \in Seq(Nat) /\ FileWithParts # <<>>
      BY <1>1, <2>1, PartsFound DEF Inv
    <3>2. ~Raised => PartsAreFile'
      BY <1>1, <2>1, <3>1, PartsFound DEF Inv, PartsAreFile, fileVars
    <3> QED BY <1>1, <3>1, <3>2 DEF TodoOK, Raised, fileVars
  <2>2. CASE ~(parts[0] > 0)
    <3>1. PICK rest \in 0..saved.max - 1 :
            /\ sm.part * saved.max + rest = saved.size
            /\ parts[sm.part] = IF rest = 0 /\ sm.part # 0 THEN Absent ELSE rest
      BY <1>1 DEF Inv, SavedOK
    <3>2. /\ saved.max \in Nat \ {0} /\ saved.size \in Nat /\ sm.part \in Nat /\ 0 \in PartIds
          /\ 0 < sm.part => parts[0] = saved.max
      BY <1>1, TopType DEF Inv, FileTypeOK, SavedOK, Filled, PartIds
    <3>3. sm.part = 0 /\ rest = 0 /\ parts[0] = 0
      BY <2>2, <3>1, <3>2
    <3>4. todo' = <<0>> /\ saved.size = 0
      <4>1. saved.size = 0
        BY <3>1, <3>2, <3>3
      <4>2. FileWithParts = <<>>
        BY <3>3 DEF FileWithParts
      <4> QED BY <1>1, <3>3, <4>1, <4>2
    <3>5. todo' \in Seq(Nat) /\ Len(todo') = 1 /\ todo'[1] = 0
      BY <3>4
    <3>6. PartsAreFile'
      <4>1. UNCHANGED saved /\ (1 - 1) * saved.max + 0 = 0
        BY <1>1, <3>2 DEF fileVars
      <4> QED BY <3>4, <3>5, <4>1 DEF PartsAreFile
    <3> QED BY <3>4, <3>5, <3>6 DEF TodoOK
  <2> QED BY <2>1, <2>2
<1>4. FileTypeOK' /\ SavedOK'
  BY <1>1 DEF Inv, FileTypeOK, SavedOK, Filled, fileVars
<1>5. ReadTypeOK' /\ Spans'
  BY <1>1 DEF Inv, ReadInv, ReadTypeOK, Spans, Held, Ready, HasData, Chunk, Workers, Slots, readVars
<1>6. Stages'
  <2>1. Len(todo') \in Nat
    BY <1>3 DEF TodoOK
  <2> QED BY <1>1, <1>2, <2>1 DEF Inv, ReadInv, Stages, HasData, Workers, readVars
<1>7. InOrder' /\ UpTo'
  <2>1. out' = <<>> /\ Len(out') = 0 /\ written' = 0 /\ object'.nth = 0
    BY <1>1, <1>2 DEF readVars
  <2> QED BY <2>1 DEF InOrder, UpTo
<1> QED BY <1>3, <1>4, <1>5, <1>6, <1>7 DEF Inv, ReadInv

\* The next part follows the last chunk of the one before.
LEMMA OpenPartKeeps ==
  ASSUME Inv, OpenPart PROVE Inv'
<1> DEFINE p == object.nth + 1
<1>1. /\ reader \in {"none", "eof"} /\ UNCHANGED <<fileVars, todo, opts, out, busy, mem>>
      /\ object' = [size |-> todo[p], nth |-> p]
      /\ reader' = IF todo[p] = 0 THEN "failed" ELSE "open"
      /\ next' = 0 /\ written' = 0 /\ queue' = {} /\ phase' = "select"
      /\ worker' = [i \in Workers |-> Idle] /\ object.nth < Len(todo)
  BY DEF OpenPart, SourceReader
<1>2. /\ todo \in Seq(Nat) /\ object.nth \in Nat /\ Workers' = Workers /\ Slots' = Slots
      /\ opts.span \in Nat \ {0} /\ object.size \in Nat /\ written \in Nat
  BY <1>1 DEF Inv, TodoOK, ReadInv, ReadTypeOK, Workers, Slots
<1>3. todo[p] \in Nat /\ p \in Nat /\ p > 0 /\ p <= Len(todo)
  BY <1>1, <1>2
<1>4. Idle \in Task /\ Idle.slot = 0 /\ Idle.st = "idle"
  BY DEF Idle, Task, Steps
<1>5. /\ object'.nth = p /\ object'.size = todo[p] /\ \A i \in Workers : worker'[i] = Idle
      /\ worker' \in [Workers -> Task]
  BY <1>1, <1>4
<1>6. ReadTypeOK'
  <2>1. object' \in [size : Nat, nth : Nat] /\ reader' \in Readers /\ queue' \subseteq Chunk'
    BY <1>1, <1>3 DEF Readers
  <2> HIDE DEF p
  <2> QED BY <1>1, <1>2, <1>5, <2>1 DEF Inv, ReadInv, ReadTypeOK
<1>7. Spans'
  BY <1>1, <1>2, <1>4, <1>5 DEF Spans, Held
<1>8. Stages'
  BY <1>1, <1>2, <1>3, <1>4, <1>5 DEF Stages
<1>9. InOrder'
  BY <1>1 DEF Inv, ReadInv, InOrder, After, IsLast
<1>10. UpTo'
  <2>1. CASE object.nth = 0
    BY <2>1, <1>1, <1>2, <1>5 DEF Inv, ReadInv, Stages, UpTo
  <2>2. CASE object.nth > 0
    <3>1. reader = "eof" /\ ~HasData(written) /\ object.size > 0 /\ object.size = todo[object.nth]
      BY <1>1, <1>2, <2>2 DEF Inv, ReadInv, Stages
    <3>2. written > 0 /\ written * opts.span >= object.size
      BY <3>1, <1>2 DEF HasData
    <3>3. out # <<>> /\ out[Len(out)] = <<object.nth, written - 1>>
      BY <3>2 DEF Inv, ReadInv, UpTo
    <3>4. IsLast(out[Len(out)])
      BY <3>1, <3>2, <3>3, <1>2 DEF IsLast
    <3>5. out' # <<>> /\ out'[Len(out')][1] = p - 1 /\ IsLast(out[Len(out)])'
      <4>1. UNCHANGED <<out, opts, todo>>
        BY <1>1
      <4>2. IsLast(out[Len(out)])'
        BY <3>4, <4>1 DEF IsLast
      <4> QED BY <3>3, <4>1, <4>2, <1>2
    <3> QED BY <3>5, <1>1, <1>2, <1>3, <1>5, <2>2 DEF UpTo
  <2> QED BY <1>2, <2>1, <2>2
<1>11. FileTypeOK' /\ SavedOK' /\ TodoOK'
  BY <1>1 DEF Inv, FileTypeOK, SavedOK, Filled, TodoOK, PartsAreFile, Raised, fileVars
<1> QED BY <1>6, <1>7, <1>8, <1>9, <1>10, <1>11 DEF Inv, ReadInv

----------------------------------------------------------------------------
(* Theorems. *)

LEMMA InitInv == Init => Inv
<1> SUFFICES ASSUME Init PROVE Inv
  OBVIOUS
<1>1. opts.cc \in Nat /\ opts.spans \in Nat /\ opts.span \in Nat \ {0}
  BY OptsType DEF Init, ReadInit
<1>2. /\ object = [size |-> 0, nth |-> 0] /\ next = 0 /\ written = 0 /\ queue = {} /\ phase = "select"
      /\ worker = [i \in Workers |-> Idle] /\ reader = "none" /\ out = <<>> /\ todo = <<>>
      /\ busy = [i \in Workers |-> {}] /\ mem = [i \in Workers |-> [s \in Slots |-> <<0, 0>>]]
  BY DEF Init, ReadInit
<1>3. Idle \in Task /\ Idle.slot = 0 /\ Idle.st = "idle"
  BY DEF Idle, Task, Steps
<1>4. ReadTypeOK
  BY <1>1, <1>2, <1>3 DEF ReadTypeOK, Readers
<1>5. Spans /\ Stages /\ InOrder /\ UpTo
  BY <1>2, <1>3 DEF Spans, Held, Stages, InOrder, UpTo
<1>6. FileTypeOK /\ SavedOK
  BY SizesAssumption DEF Init, FileInit, FileTypeOK, SavedOK
<1>7. TodoOK
  BY <1>2 DEF TodoOK
<1> QED BY <1>4, <1>5, <1>6, <1>7 DEF Inv, ReadInv

LEMMA StepInv == Inv /\ [Next]_vars => Inv'
<1> SUFFICES ASSUME Inv, [Next]_vars PROVE Inv'
  OBVIOUS
<1>1. CASE Reading /\ UNCHANGED <<fileVars, todo>>
  <2>1. ReadInv'
    BY <1>1, ReadingKeeps DEF Inv
  <2> QED BY <2>1, <1>1 DEF Inv, FileTypeOK, SavedOK, Filled, TodoOK, PartsAreFile, Raised, fileVars
<1>2. CASE /\ Saving \/ Deleting \/ \E m \in MaxSizes : SetConfig(m)
           /\ Untouched /\ UNCHANGED <<readVars, todo>>
  <2>1. FileTypeOK' /\ SavedOK'
    BY <1>2, FileKeeps DEF Inv
  <2>2. TodoOK'
    BY <1>2 DEF Inv, Untouched, TodoOK
  <2>3. ReadTypeOK' /\ Spans' /\ Stages'
    BY <1>2 DEF Inv, ReadInv, ReadTypeOK, Spans, Stages, Held, Ready, HasData, Chunk, Workers, Slots, readVars
  <2>4. InOrder' /\ UpTo'
    BY <1>2, OrderStays DEF Inv, ReadInv, readVars
  <2> QED BY <2>1, <2>2, <2>3, <2>4 DEF Inv, ReadInv
<1>3. CASE UNCHANGED vars
  <2>1. ReadTypeOK' /\ Spans' /\ Stages'
    BY <1>3 DEF Inv, ReadInv, ReadTypeOK, Spans, Stages, Held, Ready, HasData, Chunk, Workers, Slots, vars, readVars
  <2>2. InOrder' /\ UpTo'
    BY <1>3, OrderStays DEF Inv, ReadInv, vars, readVars
  <2>3. FileTypeOK' /\ SavedOK' /\ TodoOK'
    BY <1>3 DEF Inv, FileTypeOK, SavedOK, Filled, TodoOK, PartsAreFile, Raised, vars, fileVars
  <2> QED BY <2>1, <2>2, <2>3 DEF Inv, ReadInv
<1> QED BY <1>1, <1>2, <1>3, OpenFileKeeps, OpenPartKeeps DEF Next

LEMMA InvReadBack == Inv => ReadBack
<1> SUFFICES ASSUME Inv, todo # <<>>, object.nth = Len(todo), reader = "eof"
    PROVE  /\ out # <<>> /\ out[Len(out)][1] = Len(todo) /\ IsLast(out[Len(out)])
           /\ Raised \/ PartsAreFile
  BY DEF Inv, ReadInv, ReadBack
<1>1. /\ opts.span \in Nat \ {0} /\ object.size \in Nat /\ written \in Nat /\ object.nth \in Nat
  BY DEF Inv, ReadInv, ReadTypeOK
<1>2. ~HasData(written) /\ object.size > 0 /\ object.nth > 0 /\ object.size = todo[object.nth]
  BY <1>1 DEF Inv, ReadInv, Stages
<1>3. written > 0 /\ written * opts.span >= object.size
  BY <1>1, <1>2 DEF HasData
<1>4. out # <<>> /\ out[Len(out)] = <<object.nth, written - 1>>
  BY <1>3 DEF Inv, ReadInv, UpTo
<1>5. IsLast(out[Len(out)])
  BY <1>1, <1>2, <1>3, <1>4 DEF IsLast
<1> QED BY <1>4, <1>5 DEF Inv, TodoOK

\* ReadBack: whatever the number of workers and spans, and whatever goes wrong, a restore
\* reads the chunks of a file in order, each of its parts to the end, and all of it if the
\* read ends without an error (S3.sourceReader, SplitMergeMiddleware.SourceReader).
THEOREM FilesAreReadBack == Spec => []ReadBack
<1>1. Spec => []Inv
  BY InitInv, StepInv, PTL DEF Spec
<1> QED BY <1>1, InvReadBack, PTL
=============================================================================

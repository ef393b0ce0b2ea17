------------------------------ MODULE Download ------------------------------
(***************************************************************************)
(* An object read from a cloud storage in chunks                           *)
(* (src/pbm/storage/download.go and the sourceReader of                    *)
(* src/pbm/storage/s3/download.go).  Workers fetch the chunks concurrently, *)
(* each into the spans of its own arena; one goroutine passes them on in   *)
(* order, and keeps those that came too early in a heap.  The arenas are   *)
(* used again for the next object; workers of the last one may still ask   *)
(* for what is behind its end, but hold no span, so only those of the     *)
(* present object are looked at.                                           *)
(***************************************************************************)
EXTENDS Integers, Sequences, FiniteSets

CONSTANTS Settings,   \* concurrency, limit of the memory, size of a span
          ArenaSpans, \* spans in an arena, and above LowCPU workers twice as many
          LowCPU,
          Faults,     \* what may go wrong while an object is read
          MaxFaults   \* and how much of it, each but once

ASSUME SettingsAssumption ==
  Settings \subseteq [cc : Nat \ {0}, buf : Nat, span : Nat \ {0}]
ASSUME SpansAssumption == ArenaSpans \in Nat \ {0} /\ LowCPU \in Nat /\ MaxFaults \in Nat

VARIABLES setting, \* what was asked for
          opts,    \* what it was adjusted to: workers, spans in an arena, size of a span
          object,  \* the object's size, and the how manieth it is
          next,    \* the next chunk for a worker
          worker,  \* what each worker does
          queue,   \* the heap: chunks whose turn has not come
          written, \* chunks passed on
          phase,   \* the goroutine that passes them on
          reader,  \* the other end of the pipe
          out,     \* what came out of it, of all objects
          busy,    \* the spans in use of each arena (FreeIndex)
          mem,     \* what they hold
          faults   \* what has gone wrong

readVars == <<setting, opts, object, next, worker, queue, written, phase, reader, out, busy, mem, faults>>

Workers == 1..opts.cc
Slots == 1..opts.spans

\* With a limit the span gets smaller if one does not fit, then there are
\* fewer workers, and each has the spans its share has room for.
DownloadOpts(cc, buf, span) ==
  LET spans == IF cc > LowCPU THEN 2 * ArenaSpans ELSE ArenaSpans
      size == IF buf < span THEN buf ELSE span
      workers == IF buf \div cc < size THEN buf \div size ELSE cc
  IN IF buf = 0 \/ span * spans * cc <= buf THEN [cc |-> cc, spans |-> spans, span |-> span]
     ELSE [cc |-> workers, spans |-> (buf \div workers) \div size, span |-> size]

\* Of an object whose size is a multiple of a span's, a chunk too many is asked for;
\* the storage answers that there is nothing.
LastTask == object.size \div opts.span
HasData(n) == n * opts.span < object.size
Size == Cardinality({n \in 0..LastTask : HasData(n)})

Idle == [st |-> "idle", chunk |-> 0, slot |-> 0]

Faulty(f) ==
  /\ f \in Faults \ faults /\ Cardinality(faults) < MaxFaults
  /\ faults' = faults \cup {f}

SetWorker(i, w) == worker' = [worker EXCEPT ![i] = w]

\* Arena.putSpan
PutSpan(i, slot) == busy' = [busy EXCEPT ![i] = @ \ {slot}]

----------------------------------------------------------------------------
(* The workers. *)

\* Run and worker: the chunks are scheduled in order, and taken in order.
Take(i) ==
  /\ reader = "open"
  /\ worker[i].st = "idle"
  /\ next <= LastTask
  /\ SetWorker(i, [Idle EXCEPT !.st = "task", !.chunk = next])
  /\ next' = next + 1
  /\ UNCHANGED <<setting, opts, object, queue, written, phase, reader, out, busy, mem, faults>>

Taken(i, slot) == [busy EXCEPT ![i] = @ \cup {slot}]

\* getChunk and Arena.GetSpan: the first free span, once there is one.
GetSpan(i) ==
  /\ worker[i].st = "task"
  /\ HasData(worker[i].chunk)
  /\ \E slot \in Slots \ busy[i] :
     /\ \A s \in Slots \ busy[i] : slot <= s
     /\ busy' = Taken(i, slot)
     /\ SetWorker(i, [worker[i] EXCEPT !.st = "copy", !.slot = slot])
  /\ UNCHANGED <<setting, opts, object, next, queue, written, phase, reader, out, mem, faults>>

\* The range is beyond the end.
NoRange(i) ==
  /\ worker[i].st = "task"
  /\ ~HasData(worker[i].chunk)
  /\ SetWorker(i, [worker[i] EXCEPT !.st = "send"])
  /\ UNCHANGED <<setting, opts, object, next, queue, written, phase, reader, out, busy, mem, faults>>

Copied(i) ==
  /\ worker[i].st = "copy"
  /\ mem' = [mem EXCEPT ![i][worker[i].slot] = <<object.nth, worker[i].chunk>>]
  /\ SetWorker(i, [worker[i] EXCEPT !.st = "send"])
  /\ UNCHANGED <<setting, opts, object, next, queue, written, phase, reader, out, busy, faults>>

\* tryChunk and retryChunk: a copy that breaks frees its span and starts anew; when
\* the retries are used up the error goes to the reader; but an error that
\* wraps EOF, of a request, too, is taken for the end of the object.
Break(i) ==
  LET w == worker[i] IN
  /\ \/ /\ w.st = "copy" /\ Faulty("copy")
        /\ PutSpan(i, w.slot)
        /\ SetWorker(i, [Idle EXCEPT !.st = "task", !.chunk = w.chunk])
     \/ /\ w.st = "task" /\ Faulty("fail")
        /\ SetWorker(i, [w EXCEPT !.st = "err"])
        /\ UNCHANGED busy
     \/ /\ w.st = "task" /\ Faulty("eof")
        /\ SetWorker(i, [w EXCEPT !.st = "send"])
        /\ UNCHANGED busy
  /\ UNCHANGED <<setting, opts, object, next, queue, written, phase, reader, out, mem>>

----------------------------------------------------------------------------
(* The goroutine that passes the chunks on (sourceReader). *)

Exit(how) ==
  /\ phase' = "over"
  /\ reader' = IF reader = "open" THEN how ELSE reader

\* WriteChunk: the span is free again, whether the write went well or not.
WriteChunk(c) ==
  IF c.slot = 0 THEN
    /\ phase' = "drain"
    /\ UNCHANGED <<written, reader, out, busy>>
  ELSE
    /\ PutSpan(c.arena, c.slot)
    /\ IF reader = "closed" THEN Exit("failed") /\ UNCHANGED <<written, out>>
       ELSE /\ written' = written + 1
            /\ out' = Append(out, mem[c.arena][c.slot])
            /\ phase' = "drain"
            /\ UNCHANGED reader

\* Faulty variant: chunks are passed on as they come.
InTurnAlways(n) == TRUE

InTurn(n) == n = written

\* A result: it is its turn, or it goes to the heap.
Receive(i) ==
  LET w == worker[i]
      c == [chunk |-> w.chunk, arena |-> i, slot |-> w.slot]
  IN
  /\ phase = "select" /\ w.st = "send"
  /\ SetWorker(i, Idle)
  /\ IF InTurn(w.chunk) THEN WriteChunk(c) /\ UNCHANGED queue
     ELSE /\ queue' = queue \cup {c}
          /\ UNCHANGED <<written, phase, reader, out, busy>>
  /\ UNCHANGED <<setting, opts, object, next, mem, faults>>

\* Faulty variant: the heap is not looked at.
FollowsNone == {}

\* The heap's first, if it is its turn.
Follows == {c \in queue : c.chunk = written}

\* After a chunk, those of the heap that follow it, and the end.
Drain ==
  /\ phase = "drain"
  /\ IF Follows # {} THEN
       \E c \in Follows : WriteChunk(c) /\ queue' = queue \ {c}
     ELSE /\ IF written >= Size THEN Exit("eof")
             ELSE phase' = "select" /\ UNCHANGED reader
          /\ UNCHANGED <<queue, written, out, busy>>
  /\ UNCHANGED <<setting, opts, object, next, worker, mem, faults>>

ReceiveErr(i) ==
  /\ phase = "select" /\ worker[i].st = "err"
  /\ SetWorker(i, Idle)
  /\ Exit("failed")
  /\ UNCHANGED <<setting, opts, object, next, queue, written, out, busy, mem, faults>>

\* Whoever reads has had enough.
CloseReader ==
  /\ reader = "open" /\ Faulty("close")
  /\ reader' = "closed"
  /\ UNCHANGED <<setting, opts, object, next, worker, queue, written, phase, out, busy, mem>>

\* An object is opened; one of no size cannot be (ErrEmpty of the storage's FileStat).
SourceReader(size) ==
  /\ reader \in {"none", "eof"}
  /\ object' = [size |-> size, nth |-> object.nth + 1]
  /\ reader' = IF size = 0 THEN "failed" ELSE "open"
  /\ next' = 0 /\ written' = 0 /\ queue' = {} /\ phase' = "select"
  /\ worker' = [i \in Workers |-> Idle]
  /\ UNCHANGED <<setting, opts, out, busy, mem, faults>>

ReadInit ==
  /\ setting \in Settings
  /\ opts = DownloadOpts(setting.cc, setting.buf, setting.span)
  /\ object = [size |-> 0, nth |-> 0]
  /\ next = 0 /\ written = 0 /\ queue = {} /\ phase = "select"
  /\ worker = [i \in Workers |-> Idle]
  /\ reader = "none"
  /\ out = <<>>
  /\ busy = [i \in Workers |-> {}]
  /\ mem = [i \in Workers |-> [s \in Slots |-> <<0, 0>>]]
  /\ faults = {}

WorkerStep(i) == Take(i) \/ GetSpan(i) \/ NoRange(i) \/ Copied(i) \/ Receive(i) \/ ReceiveErr(i)

Reading == Drain \/ CloseReader \/ \E i \in Workers : WorkerStep(i) \/ Break(i)

\* The goroutines run; nobody else has to do anything.
ReadFairness(maxWorkers) ==
  /\ WF_readVars(Drain)
  /\ \A i \in 1..maxWorkers : WF_readVars(i \in Workers /\ WorkerStep(i))

----------------------------------------------------------------------------
(* Properties. *)

=============================================================================

----------------------------- MODULE TxnReplay -----------------------------
(***************************************************************************)
(* What one replica set keeps of the transactions while it replays its     *)
(* oplog, and what it does with those it saw no end of                     *)
(* (src/pbm/oplog/restore.go).  Pure operators: the state is a record      *)
(*   buf      the entries buffered for every transaction still open,       *)
(*   commits  the last Cap commits of distributed transactions,            *)
(*   applied  the transactions whose operations were applied,              *)
(*   partial  those reported as committed elsewhere and incomplete here.   *)
(* An oplog entry is a record [txn, kind]: "part" and "prep" are the       *)
(* prepared statements of a distributed transaction ("part" has more to    *)
(* come), "apply" is a transaction of one replica set, which commits with  *)
(* its own operations, "commit" and "abort" end a prepared one.            *)
(***************************************************************************)
EXTENDS Naturals, Sequences, Functions

CONSTANTS Txns, \* transactions
          Cap   \* commits a replica set remembers (saveLastDistTxns)

ASSUME CapAssumption == Cap \in Nat \ {0}

NotReplayed == [buf |-> [t \in Txns |-> <<>>], commits |-> <<>>,
                applied |-> {}, partial |-> {}]

IsTxnOps(op) == op.kind \in {"part", "prep", "apply"}

\* The queue forgets its oldest commit when it is full.
Push(queue, t) == Append(IF Len(queue) = Cap THEN Tail(queue) ELSE queue, t)

Buffered(s, op) ==
  IF IsTxnOps(op) THEN [s EXCEPT !.buf[op.txn] = Append(@, op.kind)] ELSE s

\* Applying a transaction whose entries are not there does nothing.
ApplyTxn(s, t) ==
  [s EXCEPT !.applied = IF s.buf[t] = <<>> THEN @ ELSE @ \cup {t},
            !.buf[t] = <<>>]

\* One entry.  The first entry of a chunk repeats the last one of the chunk
\* before, so a commit that is already the newest of the queue is skipped.
HandleTxnOp(s, op) ==
  LET b == Buffered(s, op)
      repeated == b.commits # <<>> /\ b.commits[Len(b.commits)] = op.txn
  IN  CASE op.kind = "abort" -> [b EXCEPT !.buf[op.txn] = <<>>]
        [] op.kind = "commit" /\ ~repeated ->
             ApplyTxn([b EXCEPT !.commits = Push(@, op.txn)], op.txn)
        [] op.kind = "apply" /\ ~repeated -> ApplyTxn(b, op.txn)
        [] OTHER -> b

\* The replay of a replica set's chunks, one after the other.
Replay(ops) ==
  LET after[n \in 0..Len(ops)] ==
        IF n = 0 THEN NotReplayed ELSE HandleTxnOp(after[n - 1], ops[n])
  IN  after[Len(ops)]

\* TxnLeftovers: transactions the replay saw begin and not end.
Leftovers(s) == {t \in Txns : s.buf[t] # <<>>}

\* The entry read last was not a partial one: every prepared statement is there.
AllOps(s, t) == s.buf[t] # <<>> /\ s.buf[t][Len(s.buf[t])] # "part"

\* Leftovers another replica set committed, in full and in part.
Committable(s, commits) == {t \in Leftovers(s) \cap commits : AllOps(s, t)}
Partial(s, commits) == {t \in Leftovers(s) \cap commits : ~ AllOps(s, t)}

HandleUncommittedTxn(s, commits) ==
  [s EXCEPT !.applied = @ \cup Committable(s, commits),
            !.buf = [t \in Txns |-> IF t \in Committable(s, commits) THEN <<>> ELSE @[t]],
            !.partial = Partial(s, commits)]
=============================================================================

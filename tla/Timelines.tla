------------------------------ MODULE Timelines ------------------------------
(***************************************************************************)
(* The time ranges that oplog chunks cover: gettimelines, MergeTimelines   *)
(* and HasSingleTimelineToCover (pbm/oplog/chunk.go).  A chunk or a        *)
(* timeline is a record of a start s and an end e, in seconds.             *)
(***************************************************************************)
EXTENDS Integers, SequencesExt

ByStart(x, y) == x.s < y.s \/ (x.s = y.s /\ x.e < y.e)

Sorted(S) ==
  [i \in 1..Cardinality(S) |-> CHOOSE x \in S : Cardinality({y \in S : ByStart(y, x)}) = i - 1]

\* Faulty variant: a chunk that starts where the one before ends begins a new
\* timeline.
GettimelinesStrict(S) ==
  LET q == Sorted(S)
      first == {i \in DOMAIN q : i = 1 \/ q[i - 1].e <= q[i].s}
      last(i) == Min({j \in DOMAIN q : j >= i /\ (j = Len(q) \/ j + 1 \in first)})
  IN IF S = {} THEN {[s |-> 0, e |-> 0]}
     ELSE {[s |-> q[i].s, e |-> q[last(i)].e] : i \in first}

\* gettimelines: a timeline goes on while the next chunk starts no later than
\* the one before it ends. Without chunks there is one timeline, of nothing.
Gettimelines(S) ==
  LET q == Sorted(S)
      first == {i \in DOMAIN q : i = 1 \/ q[i - 1].e < q[i].s}
      last(i) == Min({j \in DOMAIN q : j >= i /\ (j = Len(q) \/ j + 1 \in first)})
  IN IF S = {} THEN {[s |-> 0, e |-> 0]}
     ELSE {[s |-> q[i].s, e |-> q[last(i)].e] : i \in first}

-----------------------------------------------------------------------------
(* MergeTimelines of a sequence of sets of timelines.                        *)

Starts(T) == {t.s : t \in T}
Ends(T) == {t.e : t \in T}

\* The earliest end. A zero is taken for "none yet".
EarliestEnd(tlns) ==
  LET end[i \in 0..Len(tlns)] ==
        IF i = 0 THEN 0
        ELSE IF end[i - 1] = 0 \/ Max(Ends(tlns[i])) < end[i - 1] THEN Max(Ends(tlns[i])) ELSE end[i - 1]
  IN end[Len(tlns)]

\* What lies between a timeline and the next one.
Gaps(T) ==
  {[s |-> t.e, e |-> Min({x \in Starts(T) : x > t.s})] : t \in {u \in T : u.s < Max(Starts(T))}}

\* The gaps within the range, overlapping ones made one.
MergedGaps(G, start, end) ==
  LET q == Sorted({g \in G : g.e > start /\ g.s < end})
      add(acc, g) ==
        IF acc = <<>> \/ g.s > acc[Len(acc)].e THEN Append(acc, g)
        ELSE IF g.e > acc[Len(acc)].e THEN [acc EXCEPT ![Len(acc)].e = g.e] ELSE acc
      merged[i \in 0..Len(q)] == IF i = 0 THEN <<>> ELSE add(merged[i - 1], q[i])
  IN merged[Len(q)]

\* What the gaps leave of the range.
Outside(gs, start, end) ==
  LET from(i) == IF i = 1 THEN start ELSE gs[i - 1].e
      till(i) == IF i > Len(gs) THEN end ELSE gs[i].s
  IN {[s |-> from(i), e |-> till(i)] : i \in {j \in 1..(Len(gs) + 1) : from(j) < till(j)}}

WithinRange(G, start, end) ==
  IF G = {} THEN {[s |-> start, e |-> end]} ELSE Outside(MergedGaps(G, start, end), start, end)

MergeTimelines(tlns) ==
  CASE Len(tlns) = 0 -> {}
    [] Len(tlns) = 1 -> tlns[1]
    [] OTHER -> WithinRange(UNION {Gaps(tlns[i]) : i \in DOMAIN tlns},
                            Max({Min(Starts(tlns[i])) : i \in DOMAIN tlns}), EarliestEnd(tlns))

-----------------------------------------------------------------------------
\* HasSingleTimelineToCover, of the chunks of each replica set.
HasSingleTimelineToCover(chunks, from, till) ==
  LET rss == {r \in DOMAIN chunks : chunks[r] # {}}
      tlns == [i \in 1..Cardinality(rss) |-> Gettimelines(chunks[SetToSeq(rss)[i]])]
  IN \E t \in MergeTimelines(tlns) : t.s <= from /\ till <= t.e

\* chunks (pbm/restore/restore.go): a restore accepts the chunks of a replica set
\* for a range if they leave no gap. It looks at the end of the one before only.
Accepts(C, from, to) ==
  LET q == Sorted({c \in C : c.e >= from /\ c.s <= to})
  IN /\ q # <<>> /\ q[Len(q)].e >= to
     /\ \A i \in DOMAIN q : q[i].s <= (IF i = 1 THEN from ELSE q[i - 1].e)
=============================================================================
